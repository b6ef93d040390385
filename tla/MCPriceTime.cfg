CONSTANTS
    MinPrice = 1
    MaxPrice = 3
    IntMax = 100
    Symbols = {"AAPL", "MSFT"}
    Clients = {"S1"}
    ClOrdIds = {"c1"}
    InitSymbols = {"AAPL"}
    MsgSymbols = {"AAPL"}
    RestingRows <- MCRows
    Qtys = {0, 1, 3}
    ReplaceQtys = {0, 1, 3}
    QueueSize = 2
    MaxOrders = 5
    MaxRequests = 1
SPECIFICATION Spec
INVARIANTS TypeOK IndexExact FokAllOrNothing FokKilledOnlyIfShort OnePlace
PROPERTIES NoNewCrossing NoResurrection ImplementsPriceTime
