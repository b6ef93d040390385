CONSTANTS
    MinPrice = 1
    MaxPrice = 2
    IntMax = 100
    Symbols = {"AAPL"}
    Clients = {S1}
    S1 = S1
    S2 = S2
    ClOrdIds = {c1, c2, c3}
    c1 = c1
    c2 = c2
    c3 = c3
    InitSymbols = {"AAPL"}
    MsgSymbols = {"AAPL"}
    RestingRows <- NoRows
    Qtys = {0, 1, 2, 3, 4}
    ReplaceQtys = {1, 4}
    QueueSize = 2
    MaxOrders = 2
    MaxRequests = 1
    MaxOrderQty = 0
    PriceCollarPct = 0
    NewOrderMsgs <- MCNewOrders
    HasDb = FALSE
SPECIFICATION GwFairSpec
INVARIANT StopsDrained
PROPERTIES DrivesEngine LimitOrderSettles OrdersDecided StopReturns
