CONSTANTS
    S1 = S1
    c1 = c1
    c2 = c2
    c3 = c3
    MinPrice = 1
    MaxPrice = 2
    IntMax = 100
    Symbols = {"AAPL"}
    Clients = {S1}
    ClOrdIds = {c1, c2, c3}
    InitSymbols = {}
    MsgSymbols = {"AAPL"}
    RestingRows <- NoRows
    Qtys = {1, 2, 3}
    ReplaceQtys = {3}
    QueueSize = 2
    MaxOrders = 2
    MaxRequests = 1
    MaxOrderQty = 0
    PriceCollarPct = 0
    NewOrderMsgs <- MCTogether
    HasDb = TRUE
    MaxCrashes = 1
SPECIFICATION XSpec
INVARIANTS TableIsBook RowsRecoverable StopsDurable NewIdsFresh
PROPERTY RowsEndInHistory
SYMMETRY ClOrdSymmetry
