CONSTANTS
    S1 = S1
    c1 = c1
    c2 = c2
    c3 = c3
    MinPrice = 1
    MaxPrice = 2
    IntMax = 100
    Symbols = {"AAPL"}
    Clients = {S1}
    ClOrdIds = {c1, c2, c3}
    InitSymbols = {"AAPL"}
    MsgSymbols = {"AAPL"}
    RestingRows <- NoRows
    Qtys = {1, 2}
    ReplaceQtys = {1, 3}
    QueueSize = 2
    MaxOrders = 2
    MaxRequests = 2
    MaxOrderQty = 0
    PriceCollarPct = 0
    NewOrderMsgs <- MCNewOrders
    HasDb = FALSE
SPECIFICATION FeedSpec
INVARIANTS UiShowsResting UiLevelsAreSums
SYMMETRY ClOrdSymmetry
