CONSTANTS
    Orders = {1, 2}
    Qty = 2
    Left <- MCLeft
    MaxFaults = 1
    MaxConnects = 2
SPECIFICATION Spec
INVARIANTS BlotterTrue PageFollowsServer
