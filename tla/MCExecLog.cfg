CONSTANTS
    Orders = {1, 2}
    Qty = 2
    Left <- MCLeft
    MaxFaults = 0
    MaxConnects = 1
SPECIFICATION Spec
INVARIANTS ExecLogComplete
