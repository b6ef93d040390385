CONSTANTS
    N = 4
    MaxItems = 9
SPECIFICATION FairSpec
INVARIANTS TypeOK NoSlotRace InOrder ExitsDrained
PROPERTIES ImplementsFifo AllReceived StopReturns
