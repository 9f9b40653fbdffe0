CONSTANTS
    Nodes = {n1, n2, n3}
    NoNode = NoNode
    NoEvent = NoEvent
    EvIds = {1, 2, 3}
    Budget <- BudgetFailover
SPECIFICATION FairSpec
CHECK_DEADLOCK FALSE
INVARIANTS
    TypeOK
    AtMostOneLoaded
    OnlineIsLoaded
    BackgroundRestored
PROPERTIES
    LoadedByOwner
    EventuallyServed
