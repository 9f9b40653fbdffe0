CONSTANTS
    Nodes = {n1, n2}
    NoNode = NoNode
    NoEvent = NoEvent
    EvIds = {1, 2, 3}
    Budget <- BudgetQuickRestart
SPECIFICATION Spec
SYMMETRY Symmetry
CHECK_DEADLOCK FALSE
INVARIANTS
    OnlineIsLoaded
