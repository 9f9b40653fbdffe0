CONSTANTS
    Nodes = {n1, n2, n3, n4}
    NoNode = NoNode
    NoEvent = NoEvent
    EvIds = {1, 2, 3, 4}
    Budget <- BudgetTwoCrashes
SPECIFICATION Spec
SYMMETRY Symmetry
CHECK_DEADLOCK FALSE
INVARIANTS
    AtMostOneLoaded
