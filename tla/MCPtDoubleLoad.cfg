CONSTANTS
    Nodes = {n1, n2, n3}
    NoNode = NoNode
    NoEvent = NoEvent
    EvIds = {1, 2, 3}
    Budget <- BudgetTakeover
SPECIFICATION Spec
SYMMETRY Symmetry
CHECK_DEADLOCK FALSE
INVARIANTS
    AtMostOneLoaded
