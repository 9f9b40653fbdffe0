CONSTANTS
    Users <- MCUsers
    Kind <- MCKind
    Others <- MCOthers
    MaxCloseFail = 1
    MaxForgotten = 1
SPECIFICATION Spec
INVARIANTS
    NoBareUseAfterClose
CHECK_DEADLOCK FALSE
