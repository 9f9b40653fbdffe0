CONSTANTS
    Users <- MCUsers
    Kind <- MCKind
    Others <- MCOthers
    MaxCloseFail = 1
    MaxForgotten = 1
SPECIFICATION Spec
INVARIANTS
    NeverStuck
CHECK_DEADLOCK FALSE
