CONSTANTS
    Users <- MCUsers
    Kind <- MCKind
    Others <- MCOthers
    MaxCloseFail = 1
    MaxForgotten = 1
SPECIFICATION FairSpec
INVARIANTS
    TypeOK
    NoUseAfterClose
    NoPanic
    MarkTakenBack
    IInv
PROPERTIES
    OperationsReturn
    RequestsLeave
CHECK_DEADLOCK FALSE
