CONSTANTS
    Options <- SomeOptions
    MaxEdits <- FewEdits
    MaxOthers <- FewOthers
    Room = 1
SPECIFICATION FairSpec
INVARIANTS
    TypeOK
    SameOrder
    NothingLost
    KnownDeadlocks
PROPERTIES
    ComesToRest
    Delivered
CHECK_DEADLOCK FALSE
