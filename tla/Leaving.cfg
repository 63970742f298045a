CONSTANTS
    a = a
    b = b
    Char <- JustA
    InitialText <- EmptyText
    MaxUsers = 2
    MaxEdits <- TwoAndOne
    Leavers = {1, 2}
SPECIFICATION FairSpec
INVARIANTS
    Agreement
    LogSilent
PROPERTIES
    Implements
    EditsCommitted
    EventuallyAgree
CHECK_DEADLOCK FALSE
