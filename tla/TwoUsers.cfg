CONSTANTS
    a = a
    b = b
    Char <- MCChar
    InitialText <- EmptyText
    MaxUsers = 2
    MaxEdits <- TwoEach
    Leavers = {}
SPECIFICATION Spec
INVARIANTS
    TypeOK
    Agreement
    ClientSilent
    LogSilent
    ContextMatches
    IDsDiffer
CHECK_DEADLOCK FALSE
