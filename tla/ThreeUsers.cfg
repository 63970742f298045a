CONSTANTS
    a = a
    b = b
    Char <- MCChar
    InitialText <- OneChar
    MaxUsers = 3
    MaxEdits <- OneEach
    Leavers = {}
SPECIFICATION Spec
INVARIANTS
    Agreement
    ClientSilent
CHECK_DEADLOCK FALSE
