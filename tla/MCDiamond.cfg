CONSTANTS
    a = a
    b = b
    Char <- MCChar
    MaxUsers = 2
    MaxLen = 3
SPECIFICATION Spec
INVARIANTS
    TypeOK
    Confluence
    TransformedSilent
CHECK_DEADLOCK FALSE
