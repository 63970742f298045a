CONSTANTS
    a = a
    nl = nl
    none = none
    Char <- MCChar
    NewLine <- nl
    Nothing <- none
    MaxUsers = 1
    MaxChars = 5
SPECIFICATION Spec
INVARIANTS
    TypeOK
    CacheMatches
    OffsetsFound
    SamePlace
PROPERTIES
    Implements
CHECK_DEADLOCK FALSE
