CONSTANTS
    a = a
    nl = nl
    none = none
    Char <- MCChar
    NewLine <- nl
    Nothing <- none
    MaxUsers = 1
    MaxChars = 3
SPECIFICATION Spec
PROPERTIES
    JoinsAtZero
CHECK_DEADLOCK FALSE
