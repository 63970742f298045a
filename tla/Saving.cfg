CONSTANTS
    a = a
    b = b
    Names <- TwoNames
    MaxEdits = 2
    MaxSaves <- OneEachOrTwo
SYMMETRY SameNames
SPECIFICATION Spec
INVARIANTS
    UnmodifiedSaved
    ExitKeeps
    OldKept
CHECK_DEADLOCK FALSE
