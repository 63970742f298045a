CONSTANTS
    Starts <- SomeStarts
    CONTENT_LINES = 5
    Columns <- FirstColumn
SPECIFICATION FairSpec
INVARIANTS
    TypeOK
    CursorKept
    ScreenFresh
    DrawsText
CHECK_DEADLOCK FALSE
PROPERTIES
    CaughtUp
