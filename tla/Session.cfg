CONSTANTS
    s1 = s1
    s2 = s2
    s3 = s3
    v1 = v1
    Server <- MCServer
    Viewer <- MCViewer
    Mortal <- MCMortal
SPECIFICATION Spec
SYMMETRY Alike
INVARIANTS
    TypeOK
    OneIDPerLog
    SessionKept
    SemRemovedInTurn
    LoginSucceeds
CHECK_DEADLOCK FALSE
