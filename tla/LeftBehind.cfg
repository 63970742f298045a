CONSTANTS
    s1 = s1
    s2 = s2
    s3 = s3
    v1 = v1
    Server <- TwoServers
    Viewer = {}
    Mortal = {}
SPECIFICATION Spec
INVARIANTS
    SemRemoved
CHECK_DEADLOCK FALSE
