SPECIFICATION Spec
CONSTANTS
    Requests = {q1,q2}
    Crowd = {}
    Ids = {i1}
    Setpoints <- WideSite
    SiteCapacity = 3
    RegisterMax = 2
    SignedMax = 1
    PlcCapacity = 2
    Tries = 1
    CacheSize = 2
    LateFrames = FALSE
    MaxRestarts = 0
SYMMETRY Symmetry
INVARIANTS
    SafeStateMeansZero
CHECK_DEADLOCK FALSE
