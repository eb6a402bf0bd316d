SPECIFICATION Spec
CONSTANTS
    Requests = {q1,q2}
    Crowd = {}
    Ids = {i1}
    Setpoints <- SmallSite
    SiteCapacity = 1
    RegisterMax = 3
    SignedMax = 1
    PlcCapacity = 1
    Tries = 1
    CacheSize = 2
    LateFrames = FALSE
    MaxRestarts = 0
SYMMETRY Symmetry
INVARIANTS
    AcceptedMatchesMeasurement
CHECK_DEADLOCK FALSE
