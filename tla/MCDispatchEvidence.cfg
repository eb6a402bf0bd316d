SPECIFICATION CrowdSpec
CONSTANTS
    Requests = {q1,q2,q3,q4}
    Crowd = {q3,q4}
    Ids = {i1}
    Setpoints <- OneBeyond
    SiteCapacity = 3
    RegisterMax = 2
    SignedMax = 1
    PlcCapacity = 2
    Tries = 2
    CacheSize = 2
    LateFrames = TRUE
    MaxRestarts = 1
SYMMETRY Symmetry
INVARIANTS
    TypeOK
    AcceptedWasApplied
    RejectedSentNothing
    AdmittedOncePerCache
CHECK_DEADLOCK FALSE
