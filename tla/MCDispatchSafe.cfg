SPECIFICATION FairSpec
CONSTANTS
    Requests = {q1,q2}
    Crowd = {}
    Ids = {}
    Setpoints <- SmallSite
    SiteCapacity = 1
    RegisterMax = 3
    SignedMax = 1
    PlcCapacity = 1
    Tries = 1
    CacheSize = 2
    LateFrames = TRUE
    MaxRestarts = 1
INVARIANTS
    SafeStateMeansZero
    PowerIsAsked
PROPERTIES
    RequestsAreRecorded
    ExchangesEnd
CHECK_DEADLOCK FALSE
