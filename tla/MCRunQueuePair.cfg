SPECIFICATION Spec
CONSTANTS
    None = None
    Workers = {w1, w2}
    Clients = {c1}
    Keys = {}
    Bodies = {b1}
    Payloads = {p1}
    MaxRuns = 1
    MaxCrashes = 1
    MaxRecoveries = 2
    OutlastsThreshold = TRUE
SYMMETRY Symmetry
INVARIANTS
    TypeOK
    OwnershipAgrees
    OneClaimPerQueueing
PROPERTIES
    ImplementsLifecycleShared
