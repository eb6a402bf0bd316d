SPECIFICATION FairSpec
CONSTANTS
    None = None
    Workers = {w1}
    Clients = {c1}
    Keys = {}
    Bodies = {b1}
    Payloads = {p1}
    MaxRuns = 2
    MaxCrashes = 1
    MaxRecoveries = 2
    OutlastsThreshold = FALSE
PROPERTIES RunsSettle
