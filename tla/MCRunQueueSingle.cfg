SPECIFICATION Spec
CONSTANTS
    None = None
    Workers = {w1}
    Clients = {c1, c2}
    Keys = {k1}
    Bodies = {b1, b2}
    Payloads = {p1, p2}
    MaxRuns = 2
    MaxCrashes = 1
    MaxRecoveries = 1
    OutlastsThreshold = FALSE
SYMMETRY Symmetry
INVARIANTS
    OutcomeIsCoherent
    AnswersAgree
PROPERTIES
    ResultIsFinal
    ImplementsLifecycleAlone
