SPECIFICATION Spec
CONSTANTS
    None = None
    MaxTakeovers = 1
    MaxRequests = 4
    Runs = {r1, r2}
    Payloads = {p1, p2, p3}
    Passed = {p1, p2}
    Clients = {c1, c2}
    Keys = {k1}
    Scenarios = {s1, s2}
SYMMETRY Symmetry
INVARIANTS
    TypeOK
    SentWasApproved
    DecisionStaysCurrent
    ReplanFollowsApproval
    NoticesAgree
PROPERTIES
    DecisionIsFinal
