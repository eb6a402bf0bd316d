SPECIFICATION ServicesSpec
CONSTANTS
    None = None
    Plans = {"p1", "p2", "p3", "p4"}
    Service <- ServiceOf
    Slack <- SlackOf
    Cost <- CostOf
    Solvers = 2
    Tolerance = 1
    GapPart = 4
    Threads = {t1, t2}
    Modulus = 3
    StaleAfter = 1
    MaxTime = 2
    MaxServed = 4
    MaxRestarts = 1
    Ids = {i1, i2}
    Written = {"notices", "events"}
    MaxVersion = 1
    MaxWrites = 4
INVARIANTS
    ProvenIsLexicographic
    StagesDescribeThePlan
    HealthyIsLeftAlone
    RestoreReplacesTheData
    QuietBackupRestores
PROPERTIES
    FrozenIsNoticed
CHECK_DEADLOCK FALSE
