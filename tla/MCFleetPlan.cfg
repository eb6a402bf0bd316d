SPECIFICATION Spec
CONSTANTS
    None = None
    Inputs <- SmallInputs
    Notices <- SmallNotices
    IncumbentSteps = 4
INVARIANTS
    TypeOK
    TimetableIsDriven
    PassedMeansEveryTripDriven
    UndisturbedReplanIsServable
    SplicedDayIsPhysical
    ComparisonSeesEveryChange
    EventsTellTheCoverage
