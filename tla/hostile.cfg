SPECIFICATION Spec
CONSTANTS
    j1 = j1
    j2 = j2
    w1 = w1
    w2 = w2
    Jobs <- TwoJobs
    Workers <- OneWorker
    MaxAttempts = 2
    MaxTries = 2
    MaxDelivery = 1
    Concurrency = 2
    MaxLen = 1
    IdleMeansOrphan = FALSE
    GroupAtStart = TRUE
    MaxEntries = 3
    MaxFaults = 1
    MaxCrashes = 1
    MaxStops = 0
SYMMETRY Symmetry
INVARIANTS
    SafetyInv
    InFlightBounded
    PointerHasRow
    FailedIsDeadLettered
PROPERTIES
    NoDoubleDispatch
