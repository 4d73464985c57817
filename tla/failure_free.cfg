SPECIFICATION Spec
CONSTANTS
    j1 = j1
    j2 = j2
    w1 = w1
    w2 = w2
    Jobs <- TwoJobs
    Workers <- TwoWorkers
    MaxAttempts = 2
    MaxTries = 1
    MaxDelivery = 2
    Concurrency = 5
    MaxLen = 100
    IdleMeansOrphan = TRUE
    GroupAtStart = TRUE
    MaxEntries = 4
    MaxFaults = 0
    MaxCrashes = 0
    MaxStops = 0
SYMMETRY Symmetry
INVARIANTS
    TypeOK
    OneExecutorPerJob
    StartsOnlyPending
    AttemptsHonest
    RowCoherent
    HandOverInv
PROPERTIES
    ImplementsContract
