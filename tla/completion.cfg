SPECIFICATION FairSpec
CONSTANTS
    j1 = j1
    j2 = j2
    w1 = w1
    w2 = w2
    Jobs <- OneJob
    Workers <- TwoWorkers
    MaxAttempts = 2
    MaxTries = 1
    MaxDelivery = 2
    Concurrency = 3
    MaxLen = 100
    IdleMeansOrphan = TRUE
    GroupAtStart = TRUE
    MaxEntries = 2
    MaxFaults = 0
    MaxCrashes = 0
    MaxStops = 1
INVARIANTS
    NoOrphanWithoutFailure
PROPERTIES
    EventuallyTerminal
    StopIsHonoured
