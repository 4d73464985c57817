SPECIFICATION Spec
CONSTANTS
    j1 = j1
    j2 = j2
    w1 = w1
    w2 = w2
    Jobs <- OneJob
    Workers <- TwoWorkers
    MaxAttempts = 2
    MaxTries = 1
    MaxDelivery = 2
    Concurrency = 4
    MaxLen = 3
    IdleMeansOrphan = TRUE
    GroupAtStart = TRUE
    MaxEntries = 3
    MaxFaults = 0
    MaxCrashes = 1
    MaxStops = 0
SYMMETRY Symmetry
INVARIANTS
    RecoveryInv
    NoJobLost
