SPECIFICATION FairSpec
CONSTANTS
    j1 = j1
    j2 = j2
    w1 = w1
    w2 = w2
    Jobs <- OneJob
    Workers <- OneWorker
    MaxAttempts = 2
    MaxTries = 1
    MaxDelivery = 2
    Concurrency = 1
    MaxLen = 100
    IdleMeansOrphan = TRUE
    GroupAtStart = TRUE
    MaxEntries = 2
    MaxFaults = 0
    MaxCrashes = 0
    MaxStops = 1
PROPERTIES
    StopIsHonoured
CHECK_DEADLOCK FALSE
