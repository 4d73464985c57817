SPECIFICATION FairSpec
CONSTANTS
    j1 = j1
    j2 = j2
    w1 = w1
    w2 = w2
    Jobs <- OneJob
    Workers <- TwoWorkers
    MaxAttempts = 1
    MaxTries = 1
    MaxDelivery = 2
    Concurrency = 2
    MaxLen = 1
    IdleMeansOrphan = TRUE
    GroupAtStart = TRUE
    MaxEntries = 1
    MaxFaults = 2
    MaxCrashes = 1
    MaxStops = 0
PROPERTIES
    EventuallySettled
