SPECIFICATION StartupSpec
CONSTANTS
    api = api
    w1 = w1
    w2 = w2
    Processes <- ThreeProcesses
    Environment <- WellFormed
    MaxTries = 2
    MaxFaults = 2
    MaxCrashes = 1
    MaxStops = 1
INVARIANTS
    StartupInv
    RunningHasBucket
    ZeroCloud
    ClosedReleasesAll
PROPERTIES
    UpUnlessStopped
    StopEndsProcess
\* Processes that run have nothing to do here.
CHECK_DEADLOCK FALSE
