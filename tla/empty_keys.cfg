SPECIFICATION StartupSpec
CONSTANTS
    api = api
    w1 = w1
    w2 = w2
    Processes <- ThreeProcesses
    Environment <- ComposeDefaults
    MaxTries = 2
    MaxFaults = 0
    MaxCrashes = 0
    MaxStops = 0
PROPERTIES
    UpUnlessStopped
CHECK_DEADLOCK FALSE
