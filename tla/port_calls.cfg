SPECIFICATION ReadinessSpec
CONSTANTS
    c1 = c1
    c2 = c2
    c3 = c3
    Calls <- ThreeCalls
    Assignments <- Processes
    Threads = 1
    MaxTries = 2
INVARIANTS
    PortInv
    BarredIsFinal
    ReportIsHonest
PROPERTIES
    CallsReturn
    ImplementsPortContract
\* A process that is closed, and one that has nothing to do, stops.
CHECK_DEADLOCK FALSE
