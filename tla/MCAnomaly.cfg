SPECIFICATION Spec
CONSTANTS
    Period = 2
    MinSamples = 5
    Alpha = 1
    Beta = 1
    Gamma = 1
    Den = 2
    Watch = 1
    Anomaly = 2
    Critical = 3
    Noise = 3
    Windows <- MCWindows
    Tests = {1}
    Levels <- MCLevels
    Window = 8
    MaxTime = 8
    MaxGaps = 1
    AnomalyFaults = {"series", "get", "upsert", "crash"}
INVARIANTS
    TypeOK
    SuppressedStaysBelow
    RegularIsRounding
    DriftShowsHalfAPeriod
    TransitionsAnnounced
\* Time is bounded by MaxTime, and a catalog without tests leaves nothing to evaluate.
CHECK_DEADLOCK FALSE
