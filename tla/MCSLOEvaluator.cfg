SPECIFICATION Spec
CONSTANTS
    Unit = 100
    MaxRate = 100
    SLOs = {1}
    NoSLO = 0
    Definitions <- AllDefinitions
    Answers <- AllAnswers
    Cooldown = 2
    Faults = {"crash", "list", "read", "get", "notify", "write"}
    Healthy = {}
    MaxClock = 4
INVARIANTS
    TypeOK
    NoOrphanState
    AlertedMeansDelivered
    NoEarlyRepeat
    AtMostOneLateAlert
