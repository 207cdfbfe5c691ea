SPECIFICATION LiveSpec
CONSTANTS
    Unit = 100
    MaxRate = 100
    SLOs = {1, 2}
    NoSLO = 0
    Definitions <- LiveDefinitions
    Answers <- LiveAnswers
    Cooldown = 1
    Faults = {"crash", "list", "read", "get", "notify", "write"}
    Healthy = {2}
    MaxClock = 0
PROPERTIES
    HealthyIsEvaluated
    FirstBurnIsAnnounced
