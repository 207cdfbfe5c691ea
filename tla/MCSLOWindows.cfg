SPECIFICATION Spec
CONSTANTS
    Unit = 100
    MaxRate = 100
    Definitions <- MCDefinitions
    MaxRows = 5
INVARIANTS
    TypeOK
    BurnNeedsFailure
    RecentSuccessClears
PROPERTY
    OutcomeMovesStatus
