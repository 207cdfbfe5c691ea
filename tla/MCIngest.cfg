SPECIFICATION LiveSpec
CONSTANTS
    Msgs = {g1, b1}
    Malformed = {b1}
    FetchSize = 2
    MaxAckPending = 2
    Faults = {"crash", "subscribe", "fetch", "insert", "reply", "slow"}
    MaxRows = 2
INVARIANTS
    TypeOK
    AckedIsStored
    OneRowUnlessDisturbed
PROPERTIES
    WellFormedIngested
    ImplementsResultLog
