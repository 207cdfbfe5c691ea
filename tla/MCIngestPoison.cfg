SPECIFICATION LiveSpec
CONSTANTS
    Msgs = {g1, b1, b2}
    Malformed = {b1, b2}
    FetchSize = 2
    MaxAckPending = 4
    Faults = {}
    MaxRows = 2
PROPERTY
    WellFormedIngested
