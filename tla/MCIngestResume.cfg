SPECIFICATION Spec
CONSTANTS
    Msgs = {g1}
    Malformed = {}
    FetchSize = 2
    MaxAckPending = 2
    Faults = {"crash"}
    MaxRows = 2
PROPERTY
    RestartResumes
