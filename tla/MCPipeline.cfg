SPECIFICATION PipelineLiveSpec
CONSTANTS
    Msgs = {g1, b1}
    Malformed = {b1}
    FetchSize = 2
    MaxAckPending = 2
    Faults = {"insert"}
    MaxRows = 2
    Self = self
    peer = peer
    t1 = t1
    t2 = t2
    TestIDs = {t1, t2}
    MeshID <- MCMeshID
    Configs <- MCConfigs
    Samples = {g1}
    NoSample = NoSample
    AgentFaults = {"connect", "publish", "kill", "sigterm"}
INVARIANTS
    AgentTypeOK
    NoSampleUnaccounted
    
PROPERTIES
    EveryTestFires
    MeasuredIsStored
