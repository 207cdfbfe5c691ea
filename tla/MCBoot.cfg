SPECIFICATION LiveSpec
CONSTANTS
    p1 = p1
    p2 = p2
    v1 = v1
    v2 = v2
    NoStream = NoStream
    Procs = {p1, p2}
    Versions = {v1, v2}
    Envs <- MCEnvs
    PgFiles = 2
    ChFiles = 2
    BootFaults = {"call", "crash", "sigterm"}
INVARIANTS
    TypeOK
    NoGapInSchema
    ReadyBeforeServing
    TLSPosture
PROPERTY
    ServesInTheEnd
\* Once the environment has settled and every process serves, nothing is left to do.
CHECK_DEADLOCK FALSE
