SPECIFICATION FairSpec
CONSTANTS
    NodeCount = 5
    VersionMod = 4
    NextMod = 8
    Threads = {t1, t2}
    Ops = {"allocate", "release", "lightRelease"}
    Needs = {1, 3}
    Deltas = {1}
    RetryLimit = 1
    LightRetryLimit = 0
    MaxCalls = 8
    Running = {t1}
    None = None
CHECK_DEADLOCK FALSE
INVARIANTS
    TypeOK
    NoAbort
    Inv
PROPERTIES
    ListSpec
    Returns
