SPECIFICATION Spec
CONSTANTS
    NodeCount = 8
    VersionMod = 16
    NextMod = 16
    Threads = {t1}
    Ops = {"allocate", "release", "lightRelease"}
    Needs = {1, 2, 3}
    Deltas = {1}
    RetryLimit = 1
    LightRetryLimit = 0
    MaxCalls = 10
    Running = {}
    None = None
CHECK_DEADLOCK FALSE
PROPERTY FailsOnlyWhenFull
