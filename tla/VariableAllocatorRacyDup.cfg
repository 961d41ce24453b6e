SPECIFICATION Spec
CONSTANTS
    NodeCount = 6
    VersionMod = 16
    NextMod = 8
    Threads = {t1, t2}
    Ops = {"allocate", "release", "racyDup"}
    Needs = {1}
    Deltas = {1}
    RetryLimit = 1
    LightRetryLimit = 0
    MaxCalls = 4
    Running = {}
    None = None
CHECK_DEADLOCK FALSE
PROPERTY DupOnlyAlive
