SPECIFICATION Spec
CONSTANTS
    NodeCount = 4
    VersionMod = 16
    NextMod = 16
    Threads = {t1, t2, t3}
    Ops = {"allocate", "dup", "dupNew", "undup", "racyDup"}
    Needs = {1}
    Deltas = {1, 2}
    RetryLimit = 1
    LightRetryLimit = 0
    MaxCalls = 7
    Running = {}
    None = None
CHECK_DEADLOCK FALSE
SYMMETRY Symmetry
INVARIANT References
PROPERTY DupOnlyAlive
