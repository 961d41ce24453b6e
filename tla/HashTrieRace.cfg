SPECIFICATION Spec
CONSTANTS
    Threads = {t1, t2}
    Blocks = {b1, b2, b3}
    Keys = {k1}
    Values = {v1}
    Trigger = 1
    Fanout = 2
    MaxVersion = 8
    MaxStores = 1
    MaxCrashes = 0
    Careful = FALSE
    Ops = {"store"}
    None = None
CHECK_DEADLOCK FALSE
INVARIANT
    RootAlive
