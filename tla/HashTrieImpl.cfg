SPECIFICATION FairSpec
CONSTANTS
    Threads = {t1, t2}
    Blocks = {b1, b2, b3, b4, b5}
    Keys = {k1, k2}
    Values = {v1}
    Trigger = 1
    Fanout = 2
    MaxVersion = 4
    MaxStores = 2
    MaxCrashes = 1
    Careful = TRUE
    Ops = {"store", "view", "update"}
    None = None
CHECK_DEADLOCK FALSE
INVARIANTS
    TypeOK
    NoAbort
    RootAlive
    RootsSettle
    RefSucceeds
    Inv
PROPERTIES
    SnapshotSpec
    Answers
