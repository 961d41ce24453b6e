SPECIFICATION FairSpec
CONSTANTS
    Threads = {t1, t2}
    Blocks = {b1, b2}
    Classes = {c1, c2}
    Large = Large
    Sizes = {c1, c2, Large}
    Ops = {"allocate", "release", "dup"}
    VersionMod = 16
    HeapVersions = {0, 4}
    Recurring = FALSE
    CounterMod = 8
    MaxCalls = 6
    Running = {t1}
    END = END
    Junk = Junk
    None = None
CHECK_DEADLOCK FALSE
INVARIANTS
    TypeOK
    NoAbort
    StackSound
    CountersSettle
    Inv
PROPERTIES
    StoreSpec
    Returns
