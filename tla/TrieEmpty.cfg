SPECIFICATION Spec
CONSTANTS
    k1 = k1
    k2 = k2
    k3 = k3
    k4 = k4
    Readers = {r1}
    Keys = {k1, k2, k3, k4}
    Values = {v1, Empty}
    Hash <- MCHash
    Empty = Empty
    Fanout = 2
    Trigger = 1
    MaxBlocks = 50
    MaxStores = 4
    MaxFailures = 0
    NotFound = NotFound
CHECK_DEADLOCK FALSE
PROPERTY
    MapSpec
