SPECIFICATION Spec
CONSTANTS
    NodeCount = 7
    VersionMod = 4
    NextMod = 8
    Needs = {1, 2, 3}
    Deltas = {1, 2}
INVARIANTS
    TypeOK
    Linked
    Disjoint
    NoLeak
    MergeCanFinish
PROPERTY HeapSpec
