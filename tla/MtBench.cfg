SPECIFICATION FairSpec
CONSTANTS
    thread_num = 3
    init_entry_num = 1
    write_op_num = 2
    read_op_num = 1
    sum_op_num = 1
    Threads = {0, 1, 2}
    Keys = {k1, k2}
    None = None
CHECK_DEADLOCK FALSE
INVARIANTS
    TypeOK
    ReadsOneState
    StartsTogether
    ReportIsRight
    Inv
PROPERTY
    Ends
