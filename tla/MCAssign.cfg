SPECIFICATION AssignSpec
CONSTANTS
    d1 = d1  d2 = d2  t1 = t1  t2 = t2  t3 = t3
    Threads = {t1, t2, t3}
    InitTxg = 4
    Dnodes = {d1, d2}
    NewDnodes = {d2}
    HoldLists <- Lists
    TxgHow <- How
    MaxTxg = 6
    MaxSuspends = 0
    Procs = {t1, t2, t3}
    NoProc = NoProc
    UINT64_MAX = 7
    MaxFileSize = 3
    z_max_blksz = 2
    FileOps <- FileCalls
    Exceptions = FALSE
SYMMETRY Symmetry
INVARIANTS
    HoldersAgree SleepersAwaited
    RlTreeExact RlSleepersAwaited  AppendsFresh
PROPERTIES
    LockedIsStable
