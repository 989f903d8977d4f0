CONSTANTS
    t1 = t1
    t2 = t2
    None = None
    Threads <- MCThreads
    Bounds <- FailBounds
    InitTxg = 2
    NObjs = 0
    LwbMax = 1
    NVdevs = 2
    MaxRecs = 3
    QuietSuspend = TRUE
SPECIFICATION Spec
SYMMETRY Sym
CHECK_DEADLOCK FALSE
INVARIANTS DurableDespiteErrors
