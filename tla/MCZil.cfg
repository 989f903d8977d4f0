CONSTANTS
    t1 = t1
    t2 = t2
    None = None
    Threads <- MCThreads
    Bounds <- MCBounds
    InitTxg = 2
    NObjs = 1
    LwbMax = 1
    NVdevs = 2
    MaxRecs = 3
    QuietSuspend = TRUE
SPECIFICATION Spec
SYMMETRY Sym
CHECK_DEADLOCK FALSE
INVARIANTS
      NobodyStuck
PROPERTIES
    AppliedOnce
