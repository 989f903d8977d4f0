SPECIFICATION LocksSpec
CONSTANTS
    p1 = p1  p2 = p2  p3 = p3
    Procs = {p1, p2, p3}
    NoProc = NoProc
    more_cv = more_cv
    done_cv = done_cv
    Cvs = {more_cv, done_cv}
    WaitKinds <- OwnTimer
    RrTags = {1, 2}
    RRM_NUM_LOCKS = 2
    RRM_TD_LOCK <- TdLock
    MaxZrRefs = 2
    SCL_LOCKS = 2
    MaxHandedOff = 1
    ZTHR = ZTHR
    WaitNew = FALSE
    MaxItems = 5
    bq_maxsize = 3
    bq_fill_fraction = 2
SYMMETRY Alike
INVARIANTS
    MutexWakeup NoLostBroadcast DestroyIsSafe
    RrExclusion RrCorrect ZrCorrect SclCorrect SclNoDeadlock
     BqFifo BqNobodyStuck
