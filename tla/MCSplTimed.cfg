SPECIFICATION SplSpec
CONSTANTS
    p1 = p1
    p2 = p2
    p3 = p3
    more_cv = more_cv
    Procs = {p1, p2, p3}
    Cvs = {more_cv}
    NoProc = NoProc
    WaitKinds <- SharedTimer
INVARIANTS
    NoLostBroadcast
