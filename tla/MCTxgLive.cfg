SPECIFICATION FairSpec
CONSTANTS
    t1 = t1  t2 = t2
    Threads = {t1, t2}
    NCpus = 1
    InitTxg = 4
    MaxTxg = 7
    MaxSuspends = 1
    ClientOps <- Waiters
    NoOwner = NoOwner
    Quiescer = Quiescer
PROPERTIES
    WaitSyncedReturns
    WaitOpenReturns
    SyncStopReturns
