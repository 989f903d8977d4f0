SPECIFICATION FairSpec
CONSTANTS
    Threads = {t1, t2}
    InitTxg = 4
    MaxTxg = 5
    DirtyMax = 2
    DelayMin = 1
    WrlogDelayMin = 1
    TxSpace = 2
    MaxWrlog = 0
    SyncSpace = 0
PROPERTIES
    ForwardProgress
