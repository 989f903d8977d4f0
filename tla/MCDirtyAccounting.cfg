SPECIFICATION Spec
CONSTANTS
    Threads = {t1, t2}
    InitTxg = 4
    MaxTxg = 8
    DirtyMax = 2
    DelayMin = 1
    WrlogDelayMin = 1
    TxSpace = 1
    MaxWrlog = 1
    SyncSpace = 1
SYMMETRY Symmetry
INVARIANTS
    Accounting WrlogExact OvershootBounded
