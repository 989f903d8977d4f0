SPECIFICATION Spec
CONSTANTS
    t1 = t1  t2 = t2
    Threads = {t1, t2}
    NCpus = 2
    InitTxg = 4
    MaxTxg = 9
    MaxSuspends = 0
    ClientOps <- Transactions
    NoOwner = NoOwner
    Quiescer = Quiescer
SYMMETRY Symmetry
INVARIANTS
    IInv HandlesHoldTxg CallbacksAtSync StopIsClean
PROPERTIES
    ImplementsTxgAbs
