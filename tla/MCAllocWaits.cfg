SPECIFICATION BothSpec
CONSTANTS
    d1 = d1  t1 = t1  t2 = t2
    Threads = {t1, t2}
    InitTxg = 4
    Dnodes = {d1}
    NewDnodes = {}
    HoldLists <- OneDnode
    TxgHow <- AnyHow
    MaxTxg = 5
    MaxSuspends = 1
    MsSpace <- TwoMetaslabs
    MsStarts <- MCStarts
    MsLastTxg = 5
    DisturbCondense = FALSE
CHECK_DEADLOCK FALSE
INVARIANTS
      NeverReused

    
