SPECIFICATION Spec
CONSTANTS
    a = a  b = b  d1 = d1  d2 = d2  d3 = d3  d4 = d4
    Tops = {a, b}
    UbCount = 2
    SyncMinVdevs = 1
    InitTxg = 1
    MaxTxg = 4
    Pools <- TwoCrashes
INVARIANTS
    LabelsCurrent
