SPECIFICATION DmaSpec
SYMMETRY Symmetry
CONSTANTS
    s1 = s1
    s2 = s2
    b1 = b1
    b2 = b2
    b3 = b3
    good1 = good1
    bad = bad
    Size = 4
    MAX_SKB_FRAGS = 1
    IndexMod = 8
    Skbs <- MCSkbs
    None = None
    MaxBql = 3
    FaultSets <- MCFaultSets
    RxSize = 2
    RxIndexMod = 3
    Budget = 2
    Bufs <- MCBufs
    Good <- MCGood
    Bad <- MCBad
    NoFrame = NoFrame
    DiscardMax = 3
    DiscardClear = 2
    MaxDropped = 3
INVARIANTS RingConsistent TdmaReadsMapped TxSafe RxSafe
PROPERTY KeepsRxFifo
