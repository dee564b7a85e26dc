SPECIFICATION Spec
CONSTANTS
    Keys <- MCKeys
    EP0 = "ep0"
    MaxSeq = 3
    EpOf <- MCEpOfMixed
    MAX_URBS = 2
    HIGH_WATER = 0
    MaxBatch = 2
INVARIANT WithinLimits
PROPERTY KeepsContract
