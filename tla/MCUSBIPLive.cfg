SPECIFICATION FairSpec
CONSTANTS
    Keys <- MCKeys
    EP0 = "ep0"
    MaxSeq = 2
    EpOf <- MCEpOfTwo
    MAX_URBS = 2
    HIGH_WATER = 0
    MaxBatch = 1
PROPERTY Progress
