SPECIFICATION Spec
CONSTANTS
    Keys <- MCKeys
    EP0 = "ep0"
    MaxSeq = 3
    EpOf <- MCEpOf
    MAX_URBS = 3
    HIGH_WATER = 0
    MaxBatch = 2
INVARIANTS EndpointOrder NothingStranded HeldRightly
