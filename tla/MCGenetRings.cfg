SPECIFICATION AllSpec
CONSTANTS
    TOTAL_DESC = 256
    Params <- AllParams
    s1 = s1
    s2 = s2
    b1 = b1
    b2 = b2
    b3 = b3
    good1 = good1
    None = None
INVARIANTS Partitioned WindowsApart
PROPERTIES KeepsFifo QueuesDrain
CHECK_DEADLOCK FALSE
