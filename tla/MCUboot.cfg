SPECIFICATION UbootSpec
CONSTANTS
    Size = 3
    IndexMod = 6
    p1 = p1
    p2 = p2
    f1 = f1
    f2 = f2
    Packets <- MCPackets
    Frames <- MCFrames
    None = None
    MaxProd = 8
    MaxHeld = 2
INVARIANT UbootSafe
PROPERTIES HeldDelivered ConfigRead
CHECK_DEADLOCK FALSE
