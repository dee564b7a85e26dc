SPECIFICATION Spec
CONSTANTS
    Size = 3
    IndexMod = 6
    Packets = {p1, p2}
    Frames = {f1, f2}
    None = None
    MaxProd = 8
    MaxHeld = 2
INVARIANT SendSucceeds
