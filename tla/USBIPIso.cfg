SPECIFICATION Spec
CONSTANTS
    NumKeys = 2
    Frame = 2
    Packets = {1, 2}
    Intervals = {1, 2}
    MaxTime = 5
    MaxUrbs = 3
INVARIANTS OnePerFrame IsoTimerArmed CatchesUp
