SPECIFICATION AllSpec
CONSTANTS
    Lens = {0, 2}
    MaxReqs = 2
    MaxResets = 2
    MaxToggles = 3
    Cap = 6
    Mod = 128
    Thresholds = {75, 127}
    MaxPending = 2
    MaxGiven = 8
    Requests <- MCRequests
    CustomerLen = 2
    KeyLen = 1
    LockNum1 = 90
    LockNum2 = 91
    CommandLine = 3
    RowValues = {0, 1}
INVARIANTS AnsweredOnce DeviceSafe DataOnWire RngServes RequestServed
PROPERTIES SetupAfterRecovery OtpProtected
CHECK_DEADLOCK FALSE
