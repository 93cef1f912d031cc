SPECIFICATION DetectSpec
CONSTANTS
    IPs = {a}
    Threshold404 = 3
    Window404 = 2
    ThresholdAuth = 3
    WindowAuth = 2
    MaxTime = 5
    MaxEvents = 5
    MaxDismissals = 0
INVARIANTS
    ScanFlagged
CHECK_DEADLOCK FALSE
