SPECIFICATION DetectSpec
CONSTANTS
    IPs = {a, b}
    Threshold404 = 2
    Window404 = 1
    ThresholdAuth = 2
    WindowAuth = 1
    MaxTime = 2
    MaxEvents = 4
    MaxDismissals = 1
INVARIANTS
    StreakIsReal
    OffendersOffended
    AuthBurstFlagged
    LongScanFlagged
CHECK_DEADLOCK FALSE
