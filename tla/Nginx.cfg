SPECIFICATION NginxSpec
CONSTANTS
    MaxLines = 3
    LongLines = {2}
    MaxInode = 3
    MaxTruncations = 1
    MaxFaults = 1
    DrainPolls = 1
    ChanCap = 1
    PartialWrites = TRUE
    IPs = {a}
    Threshold404 = 2
    Window404 = 1
    ThresholdAuth = 2
    WindowAuth = 1
    MaxTime = 0
    MaxEvents = 4
    MaxDismissals = 0
    Unparsed = {}
    Refused = {3}
    Missing = {1, 2}
INVARIANTS
    RecordsAreWholeLines
    NoInventedAttempts
PROPERTIES
    NginxImplementsLineFeed
    ScanFlaggedInTheEnd
