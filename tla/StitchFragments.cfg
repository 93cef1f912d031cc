SPECIFICATION StitchSpec
CONSTANTS
    QueueIDs = {q1}
    NoQueue = none
    Idle = 2
    MaxStale = 1
    MaxEntries = 3
    MaxCrashes = 0
INVARIANTS
    NoFragmentRows
