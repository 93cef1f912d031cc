SPECIFICATION StitchSpec
CONSTANTS
    QueueIDs = {q1, q2}
    NoQueue = none
    Idle = 1
    MaxStale = 1
    MaxEntries = 3
    MaxCrashes = 1
INVARIANTS
    RowsHoldTheLog
    OnlyNewestActive
    EmittedOnce
PROPERTIES
    ClosedRowsFrozen
    OnlyIdleEvicted
    EveryRowCloses
    EveryLineEmitted
