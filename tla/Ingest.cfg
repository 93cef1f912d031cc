SPECIFICATION IngestSpec
CONSTANTS
    MaxLines = 3
    LongLines = {2}
    MaxInode = 2
    MaxTruncations = 1
    MaxFaults = 2
    DrainPolls = 1
    ChanCap = 1
    PartialWrites = FALSE
    Workers = {w1, w2}
    ParsedCap = 1
    Malformed = {1}
    Refused = {3}
INVARIANTS
    IngestTypeOK
    InSourceOrder
    NoneLost
    CheckpointResumable
PROPERTIES
    CheckpointAdvances
    ImplementsLineFeed
