SPECIFICATION IngestSpec
CONSTANTS
    MaxLines = 3
    LongLines = {2}
    MaxInode = 2
    MaxTruncations = 0
    MaxFaults = 1
    DrainPolls = 1
    ChanCap = 1
    PartialWrites = FALSE
    Workers = {w1}
    ParsedCap = 1
    Malformed = {}
    Refused = {}
PROPERTIES
    EveryLineStored
