SPECIFICATION FirewallSpec
CONSTANTS
    MaxRequests = 3
    Duration = 2
    MaxFaults = 2
INVARIANTS
    
    ActiveIsEnforced
    ShownWhileReliable
PROPERTIES
    EveryCommandAudited
    TimedBlocksEnd
    RuleReturns
CHECK_DEADLOCK FALSE
