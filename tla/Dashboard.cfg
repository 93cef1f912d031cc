SPECIFICATION DashboardSpec
CONSTANTS
    PageSize = 1
    Filters = {"", "deferred"}
    OldRows = 2
    Arrivals = {2, 3, 5}
    MaxRows = 3
    MaxLoads = 4
    MaxErrors = 1
INVARIANTS
    ShownIsAsked
    PageKeepsPromise
    PagingSkipsNothing
PROPERTIES
    Settles
CHECK_DEADLOCK FALSE
