SPECIFICATION FairSpec
CONSTANTS
    Queries = {q1, q2}
    Options <- AllOptions
    TTLs = {0, 1}
    Optimistic = 2
    DisableExpire = FALSE
    Persistent = FALSE
    HasRDRC = TRUE
    MaxTime = 3
    MaxCalls = 3
INVARIANTS FailuresNotCached Coalesced
PROPERTIES ExchangeReturns
CHECK_DEADLOCK FALSE
