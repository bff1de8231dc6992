SPECIFICATION Spec
CONSTANTS
    Servers = 2
    Keyed <- TwoServers
    Breaker <- TwoServers
    CtServer = 0
    Endpoints = 1
    MaxBonus = 1
    Statuses <- FourStatuses
    Failover <- OnlyFailover
    RetryCodes <- RetryOn429
    Retries = 0
    Ttft = TRUE
    TimeLimit = TRUE
    Unasked = FALSE
    HangUps = FALSE
    Requests <- AllRequests
CHECK_DEADLOCK FALSE
INVARIANT
    FinalStatusIsAFailure
