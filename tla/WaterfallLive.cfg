SPECIFICATION FairSpec
CONSTANTS
    Servers = 2
    Keyed <- TwoServers
    Breaker <- TwoServers
    CtServer = 3
    Endpoints = 1
    MaxBonus = 1
    Statuses <- FourStatuses
    Failover <- OnlyFailover
    RetryCodes <- RetryOn429
    Retries = 1
    Ttft = TRUE
    TimeLimit = TRUE
    Unasked = TRUE
    HangUps = FALSE
    Requests <- AllRequests
CHECK_DEADLOCK FALSE
PROPERTIES
    AnsweredOrHanging
    PermitsReported
