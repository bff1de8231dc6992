SPECIFICATION FairSpec
CONSTANTS
    Servers = 2
    Keyed <- TwoServers
    Breaker <- TwoServers
    CtServer = 0
    Endpoints = 1
    MaxBonus = 1
    Statuses <- TwoStatuses
    Failover <- OnlyFailover
    RetryCodes <- RetryOn429
    Retries = 1
    Ttft = TRUE
    TimeLimit = TRUE
    Unasked = FALSE
    HangUps = FALSE
    Requests <- PlainRequests
CHECK_DEADLOCK FALSE
PROPERTY
    Answered
