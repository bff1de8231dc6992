SPECIFICATION Spec
CONSTANTS
    Servers = 3
    Keyed <- ThreeServers
    Breaker <- TwoServers
    CtServer = 3
    Endpoints = 1
    MaxBonus = 1
    Statuses <- FourStatuses
    Failover <- Failover400
    RetryCodes <- RetryOn429
    Retries = 1
    Ttft = TRUE
    TimeLimit = TRUE
    Unasked = TRUE
    HangUps = TRUE
    Requests <- AllRequests
CHECK_DEADLOCK FALSE
INVARIANTS
    TypeOK
    NoPermitLeaks
    VerdictFits
    CountedOnce
    FailuresAreLogged
PROPERTIES
    NoSecondTurn
    UsesPermits
