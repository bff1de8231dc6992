SPECIFICATION Spec
CONSTANTS
    r1 = r1
    r2 = r2
    None = None
    Entries <- TwoRequests
    Capacity = 1
    BatchSize = 2
    Subs <- ThreeKinds
    Over <- AllOrFixed
    Windowed <- OnlyHourly
    Models = {"m"}
    ModelOf <- OneModel
    Cost <- UnitCost
    Streamed <- OneStream
    Limit <- LimitOne
    WeeklyLimit <- WeekOnHourly
    ModelLimit <- ModelOnFixed
    Unpriced <- NotOnPriced
    Duration = 0
    WindowLen = 1
    WeekLen = 1
    MaxNow = 1
    MaxFailures = 1
    Faults = {{}, {"hangup"}, {"sql"}, {"redis"}, {"evict"}, {"retention"}, {"insert"}, {"kill"}}
CHECK_DEADLOCK FALSE
INVARIANTS
    TypeOK
    Accounted
    DrainedAtEnd
    CountedAtMostOnce
    ExhaustedIsSpent
    BilledIsActivated
PROPERTY
    AdmittedBelowLimit
