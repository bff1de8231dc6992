SPECIFICATION TimedSpec
CONSTANTS
    r1 = r1
    r2 = r2
    r3 = r3
    Requests <- TwoRequests
    MaxFailures = 2
    Window = 1
    Cooldown = 2
    ProbeTTL = 2
    Grace = 1
    SuccessThreshold = 2
    MaxHold = 3
    Faults = {{"redis", "crash"}}
PROPERTIES
    RefinesCircuitStates
    NeverStuckOpen
    OnlyLateProbesMeet
