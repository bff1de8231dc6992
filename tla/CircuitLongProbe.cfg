SPECIFICATION Spec
CONSTANTS
    r1 = r1
    r2 = r2
    r3 = r3
    Requests <- TwoRequests
    MaxFailures = 2
    Window = 2
    Cooldown = 2
    ProbeTTL = 2
    Grace = 2
    SuccessThreshold = 2
    MaxHold = 3
    Faults = {{}}
INVARIANT
    AtMostOneProbe
