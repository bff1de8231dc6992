SPECIFICATION Spec
CONSTANTS
    r1 = r1
    r2 = r2
    r3 = r3
    Requests <- ThreeRequests
    MaxFailures = 2
    Window = 2
    Cooldown = 2
    ProbeTTL = 2
    Grace = 2
    SuccessThreshold = 2
    MaxHold = 1
    Faults = {{"redis", "crash", "stall"}, {"stall"}}
SYMMETRY Symmetry
INVARIANTS
    TypeOK
    AtMostOneProbe
    PermitIsOwned
    ErrorWindowEnds
PROPERTY
    CooldownNotExtended
