SPECIFICATION FairSpec
CONSTANTS
    r1 = r1
    r2 = r2
    r3 = r3
    r4 = r4
    Requests <- FourRequests
    MaxRequests = 3
    Window = 4
    Faults = {{"redis", "crash"}, {"crash"}, {}}
INVARIANTS
    TypeOK
    BoundedOvershoot
    WindowEnds
PROPERTY
    NeverStuckLimited
