SPECIFICATION FairSpec
CONSTANTS
    r1 = r1
    r2 = r2
    Requests <- TwoRequests
    RpmMax = 2
    RpmWindow = 2
    TpmMax = 2
    TpmWindow = 2
    MaxTokens = 2
    WaitRetries = 2
    Faults = {{"redis", "crash"}, {"crash"}, {}}
INVARIANTS
    TypeOK
    RpmOvershoot
PROPERTIES
    WaitEnds
    NeverStuckRpm
