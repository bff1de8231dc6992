SPECIFICATION Spec
CHECK_DEADLOCK FALSE
CONSTANTS
    MaxBlocks = 3
    Slips <- MCSlips
    IncludeUsage = TRUE
INVARIANTS
    TypeOK
    ArgumentsArriveOnce
    EndsOnce
    StreamedIsWhole
    CallsAnswered
PROPERTY
    ResponsesProtocol
