CONSTANTS
    MaxProm = 3
    MaxCoro = 2
    MaxAll = 1
    AllSize = 2
    MaxCalls = 2
    MaxDepth = 2
    MayFail = FALSE
SPECIFICATION Spec
INVARIANTS
    OnePlace
PROPERTIES
    QueuedIsResumed
CHECK_DEADLOCK FALSE
