CONSTANTS
    MaxProm = 4
    MaxCoro = 1
    MaxAll = 1
    AllSize = 2
    MaxCalls = 2
    MaxDepth = 2
    MayFail = TRUE
SPECIFICATION Spec
INVARIANTS
    NothingStranded
    OneSettler
    TasksFaithful
    AdoptionFaithful
    AllExact
PROPERTIES
    SettledForGood
CHECK_DEADLOCK FALSE
