CONSTANTS
    e1 = e1
    RangeError = rangeError
    MaxDepth = 5
    e2 = e2
    Null = null
    Turns = 2
    Allowed = {}
    Kinds = {"while", "do", "for", "of", "each", "await"}
    Deep = TRUE
    Programs <- MCPrograms
SPECIFICATION Spec
INVARIANTS
    SameAsWalker
    StackAsVerified
    NothingLeft
    CompiledSound
    AwaitsAlone
CHECK_DEADLOCK FALSE
