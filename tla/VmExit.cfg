CONSTANTS
    e1 = e1
    RangeError = rangeError
    MaxDepth = 5
    e2 = e2
    Null = null
    Turns = 2
    Allowed = {"exit"}
    Kinds = {"while"}
    Deep = FALSE
    Programs <- MCPrograms
SPECIFICATION Spec
INVARIANT SameAsWalker
CHECK_DEADLOCK FALSE
