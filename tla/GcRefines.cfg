CONSTANTS
    Addr = {a1, a2, a3}
    Slots = {s1}
    Null = null
    Ctx = {c1}
    Tiers = {"vm"}
    MaxDepth = 1
    MaxHeld = 2
    MaxRooted = 2
SPECIFICATION Spec
SYMMETRY Symmetry
PROPERTY ImplementsManagedHeap
CHECK_DEADLOCK FALSE
