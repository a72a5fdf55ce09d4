CONSTANTS
    Addr = {a1, a2}
    Slots = {s1}
    Null = null
    Ctx = {c1}
    Tiers = {"vm", "jit"}
    MaxDepth = 1
    MaxHeld = 2
    MaxRooted = 1
SPECIFICATION Spec
INVARIANT NoLiveSwept
CHECK_DEADLOCK FALSE
