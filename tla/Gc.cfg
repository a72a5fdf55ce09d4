CONSTANTS
    Addr = {a1, a2, a3}
    Slots = {s1, s2}
    Null = null
    Ctx = {c1}
    Tiers = {"vm"}
    MaxDepth = 1
    MaxHeld = 2
    MaxRooted = 1
SPECIFICATION Spec
SYMMETRY Symmetry
INVARIANTS
    HeapInv
    NoLiveSwept
    OldToYoungRemembered
    MinorTraceComplete
    MajorReclaimsAll
PROPERTY BackEdgeReclaimsAll
CHECK_DEADLOCK FALSE
