SPECIFICATION Spec
CONSTANTS
    Durable = {f1, f2, f3}
    OneShot = {r1}
    Addr = {a1, a2, a3}
    Null = Null
    MaxSlots = 3
    MaxNest = 2
INVARIANTS
    TokensName
    FreeExact
    CacheExact
PROPERTIES ImplementsRegistry
CHECK_DEADLOCK FALSE
