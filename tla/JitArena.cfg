CONSTANTS
  Texts = {t1, t2}
  Things = {}
  Keys = {k1, k2, k3}
  Empty = Empty
  Memo = 2
  MaxHeld = 1
  MaxLent = 1
  MaxStray = 1
  MaxNest = 1
SPECIFICATION Spec
INVARIANTS RegistersNamed OwnedOnce
PROPERTIES BoxedFaithful
CHECK_DEADLOCK FALSE
