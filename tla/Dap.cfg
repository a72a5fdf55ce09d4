CONSTANTS
  Lines = {1, 2}
  BpSets <- MCBpSets
  MaxDepth = 2
  MaxStmts = 3
  MaxRequests = 3
SPECIFICATION Spec
INVARIANTS StopsWhenOwed ClientKnows
PROPERTY EveryRequestAnswered
CHECK_DEADLOCK FALSE
