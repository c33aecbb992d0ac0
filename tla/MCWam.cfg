SPECIFICATION DataSpec
CONSTANTS
  MaxStack = 4
  MaxHeap = 2
  MaxTrail = 2
INVARIANTS
  TrailSufficient
  NoDanglingReference
CHECK_DEADLOCK FALSE
