SPECIFICATION MCSpec
CONSTANTS
  AndPrelude = 1
  OrPrelude = 2
  CellCounts = {0, 2}
  InitSize = 4
  MaxSize = 8
  Junk = Junk
  Prelude = Prelude
  Val = Val
  Keys <- MCKeys
  k1 = k1
  k2 = k2
  v1 = v1
  v2 = v2
  Values <- MCValues
  NoVal = NoVal
  MaxHeap = 3
  MaxTrail = 3
  MaxChoices = 2
INVARIANTS
  FramesApart
  InitialisedUnlessMoved
  NoDanglingLocation
  TrailedKeysKnown
  BacktrackRestores
PROPERTIES
  FramesStable
SYMMETRY MCSymmetry
CHECK_DEADLOCK FALSE
