SPECIFICATION Spec
CONSTANTS
  MaxStack = 5
INVARIANTS
  FramesLive
  OwnEnvironment
  CutBarrier
PROPERTIES
  CommitsToBranch
CHECK_DEADLOCK FALSE
