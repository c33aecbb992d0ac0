SPECIFICATION Spec
CONSTANTS
  AnyBall = AnyBall
  Admit = {}
  Programs <- MCPrograms
INVARIANTS BlockMatchesContinuation CleanupOnce LimitRespected
PROPERTY Terminates
CHECK_DEADLOCK FALSE
