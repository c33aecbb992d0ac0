SPECIFICATION Spec
CONSTANTS
  Programs <- MCPrograms
  MaxBindings = 2
  Registers = 3
INVARIANTS
  FailureHonoured
  WokenInTime
  ResumesInPlace
CHECK_DEADLOCK FALSE
