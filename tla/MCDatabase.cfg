SPECIFICATION Spec
CONSTANTS
  Keys = {"a", "b", "d", "e"}
  DynamicPreds = {"d", "e"}
  StaticPreds = {"s"}
  KeyType <- MCKeyType
  Heads <- MCHeads
  Goals <- MCGoals
  Programs <- MCPrograms
  MaxClauses <- MCMaxClauses
  Reenter = FALSE
  MaxChunk = 2
  MaxCalls <- MCMaxCalls
INVARIANTS
  CodeMatchesSkeleton
  OwnClockView
  RetractFindsItsClause
  RollbackRestores
CHECK_DEADLOCK FALSE
