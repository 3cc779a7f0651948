SPECIFICATION Spec
CONSTANTS
  MaxGen = 2
  MaxEpoch = 2
  Budgets <- SafetyBudgets
INVARIANTS
  TypeOK
  EvictedWasIdle
  EdgesWereSeen
  KilledIsDead
PROPERTIES
  EdgesAdvance
  StopIsFinal
  RevocationIsFinal
