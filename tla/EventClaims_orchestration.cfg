SPECIFICATION Spec
CONSTANTS
  e1 = e1
  Event = {e1}
  Kind <- OneOrchestration
  Targets <- TwoTargets
  Run = {r1, r2}
  MaxAttempts = 2
  Lease = 1
  RetryBase = 1
  RetryCap = 2
  Retention = 1
  WorkLimit = 1
  BoundedWork = TRUE
  StoreFaults = TRUE
  Rekeying = TRUE
SYMMETRY RunSymmetry
INVARIANTS
  TypeOK
  GenerationUnique
  EffectExclusion
  CompletedAfterWork
PROPERTIES
  ImplementsLedger
CHECK_DEADLOCK FALSE
