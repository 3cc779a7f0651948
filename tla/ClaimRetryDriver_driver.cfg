SPECIFICATION FairDriverSpec
CONSTANTS
  ask = ask
  mention = mention
  command = command
  Event = {ask, mention, command}
  Kind <- Kinds3
  Targets <- OneTarget
  Run = {r1, r2}
  MaxAttempts = 2
  Lease = 1
  RetryBase = 1
  RetryCap = 2
  Retention = 0
  WorkLimit = 1
  BoundedWork = FALSE
  StoreFaults = FALSE
  Rekeying = TRUE
  Grace = 1
  StallBase = 1
  StallCap = 2
  Budgets <- Slices
INVARIANTS
  PassesDoNotSpin
PROPERTIES
  EveryClaimEnds
  LiveLeaseRespected
CHECK_DEADLOCK FALSE
