SPECIFICATION FairSpec
CONSTANTS
  Channel = {a, b}
  NoCover = none
  Budgets <- SyncSlices
CHECK_DEADLOCK FALSE
INVARIANTS
  BelievedIsOpen
  DemandIsServed
PROPERTIES
  WantedIsServed
