SPECIFICATION FairSpec
CONSTANTS
  Channel = {a}
  Caller = {t1, t2}
  MaxGen = 2
  Attempts = 2
  Ttl = 2
  NoLease = noLease
  NoEffect = noEffect
  NoStatus = noStatus
  Budgets <- EvictionSlice
CHECK_DEADLOCK FALSE
PROPERTY
  RouteIsShown
