SPECIFICATION Spec
CONSTANTS
  Msg = {m1, m2}
  Run = {r1, r2}
  Lease = {l1, l2}
  Transports = {"pty", "rpc"}
  RenderFails = FALSE
  Faults = TRUE
  Crashes = TRUE
SYMMETRY Symmetry
INVARIANTS
  TypeOK
  ClaimExclusive
  NothingForgotten
  InjectedWasSeen
  ReactionOnce
  ReactionOfSeen
PROPERTIES
  InjectedIsFinal
  LeaseEndsByItsToken
CHECK_DEADLOCK FALSE
