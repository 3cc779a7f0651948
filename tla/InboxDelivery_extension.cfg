SPECIFICATION FairSpec
CONSTANTS
  Msg = {m1, m2}
  Run = {r1}
  Lease = {l1, l2}
  Transports = {"pty"}
  RenderFails = TRUE
  Faults = FALSE
  Crashes = FALSE
PROPERTIES
  ClaimsResolve
CHECK_DEADLOCK FALSE
