SPECIFICATION FairSpec
CONSTANTS
  Task = {t1, t2}
  Standing = standing
  NoTask = none
  MaxRevoked = 3
  Budgets <- RaceSlices
CHECK_DEADLOCK FALSE
INVARIANTS
  TypeOK
  EveryMemberIsRecorded
  ForgottenHasNoRoute
PROPERTIES
  CleanupWaitsForLeave
  DueIsSettled
  RouteBecomesMember
