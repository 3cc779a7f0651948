SPECIFICATION Spec
CONSTANTS
  Task = {t1, t2}
  Standing = standing
  NoTask = none
  MaxRevoked = 3
  Budgets <- RejoinSlice
CHECK_DEADLOCK FALSE
INVARIANT JoinedIsOnRoster
