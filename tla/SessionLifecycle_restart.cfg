SPECIFICATION FairSpec
CONSTANTS
  MaxGen = 1
  MaxEpoch = 2
  Budgets <- RestartBudgets
INVARIANTS
  RowOwnsProcess
PROPERTIES
  StoppingSettles
  PresentationSettles
  UnevictedExitIsNoticed
