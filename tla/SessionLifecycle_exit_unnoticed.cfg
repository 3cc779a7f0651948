SPECIFICATION FairSpec
CONSTANTS
  MaxGen = 1
  MaxEpoch = 0
  Budgets <- EvictBudgets
PROPERTIES
  ExitIsNoticed
