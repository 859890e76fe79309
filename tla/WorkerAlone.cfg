CONSTANTS
  Cases = {c1}
  MaxAttempts = 3
  Targets <- AllTargets
  FailureThreshold = 2
  SuccessThreshold = 1
  Cooldown = 1
  MaxFaults = 2
  MaxCrashes = 2
  MaxReopens = 1
SPECIFICATION FairSpec
INVARIANTS
  RetryBudget
  RowsAreTrue
  
PROPERTIES
  KeepsLedger
  CaseSettles
