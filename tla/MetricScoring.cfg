SPECIFICATION Spec
CONSTANTS
  None = None
  Broken = Broken
  Cli = Cli
  Cases = {1, 2}
  Observations = {0, 2}
  Metrics <- MCMetrics
  Selected <- MCSelected
  PassSelected <- MCPassSelected
  Tasks = {t1, t2}
  MaxAttempts = 2
  Identity <- MCIdentity
  Baselines <- MCBaselines
  Resamples = 3
  PermutationBits = 1
  Epsilon <- MCEpsilon
INVARIANTS
  ScoresAreCurrent
  
  SettledRunIsAggregated
  ReportsAreSound
SYMMETRY TaskSymmetry
CHECK_DEADLOCK FALSE
