CONSTANTS
  Cases = {c1, c2}
  MaxAttempts = 2
  Targets <- TwoTargets
  FailureThreshold = 2
  SuccessThreshold = 1
  Cooldown = 2
  MaxFaults = 0
  MaxCrashes = 1
  MaxReopens = 0
SPECIFICATION FairSpec
INVARIANTS
  CountersAgree
  SleepersWakeInTime
PROPERTIES
  UsesBreaker
  ExecutionEnds
