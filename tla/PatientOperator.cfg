CONSTANTS
  Cases = {c1, c2}
  Requests = {r1, r2}
  Start = start
  NoOne = noOne
  Kinds = {"pause", "resume", "retry", "recover", "cancel"}
  Concurrency = 1
  MaxFaults = 2
  MaxCrashes = 1
  Caps <- RecoverableTarget
  TaskOrders = {"afterCommit", "beforeCommit"}
  Patient = TRUE
  ReadFaults = FALSE
  Supervised = TRUE
SPECIFICATION Spec
INVARIANTS
  BoundedConcurrency
  VerdictMatchesCases
PROPERTIES
  NeverRegenerates
SYMMETRY Symmetry
CHECK_DEADLOCK FALSE
