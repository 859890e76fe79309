CONSTANTS
  Cases = {c1, c2}
  Requests = {r1, r2}
  Start = start
  NoOne = noOne
  Kinds = {"pause", "resume", "retry", "recover", "cancel"}
  Concurrency = 1
  MaxFaults = 1
  MaxCrashes = 1
  Caps <- RecoverableTarget
  TaskOrders = {"afterCommit", "beforeCommit"}
  Patient = FALSE
  ReadFaults = TRUE
  Supervised = TRUE
SPECIFICATION Spec
INVARIANTS
  TypeOK
  CompleteIsObserved
  CalledAtMostOnce
  ObservedWasCalled
  UncommittedNeverExecutes
PROPERTIES
  KeepsLedger
SYMMETRY Symmetry
CHECK_DEADLOCK FALSE
