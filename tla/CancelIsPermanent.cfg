CONSTANTS
  Cases = {c1, c2}
  Requests = {r1}
  Start = start
  NoOne = noOne
  Kinds = {"cancel"}
  Concurrency = 1
  MaxFaults = 0
  MaxCrashes = 0
  Caps <- PlainTarget
  TaskOrders = {"afterCommit"}
  Patient = FALSE
  ReadFaults = FALSE
  Supervised = FALSE
SPECIFICATION Spec
PROPERTIES
  CancelIsPermanent
SYMMETRY Symmetry
CHECK_DEADLOCK FALSE
