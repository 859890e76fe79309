CONSTANTS
  b1 = b1
  Targets = {t1}
  Sessions = {s1, s2}
  Bodies = {b1}
  Values = {v1}
  Documents <- SomeDocuments
  MaxVersion = 2
  MaxSecrets = 2
SPECIFICATION Spec
INVARIANTS
  HistoryIsGapless
  ReferencesResolve
  ArtifactsAreStored
PROPERTIES
  RegistryImplemented
CHECK_DEADLOCK FALSE
SYMMETRY SessionSymmetry
