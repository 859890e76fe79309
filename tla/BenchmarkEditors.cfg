CONSTANTS
  c1 = c1
  h1 = h1
  Benchmarks = {b1}
  Cases = {c1, c2}
  Chunks = {h1}
  Uploads <- ChunkDocument
  Imports <- SomeImports
  Requests = {q1, q2}
  Runs = {r1}
  MaxEdits = 6
SPECIFICATION Spec
INVARIANTS
  SerialEditsAreSound
  RunCasesExist
  ExecutedCasesAreHashed
CHECK_DEADLOCK FALSE
SYMMETRY RequestSymmetry
