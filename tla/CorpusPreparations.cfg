SPECIFICATION Spec
CONSTANTS
  None = None
  Configs <- MCConfigs
  Credentials <- MCCredentials
  Reports <- MCReports
  Responses <- MCResponses
  Policies <- MCPolicies
  Benchmarks <- MCBenchmarks
  Documents = {"d1", "d2"}
  Chunks = {"k1", "k2", "k3"}
  MaxPreparations = 2
  BatchLimit = 2
  PollBudget = 1
INVARIANTS
  
  ReadyIsIngested
  
PROPERTIES
  PreparationsEnd
CHECK_DEADLOCK FALSE
