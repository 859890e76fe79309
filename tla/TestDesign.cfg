CONSTANTS
  k1 = k1
  k2 = k2
  c1 = c1
  recall = recall
  judged = judged
  None = None
  Targets = {t1}
  Configs = {k1, k2}
  Tests = {x1}
  Benchmarks = {b1}
  Cases = {c1}
  Runs = {r1}
  Metrics = {recall, judged}
  Requirements = {"retrieval", "gold", "judge"}
  Needs <- SomeNeeds
  CaseOffers <- SomeCaseOffers
  ConfigOffers <- SomeConfigOffers
  Observables <- SomeObservables
  Judge = "judge"
  MaxConfigs = 2
SPECIFICATION Spec

  
PROPERTIES
  ExecutesItsConfiguration

