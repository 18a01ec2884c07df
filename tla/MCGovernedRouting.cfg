CONSTANTS
  r1 = r1
  r2 = r2
  k1 = k1
  k2 = k2
  k3 = k3
  k4 = k4
  m1 = m1
  Keys = {k1, k2, k3, k4}
  Messages = {m1}
  Requests = {r1, r2}
  Deployments = {1, 2, 3, 4, 5, 6}
  Volatile = {1}
  Registry <- MCRegistry
  Scores <- MCScores
  Adapters <- MCAdapters
  Bindings <- MCBindings
  PolicyClients = {"c1", "c2"}
  Groups = {"g1", "g2"}
  Environments = {"prod", "staging"}
  Defaults <- MCDefaults
  MaxFallbacks = 1
  Cached = {"w1"}
  Complexity <- MCComplexity
  ComplexityOn = TRUE
  Scenarios <- MCScenarios
  NoLimit = NoLimit
  None = None
SPECIFICATION FairSpec
INVARIANTS PlanIsAuthorized NeverPlansALastingOutage CacheScopeIsAuthorized
PROPERTIES PreflightEnds
CHECK_DEADLOCK FALSE
