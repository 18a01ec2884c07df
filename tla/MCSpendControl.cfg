\* Four requests, five slots, two budgets; usage below, at and above a bound.
\* Three calls on the first days and around the end of a month.
SPECIFICATION ControlSpec
SYMMETRY Symmetry
CONSTANTS
  e1 = e1
  e2 = e2
  e3 = e3
  e4 = e4
  a1 = a1
  a2 = a2
  b1 = b1
  c1 = c1
  x1 = x1
  d1 = d1
  d2 = d2
  client = client
  workload = workload
  p1 = p1
  p2 = p2
  k1 = k1
  n1 = n1
  n2 = n2
  n3 = n3
  tenant = tenant
  chat = chat
  batch = batch
  Executions = {e1, e2, e3, e4}
  Slots = {a1, a2, b1, c1, x1}
  Scopes = {client, workload}
  Deployments = {d1, d2}
  ExecutionOf <- MCExecutionOf
  DeploymentOf <- MCDeploymentOf
  Bound <- MCBound
  ScopesOf <- MCScopesOf
  AdmittedOn <- MCAdmittedOn
  Ceiling <- MCCeiling
  OpeningSettled <- MCOpeningSettled
  OpeningHeld <- MCOpeningHeld
  Lease = 1
  Costs <- MCCosts
  Unknown = Unknown
  MaxMicros = 12
  LastDay = 1
  Scale = 2
  Evidences <- MCEvidences
  Preparations <- MCPreparations
  EvidenceOf <- MCEvidenceOf
  PlanOf <- MCPlanOf
  Attribution <- MCAttribution
  ScopeKey <- MCScopeKey
  NoWorkload = NoWorkload
  MonthStart <- MCMonthStart
  Position <- MCPosition
  Schedules <- MCSchedules
  Usages <- MCUsages
  Incomplete = Incomplete
  NoReport = NoReport
  Refused = Refused
  Calls = {n1, n2, n3}
  Client <- MCClient
  Workload <- MCWorkload
  AnyWorkload = AnyWorkload
  Limits <- MCLimits
  Amounts = {4, 15}
  NoAmount = NoAmount
  DaysPerMonth = 31
  Dates = {0, 1, 2, 30, 31}
INVARIANTS ImageIsValid CeilingHolds SpentBudgetRefuses
PROPERTIES ExposureIsRetained FrozenAfterEnd
CHECK_DEADLOCK FALSE
