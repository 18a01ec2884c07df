CONSTANTS
  Deployments = {d1}
  Attempts = {a1, a2}
  Generations = {g1, g2, g3, g4}
  FailureThreshold = 2
  Cooldown = 2
  ProbeLease = 3
  KeyTTL = 4
  NoAttempt = NoAttempt
  NoGeneration = NoGeneration
  NoAdmission = NoAdmission
  NoDeployment = NoDeployment
SPECIFICATION FairSpec
INVARIANT KeyOutlivesRegime
PROPERTIES OwnershipEnds ImplementsSharedContract
