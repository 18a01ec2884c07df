CONSTANTS
  Deployments = {d1}
  Attempts = {a1, a2, a3}
  Generations = {g1, g2, g3, g4, g5}
  FirstGeneration <- MCFirstGeneration
  FailureThreshold = 2
  Cooldown = 2
  ProbeLease = 3
  NoAttempt = NoAttempt
  NoAdmission = NoAdmission
  NoDeployment = NoDeployment
SPECIFICATION FairSpec
PROPERTIES StaleAdmissionStaysStale ImplementsContract CircuitsRecover
