CONSTANTS
  a1 = a1
  a2 = a2
  d1 = d1
  d2 = d2
  Deployments = {d1, d2}
  Attempts = {a1, a2}
  Generations = {g1, g2, g3, g4, g5}
  FirstGeneration <- MCFirstGeneration
  FailureThreshold = 1
  Cooldown = 1
  ProbeLease = 2
  Settings <- MCSettings
  TrustedKeys = {"k1"}
  Self = "gateway"
  MaxLifetime = 3
  Envelopes <- MCEnvelopes
  Mismatches <- MCMismatches
  NoEvidence = NoEvidence
  NoAttempt = NoAttempt
  NoAdmission = NoAdmission
  NoDeployment = NoDeployment
SPECIFICATION GSpec
SYMMETRY Symmetry
INVARIANTS CallsBounded ProbeIsReturned AccountedWithoutDeadline CallsAreCovered EvidenceMatchesCalls
PROPERTIES SuccessIsEarned AlwaysAdvances
