\* Two workers, four tokens of two materials, a lease of two ticks under a clock that advances.
SPECIFICATION CredentialFairSpec
CONSTANTS
  g1 = g1
  g2 = g2
  g3 = g3
  g4 = g4
  m1 = m1
  m2 = m2
  Generations = {g1, g2, g3, g4}
  Materials = {m1, m2}
  Epoch <- MCEpoch
  Material <- MCMaterial
  Attempts = {a1, a2}
  Fences = {f1, f2, f3, f4}
  Lease = 2
  NoGeneration = NoGeneration
  NoAttempt = NoAttempt
  NoFence = NoFence
  NoReceipt = NoReceipt
INVARIANTS RecordIsValid
PROPERTIES OnlyLiveOwnerPromotes RetiredStaysRetired LeaseEnds
CHECK_DEADLOCK FALSE
