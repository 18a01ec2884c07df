\* Room for two samples, a clock that may or may not be set back, one batch
\* and one snapshot.
SPECIFICATION HandoffSpec
CONSTANTS
  a1 = a1
  a2 = a2
  a3 = a3
  a4 = a4
  r1 = r1
  t1 = t1
  t2 = t2
  Attempts = {a1, a2, a3, a4}
  Retried <- MCRetried
  NoAttempt = NoAttempt
  Request <- MCRequest
  FallbackIndex <- MCFallbackIndex
  Number <- MCNumber
  Target <- MCTarget
  Latency <- MCLatency
  Endings <- MCEndings
  MaxSamples = 2
  MaxTime = 3
  NoEvidence = NoEvidence
  Rejected = Rejected
  NoFile = NoFile
  NoBatch = NoBatch
INVARIANTS WindowIsComplete EvidenceStaysTrue
CHECK_DEADLOCK FALSE
