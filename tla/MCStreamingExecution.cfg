\* Two deployments, a retry and a fallback, with and without a deadline; the
\* provider may fall silent.
SPECIFICATION FairSpec
CONSTANTS
  Deployments = {d1, d2}
  NoDeployment = NoDeployment
  Deltas = {x}
  MaxAttempts = 2
  MaxFallbacks = 1
  Timeouts = {0, 2}
  MaxSequence = 4
INVARIANTS LifecycleIsWellFormed AccountedWithoutDeadline
PROPERTIES StoredIsShown NoReplayAfterOutput StreamEnds
