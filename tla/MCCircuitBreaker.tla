--------------------------- MODULE MCCircuitBreaker -------------------------
(* CircuitBreaker on one deployment and a few concurrent attempts.         *)
EXTENDS CircuitBreaker

MCFirstGeneration ==
  CHOOSE f \in [Deployments -> Generations] : \A d, e \in Deployments : f[d] = f[e] => d = e
=============================================================================
