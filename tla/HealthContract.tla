--------------------------- MODULE HealthContract ---------------------------
(***************************************************************************)
(* What the deployment-health port promises to the execution services      *)
(* (application/health.py, DeploymentHealthPort), with no clocks, leases,  *)
(* generations or lazy refresh: each deployment has a circuit mode, and    *)
(* each attempt governs at most one circuit.  An attempt governs a circuit *)
(* while its reports may still move it.                                    *)
(***************************************************************************)
CONSTANTS Deployments, Attempts, NoDeployment

VARIABLES mode,     \* mode[d]: the circuit as every caller observes it
          governs   \* governs[a]: the circuit attempt a may still move

contractVars == <<mode, governs>>

Governors(d) == {a \in Attempts : governs[a] = d}

\* The attempts that keep governing once nobody governs a circuit of D.
ReleasedFrom(D) ==
  [a \in Attempts |-> IF governs[a] \in D THEN NoDeployment ELSE governs[a]]

Init ==
  /\ mode = [d \in Deployments |-> "closed"]
  /\ governs = [a \in Attempts |-> NoDeployment]

(***************************************************************************)
(* allow_request: every attempt may govern a closed circuit, a half-open   *)
(* one admits a governor only when it has none, an open one admits nobody. *)
(* A probe keeps its identity: it does not move to another circuit.        *)
(***************************************************************************)
Admit(a, d) ==
  /\ \/ mode[d] = "closed"
     \/ mode[d] = "half_open" /\ Governors(d) = {}
  /\ governs[a] # NoDeployment => mode[governs[a]] # "half_open"
  /\ governs' = [governs EXCEPT ![a] = d]
  /\ mode' = mode

\* record_failure: enough failures open a closed circuit, one failed probe
\* re-opens a half-open one; nobody governs an open circuit.
Trip(d) ==
  /\ mode[d] = "closed" \/ (mode[d] = "half_open" /\ Governors(d) # {})
  /\ mode' = [mode EXCEPT ![d] = "open"]
  /\ governs' = ReleasedFrom({d})

\* record_success: only the probe of a half-open circuit closes it.
Recover(d) ==
  /\ mode[d] = "half_open" /\ Governors(d) # {}
  /\ mode' = [mode EXCEPT ![d] = "closed"]
  /\ governs' = ReleasedFrom({d})

\* release_request, or a permanent failure of the probe: the slot is free.
Surrender(d) ==
  /\ mode[d] = "half_open" /\ Governors(d) # {}
  /\ mode' = mode
  /\ governs' = ReleasedFrom({d})

(***************************************************************************)
(* Time passes: some open circuits C cool down, some probes L lose their   *)
(* lease.                                                                  *)
(***************************************************************************)
Elapse(C, L) ==
  /\ \A d \in C : mode[d] = "open"
  /\ \A d \in L : mode[d] = "half_open"
  /\ mode' = [d \in Deployments |-> IF d \in C THEN "half_open" ELSE mode[d]]
  /\ governs' = ReleasedFrom(L)

Next ==
  \/ \E a \in Attempts, d \in Deployments : Admit(a, d)
  \/ \E d \in Deployments : Trip(d) \/ Recover(d) \/ Surrender(d)
  \/ \E C, L \in SUBSET Deployments : Elapse(C, L)

Spec == Init /\ [][Next]_contractVars

(***************************************************************************)
(* A tracker shared over a server forgets deployments F that stopped       *)
(* reporting.  It may never forget an open circuit, nor a half-open one    *)
(* that is being probed.  Time moves every circuit at once, so some may    *)
(* cool down or lose their probe in the step that forgets others.          *)
(***************************************************************************)
ElapseForgetting(C, L, F) ==
  /\ \A d \in F : mode[d] = "closed" \/ (mode[d] = "half_open" /\ Governors(d) = {})
  /\ \A d \in C : mode[d] = "open"
  /\ \A d \in L : mode[d] = "half_open"
  /\ mode' = [d \in Deployments |-> IF d \in F THEN "closed"
                                   ELSE IF d \in C THEN "half_open" ELSE mode[d]]
  /\ governs' = ReleasedFrom(L \cup F)

\* The caller of an attempt on a closed circuit died before it reported.
Abandon(a) ==
  /\ governs[a] # NoDeployment /\ mode[governs[a]] = "closed"
  /\ governs' = [governs EXCEPT ![a] = NoDeployment]
  /\ mode' = mode

SharedNext ==
  \/ Next
  \/ \E a \in Attempts : Abandon(a)
  \/ \E C, L, F \in SUBSET Deployments : ElapseForgetting(C, L, F)

SharedSpec == Init /\ [][SharedNext]_contractVars
=============================================================================
