--------------------------- MODULE MCSpendControl ---------------------------
(***************************************************************************)
(* Instances of SpendControl for TLC.  Reservations: one client's budget   *)
(* and the budget of one of its workloads; a request with a retry, priced  *)
(* in two bands, a request with one attempt at one rate, and a request of  *)
(* the next day, whose evidence is not valid before; a fourth request      *)
(* leaves out its workload's budget and is priced by a provider's family,  *)
(* which has no evidence.  Ledger: a client's monthly limit and a          *)
(* workload's daily one, and calls of both workloads.                      *)
(***************************************************************************)
EXTENDS SpendControl, TLC

CONSTANTS e1, e2, e3, e4, a1, a2, b1, c1, x1, d1, d2, client, workload, p1, p2, k1, n1, n2, n3,
          tenant, chat, batch

MCExecutionOf == a1 :> e1 @@ a2 :> e1 @@ b1 :> e2 @@ c1 :> e3 @@ x1 :> e4
MCDeploymentOf == a1 :> d1 @@ a2 :> d1 @@ b1 :> d2 @@ c1 :> d1 @@ x1 :> d2
MCPlanOf == e1 :> p1 @@ e2 :> p1 @@ e3 :> p2 @@ e4 :> p1
MCScopesOf == e1 :> {client, workload} @@ e2 :> {client} @@ e3 :> {client, workload} @@ e4 :> {client}
MCAdmittedOn == e1 :> 0 @@ e2 :> 0 @@ e3 :> 1 @@ e4 :> 0
MCAttribution == [e \in Executions |->
                    [client |-> tenant, workload |-> IF e = e2 THEN batch ELSE chat]]
MCScopeKey == [sc \in Scopes |-> [client |-> tenant, window |-> "monthly", start |-> 0,
                                  workload |-> IF sc = client THEN NoWorkload ELSE chat]]
MCMonthStart == [d \in 0..1 |-> 0]
MCPosition == [x \in Slots |-> [fallback |-> 0, attempt |-> IF x = a2 THEN 2 ELSE 1]]
MCCeiling == client :> 10 @@ workload :> 8
MCOpeningSettled == client :> 1 @@ workload :> 0
MCOpeningHeld == client :> 0 @@ workload :> 1

\* Half micros per token: the long band is dearer, and cached input cheaper.
Banded == [threshold |-> 1,
           short |-> [ordinary |-> 1, read |-> 0, write |-> 1, output |-> 1],
           long  |-> [ordinary |-> 2, read |-> 1, write |-> 2, output |-> 1]]
Repriced == [Banded EXCEPT !.long.output = 3]
Flat == [input |-> 1, output |-> 2]

Evidence1 == [id |-> 1, version |-> 2, family |-> "synthetic-text-v2", key |-> k1, plan |-> p1,
              deployment |-> d1, model |-> Banded, inputBound |-> 2, maxOutput |-> 1,
              from |-> 0, until |-> 1]
Evidence2 == [id |-> 2, version |-> 1, family |-> "synthetic_text_v1", plan |-> p1,
              deployment |-> d2, model |-> Flat, inputBound |-> 2, maxOutput |-> 2]
Evidence3 == [Evidence1 EXCEPT !.id = 3, !.plan = p2, !.from = 1, !.until = 2]
Evidence4 == [Evidence2 EXCEPT !.id = 4, !.family = "openai_responses"]

MCPreparations == {Evidence1, Evidence2, Evidence3}
MCEvidences == MCPreparations \cup {Evidence4}
MCEvidenceOf == a1 :> Evidence1 @@ a2 :> Evidence1 @@ b1 :> Evidence2 @@ c1 :> Evidence3 @@ x1 :> Evidence4
MCBound == [x \in Slots |-> BoundMicros(EvidenceOf[x])]
MCSchedules == {Repriced}

\* Usage at the bound of banded evidence in its upper band and below the bound of
\* flat evidence, and partly cached usage beyond the limits of both.
Used(i, r, w, o) == [input |-> i, read |-> r, write |-> w, output |-> o, reasoning |-> 0,
                     total |-> i + o]
MCUsages == {Used(2, 0, 0, 1), Used(3, 1, 1, 3)}
MCCosts == {EstimatedMicros(b, u) : b \in MCEvidences, u \in MCUsages}

MCClient == n1 :> tenant @@ n2 :> tenant @@ n3 :> tenant
MCWorkload == n1 :> chat @@ n2 :> batch @@ n3 :> chat
MCLimits == << [client |-> tenant, workload |-> AnyWorkload, window |-> "monthly", micros |-> 3],
               [client |-> tenant, workload |-> chat, window |-> "daily", micros |-> 2] >>

\* Two calls of one workload.
Symmetry == Permutations({n1, n3})
=============================================================================
