---------------------------- MODULE MeteredSpend ----------------------------
(***************************************************************************)
(* The reservation store together with the evidence its amounts come from  *)
(* (adapters/spend_cost_evidence_synthetic.py and its version 2).          *)
(*                                                                         *)
(* Before an execution is reserved, the bound of each of its attempts is   *)
(* looked up among the registered preparations.  After an attempt was      *)
(* dispatched, a report of its usage may be registered, and settlement     *)
(* charges what the report finalizes to.  A worker that has no final       *)
(* report settles with an unknown cost.  Prices may change at any time.    *)
(***************************************************************************)
EXTENDS SpendAdmission, SpendCostEvidence

CONSTANTS Evidences,    \* the cost bounds that were declared
          Preparations, \* those the bound lookup has registered
          EvidenceOf,   \* EvidenceOf[x]: the evidence slot x was allocated from
          PlanOf,       \* PlanOf[e]: policy, plan, registry and retry digests
          Attribution,  \* Attribution[e]: the client and workload of request e
          ScopeKey,     \* ScopeKey[sc]: client, workload, window and start of a budget
          NoWorkload,   \* a budget that names no workload
          MonthStart,   \* MonthStart[d]: the first day of the month of date d
          Position,     \* Position[x]: fallback_index and attempt_number of slot x
          Schedules,    \* the priced models a control snapshot may name
          Usages,       \* the counts providers report
          Incomplete,   \* an inspected report that is not final
          NoReport,     \* no report is registered
          Refused       \* SpendCostEvidenceError or an inconsistent request

ASSUME EvidenceAssumption ==
  /\ Preparations \subseteq Evidences /\ EvidenceOf \in [Slots -> Evidences]
  /\ \A b \in Evidences :
       /\ b.version \in {1, 2} /\ b.inputBound \in Nat /\ b.maxOutput \in Nat
       /\ b.model \in IF b.version = 1 THEN TextModel ELSE CacheModel
  /\ \A b, c \in Evidences : b.id = c.id => b = c
  /\ Usages \subseteq Usage
  /\ Incomplete \notin Usages /\ NoReport \notin Usages \cup {Incomplete}
  /\ \A x \in Slots : Bound[x] = BoundMicros(EvidenceOf[x])
  /\ \A b \in Evidences, u \in Usages :
       Complete(b, u) /\ EstimatedMicros(b, u) <= MaxMicros => EstimatedMicros(b, u) \in Costs

VARIABLES quoted,   \* executions whose bounds were looked up
          current,  \* the control snapshot: the current model of each priced key
          report    \* the usage report registered for the dispatch of each slot

metering == <<quoted, current, report>>

\* _limits_for: the budgets that govern request e.
LimitsOf(e) ==
  {sc \in Scopes :
     /\ ScopeKey[sc].client = Attribution[e].client
     /\ ScopeKey[sc].workload \in {NoWorkload, Attribution[e].workload}
     /\ ScopeKey[sc].start = IF ScopeKey[sc].window = "daily" THEN AdmittedOn[e]
                             ELSE MonthStart[AdmittedOn[e]]}

\* _require_allocation_sequence: candidates are numbered from 0 and their
\* attempts from 1 without gaps, each candidate is one deployment under one
\* evidence, and no deployment is two candidates.
InSequence(e) ==
  LET group(i) == {x \in SlotsOf(e) : Position[x].fallback = i}
      indices  == {Position[x].fallback : x \in SlotsOf(e)}
  IN  /\ indices = 0..(Cardinality(indices) - 1)
      /\ \A i \in indices : {Position[x].attempt : x \in group(i)} = 1..Cardinality(group(i))
      /\ \A x, y \in SlotsOf(e) :
           /\ Position[x].fallback = Position[y].fallback => EvidenceOf[x] = EvidenceOf[y]
           /\ Position[x].fallback = Position[y].fallback <=> DeploymentOf[x] = DeploymentOf[y]

\* The requests the store is constructed with: complete in their budgets and
\* well-formed in their attempts.
Approved == {e \in Executions : ScopesOf[e] = LimitsOf(e) /\ InSequence(e)}

\* The only family each version's evidence accepts.
SyntheticFamily(version) == IF version = 1 THEN "synthetic_text_v1" ELSE "synthetic-text-v2"

\* Version 2 evidence is issued only under the current model of its key and in
\* its window; version 1 knows neither.
Current(b) == b.version = 2 => current[b.key] = b.model /\ b.from <= day /\ day < b.until

\* bound: the exact registered preparation, or an error.
Issued(b) == b.family = SyntheticFamily(b.version) /\ b \in Preparations /\ Current(b)

\* SpendUsageFinalityRequest: the evidence is the one slot x was allocated from,
\* in deployment, amount and identity, and belongs to the execution's plan.
Correlated(b, x) ==
  /\ b.plan = PlanOf[ExecutionOf[x]] /\ b.deployment = DeploymentOf[x]
  /\ b.id = EvidenceOf[x].id /\ BoundMicros(b) = Bound[x]

\* The states of a slot that was dispatched.
Dispatched == {"may_have_executed", "settled", "unknown"}

\* finalize: the report registered as r, when it is the report of this very
\* evidence and dispatch.
Finalized(b, x, r) ==
  IF slot[x] \in Dispatched /\ report[r] # NoReport /\ r = x
       /\ b.family = SyntheticFamily(b.version) /\ Correlated(b, x)
  THEN report[r] ELSE Refused

-----------------------------------------------------------------------------
\* The evidence of version 2, and the family, model and profile it is priced by.
Partitions == {b \in Evidences : b.version = 2}

Keys == {b.key : b \in Partitions}

MeteredInit ==
  /\ Init /\ quoted = {} /\ report = [x \in Slots |-> NoReport]
  /\ current = [k \in Keys |-> (CHOOSE b \in Partitions : b.key = k).model]

\* The bounds of every attempt of execution e are looked up.
Quote(e) ==
  /\ e \notin quoted /\ \A x \in SlotsOf(e) : Issued(EvidenceOf[x])
  /\ quoted' = quoted \cup {e}
  /\ UNCHANGED <<vars, current, report>>

\* A new control snapshot names another model for key k.
Reprice(k, m) ==
  /\ current[k] # m
  /\ current' = [current EXCEPT ![k] = m]
  /\ UNCHANGED <<vars, quoted, report>>

\* A report for the dispatch of slot x is registered, once, however late.
Register(x, u) ==
  /\ slot[x] \in Dispatched /\ report[x] = NoReport
  /\ u # Incomplete =>
       Complete(EvidenceOf[x], u) /\ EstimatedMicros(EvidenceOf[x], u) <= MaxMicros
  /\ report' = [report EXCEPT ![x] = u]
  /\ UNCHANGED <<vars, quoted, current>>

\* A worker settles slot x with what report r finalizes to under evidence b.
SettleFinal(b, x, r) ==
  LET final == Finalized(b, x, r)
  IN  /\ final # Refused
      /\ Settle(x, IF final = Incomplete THEN Unknown ELSE EstimatedMicros(b, final))
      /\ UNCHANGED metering

\* A worker without a report settles with an unknown cost.
SettleUnknown(x) == Settle(x, Unknown) /\ UNCHANGED metering

\* A request that is not approved conflicts.
MeteredReserve(e) == e \in Approved \cap quoted /\ Reserve(e) /\ UNCHANGED metering

MeteredNext ==
  \/ \E e \in Executions : Quote(e) \/ MeteredReserve(e) \/ (Close(e) /\ UNCHANGED metering)
  \/ \E k \in Keys, m \in Schedules : Reprice(k, m)
  \/ \E x \in Slots :
       \/ (Dispatch(x) /\ UNCHANGED metering)
       \/ SettleUnknown(x)
       \/ \E u \in Usages \cup {Incomplete} : Register(x, u)
       \/ \E b \in Evidences, r \in Slots : SettleFinal(b, x, r)
  \/ ((Tick \/ Midnight) /\ UNCHANGED metering)

MeteredSpec == MeteredInit /\ [][MeteredNext]_<<vars, metering>>

-----------------------------------------------------------------------------
(* Correctness.                                                            *)

\* What slot x was charged above its bound although nothing else was reserved:
\* only usage beyond the token limits of its evidence may do that.
Excess(x) ==
  IF slot[x] = "settled" /\ TokenBoundExceeded(EvidenceOf[x], report[x])
  THEN MaxOf(0, cost[x] - Bound[x]) ELSE 0

\* Concurrent reservations never admit more than a ceiling.  Every settled slot
\* is charged the price of the usage reported for its own dispatch, under the
\* model its bound was made from, and exposure passes a ceiling only by what
\* was used beyond the token limits of the evidence.
CeilingHolds ==
  /\ \A x \in Slots :
       slot[x] = "settled" =>
         report[x] \in Usages /\ cost[x] = EstimatedMicros(EvidenceOf[x], report[x])
  /\ \A sc \in Scopes :
       Exposure(sc) <= MaxOf(Ceiling[sc], OpeningSettled[sc] + OpeningHeld[sc])
                         + Total([x \in Slots |-> Excess(x)], In(sc))
=============================================================================
