--------------------------- MODULE SpendAdmission ---------------------------
(***************************************************************************)
(* The spend reservation store (adapters/spend_admission_memory.py): an    *)
(* execution reserves the bounds of all its possible attempts in every     *)
(* budget that applies, claims one attempt slot at a time before it calls  *)
(* the provider, settles each claim with a measured or an unknown cost,    *)
(* and closes its journal.                                                 *)
(*                                                                         *)
(* Every operation runs under one lock and publishes one complete image,   *)
(* so it is one step.  An operation that is repeated resolves to what was  *)
(* recorded, and one that is refused changes nothing: both are stuttering  *)
(* steps.  A lease is the time left to it, counted down by Tick.           *)
(***************************************************************************)
EXTENDS Integers, FiniteSets, FiniteSetsExt

CONSTANTS Executions,   \* the approved reservation requests
          Slots,        \* all their attempt allocations
          Scopes,       \* budget buckets: client, workload and window
          Deployments,
          ExecutionOf,  \* ExecutionOf[x]: the request slot x belongs to
          DeploymentOf, \* DeploymentOf[x]: the deployment slot x may call
          Bound,        \* Bound[x]: bound_micros of slot x
          ScopesOf,     \* ScopesOf[e]: the budgets that apply to request e
          AdmittedOn,   \* AdmittedOn[e]: the UTC date request e is admitted on
          Ceiling, OpeningSettled, OpeningHeld,  \* per scope
          Lease,        \* owner_lease_seconds in ticks
          Costs,        \* measured costs
          Unknown,      \* estimated_micros is None
          MaxMicros,    \* MAX_SPEND_MICROS
          LastDay       \* bound: the days the clock may reach

ASSUME SpendAssumption ==
  /\ ExecutionOf \in [Slots -> Executions] /\ DeploymentOf \in [Slots -> Deployments]
  /\ Bound \in [Slots -> 0..MaxMicros] /\ ScopesOf \in [Executions -> SUBSET Scopes]
  /\ AdmittedOn \in [Executions -> Nat] /\ Ceiling \in [Scopes -> 1..MaxMicros]
  /\ OpeningSettled \in [Scopes -> 0..MaxMicros] /\ OpeningHeld \in [Scopes -> 0..MaxMicros]
  /\ \A sc \in Scopes : OpeningSettled[sc] + OpeningHeld[sc] <= MaxMicros
  /\ Lease \in Nat \ {0} /\ Costs \subseteq 0..MaxMicros /\ Unknown \notin Costs
  /\ MaxMicros \in Nat /\ LastDay \in Nat

ASSUME FiniteAssumption == IsFiniteSet(Slots)

VARIABLES settled,    \* settled_micros per scope
          held,       \* held_micros per scope
          record,     \* what the image holds of each execution
          slot,       \* SpendAttemptState of each slot
          cost,       \* the settlement of each slot
          suspended,  \* deployments that exceeded a bound
          failed,     \* _failed
          left,       \* what is left of each reservation's lease
          day         \* the UTC date

vars == <<settled, held, record, slot, cost, suspended, failed, left, day>>

SlotsOf(e) == {x \in Slots : ExecutionOf[x] = e}

Total(f, S) == MapThenSumSet(LAMBDA x : f[x], S)

Exposure(sc) == settled[sc] + held[sc]

TypeOK ==
  /\ settled \in [Scopes -> 0..MaxMicros] /\ held \in [Scopes -> 0..MaxMicros]
  /\ \A sc \in Scopes : Exposure(sc) <= MaxMicros
  /\ record \in [Executions -> {"absent", "denied", "open", "closed"}]
  /\ slot \in [Slots -> {"none", "reserved", "may_have_executed", "settled", "unknown",
                         "closed_unused"}]
  /\ cost \in [Slots -> Costs \cup {Unknown}]
  /\ suspended \subseteq Deployments /\ failed \in BOOLEAN
  /\ left \in [Executions -> 0..Lease] /\ day \in 0..LastDay

Init ==
  /\ settled = OpeningSettled /\ held = OpeningHeld
  /\ record = [e \in Executions |-> "absent"]
  /\ slot = [x \in Slots |-> "none"] /\ cost = [x \in Slots |-> Unknown]
  /\ suspended = {} /\ failed = FALSE
  /\ left = [e \in Executions |-> 0] /\ day = 0

-----------------------------------------------------------------------------
\* SpendBudgetSnapshot.permits_allocation.
PermitsAllocation(sc, amount) ==
  Exposure(sc) < Ceiling[sc] /\ Exposure(sc) + amount <= Ceiling[sc]

\* _live: an open journal whose lease has not run out.
Live(e) == record[e] = "open" /\ left[e] > 0

\* A budget after a change that applies to the scopes of execution e.
Changed(budget, e, delta) ==
  [sc \in Scopes |-> IF sc \in ScopesOf[e] THEN budget[sc] + delta ELSE budget[sc]]

\* reserve: the whole intent everywhere, or an immutable denial.  A date that
\* has passed or a suspended deployment refuses without a record.
Reserve(e) ==
  LET amount == Total(Bound, SlotsOf(e))
  IN  /\ ~failed /\ record[e] = "absent" /\ day = AdmittedOn[e]
      /\ \A x \in SlotsOf(e) : DeploymentOf[x] \notin suspended
      /\ IF \A sc \in ScopesOf[e] : PermitsAllocation(sc, amount)
         THEN /\ record' = [record EXCEPT ![e] = "open"]
              /\ slot' = [x \in Slots |-> IF x \in SlotsOf(e) THEN "reserved" ELSE slot[x]]
              /\ held' = Changed(held, e, amount)
              /\ left' = [left EXCEPT ![e] = Lease]
         ELSE /\ record' = [record EXCEPT ![e] = "denied"]
              /\ UNCHANGED <<slot, held, left>>
      /\ UNCHANGED <<settled, cost, suspended, failed, day>>

\* dispatch: claims slot x once, while no other claim of its execution is open.
Dispatch(x) ==
  LET e == ExecutionOf[x]
  IN  /\ ~failed /\ slot[x] = "reserved" /\ Live(e)
      /\ DeploymentOf[x] \notin suspended
      /\ \A y \in SlotsOf(e) : slot[y] # "may_have_executed"
      /\ slot' = [slot EXCEPT ![x] = "may_have_executed"]
      /\ UNCHANGED <<settled, held, record, cost, suspended, failed, left, day>>

\* Seeded fault: an unknown outcome gives its allocation back.
SettledHeldReleasing(x, c) == Changed(held, ExecutionOf[x], - Bound[x])

\* held_micros after slot x settles with c: only a known cost releases.
SettledHeld(x, c) == IF c = Unknown THEN held ELSE Changed(held, ExecutionOf[x], - Bound[x])

\* settled_micros after slot x settles with c.
SettledSettled(x, c) == Changed(settled, ExecutionOf[x], IF c = Unknown THEN 0 ELSE c)

\* Whether the amounts of every scope stay representable.
Fits(h, t) == \A sc \in Scopes : h[sc] + t[sc] <= MaxMicros

\* Seeded fault: a settlement is accepted although the lease has run out.
SettlesLate(e) == record[e] = "open"

\* What settle asks of the journal of execution e.
Settles(e) == Live(e)

\* Seeded fault: a measured cost may replace an unknown one.
UnsettledOrUnknown(x) == slot[x] \in {"may_have_executed", "unknown"}

\* No settlement of slot x's claim is recorded yet.
Unsettled(x) == slot[x] = "may_have_executed"

\* settle: a measured cost, which may truthfully exceed its bound, or an
\* unknown one.  Amounts that cannot be represented stop the store.
Settle(x, c) ==
  LET e == ExecutionOf[x]
  IN  /\ ~failed /\ Unsettled(x) /\ Settles(e)
      /\ IF Fits(SettledHeld(x, c), SettledSettled(x, c))
         THEN /\ slot' = [slot EXCEPT ![x] = IF c = Unknown THEN "unknown" ELSE "settled"]
              /\ cost' = [cost EXCEPT ![x] = c]
              /\ held' = SettledHeld(x, c) /\ settled' = SettledSettled(x, c)
              /\ suspended' = IF c # Unknown /\ c > Bound[x]
                              THEN suspended \cup {DeploymentOf[x]} ELSE suspended
              /\ failed' = failed
         ELSE failed' = TRUE /\ UNCHANGED <<slot, cost, held, settled, suspended>>
      /\ UNCHANGED <<record, left, day>>

\* The state slot x is left in by close.
ClosedSlot(x) ==
  CASE slot[x] = "reserved" -> "closed_unused"
    [] slot[x] = "may_have_executed" -> "unknown"
    [] OTHER -> slot[x]

\* close: releases the slots that were never claimed.
Close(e) ==
  LET unused == {x \in SlotsOf(e) : slot[x] = "reserved"}
  IN  /\ ~failed /\ Live(e)
      /\ record' = [record EXCEPT ![e] = "closed"]
      /\ slot' = [x \in Slots |-> IF x \in SlotsOf(e) THEN ClosedSlot(x) ELSE slot[x]]
      /\ held' = Changed(held, e, - Total(Bound, unused))
      /\ UNCHANGED <<settled, cost, suspended, failed, left, day>>

\* The monotonic clock advances.
Tick ==
  /\ \E e \in Executions : left[e] > 0
  /\ left' = [e \in Executions |-> IF left[e] > 0 THEN left[e] - 1 ELSE 0]
  /\ UNCHANGED <<settled, held, record, slot, cost, suspended, failed, day>>

\* The UTC date changes.
Midnight ==
  /\ day < LastDay
  /\ day' = day + 1
  /\ UNCHANGED <<settled, held, record, slot, cost, suspended, failed, left>>

Next ==
  \/ \E e \in Executions : Reserve(e) \/ Close(e)
  \/ \E x \in Slots : Dispatch(x) \/ \E c \in Costs \cup {Unknown} : Settle(x, c)
  \/ Tick \/ Midnight

Spec == Init /\ [][Next]_vars

-----------------------------------------------------------------------------
(* Correctness.                                                            *)

Retained == {"reserved", "may_have_executed", "unknown"}

In(sc) == {x \in Slots : sc \in ScopesOf[ExecutionOf[x]]}

\* Accounting: every budget is its opening amount plus the measured cost of
\* each settled slot and the full bound of each slot that is reserved, may
\* have executed or ended unknown.
Conservation ==
  \A sc \in Scopes :
    /\ settled[sc] = OpeningSettled[sc] + Total(cost, {x \in In(sc) : slot[x] = "settled"})
    /\ held[sc] = OpeningHeld[sc] + Total(Bound, {x \in In(sc) : slot[x] \in Retained})

\* The journals: slots exist exactly under a reservation, a closed journal has
\* no claimable or open slot, and at most one claim of an execution is open.
JournalsCohere ==
  \A e \in Executions :
    /\ \A x \in SlotsOf(e) :
         /\ slot[x] = "none" <=> record[e] \in {"absent", "denied"}
         /\ record[e] = "closed" => slot[x] \notin {"reserved", "may_have_executed"}
         /\ slot[x] = "closed_unused" => record[e] = "closed"
    /\ \A x, y \in SlotsOf(e) :
         slot[x] = "may_have_executed" /\ slot[y] = "may_have_executed" => x = y

\* A deployment is suspended exactly while a settlement shows that it exceeded
\* a bound.
SuspensionIsEvidence ==
  suspended = {DeploymentOf[x] : x \in {y \in Slots : slot[y] = "settled" /\ cost[y] > Bound[y]}}

\* Whatever sequence of calls is made, the store never publishes an image its
\* own validation (_validated_image) would refuse: amounts are representable,
\* conserved, and backed by coherent journals and suspensions.
ImageIsValid == TypeOK /\ Conservation /\ JournalsCohere /\ SuspensionIsEvidence

\* A slot that may have executed stays charged: it only ever becomes settled
\* with a measured cost, or unknown for good, and neither is revised.
RetentionStep ==
  \A x \in Slots :
    /\ slot[x] = "unknown" => slot'[x] = "unknown"
    /\ slot[x] = "settled" => slot'[x] = "settled" /\ cost'[x] = cost[x]
    /\ slot[x] = "may_have_executed" =>
         \/ slot'[x] \in {"may_have_executed", "unknown"}
         \/ slot'[x] = "settled" /\ cost'[x] # Unknown

ExposureIsRetained == [][RetentionStep]_vars

\* What an execution has ended, by closing, denial or expiry, stays as it is:
\* late calls of its owner find it frozen.
FrozenStep ==
  \A e \in Executions :
    record[e] # "absent" /\ ~Live(e) =>
      /\ record'[e] = record[e]
      /\ \A x \in SlotsOf(e) : slot'[x] = slot[x] /\ cost'[x] = cost[x]

FrozenAfterEnd == [][FrozenStep]_vars
=============================================================================
