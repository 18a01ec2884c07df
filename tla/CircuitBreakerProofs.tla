------------------------ MODULE CircuitBreakerProofs ------------------------
(***************************************************************************)
(* CircuitBreaker's type invariant, slot invariant, fencing and recovery   *)
(* rules, and its refinement of HealthContract, for any deployments,       *)
(* attempts, generations and policy.                                       *)
(***************************************************************************)
EXTENDS CircuitBreaker, TLAPS

-----------------------------------------------------------------------------
(* What the tracker's helpers do to one deployment's state.                *)

\* Only a half-open circuit has an owner, and only an owner has a lease.
Slot(s) ==
  /\ s.owner # NoAttempt => s.circuit = "half_open"
  /\ s.lease > 0 => s.owner # NoAttempt

\* t continues the regime of s: at most the cooldown's end was noticed.
Continues(s, t) ==
  /\ t.generation = s.generation
  /\ t.owner = s.owner
  /\ t.lease = s.lease
  /\ t.circuit = Cooled(s).circuit

\* t differs from s in no field that tells regimes apart.
SameRegime(s, t) ==
  /\ t.generation = s.generation
  /\ t.owner = s.owner
  /\ t.lease = s.lease
  /\ t.circuit = s.circuit

\* t starts a regime under generation g with a free slot.
Restarts(t, g) ==
  /\ t.generation = g
  /\ t.owner = NoAttempt
  /\ t.lease = 0

\* Each field may be set on its own.
LEMMA SetCircuit ==
  \A s \in Health, c \in {"closed", "open", "half_open"} : [s EXCEPT !.circuit = c] \in Health
  BY DEF Health

LEMMA SetCooldown ==
  \A s \in Health, n \in 0..Cooldown : [s EXCEPT !.cooldown = n] \in Health
  BY DEF Health

LEMMA SetGeneration ==
  \A s \in Health, g \in Generations : [s EXCEPT !.generation = g] \in Health
  BY DEF Health

LEMMA SetOwner ==
  \A s \in Health, a \in Attempts \cup {NoAttempt} : [s EXCEPT !.owner = a] \in Health
  BY DEF Health

LEMMA SetLease ==
  \A s \in Health, n \in 0..ProbeLease : [s EXCEPT !.lease = n] \in Health
  BY DEF Health

LEMMA SetFailures ==
  \A s \in Health, n \in 0..FailureThreshold : [s EXCEPT !.failures = n] \in Health
  BY DEF Health

\* The boundary values of the counters are in their ranges.
LEMMA Bounds ==
  /\ 0 \in 0..Cooldown /\ Cooldown \in 0..Cooldown
  /\ 0 \in 0..ProbeLease /\ ProbeLease \in 0..ProbeLease
  /\ 0 \in 0..FailureThreshold /\ FailureThreshold \in 0..FailureThreshold
  BY PolicyAssumption

\* The fields of a cooled and of a retired state.
LEMMA CooledFacts ==
  ASSUME NEW s \in Health, Slot(s)
  PROVE  /\ Cooled(s) \in Health
         /\ Slot(Cooled(s))
         /\ Continues(s, Cooled(s))
         /\ Cooled(s).circuit = "closed" <=> s.circuit = "closed"
  BY PolicyAssumption, NullAssumption DEF Health, Slot, Cooled, Continues

LEMMA RetiredFacts ==
  ASSUME NEW s \in Health, NEW g \in Generations
  PROVE  /\ Retired(s, g) \in Health
         /\ Slot(Retired(s, g))
         /\ Restarts(Retired(s, g), g)
         /\ Retired(s, g).circuit = s.circuit
  <1>1. Retired(s, g) \in Health
    <2>1. 0 \in 0..ProbeLease /\ NoAttempt \in Attempts \cup {NoAttempt}
      BY Bounds
    <2> QED BY <2>1, SetGeneration, SetOwner, SetLease, Zenon DEF Retired
  <1>2. Restarts(Retired(s, g), g) /\ Retired(s, g).circuit = s.circuit
    BY DEF Health, Retired, Restarts
  <1> QED BY <1>1, <1>2 DEF Slot, Restarts

\* Refreshing keeps the state well formed; it continues the regime or
\* restarts it, and never closes a circuit.
LEMMA RefreshedFacts ==
  ASSUME NEW s \in Health, NEW g \in Generations, Slot(s)
  PROVE  /\ Refreshed(s, g) \in Health
         /\ Slot(Refreshed(s, g))
         /\ Continues(s, Refreshed(s, g)) \/ Restarts(Refreshed(s, g), g)
         /\ Refreshed(s, g).circuit = Cooled(s).circuit
         /\ s.lease > 0 => Continues(s, Refreshed(s, g))
         /\ Refreshed(s, g).owner # NoAttempt =>
              Continues(s, Refreshed(s, g)) /\ s.lease > 0
  <1>1. CASE s.owner # NoAttempt /\ s.lease = 0
    BY <1>1, CooledFacts, RetiredFacts DEF Refreshed, Restarts
  <1>2. CASE ~(s.owner # NoAttempt /\ s.lease = 0)
    BY <1>2, CooledFacts, PolicyAssumption DEF Refreshed, Continues, Health
  <1> QED BY <1>1, <1>2

(***************************************************************************)
(* record_success and record_failure, on a refreshed state: the report     *)
(* continues the regime or restarts it; a circuit that is not closed       *)
(* closes, and an owned slot is freed, only on a matching probe's report.  *)
(***************************************************************************)
LEMMA SucceededFacts ==
  ASSUME NEW s \in Health, NEW g \in Generations, Slot(s),
         NEW a \in Attempts \cup {NoAttempt}, NEW m \in Admission \cup {NoAdmission}
  PROVE  /\ Succeeded(s, a, m, g) \in Health
         /\ Slot(Succeeded(s, a, m, g))
         /\ \/ SameRegime(s, Succeeded(s, a, m, g))
            \/ /\ Restarts(Succeeded(s, a, m, g), g)
               /\ Succeeded(s, a, m, g).circuit = "closed"
               /\ m # NoAdmission /\ Matches(s, a, m) /\ m.probe
  <1> DEFINE c == [s EXCEPT !.failures = 0, !.circuit = "closed", !.cooldown = 0]
  <1>1. c \in Health
    BY Bounds, SetCircuit, SetCooldown, SetFailures, Zenon
  <1>2. /\ c.generation = s.generation /\ c.owner = s.owner
        /\ c.lease = s.lease /\ c.circuit = "closed"
    BY DEF Health
  <1> HIDE DEF c
  <1>3. CASE ~Controls(s, a, m)
    BY <1>3 DEF Succeeded, SameRegime
  <1>4. CASE Controls(s, a, m) /\ IsProbe(m)
    <2>1. Succeeded(s, a, m, g) = Retired(c, g)
      BY <1>4 DEF Succeeded, c
    <2>2. m # NoAdmission /\ Matches(s, a, m) /\ m.probe
      BY <1>4 DEF Controls, IsProbe
    <2> QED BY <2>1, <2>2, <1>1, <1>2, RetiredFacts
  <1>5. CASE Controls(s, a, m) /\ ~IsProbe(m)
    <2>1. Succeeded(s, a, m, g) = c
      BY <1>5 DEF Succeeded, c
    <2>2. s.circuit = "closed"
      BY <1>5 DEF Controls, IsProbe, Matches
    <2> QED BY <2>1, <2>2, <1>1, <1>2 DEF Slot, SameRegime
  <1> QED BY <1>3, <1>4, <1>5

LEMMA FailedPermanentlyFacts ==
  ASSUME NEW s \in Health, NEW g \in Generations, Slot(s),
         NEW a \in Attempts \cup {NoAttempt}, NEW m \in Admission \cup {NoAdmission}
  PROVE  /\ FailedPermanently(s, a, m, g) \in Health
         /\ Slot(FailedPermanently(s, a, m, g))
         /\ FailedPermanently(s, a, m, g).circuit = s.circuit
         /\ \/ SameRegime(s, FailedPermanently(s, a, m, g))
            \/ Restarts(FailedPermanently(s, a, m, g), g)
  <1> DEFINE r == [s EXCEPT !.failures = 0]
  <1>1. r \in Health
    BY Bounds, SetFailures
  <1>2. SameRegime(s, r)
    BY DEF Health, SameRegime
  <1> HIDE DEF r
  <1>3. CASE ~Controls(s, a, m)
    BY <1>3 DEF FailedPermanently, SameRegime
  <1>4. CASE Controls(s, a, m) /\ IsProbe(m)
    <2>1. FailedPermanently(s, a, m, g) = Retired(r, g)
      BY <1>4 DEF FailedPermanently, r
    <2> QED BY <2>1, <1>1, <1>2, RetiredFacts DEF SameRegime
  <1>5. CASE Controls(s, a, m) /\ ~IsProbe(m)
    <2>1. FailedPermanently(s, a, m, g) = r
      BY <1>5 DEF FailedPermanently, r
    <2> QED BY <2>1, <1>1, <1>2 DEF Slot, SameRegime
  <1> QED BY <1>3, <1>4, <1>5

LEMMA FailedTransientlyFacts ==
  ASSUME NEW s \in Health, NEW g \in Generations, Slot(s),
         NEW a \in Attempts \cup {NoAttempt}, NEW m \in Admission \cup {NoAdmission}
  PROVE  /\ FailedTransiently(s, a, m, g) \in Health
         /\ Slot(FailedTransiently(s, a, m, g))
         /\ \/ SameRegime(s, FailedTransiently(s, a, m, g))
            \/ /\ Restarts(FailedTransiently(s, a, m, g), g)
               /\ FailedTransiently(s, a, m, g).circuit = "open"
  <1> DEFINE n == IF s.failures < FailureThreshold THEN s.failures + 1
                  ELSE FailureThreshold
             c == [s EXCEPT !.failures = n]
             o == [c EXCEPT !.circuit = "open", !.cooldown = Cooldown]
  <1>1. n \in 0..FailureThreshold
    BY PolicyAssumption DEF Health
  <1>2. c \in Health /\ SameRegime(s, c)
    BY <1>1, SetFailures DEF Health, SameRegime
  <1> HIDE DEF n, c
  <1>3. o \in Health
    BY <1>2, Bounds, SetCircuit, SetCooldown, Zenon
  <1>4. o.circuit = "open"
    BY <1>2 DEF Health
  <1> HIDE DEF o
  <1>5. CASE ~Controls(s, a, m)
    BY <1>5 DEF FailedTransiently, SameRegime
  <1>6. CASE Controls(s, a, m) /\ (s.circuit = "half_open" \/ n >= FailureThreshold)
    <2>1. FailedTransiently(s, a, m, g) = Retired(o, g)
      BY <1>6 DEF FailedTransiently, n, c, o
    <2> QED BY <2>1, <1>3, <1>4, RetiredFacts
  <1>7. CASE Controls(s, a, m) /\ ~(s.circuit = "half_open" \/ n >= FailureThreshold)
    <2>1. FailedTransiently(s, a, m, g) = c
      BY <1>7 DEF FailedTransiently, n, c
    <2> QED BY <2>1, <1>2 DEF Slot, SameRegime
  <1> QED BY <1>5, <1>6, <1>7
-----------------------------------------------------------------------------
(* The inductive invariant.                                                *)

SlotInv == \A d \in Deployments : Slot(health[d])

\* The attempt whose lease runs holds the very admission the slot expects.
OwnerInv ==
  \A d \in Deployments : health[d].lease > 0 =>
    held[health[d].owner] =
      [deployment |-> d, generation |-> health[d].generation, probe |-> TRUE]

IInv == TypeOK /\ SlotInv /\ OwnerInv

(***************************************************************************)
(* The shape of a step: every operation but allow_request moves one        *)
(* circuit d to a state t that continues or restarts its regime, and       *)
(* closes it only for a live probe.                                        *)
(***************************************************************************)
Moves(d, g, t) ==
  /\ Slot(t)
  /\ health' = [health EXCEPT ![d] = t]
  /\ Continues(health[d], t) \/ Restarts(t, g)

ClosesForProbe(d, t) ==
  Circuit(d) # "closed" /\ t.circuit = "closed" =>
    /\ Circuit(d) = "half_open"
    /\ \E a \in Attempts : Live(a) /\ held[a].deployment = d

Reports(d, g) ==
  \E t \in Health : Moves(d, g, t) /\ ClosesForProbe(d, t) /\ held' = held

\* A state that keeps the regime of a refreshed one, or restarts it, is a move.
LEMMA AfterRefresh ==
  ASSUME NEW s \in Health, NEW g \in Generations, NEW t \in Health, Slot(s),
         SameRegime(Refreshed(s, g), t) \/ Restarts(t, g)
  PROVE  Continues(s, t) \/ Restarts(t, g)
  BY RefreshedFacts DEF SameRegime, Continues, Restarts

\* A probe that matches the refreshed circuit is live.
LEMMA MatchingProbeIsLive ==
  ASSUME TypeOK, SlotInv, NEW a \in Attempts, NEW g \in Generations,
         held[a] # NoAdmission, held[a].probe,
         Matches(Refreshed(health[held[a].deployment], g), a, held[a])
  PROVE  /\ Live(a)
         /\ Circuit(held[a].deployment) = "half_open"
         /\ held[a].deployment \in Deployments
  <1> DEFINE d == held[a].deployment
             s == health[d]
             r == Refreshed(s, g)
  <1>1. held[a] \in Admission /\ d \in Deployments /\ s \in Health /\ Slot(s)
    BY DEF TypeOK, SlotInv, Admission
  <1>2. r.generation = held[a].generation /\ r.circuit = "half_open" /\ r.owner = a
    BY <1>1 DEF Matches
  <1>3. Continues(s, r) /\ s.lease > 0
    BY <1>1, <1>2, RefreshedFacts, NullAssumption
  <1>a. s.lease # 0
    BY <1>1, <1>3, PolicyAssumption DEF Health
  <1>4. Owner(d) = a /\ Cooled(s).circuit = "half_open" /\ s.generation = held[a].generation
    BY <1>2, <1>3, <1>a, Zenon DEF Continues, Owner
  <1>5. Cooled(s) \in Health /\ Cooled(s).generation = s.generation
    BY <1>1, CooledFacts DEF Continues
  <1>6. /\ Seen(d).generation = s.generation
        /\ Seen(d).circuit = "half_open"
        /\ Seen(d).owner = a
    BY <1>4, <1>5 DEF Seen, Health
  <1> QED BY <1>1, <1>4, <1>6 DEF Live, Matches, Circuit

\* release_request, is_admitted, record_success and record_failure.
LEMMA CallerReports ==
  ASSUME TypeOK, SlotInv, NEW a \in Attempts, NEW g \in Generations,
         \/ ReleaseRequest(a, g)
         \/ IsAdmitted(a, g)
         \/ RecordSuccess(a, g)
         \/ \E transient \in BOOLEAN : RecordFailure(a, transient, g)
  PROVE  \E d \in Deployments : Reports(d, g)
  <1> DEFINE m == held[a]
             d == m.deployment
             s == health[d]
             r == Refreshed(s, g)
  <1>1. m # NoAdmission /\ m \in Admission /\ d \in Deployments /\ s \in Health /\ Slot(s)
    BY DEF TypeOK, SlotInv, Admission, ReleaseRequest, IsAdmitted, RecordSuccess, RecordFailure
  <1>2. r \in Health /\ Slot(r) /\ r.circuit = Circuit(d)
    BY <1>1, RefreshedFacts DEF Circuit
  <1>3. SUFFICES ASSUME NEW t \in Health, Slot(t),
                        health' = [health EXCEPT ![d] = t], held' = held,
                        \/ SameRegime(r, t) 
                        \/ /\ Restarts(t, g)
                           /\ \/ t.circuit # "closed"
                              \/ t.circuit = r.circuit
                              \/ m.probe /\ Matches(r, a, m)
                 PROVE  Reports(d, g)
    <2>1. CASE ReleaseRequest(a, g)
      <3> DEFINE t == IF m.probe /\ Matches(r, a, m) THEN Retired(r, g) ELSE r
      <3>1. t \in Health /\ Slot(t) /\ t.circuit = r.circuit
        BY <1>2, RetiredFacts
      <3>2. SameRegime(r, t) \/ Restarts(t, g)
        BY <1>2, RetiredFacts DEF SameRegime
      <3>3. health' = [health EXCEPT ![d] = t] /\ held' = held
        BY <2>1 DEF ReleaseRequest
      <3> QED BY <1>1, <3>1, <3>2, <3>3, <1>3, Zenon
    <2>2. CASE IsAdmitted(a, g)
      <3>1. health' = [health EXCEPT ![d] = r] /\ held' = held
        BY <2>2 DEF IsAdmitted, Snapshot
      <3> QED BY <1>1, <1>2, <3>1, <1>3, Zenon DEF SameRegime
    <2>3. CASE RecordSuccess(a, g)
      <3>1. health' = [health EXCEPT ![d] = Succeeded(r, a, m, g)] /\ held' = held
        BY <2>3 DEF RecordSuccess
      <3> QED BY <1>1, <1>2, <3>1, <1>3, SucceededFacts, Zenon
    <2>4. ASSUME NEW transient \in BOOLEAN, RecordFailure(a, transient, g)
          PROVE  \E e \in Deployments : Reports(e, g)
      <3>1. CASE transient
        <4>1. health' = [health EXCEPT ![d] = FailedTransiently(r, a, m, g)] /\ held' = held
          BY <2>4, <3>1 DEF RecordFailure
        <4> QED BY <1>1, <1>2, <4>1, <1>3, FailedTransientlyFacts, Zenon
      <3>2. CASE ~transient
        <4>1. health' = [health EXCEPT ![d] = FailedPermanently(r, a, m, g)] /\ held' = held
          BY <2>4, <3>2 DEF RecordFailure
        <4> QED BY <1>1, <1>2, <4>1, <1>3, FailedPermanentlyFacts, Zenon
      <3> QED BY <3>1, <3>2
    <2> QED BY <2>1, <2>2, <2>3, <2>4
  <1>4. Moves(d, g, t)
    BY <1>1, <1>3, AfterRefresh DEF Moves
  <1>5. ClosesForProbe(d, t)
    <2>1. CASE SameRegime(r, t)
      BY <2>1, <1>2 DEF ClosesForProbe, SameRegime
    <2>2. CASE m.probe /\ Matches(r, a, m)
      BY <2>2, <1>1, MatchingProbeIsLive DEF ClosesForProbe
    <2> QED BY <1>2, <1>3, <2>1, <2>2 DEF ClosesForProbe
  <1> QED BY <1>3, <1>4, <1>5 DEF Reports

\* snapshot and the reports that carry no admission.
LEMMA UncorrelatedReports ==
  ASSUME TypeOK, SlotInv, NEW d \in Deployments, NEW g \in Generations,
         UncorrelatedStep(d, g)
  PROVE  Reports(d, g)
  <1> DEFINE s == health[d]
             r == Refreshed(s, g)
  <1>1. s \in Health /\ Slot(s)
    BY DEF TypeOK, SlotInv
  <1>2. r \in Health /\ Slot(r) /\ r.circuit = Circuit(d)
    BY <1>1, RefreshedFacts DEF Circuit
  <1>3. SUFFICES ASSUME NEW t \in Health, Slot(t),
                        health' = [health EXCEPT ![d] = t], held' = held,
                        \/ SameRegime(r, t)
                        \/ Restarts(t, g) /\ (t.circuit # "closed" \/ t.circuit = r.circuit)
                 PROVE  Reports(d, g)
    <2>1. CASE Snapshot(d, g)
      BY <2>1, <1>2, <1>3, Zenon DEF Snapshot, SameRegime
    <2>2. CASE ReportSuccess(d, g)
      <3>1. /\ health' = [health EXCEPT ![d] = Succeeded(r, NoAttempt, NoAdmission, g)]
            /\ held' = held
        BY <2>2 DEF ReportSuccess
      <3> QED BY <1>2, <3>1, <1>3, SucceededFacts, Zenon
    <2>3. ASSUME NEW transient \in BOOLEAN, ReportFailure(d, transient, g)
          PROVE  Reports(d, g)
      <3>1. CASE transient
        <4>1. /\ health' = [health EXCEPT ![d] = FailedTransiently(r, NoAttempt, NoAdmission, g)]
              /\ held' = held
          BY <2>3, <3>1 DEF ReportFailure
        <4> QED BY <1>2, <4>1, <1>3, FailedTransientlyFacts, Zenon
      <3>2. CASE ~transient
        <4>1. /\ health' = [health EXCEPT ![d] = FailedPermanently(r, NoAttempt, NoAdmission, g)]
              /\ held' = held
          BY <2>3, <3>2 DEF ReportFailure
        <4> QED BY <1>2, <4>1, <1>3, FailedPermanentlyFacts, Zenon
      <3> QED BY <3>1, <3>2
    <2> QED BY <2>1, <2>2, <2>3 DEF UncorrelatedStep
  <1>4. Moves(d, g, t)
    BY <1>1, <1>3, AfterRefresh DEF Moves
  <1>5. ClosesForProbe(d, t)
    BY <1>2, <1>3 DEF ClosesForProbe, SameRegime
  <1> QED BY <1>3, <1>4, <1>5 DEF Reports

(***************************************************************************)
(* The shape of allow_request: a refusal moves the circuit at most by the  *)
(* refresh; an admission joins a closed regime or the caller's own probe,  *)
(* or starts a probe regime.                                               *)
(***************************************************************************)
Joins(a, d, t) ==
  /\ Continues(health[d], t)
  /\ \/ t.circuit = "closed"
     \/ t.circuit = "half_open" /\ t.owner = a /\ health[d].lease > 0

StartsProbe(a, d, g, t) ==
  /\ t.circuit = "half_open" /\ t.generation = g /\ t.owner = a
  /\ t.lease = ProbeLease

LEMMA AllowShape ==
  ASSUME TypeOK, SlotInv, NEW a \in Attempts, NEW d \in Deployments, NEW g \in Generations,
         AllowRequest(a, d, g)
  PROVE  \/ Reports(d, g)
         \/ \E t \in Health :
              /\ Slot(t)
              /\ health' = [health EXCEPT ![d] = t]
              /\ Joins(a, d, t) \/ StartsProbe(a, d, g, t)
              /\ t.circuit = Circuit(d)
              /\ held' = [held EXCEPT ![a] =
                            [deployment |-> d, generation |-> t.generation,
                             probe |-> t.circuit = "half_open"]]
  <1> DEFINE s == health[d]
             r == Refreshed(s, g)
             t == Admitted(r, a, g)
  <1>1. s \in Health /\ Slot(s)
    BY DEF TypeOK, SlotInv
  <1>2. r \in Health /\ Slot(r) /\ r.circuit = Circuit(d)
    BY <1>1, RefreshedFacts DEF Circuit
  <1>3. health' = [health EXCEPT ![d] = t]
    BY DEF AllowRequest
  <1>4. CASE Refuses(r, a)
    <2>1. t = r
      BY <1>4, NullAssumption DEF Refuses, Admitted
    <2>2. held' = held
      BY <1>4 DEF AllowRequest
    <2>3. Moves(d, g, r)
      BY <1>1, <1>2, <1>3, <2>1, AfterRefresh DEF Moves, SameRegime
    <2> QED BY <1>2, <2>2, <2>3 DEF Reports, ClosesForProbe
  <1>5. CASE ~Refuses(r, a)
    <2>1. held' = [held EXCEPT ![a] = [deployment |-> d, generation |-> t.generation,
                                       probe |-> t.circuit = "half_open"]]
      BY <1>5 DEF AllowRequest
    <2>2. CASE r.circuit = "half_open" /\ r.owner = NoAttempt
      <3>1. t = Granted(r, a, g)
        BY <2>2 DEF Admitted
      <3>2. Granted(r, a, g) \in Health
        BY <1>2, Bounds, SetGeneration, SetOwner, SetLease, Zenon DEF Granted
      <3>3. /\ Granted(r, a, g).circuit = "half_open"
            /\ Granted(r, a, g).generation = g
            /\ Granted(r, a, g).owner = a
            /\ Granted(r, a, g).lease = ProbeLease
        BY <1>2, <2>2 DEF Granted, Health
      <3>4. Slot(Granted(r, a, g)) /\ StartsProbe(a, d, g, Granted(r, a, g))
        BY <3>3, NullAssumption DEF Slot, StartsProbe
      <3> QED BY <1>2, <1>3, <2>1, <2>2, <3>1, <3>2, <3>3, <3>4, Zenon
    <2>3. CASE ~(r.circuit = "half_open" /\ r.owner = NoAttempt)
      <3>1. t = r
        BY <2>3 DEF Admitted
      <3>2. r.circuit = "closed" \/ (r.circuit = "half_open" /\ r.owner = a)
        BY <1>2, <1>5, <2>3 DEF Refuses, Health
      <3>3. CASE r.circuit = "closed"
        <4>1. s.owner = NoAttempt
          BY <1>1, <1>2, <3>3, CooledFacts, Zenon DEF Slot, Circuit
        <4>2. Continues(s, r)
          BY <1>1, <4>1, CooledFacts DEF Refreshed
        <4> QED BY <1>2, <1>3, <2>1, <3>1, <3>3, <4>2, Zenon DEF Joins
      <3>4. CASE r.circuit = "half_open" /\ r.owner = a
        <4>1. Continues(s, r) /\ s.lease > 0
          BY <1>1, <3>4, NullAssumption, RefreshedFacts
        <4> QED BY <1>2, <1>3, <2>1, <3>1, <3>4, <4>1, Zenon DEF Joins
      <3> QED BY <3>2, <3>3, <3>4
    <2> QED BY <2>2, <2>3
  <1> QED BY <1>4, <1>5

\* Tick keeps each circuit, generation and owner, and shortens the lease.
LEMMA TickShape ==
  ASSUME TypeOK, SlotInv, Tick, NEW d \in Deployments
  PROVE  /\ health'[d] \in Health
         /\ Slot(health'[d])
         /\ health'[d].generation = health[d].generation
         /\ health'[d].owner = health[d].owner
         /\ health'[d].circuit = health[d].circuit
         /\ health'[d].lease = IF health[d].lease = 0 THEN 0 ELSE health[d].lease - 1
         /\ health'[d].cooldown = IF health[d].cooldown = 0 THEN 0 ELSE health[d].cooldown - 1
  <1> DEFINE s == health[d]
             c == IF s.cooldown = 0 THEN 0 ELSE s.cooldown - 1
             l == IF s.lease = 0 THEN 0 ELSE s.lease - 1
             u == [s EXCEPT !.cooldown = c]
             t == [u EXCEPT !.lease = l]
  <1>1. s \in Health /\ Slot(s)
    BY DEF TypeOK, SlotInv
  <1>2. c \in 0..Cooldown /\ l \in 0..ProbeLease
    BY <1>1, PolicyAssumption DEF Health
  <1>3. health'[d] = [s EXCEPT !.cooldown = c, !.lease = l]
    BY Zenon DEF Tick
  <1> HIDE DEF s, c, l
  <1>4. u \in Health
    BY <1>1, <1>2, SetCooldown
  <1>5. /\ u.generation = s.generation /\ u.owner = s.owner
        /\ u.circuit = s.circuit /\ u.cooldown = c
    BY <1>1 DEF Health
  <1>6. t = health'[d]
    BY <1>3
  <1> HIDE DEF u
  <1>7. t \in Health
    BY <1>2, <1>4, SetLease
  <1>8. /\ t.generation = u.generation /\ t.owner = u.owner
        /\ t.circuit = u.circuit /\ t.cooldown = u.cooldown /\ t.lease = l
    BY <1>4 DEF Health
  <1>9. l > 0 => s.lease > 0
    BY <1>1, PolicyAssumption DEF l, Health
  <1> QED BY <1>1, <1>5, <1>6, <1>7, <1>8, <1>9, Zenon DEF Slot, s, c, l

-----------------------------------------------------------------------------
(* The invariant is inductive.                                             *)

LEMMA InitInvariant == Init => IInv
  BY GenerationAssumption, PolicyAssumption, NullAssumption
     DEF Init, IInv, TypeOK, Health, SlotInv, Slot, OwnerInv, Owner

LEMMA ReportsPreserve ==
  ASSUME IInv, NEW d \in Deployments, NEW g \in Generations, Reports(d, g)
  PROVE  IInv'
  <1>1. PICK t \in Health : Moves(d, g, t) /\ held' = held
    BY DEF Reports
  <1>2. TypeOK'
    BY <1>1 DEF IInv, TypeOK, Moves
  <1>3. SlotInv'
    BY <1>1 DEF IInv, TypeOK, SlotInv, Moves
  <1>4. ASSUME NEW e \in Deployments, health'[e].lease > 0
        PROVE  held'[health'[e].owner] =
                 [deployment |-> e, generation |-> health'[e].generation, probe |-> TRUE]
    <2>1. CASE e = d
      BY <1>1, <1>4, <2>1 DEF IInv, TypeOK, OwnerInv, Moves, Continues, Restarts
    <2>2. CASE e # d
      BY <1>1, <1>4, <2>2 DEF IInv, TypeOK, OwnerInv, Moves
    <2> QED BY <2>1, <2>2
  <1> QED BY <1>2, <1>3, <1>4 DEF IInv, OwnerInv

LEMMA AllowPreserves ==
  ASSUME IInv, NEW a \in Attempts, NEW d \in Deployments, NEW g \in Generations,
         AllowRequest(a, d, g)
  PROVE  IInv'
  <1>1. CASE Reports(d, g)
    BY <1>1, ReportsPreserve
  <1>2. CASE ~Reports(d, g)
    <2> DEFINE Given(t) == [deployment |-> d, generation |-> t.generation,
                            probe |-> t.circuit = "half_open"]
    <2>1. PICK t \in Health :
            /\ Slot(t)
            /\ health' = [health EXCEPT ![d] = t]
            /\ Joins(a, d, t) \/ StartsProbe(a, d, g, t)
            /\ held' = [held EXCEPT ![a] = Given(t)]
      BY <1>2, AllowShape DEF IInv
    <2>2. Given(t) \in Admission
      BY DEF Health, Admission
    <2>3. TypeOK'
      BY <2>1, <2>2 DEF IInv, TypeOK
    <2>4. SlotInv'
      BY <2>1 DEF IInv, TypeOK, SlotInv
    <2>5. ASSUME NEW e \in Deployments, health'[e].lease > 0
          PROVE  held'[health'[e].owner] =
                   [deployment |-> e, generation |-> health'[e].generation, probe |-> TRUE]
      <3>1. CASE e = d
        <4>1. health'[e] = t
          BY <2>1, <3>1 DEF IInv, TypeOK
        <4>2. t.owner # NoAttempt /\ t.circuit = "half_open"
          BY <2>1, <2>5, <4>1 DEF Slot
        <4>3. t.owner = a
          BY <2>1, <4>2 DEF Joins, StartsProbe
        <4> QED BY <2>1, <3>1, <4>1, <4>2, <4>3, Zenon DEF IInv, TypeOK
      <3>2. CASE e # d
        <4>1. health'[e] = health[e] /\ health[e] \in Health
          BY <2>1, <3>2 DEF IInv, TypeOK
        <4>2. health[e].lease # 0
          BY <2>5, <4>1, PolicyAssumption DEF Health
        <4>3. health[e].owner # a
          BY <3>2, <4>2 DEF AllowRequest, Owner
        <4>4. held[health[e].owner] =
                [deployment |-> e, generation |-> health[e].generation, probe |-> TRUE]
          BY <2>5, <4>1 DEF IInv, OwnerInv
        <4>5. health[e].owner \in Attempts
          BY <2>5, <4>1 DEF IInv, SlotInv, Slot, Health
        <4> QED BY <2>1, <4>1, <4>3, <4>4, <4>5, Zenon DEF IInv, TypeOK
      <3> QED BY <3>1, <3>2
    <2> QED BY <2>3, <2>4, <2>5 DEF IInv, OwnerInv
  <1> QED BY <1>1, <1>2

LEMMA TickPreserves ==
  ASSUME IInv, Tick
  PROVE  IInv'
  <1>1. ASSUME NEW d \in Deployments
        PROVE  /\ health'[d] \in Health /\ Slot(health'[d])
               /\ health'[d].generation = health[d].generation
               /\ health'[d].owner = health[d].owner
               /\ health'[d].lease > 0 => health[d].lease > 0
    <2>1. health[d] \in Health
      BY DEF IInv, TypeOK
    <2>2. health'[d].lease = IF health[d].lease = 0 THEN 0 ELSE health[d].lease - 1
      BY TickShape DEF IInv
    <2>3. health'[d].lease > 0 => health[d].lease > 0
      BY <2>1, <2>2, PolicyAssumption DEF Health
    <2> QED BY <2>3, TickShape DEF IInv
  <1>2. held' = held
    BY Zenon DEF Tick
  <1>3. TypeOK'
    <2>1. health' = [d \in Deployments |-> health'[d]]
      BY Zenon DEF Tick
    <2> QED BY <1>1, <1>2, <2>1 DEF IInv, TypeOK
  <1>4. SlotInv'
    BY <1>1 DEF SlotInv
  <1>5. OwnerInv'
    BY <1>1, <1>2 DEF IInv, OwnerInv
  <1> QED BY <1>3, <1>4, <1>5 DEF IInv

\* A step of Next is a tick, a report or an admission.
LEMMA NextCases ==
  ASSUME IInv, Next
  PROVE  \/ Tick
         \/ \E g \in Fresh, d \in Deployments :
              Reports(d, g) \/ \E a \in Attempts : AllowRequest(a, d, g)
  <1>1. Fresh \subseteq Generations
    BY DEF Fresh
  <1>2. ASSUME NEW g \in Fresh, NEW a \in Attempts, CallerStep(a, g)
        PROVE  \E d \in Deployments : Reports(d, g) \/ AllowRequest(a, d, g)
    BY <1>1, <1>2, CallerReports DEF CallerStep, IInv
  <1>3. ASSUME NEW g \in Fresh, NEW d \in Deployments, UncorrelatedStep(d, g)
        PROVE  Reports(d, g)
    BY <1>1, <1>3, UncorrelatedReports DEF IInv
  <1> QED BY <1>2, <1>3 DEF Next

LEMMA StepInvariant == IInv /\ [Next]_vars => IInv'
  <1> SUFFICES ASSUME IInv, [Next]_vars
               PROVE  IInv'
    OBVIOUS
  <1>1. CASE Next
    <2>1. Fresh \subseteq Generations
      BY DEF Fresh
    <2> QED BY <1>1, <2>1, NextCases, TickPreserves, ReportsPreserve, AllowPreserves
  <1>2. CASE UNCHANGED vars
    BY <1>2 DEF vars, IInv, TypeOK, SlotInv, OwnerInv
  <1> QED BY <1>1, <1>2

(***************************************************************************)
(* The tracker's state stays well formed (TypeOK), only a half-open        *)
(* circuit has a probe owner, and a running lease belongs to the attempt   *)
(* that holds the matching probe admission.                                *)
(***************************************************************************)
THEOREM Invariance == Spec => []IInv
  BY InitInvariant, StepInvariant, PTL DEF Spec

\* Every field of the tracker and every admission keeps its type.
THEOREM TypeCorrect == Spec => []TypeOK
  <1>1. IInv => TypeOK
    BY DEF IInv
  <1> QED BY Invariance, <1>1, PTL

-----------------------------------------------------------------------------
(* Which admissions are live, read off the stored state.                   *)

Honours(s, a, m) ==
  /\ s.generation = m.generation
  /\ \/ s.circuit = "closed" /\ ~m.probe
     \/ s.circuit = "half_open" /\ m.probe /\ s.lease # 0 /\ s.owner = a

LEMMA SeenMatches ==
  ASSUME NEW s \in Health, Slot(s), NEW a \in Attempts, NEW m \in Admission
  PROVE  Matches([Cooled(s) EXCEPT !.owner = IF s.lease = 0 THEN NoAttempt ELSE s.owner], a, m)
           <=> Honours(s, a, m)
  <1> DEFINE o == IF s.lease = 0 THEN NoAttempt ELSE s.owner
             v == [Cooled(s) EXCEPT !.owner = o]
  <1>1. Cooled(s) \in Health /\ Continues(s, Cooled(s))
    BY CooledFacts
  <1>2. v.generation = s.generation /\ v.circuit = Cooled(s).circuit /\ v.owner = o
    BY <1>1 DEF Health, Continues
  <1> HIDE DEF v
  <1>3. Cooled(s).circuit = "closed" <=> s.circuit = "closed"
    BY CooledFacts
  <1>4. o = a <=> s.lease # 0 /\ s.owner = a
    BY NullAssumption
  <1>5. s.owner = a => s.circuit = "half_open" /\ Cooled(s).circuit = "half_open"
    BY NullAssumption DEF Slot, Cooled
  <1>6. Matches(v, a, m) <=> Honours(s, a, m)
    BY <1>2, <1>3, <1>4, <1>5 DEF Matches, Honours
  <1> QED BY <1>6 DEF v

LEMMA LiveIsHonoured ==
  ASSUME TypeOK, SlotInv, NEW a \in Attempts, held[a] # NoAdmission
  PROVE  Live(a) <=> Honours(health[held[a].deployment], a, held[a])
  <1>1. held[a] \in Admission /\ health[held[a].deployment] \in Health
        /\ Slot(health[held[a].deployment])
    BY DEF TypeOK, SlotInv, Admission
  <1> QED BY <1>1, SeenMatches DEF Live, Seen, Owner

LEMMA LiveIsHonouredNext ==
  ASSUME TypeOK', SlotInv', NEW a \in Attempts, held'[a] # NoAdmission
  PROVE  Live(a)' <=> Honours(health'[held'[a].deployment], a, held'[a])
  <1>1. held'[a] \in Admission /\ health'[held'[a].deployment] \in Health
        /\ Slot(health'[held'[a].deployment])
    BY DEF TypeOK, SlotInv, Admission
  <1> QED BY <1>1, SeenMatches DEF Live, Seen, Owner

\* The attempt that owns a slot holds its live probe.
LEMMA OwnerIsLive == IInv => OwnerHoldsProbe
  <1> SUFFICES ASSUME IInv, NEW d \in Deployments, Owner(d) # NoAttempt
               PROVE  /\ Live(Owner(d)) /\ held[Owner(d)].deployment = d
                      /\ held[Owner(d)].probe
    BY DEF OwnerHoldsProbe
  <1>1. health[d] \in Health /\ Slot(health[d])
    BY DEF IInv, TypeOK, SlotInv
  <1>2. Owner(d) = health[d].owner /\ health[d].lease # 0
    BY DEF Owner
  <1>3. health[d].lease > 0
    BY <1>1, <1>2, PolicyAssumption DEF Health
  <1>4. Owner(d) \in Attempts /\ health[d].circuit = "half_open"
    BY <1>1, <1>2 DEF Slot, Health
  <1>5. held[Owner(d)] =
          [deployment |-> d, generation |-> health[d].generation, probe |-> TRUE]
    BY <1>2, <1>3 DEF IInv, OwnerInv
  <1>6. held[Owner(d)] \in Admission
    BY <1>1, <1>5 DEF Admission, Health
  <1>7. held[Owner(d)] # NoAdmission
    BY <1>6, NullAssumption DEF Admission
  <1> QED BY <1>2, <1>4, <1>5, <1>7, LiveIsHonoured DEF IInv, Honours

(***************************************************************************)
(* The owner of a probe slot always holds the admission that can report    *)
(* for it and release it (InMemoryHealthTracker.allow_request).            *)
(***************************************************************************)
THEOREM OwnerAlwaysHoldsProbe == Spec => []OwnerHoldsProbe
  BY Invariance, OwnerIsLive, PTL

-----------------------------------------------------------------------------
(* Fencing.                                                                *)

\* A state that continues the regime honours no admission it did not honour.
LEMMA ContinuedHonours ==
  ASSUME NEW s \in Health, Slot(s), NEW t \in Health, Continues(s, t),
         NEW a \in Attempts, NEW m \in Admission, Honours(t, a, m)
  PROVE  Honours(s, a, m)
  <1>1. t.circuit = "closed" => s.circuit = "closed"
    BY CooledFacts, Zenon DEF Continues
  <1>2. t.owner = a => s.circuit = "half_open"
    BY NullAssumption DEF Continues, Slot
  <1> QED BY <1>1, <1>2 DEF Honours, Continues

\* A fresh generation is in nobody's hands.
LEMMA FreshIsUnknown ==
  ASSUME NEW g \in Fresh, NEW a \in Attempts, held[a] # NoAdmission
  PROVE  held[a].generation # g
  BY DEF Fresh, InUse

\* In a step that moves circuit d to t under fresh generation g, an
\* admission that is honoured afterwards was honoured before.
LEMMA MoveFences ==
  ASSUME IInv, NEW d \in Deployments, NEW g \in Fresh, NEW t \in Health,
         health' = [health EXCEPT ![d] = t],
         Continues(health[d], t) \/ t.generation = g,
         NEW a \in Attempts, held[a] # NoAdmission,
         Honours(health'[held[a].deployment], a, held[a])
  PROVE  Honours(health[held[a].deployment], a, held[a])
  <1>1. held[a] \in Admission /\ held[a].deployment \in Deployments
    BY DEF IInv, TypeOK, Admission
  <1>2. CASE held[a].deployment # d
    BY <1>1, <1>2 DEF IInv, TypeOK
  <1>3. CASE held[a].deployment = d
    <2>1. health'[d] = t /\ health[d] \in Health /\ Slot(health[d])
      BY DEF IInv, TypeOK, SlotInv
    <2>2. t.generation # g
      BY <1>3, <2>1, FreshIsUnknown DEF Honours
    <2> QED BY <1>1, <1>3, <2>1, <2>2, ContinuedHonours
  <1> QED BY <1>2, <1>3

LEMMA TickFences ==
  ASSUME IInv, Tick, NEW a \in Attempts, held[a] # NoAdmission,
         Honours(health'[held[a].deployment], a, held[a])
  PROVE  Honours(health[held[a].deployment], a, held[a])
  <1> DEFINE d == held[a].deployment
  <1>1. d \in Deployments /\ health[d] \in Health
    BY DEF IInv, TypeOK, Admission
  <1>2. /\ health'[d].generation = health[d].generation
        /\ health'[d].owner = health[d].owner
        /\ health'[d].circuit = health[d].circuit
        /\ health'[d].lease = IF health[d].lease = 0 THEN 0 ELSE health[d].lease - 1
    BY <1>1, TickShape DEF IInv
  <1>3. health'[d].lease # 0 => health[d].lease # 0
    BY <1>2
  <1> QED BY <1>2, <1>3 DEF Honours

LEMMA StepFences == IInv /\ [Next]_vars => FencedStep
  <1> SUFFICES ASSUME IInv, [Next]_vars, IInv', NEW a \in Attempts,
                      held'[a] = held[a], Live(a)'
               PROVE  Live(a)
    BY StepInvariant DEF FencedStep
  <1>1. held[a] # NoAdmission
    BY DEF Live
  <1>2. Honours(health'[held[a].deployment], a, held[a])
    BY <1>1, LiveIsHonouredNext DEF IInv
  <1>3. Honours(health[held[a].deployment], a, held[a])
    <2>1. CASE UNCHANGED vars
      BY <1>2, <2>1 DEF vars
    <2>2. CASE Tick
      BY <1>1, <1>2, <2>2, TickFences
    <2>3. ASSUME NEW g \in Fresh, NEW d \in Deployments,
                 Reports(d, g) \/ \E b \in Attempts : AllowRequest(b, d, g)
          PROVE  Honours(health[held[a].deployment], a, held[a])
      <3>1. g \in Generations
        BY DEF Fresh
      <3>2. \E t \in Health : /\ health' = [health EXCEPT ![d] = t]
                              /\ Continues(health[d], t) \/ t.generation = g
        BY <2>3, <3>1, AllowShape
           DEF IInv, Reports, Moves, Restarts, Joins, StartsProbe
      <3> QED BY <1>1, <1>2, <3>2, MoveFences, Zenon
    <2> QED BY <2>1, <2>2, <2>3, NextCases
  <1> QED BY <1>1, <1>3, LiveIsHonoured DEF IInv

(***************************************************************************)
(* A late report is fenced for ever: once its regime has ended, no later   *)
(* sequence of trips, probes and recoveries makes an admission count again *)
(* (generation comparison in InMemoryHealthTracker._matches).              *)
(***************************************************************************)
THEOREM Fencing == Spec => StaleAdmissionStaysStale
  <1>1. IInv /\ [Next]_vars => [FencedStep]_vars
    BY StepFences
  <1> QED BY <1>1, Invariance, PTL DEF Spec, StaleAdmissionStaysStale

-----------------------------------------------------------------------------
(* Recovery and leases.                                                    *)

\* What a move of circuit e to t does to circuit d.
LEMMA MoveElsewhere ==
  ASSUME IInv, NEW d \in Deployments, NEW e \in Deployments, NEW t \in Health,
         health' = [health EXCEPT ![e] = t]
  PROVE  health'[d] = IF d = e THEN t ELSE health[d]
  BY DEF IInv, TypeOK

LEMMA StepRecovers == IInv /\ [Next]_vars => RecoveryStep
  <1> SUFFICES ASSUME IInv, [Next]_vars, IInv', NEW d \in Deployments,
                      Circuit(d) # "closed", Circuit(d)' = "closed"
               PROVE  /\ Circuit(d) = "half_open"
                      /\ \E a \in Attempts : /\ Live(a) /\ held[a].deployment = d
                                             /\ held'[a] = held[a]
    BY StepInvariant DEF RecoveryStep
  <1>1. /\ health[d] \in Health /\ Slot(health[d])
        /\ health'[d] \in Health /\ Slot(health'[d])
    BY DEF IInv, TypeOK, SlotInv
  <1>2. health'[d].circuit = "closed" /\ health[d].circuit # "closed"
    BY <1>1, CooledFacts DEF Circuit
  <1>3. ~Tick /\ ~UNCHANGED vars
    BY <1>2, TickShape DEF IInv, vars
  <1>4. PICK g \in Fresh, e \in Deployments :
          Reports(e, g) \/ \E a \in Attempts : AllowRequest(a, e, g)
    BY <1>3, NextCases
  <1>5. g \in Generations
    BY DEF Fresh
  <1>6. CASE Reports(e, g)
    <2>1. PICK t \in Health : Moves(e, g, t) /\ ClosesForProbe(e, t) /\ held' = held
      BY <1>6 DEF Reports
    <2>2. e = d /\ t.circuit = "closed"
      BY <1>2, <2>1, MoveElsewhere DEF Moves
    <2> QED BY <2>1, <2>2 DEF ClosesForProbe
  <1>7. CASE ~Reports(e, g)
    <2>1. PICK t \in Health : /\ health' = [health EXCEPT ![e] = t]
                              /\ t.circuit = Circuit(e)
      BY <1>4, <1>5, <1>7, AllowShape DEF IInv
    <2>2. e = d /\ t.circuit = "closed"
      BY <1>2, <2>1, MoveElsewhere
    <2> QED BY <2>1, <2>2
  <1> QED BY <1>6, <1>7

(***************************************************************************)
(* Only the report of a live probe closes a tripped circuit                *)
(* (InMemoryHealthTracker.record_success).                                 *)
(***************************************************************************)
THEOREM Recovery == Spec => RecoveryOnlyByLiveProbe
  <1>1. IInv /\ [Next]_vars => [RecoveryStep]_vars
    BY StepRecovers
  <1> QED BY <1>1, Invariance, PTL DEF Spec, RecoveryOnlyByLiveProbe

LEMMA StepKeepsLease == IInv /\ [Next]_vars => LeaseStep
  <1> SUFFICES ASSUME IInv, [Next]_vars, IInv', NEW d \in Deployments,
                      Owner(d) # NoAttempt, Owner(d)' = Owner(d),
                      health'[d].generation = health[d].generation
               PROVE  health'[d].lease <= health[d].lease
    BY StepInvariant DEF LeaseStep
  <1>1. health[d] \in Health /\ health[d].lease \in Nat
    BY PolicyAssumption DEF IInv, TypeOK, Health
  <1>2. CASE UNCHANGED vars
    BY <1>1, <1>2 DEF vars
  <1>3. CASE Tick
    <2>1. health'[d].lease = IF health[d].lease = 0 THEN 0 ELSE health[d].lease - 1
      BY <1>3, TickShape DEF IInv
    <2> QED BY <1>1, <2>1
  <1>4. ASSUME NEW g \in Fresh, NEW e \in Deployments,
               Reports(e, g) \/ \E a \in Attempts : AllowRequest(a, e, g)
        PROVE  health'[d].lease <= health[d].lease
    <2>1. g \in Generations /\ g # health[d].generation
      BY DEF Fresh, InUse
    <2>2. PICK t \in Health : /\ health' = [health EXCEPT ![e] = t]
                              /\ Continues(health[e], t) \/ t.generation = g
      BY <1>4, <2>1, AllowShape
         DEF IInv, Reports, Moves, Restarts, Joins, StartsProbe
    <2>3. health'[d] = IF d = e THEN t ELSE health[d]
      BY <2>2, MoveElsewhere, Zenon
    <2> QED BY <1>1, <2>1, <2>2, <2>3 DEF Continues
  <1> QED BY <1>2, <1>3, <1>4, NextCases

(***************************************************************************)
(* A probe owner's repeated allow_request never renews its lease.          *)
(***************************************************************************)
THEOREM LeaseBound == Spec => LeaseNeverRenewed
  <1>1. IInv /\ [Next]_vars => [LeaseStep]_vars
    BY StepKeepsLease
  <1> QED BY <1>1, Invariance, PTL DEF Spec, LeaseNeverRenewed

-----------------------------------------------------------------------------
(***************************************************************************)
(* The tracker implements the port's contract, for any deployments,        *)
(* attempts, generations and policy: under CircuitBreaker's refinement     *)
(* mapping every step of the tracker is a step of HealthContract or        *)
(* changes nothing a caller can observe.                                   *)
(*                                                                         *)
(* The argument first classifies what an operation does to one circuit     *)
(* (it Keeps who governs it, or it Ends the regime), and then lifts the    *)
(* two cases, an admission and a tick to steps of the contract.            *)
(***************************************************************************)
(* What one operation does to one circuit.                                 *)

Mode(s) == Cooled(s).circuit

Owned(s) == s.owner # NoAttempt /\ s.lease # 0

\* Callers observe t as they observed s, and no admission drawn before g
\* gained or lost its power over the circuit.
Keeps(s, t, g) ==
  /\ Mode(t) = Mode(s)
  /\ Owned(t) <=> Owned(s)
  /\ \A a \in Attempts, m \in Admission :
       m.generation # g => (Honours(t, a, m) <=> Honours(s, a, m))

\* The regime of s ended: a closed circuit tripped, or a probe did its work.
Ends(s, t, g) ==
  /\ \/ Mode(t) = "open" /\ Mode(s) = "closed"
     \/ Mode(t) \in {"open", "closed", "half_open"} /\ Mode(s) = "half_open" /\ Owned(s)
  /\ \A a \in Attempts, m \in Admission : m.generation # g => ~Honours(t, a, m)

\* What _refresh_circuit leaves: nothing is due.
Settled(s) ==
  /\ Cooled(s) = s
  /\ s.owner # NoAttempt => s.lease # 0

LEMMA KeepsThen ==
  ASSUME NEW s, NEW r, NEW t, NEW g, Keeps(s, r, g),
         Keeps(r, t, g) \/ Ends(r, t, g)
  PROVE  Keeps(s, t, g) \/ Ends(s, t, g)
  BY DEF Keeps, Ends

\* A state of a new generation honours nothing drawn before.
LEMMA RestartForgets ==
  ASSUME NEW t, NEW g, t.generation = g
  PROVE  \A a \in Attempts, m \in Admission : m.generation # g => ~Honours(t, a, m)
  BY DEF Honours

LEMMA RefreshKeeps ==
  ASSUME NEW s \in Health, NEW g \in Generations, Slot(s)
  PROVE  /\ Keeps(s, Refreshed(s, g), g)
         /\ Settled(Refreshed(s, g))
  <1> DEFINE r == Refreshed(s, g)
  <1>1. CASE s.owner # NoAttempt /\ s.lease = 0
    <2>1. s.circuit = "half_open" /\ Cooled(s) = s
      BY <1>1 DEF Slot, Cooled
    <2>2. r = Retired(s, g)
      BY <1>1, <2>1 DEF Refreshed
    <2>3. /\ r.circuit = "half_open" /\ r.generation = g
          /\ r.owner = NoAttempt /\ r.lease = 0
      BY <2>1, <2>2, RetiredFacts DEF Restarts
    <2> HIDE DEF r
    <2>4. Cooled(r) = r
      BY <2>3 DEF Cooled
    <2>5. \A a \in Attempts, m \in Admission : ~Honours(s, a, m)
      BY <1>1, <2>1 DEF Honours
    <2>6. Keeps(s, r, g)
      BY <1>1, <2>1, <2>3, <2>4, <2>5, RestartForgets DEF Keeps, Mode, Owned
    <2>7. Settled(r)
      BY <2>3, <2>4 DEF Settled
    <2> QED BY <2>6, <2>7 DEF r
  <1>2. CASE ~(s.owner # NoAttempt /\ s.lease = 0)
    <2>1. r = Cooled(s)
      BY <1>2 DEF Refreshed
    <2>2. r \in Health /\ Continues(s, r)
      BY <2>1, CooledFacts
    <2>3. Cooled(r) = r
      BY <2>1 DEF Cooled, Health
    <2> HIDE DEF r
    <2>4. r.circuit = "closed" <=> s.circuit = "closed"
      BY <2>1, CooledFacts
    <2>5. \A a \in Attempts : s.owner = a => s.circuit = "half_open" /\ r.circuit = "half_open"
      BY <2>1, NullAssumption DEF Slot, Cooled
    <2>6. \A a \in Attempts, m \in Admission : Honours(r, a, m) <=> Honours(s, a, m)
      BY <2>2, <2>4, <2>5 DEF Honours, Continues
    <2>7. Keeps(s, r, g)
      BY <2>1, <2>2, <2>3, <2>6 DEF Keeps, Mode, Owned, Continues
    <2>8. Settled(r)
      BY <1>2, <2>2, <2>3 DEF Settled, Continues
    <2> QED BY <2>7, <2>8 DEF r
  <1> QED BY <1>1, <1>2

\* A settled state that keeps its regime keeps who governs it.
LEMMA SameRegimeKeeps ==
  ASSUME NEW s \in Health, NEW t \in Health, NEW g, Cooled(s) = s, Cooled(t) = t,
         SameRegime(s, t)
  PROVE  Keeps(s, t, g)
  BY DEF Keeps, Mode, Owned, SameRegime, Honours

\* A matching probe owns the settled circuit it matches.
LEMMA ProbeOwns ==
  ASSUME NEW s, NEW a \in Attempts, NEW m, Settled(s), Matches(s, a, m), m.probe
  PROVE  Mode(s) = "half_open" /\ Owned(s)
  BY NullAssumption DEF Matches, Settled, Mode, Owned

\* A probe's work that ends in a state of a new generation ends the regime.
LEMMA ProbeEnds ==
  ASSUME NEW s \in Health, NEW t \in Health, NEW g, Mode(s) = "half_open", Owned(s),
         t.generation = g
  PROVE  Ends(s, t, g)
  <1>1. Mode(t) \in {"open", "closed", "half_open"}
    BY DEF Mode, Cooled, Health
  <1> QED BY <1>1, RestartForgets DEF Ends

\* The caller of a report: the attempt that holds m, or nobody.
Caller(a, m) ==
  \/ a \in Attempts /\ m \in Admission
  \/ a = NoAttempt /\ m = NoAdmission

LEMMA SucceededKind ==
  ASSUME NEW s \in Health, NEW g \in Generations, Slot(s), Settled(s), NEW a, NEW m, Caller(a, m)
  PROVE  Keeps(s, Succeeded(s, a, m, g), g) \/ Ends(s, Succeeded(s, a, m, g), g)
  <1> DEFINE t == Succeeded(s, a, m, g)
  <1>0. a \in Attempts \cup {NoAttempt} /\ m \in Admission \cup {NoAdmission}
    BY DEF Caller
  <1>1. t \in Health
    BY <1>0, SucceededFacts, Zenon
  <1>2. CASE SameRegime(s, t)
    <2>1. Cooled(t) = t
      <3>1. CASE ~Controls(s, a, m)
        BY <3>1 DEF Succeeded, Settled
      <3>2. CASE Controls(s, a, m)
        <4>1. t.circuit = "closed"
          BY <3>2 DEF Succeeded, Retired, Health
        <4> QED BY <4>1 DEF Cooled
      <3> QED BY <3>1, <3>2
    <2> QED BY <1>1, <1>2, <2>1, SameRegimeKeeps DEF Settled
  <1>3. CASE ~SameRegime(s, t)
    <2>0. /\ Restarts(t, g)
          /\ m # NoAdmission /\ Matches(s, a, m) /\ m.probe
      BY <1>0, <1>3, SucceededFacts
    <2>1. /\ t.generation = g
          /\ m # NoAdmission /\ Matches(s, a, m) /\ m.probe
      BY <2>0 DEF Restarts
    <2>2. a \in Attempts
      BY <2>1 DEF Caller
    <2> QED BY <1>1, <2>1, <2>2, ProbeOwns, ProbeEnds
  <1> QED BY <1>2, <1>3

LEMMA FailedPermanentlyKind ==
  ASSUME NEW s \in Health, NEW g \in Generations, Slot(s), Settled(s), NEW a, NEW m, Caller(a, m)
  PROVE  Keeps(s, FailedPermanently(s, a, m, g), g) \/ Ends(s, FailedPermanently(s, a, m, g), g)
  <1> DEFINE t == FailedPermanently(s, a, m, g)
             r == [s EXCEPT !.failures = 0]
  <1>1. t \in Health
    BY FailedPermanentlyFacts DEF Caller
  <1>2. CASE Controls(s, a, m) /\ IsProbe(m)
    <2>1. t = Retired(r, g) /\ r \in Health
      BY <1>2, Bounds, SetFailures DEF FailedPermanently
    <2>2. t.generation = g
      BY <2>1 DEF Retired, Health
    <2>3. a \in Attempts /\ Matches(s, a, m) /\ m.probe
      BY <1>2 DEF Caller, Controls, IsProbe
    <2> QED BY <1>1, <2>2, <2>3, ProbeOwns, ProbeEnds
  <1>3. CASE ~(Controls(s, a, m) /\ IsProbe(m))
    <2>1. t = s \/ t = r
      BY <1>3 DEF FailedPermanently
    <2>2. /\ SameRegime(s, t) /\ t.cooldown = s.cooldown
      BY <2>1 DEF SameRegime, Health
    <2>3. Cooled(t) = t
      <3>1. ~(s.circuit = "open" /\ s.cooldown = 0)
        BY DEF Settled, Cooled, Health
      <3> QED BY <2>2, <3>1 DEF SameRegime, Cooled
    <2> QED BY <1>1, <2>2, <2>3, SameRegimeKeeps DEF Settled
  <1> QED BY <1>2, <1>3

LEMMA FailedTransientlyKind ==
  ASSUME NEW s \in Health, NEW g \in Generations, Slot(s), Settled(s), NEW a, NEW m, Caller(a, m)
  PROVE  Keeps(s, FailedTransiently(s, a, m, g), g) \/ Ends(s, FailedTransiently(s, a, m, g), g)
  <1> DEFINE t == FailedTransiently(s, a, m, g)
             n == IF s.failures < FailureThreshold THEN s.failures + 1
                  ELSE FailureThreshold
             c == [s EXCEPT !.failures = n]
             o == [c EXCEPT !.circuit = "open", !.cooldown = Cooldown]
  <1>1. t \in Health
    BY FailedTransientlyFacts DEF Caller
  <1>2. c \in Health /\ SameRegime(s, c) /\ c.cooldown = s.cooldown
    <2>1. n \in 0..FailureThreshold
      BY PolicyAssumption DEF Health
    <2> HIDE DEF n
    <2> QED BY <2>1, SetFailures DEF Health, SameRegime
  <1>3. CASE Controls(s, a, m) /\ (s.circuit = "half_open" \/ n >= FailureThreshold)
    <2>1. t = Retired(o, g)
      BY <1>3 DEF FailedTransiently
    <2>2. t.generation = g /\ t.circuit = "open" /\ t.cooldown = Cooldown
      BY <1>2, <2>1 DEF Retired, Health
    <2>3. Mode(t) = "open"
      BY <2>2, PolicyAssumption, Zenon DEF Mode, Cooled
    <2>4. s.circuit = "closed" \/ (a \in Attempts /\ Matches(s, a, m) /\ m.probe)
      BY <1>3 DEF Caller, Controls, Matches
    <2>5. CASE s.circuit = "closed"
      BY <2>2, <2>3, <2>5, RestartForgets DEF Ends, Mode, Cooled
    <2>6. CASE s.circuit # "closed"
      BY <1>1, <2>2, <2>4, <2>6, ProbeOwns, ProbeEnds
    <2> QED BY <2>5, <2>6
  <1>4. CASE ~(Controls(s, a, m) /\ (s.circuit = "half_open" \/ n >= FailureThreshold))
    <2>1. t = s \/ t = c
      BY <1>4 DEF FailedTransiently
    <2> HIDE DEF t, c
    <2>2. /\ SameRegime(s, t) /\ t.cooldown = s.cooldown
      BY <1>2, <2>1 DEF SameRegime
    <2>3. Cooled(t) = t
      <3>1. ~(s.circuit = "open" /\ s.cooldown = 0)
        BY DEF Settled, Cooled, Health
      <3> QED BY <2>2, <3>1 DEF SameRegime, Cooled
    <2>4. Keeps(s, t, g)
      BY <1>1, <2>2, <2>3, SameRegimeKeeps DEF Settled
    <2> QED BY <2>4 DEF t
  <1> QED BY <1>3, <1>4

\* release_request retires a matching probe only.
LEMMA ReleasedKind ==
  ASSUME NEW s \in Health, NEW g \in Generations, Settled(s),
         NEW a \in Attempts, NEW m \in Admission, m.probe, Matches(s, a, m)
  PROVE  Ends(s, Retired(s, g), g)
  <1>1. Retired(s, g) \in Health /\ Retired(s, g).generation = g
    BY RetiredFacts DEF Restarts
  <1> QED BY <1>1, ProbeOwns, ProbeEnds

-----------------------------------------------------------------------------
(* What one operation does to the tracker.                                 *)

\* Circuit d keeps its governors or ends its regime, and nobody is admitted.
Reported(d, g) ==
  \E t \in Health :
    /\ health' = [health EXCEPT ![d] = t]
    /\ held' = held
    /\ Keeps(health[d], t, g) \/ Ends(health[d], t, g)

\* Attempt a joins closed circuit d, or starts to probe the unowned one.
Grants(a, d, g) ==
  \E t \in Health :
    /\ health' = [health EXCEPT ![d] = t]
    /\ held' = [held EXCEPT ![a] = [deployment |-> d, generation |-> t.generation,
                                    probe |-> t.circuit = "half_open"]]
    /\ \/ t.circuit = "closed" /\ Keeps(health[d], t, g)
       \/ /\ Mode(health[d]) = "half_open" /\ ~Owned(health[d])
          /\ t.circuit = "half_open" /\ t.generation = g
          /\ t.owner = a /\ t.lease = ProbeLease

LEMMA CallerKind ==
  ASSUME IInv, NEW a \in Attempts, NEW g \in Generations,
         \/ ReleaseRequest(a, g)
         \/ IsAdmitted(a, g)
         \/ RecordSuccess(a, g)
         \/ \E transient \in BOOLEAN : RecordFailure(a, transient, g)
  PROVE  \E d \in Deployments : Reported(d, g)
  <1> DEFINE m == held[a]
             d == m.deployment
             s == health[d]
             r == Refreshed(s, g)
  <1>1. m # NoAdmission /\ m \in Admission /\ d \in Deployments /\ s \in Health /\ Slot(s)
    BY DEF IInv, TypeOK, SlotInv, Admission, ReleaseRequest, IsAdmitted, RecordSuccess,
           RecordFailure
  <1>2. r \in Health /\ Slot(r) /\ Keeps(s, r, g) /\ Settled(r) /\ Caller(a, m)
    BY <1>1, RefreshedFacts, RefreshKeeps, Zenon DEF Caller
  <1>3. Keeps(r, r, g)
    BY Zenon DEF Keeps
  <1>4. SUFFICES ASSUME NEW t \in Health, health' = [health EXCEPT ![d] = t], held' = held,
                        Keeps(r, t, g) \/ Ends(r, t, g)
                 PROVE  Reported(d, g)
    <2>1. CASE ReleaseRequest(a, g)
      <3> DEFINE t == IF m.probe /\ Matches(r, a, m) THEN Retired(r, g) ELSE r
      <3>1. t \in Health
        BY <1>2, RetiredFacts
      <3>2. Keeps(r, t, g) \/ Ends(r, t, g)
        BY <1>1, <1>2, <1>3, ReleasedKind, Zenon
      <3>3. health' = [health EXCEPT ![d] = t] /\ held' = held
        BY <2>1 DEF ReleaseRequest
      <3> HIDE DEF t
      <3> QED BY <1>1, <3>1, <3>2, <3>3, <1>4, Zenon
    <2>2. CASE IsAdmitted(a, g)
      <3>1. health' = [health EXCEPT ![d] = r] /\ held' = held
        BY <2>2 DEF IsAdmitted, Snapshot
      <3> QED BY <1>1, <1>2, <1>3, <1>4, <3>1, Zenon
    <2>3. CASE RecordSuccess(a, g)
      <3>1. health' = [health EXCEPT ![d] = Succeeded(r, a, m, g)] /\ held' = held
        BY <2>3 DEF RecordSuccess
      <3> QED BY <1>1, <1>2, <1>4, <3>1, SucceededFacts, SucceededKind, Zenon
    <2>4. ASSUME NEW transient \in BOOLEAN, RecordFailure(a, transient, g)
          PROVE  \E e \in Deployments : Reported(e, g)
      <3>1. CASE transient
        <4>1. health' = [health EXCEPT ![d] = FailedTransiently(r, a, m, g)] /\ held' = held
          BY <2>4, <3>1 DEF RecordFailure
        <4> QED BY <1>1, <1>2, <1>4, <4>1, FailedTransientlyFacts, FailedTransientlyKind, Zenon
      <3>2. CASE ~transient
        <4>1. health' = [health EXCEPT ![d] = FailedPermanently(r, a, m, g)] /\ held' = held
          BY <2>4, <3>2 DEF RecordFailure
        <4> QED BY <1>1, <1>2, <1>4, <4>1, FailedPermanentlyFacts, FailedPermanentlyKind, Zenon
      <3> QED BY <3>1, <3>2
    <2> QED BY <2>1, <2>2, <2>3, <2>4
  <1>5. Keeps(s, t, g) \/ Ends(s, t, g)
    BY <1>2, <1>4, KeepsThen
  <1> QED BY <1>4, <1>5, Zenon DEF Reported

LEMMA UncorrelatedKind ==
  ASSUME IInv, NEW d \in Deployments, NEW g \in Generations, UncorrelatedStep(d, g)
  PROVE  Reported(d, g)
  <1> DEFINE s == health[d]
             r == Refreshed(s, g)
  <1>1. s \in Health /\ Slot(s)
    BY DEF IInv, TypeOK, SlotInv
  <1>2. /\ r \in Health /\ Slot(r) /\ Keeps(s, r, g) /\ Settled(r)
        /\ Caller(NoAttempt, NoAdmission)
    BY <1>1, RefreshedFacts, RefreshKeeps DEF Caller
  <1>3. Keeps(r, r, g)
    BY DEF Keeps
  <1>4. SUFFICES ASSUME NEW t \in Health, health' = [health EXCEPT ![d] = t], held' = held,
                        Keeps(r, t, g) \/ Ends(r, t, g)
                 PROVE  Reported(d, g)
    <2>1. CASE Snapshot(d, g)
      BY <2>1, <1>2, <1>3, <1>4, Zenon DEF Snapshot
    <2>2. CASE ReportSuccess(d, g)
      <3>1. /\ health' = [health EXCEPT ![d] = Succeeded(r, NoAttempt, NoAdmission, g)]
            /\ held' = held
        BY <2>2 DEF ReportSuccess
      <3> QED BY <1>2, <1>4, <3>1, SucceededFacts, SucceededKind, Zenon
    <2>3. ASSUME NEW transient \in BOOLEAN, ReportFailure(d, transient, g)
          PROVE  Reported(d, g)
      <3>1. CASE transient
        <4>1. /\ health' = [health EXCEPT ![d] = FailedTransiently(r, NoAttempt, NoAdmission, g)]
              /\ held' = held
          BY <2>3, <3>1 DEF ReportFailure
        <4> QED BY <1>2, <1>4, <4>1, FailedTransientlyFacts, FailedTransientlyKind, Zenon
      <3>2. CASE ~transient
        <4>1. /\ health' = [health EXCEPT ![d] = FailedPermanently(r, NoAttempt, NoAdmission, g)]
              /\ held' = held
          BY <2>3, <3>2 DEF ReportFailure
        <4> QED BY <1>2, <1>4, <4>1, FailedPermanentlyFacts, FailedPermanentlyKind, Zenon
      <3> QED BY <3>1, <3>2
    <2> QED BY <2>1, <2>2, <2>3 DEF UncorrelatedStep
  <1>5. Keeps(s, t, g) \/ Ends(s, t, g)
    BY <1>2, <1>4, KeepsThen
  <1> QED BY <1>4, <1>5, Zenon DEF Reported

\* allow_request refuses, repeats the owner's admission, or grants a new one.
LEMMA AllowKind ==
  ASSUME IInv, NEW a \in Attempts, NEW d \in Deployments, NEW g \in Generations,
         AllowRequest(a, d, g)
  PROVE  Reported(d, g) \/ Grants(a, d, g)
  <1> DEFINE s == health[d]
             r == Refreshed(s, g)
             t == Admitted(r, a, g)
             Given(u) == [deployment |-> d, generation |-> u.generation,
                          probe |-> u.circuit = "half_open"]
  <1>1. s \in Health /\ Slot(s)
    BY DEF IInv, TypeOK, SlotInv
  <1>2. r \in Health /\ Slot(r) /\ Keeps(s, r, g) /\ Settled(r)
    BY <1>1, RefreshedFacts, RefreshKeeps
  <1>3. health' = [health EXCEPT ![d] = t]
    BY DEF AllowRequest
  <1>4. CASE Refuses(r, a)
    <2>1. t = r
      BY <1>4, NullAssumption DEF Refuses, Admitted
    <2>2. held' = held
      BY <1>4 DEF AllowRequest
    <2> QED BY <1>2, <1>3, <2>1, <2>2, Zenon DEF Reported
  <1>5. CASE ~Refuses(r, a)
    <2>1. held' = [held EXCEPT ![a] = Given(t)]
      BY <1>5 DEF AllowRequest
    <2>2. CASE r.circuit = "closed"
      <3>1. t = r
        BY <2>2 DEF Admitted
      <3> QED BY <1>2, <1>3, <2>1, <2>2, <3>1, Zenon DEF Grants
    <2>3. CASE r.circuit = "half_open" /\ r.owner = NoAttempt
      <3>1. t = Granted(r, a, g)
        BY <2>3 DEF Admitted
      <3>2. Granted(r, a, g) \in Health
        BY <1>2, Bounds, SetGeneration, SetOwner, SetLease, Zenon DEF Granted
      <3>3. /\ Granted(r, a, g).circuit = "half_open"
            /\ Granted(r, a, g).generation = g
            /\ Granted(r, a, g).owner = a
            /\ Granted(r, a, g).lease = ProbeLease
        BY <1>2, <2>3 DEF Granted, Health
      <3>4. Mode(s) = "half_open" /\ ~Owned(s)
        BY <1>2, <2>3 DEF Keeps, Settled, Mode, Owned
      <3> QED BY <1>3, <2>1, <3>1, <3>2, <3>3, <3>4, Zenon DEF Grants
    <2>4. CASE r.circuit = "half_open" /\ r.owner = a
      <3>1. t = r
        BY <2>4, NullAssumption DEF Admitted
      <3>2. Continues(s, r) /\ s.lease > 0
        BY <1>1, <2>4, NullAssumption, RefreshedFacts
      <3>3. held[a] = [deployment |-> d, generation |-> s.generation, probe |-> TRUE]
        BY <2>4, <3>2 DEF IInv, OwnerInv, Continues
      <3>4. Given(t) = held[a]
        BY <2>4, <3>1, <3>2, <3>3, Zenon DEF Continues
      <3>5. held' = held
        BY <2>1, <3>4, Zenon DEF IInv, TypeOK
      <3> QED BY <1>2, <1>3, <3>1, <3>5, Zenon DEF Reported
    <2> QED BY <1>2, <1>5, <2>2, <2>3, <2>4 DEF Refuses, Health
  <1> QED BY <1>4, <1>5

-----------------------------------------------------------------------------
(* Which attempts govern a circuit, before and after a step.               *)

LEMMA LiveBefore ==
  ASSUME IInv, NEW a \in Attempts
  PROVE  /\ Live(a) <=> held[a] # NoAdmission
                         /\ Honours(health[held[a].deployment], a, held[a])
         /\ held[a] # NoAdmission => held[a] \in Admission /\ held[a].deployment \in Deployments
  <1>1. held[a] # NoAdmission => held[a] \in Admission /\ held[a].deployment \in Deployments
    BY DEF IInv, TypeOK, Admission
  <1>2. Live(a) => held[a] # NoAdmission
    BY DEF Live
  <1> QED BY <1>1, <1>2, LiveIsHonoured DEF IInv

LEMMA LiveAfter ==
  ASSUME IInv', NEW a \in Attempts
  PROVE  Live(a)' <=> held'[a] # NoAdmission
                      /\ Honours(health'[held'[a].deployment], a, held'[a])
  <1>1. Live(a)' => held'[a] # NoAdmission
    BY DEF Live
  <1> QED BY <1>1, LiveIsHonouredNext DEF IInv

\* An owned circuit is governed, by its owner.
LEMMA OwnedIsGoverned ==
  ASSUME IInv, NEW d \in Deployments, Owned(health[d])
  PROVE  \E a \in Attempts : Live(a) /\ held[a].deployment = d
  <1>1. Owner(d) = health[d].owner /\ Owner(d) # NoAttempt
    BY DEF Owned, Owner
  <1>2. Owner(d) \in Attempts
    BY <1>1 DEF IInv, TypeOK, Health
  <1> QED BY <1>1, <1>2, OwnerIsLive DEF OwnerHoldsProbe

\* Only its owner governs a half-open circuit.
LEMMA GovernorOwns ==
  ASSUME IInv, NEW a \in Attempts, Live(a), Mode(health[held[a].deployment]) = "half_open"
  PROVE  Owner(held[a].deployment) = a /\ Owned(health[held[a].deployment])
  <1> DEFINE s == health[held[a].deployment]
  <1>1. Honours(s, a, held[a]) /\ s \in Health /\ Slot(s)
    BY LiveBefore DEF IInv, TypeOK, SlotInv
  <1>2. s.circuit # "closed"
    BY <1>1 DEF Mode, Cooled
  <1> QED BY <1>1, <1>2, NullAssumption DEF Honours, Owner, Owned

\* Attempts that hold an old admission, when circuit d moves to t.
LEMMA MovedLive ==
  ASSUME IInv, IInv', NEW d \in Deployments, NEW g \in Fresh, NEW t \in Health,
         health' = [health EXCEPT ![d] = t], NEW b \in Attempts, held'[b] = held[b]
  PROVE  /\ Keeps(health[d], t, g) => (Live(b)' <=> Live(b))
         /\ (\A m \in Admission : m.generation # g => ~Honours(t, b, m)) =>
              (Live(b)' <=> Live(b) /\ held[b].deployment # d)
  <1>1. CASE held[b] = NoAdmission
    BY <1>1 DEF Live
  <1>2. CASE held[b] # NoAdmission
    <2>1. held[b] \in Admission /\ held[b].deployment \in Deployments /\ held[b].generation # g
      BY <1>2, LiveBefore, FreshIsUnknown
    <2>2. health'[held[b].deployment] =
            IF held[b].deployment = d THEN t ELSE health[held[b].deployment]
      BY <2>1, MoveElsewhere, Zenon
    <2>3. Live(b) <=> Honours(health[held[b].deployment], b, held[b])
      BY <1>2, LiveBefore
    <2>4. Live(b)' <=> Honours(health'[held[b].deployment], b, held[b])
      BY <1>2, LiveAfter
    <2>5. Keeps(health[d], t, g) => (Honours(t, b, held[b]) <=> Honours(health[d], b, held[b]))
      BY <2>1 DEF Keeps
    <2> QED BY <2>1, <2>2, <2>3, <2>4, <2>5
  <1> QED BY <1>1, <1>2

\* The circuits callers observe, when circuit d moves to t.
LEMMA MovedMode ==
  ASSUME IInv, NEW d \in Deployments, NEW t \in Health,
         health' = [health EXCEPT ![d] = t], NEW e \in Deployments
  PROVE  /\ Circuit(e) = Mode(health[e])
         /\ Circuit(e)' = IF e = d THEN Mode(t) ELSE Circuit(e)
  <1>1. Circuit(e) = Mode(health[e]) /\ Circuit(e)' = Mode(health'[e])
    BY DEF Circuit, Mode
  <1> QED BY <1>1, MoveElsewhere, Zenon

-----------------------------------------------------------------------------
(* Every step of the tracker is a step of the contract.                    *)

LEMMA InitRefines == Init => Contract!Init
  <1> SUFFICES ASSUME Init
               PROVE  Contract!Init
    OBVIOUS
  <1>1. \A d \in Deployments : Circuit(d) = "closed"
    BY Zenon DEF Init, Circuit, Cooled
  <1>2. \A a \in Attempts : ~Live(a)
    BY DEF Init, Live
  <1> QED BY <1>1, <1>2 DEF Contract!Init

LEMMA ReportedRefines ==
  ASSUME IInv, IInv', NEW d \in Deployments, NEW g \in Fresh, Reported(d, g)
  PROVE  [Contract!Next]_(Contract!contractVars)
  <1> DEFINE G(a) == IF Live(a) THEN held[a].deployment ELSE NoDeployment
  <1>1. PICK t \in Health : /\ health' = [health EXCEPT ![d] = t]
                            /\ held' = held
                            /\ Keeps(health[d], t, g) \/ Ends(health[d], t, g)
    BY Zenon DEF Reported
  <1>2. \A e \in Deployments : /\ Circuit(e) = Mode(health[e])
                               /\ Circuit(e)' = IF e = d THEN Mode(t) ELSE Circuit(e)
    BY <1>1, MovedMode, Zenon
  <1>3. CASE Keeps(health[d], t, g)
    <2>1. \A e \in Deployments : Circuit(e)' = Circuit(e)
      BY <1>2, <1>3 DEF Keeps
    <2>2. \A b \in Attempts : Live(b)' <=> Live(b)
      BY <1>1, <1>3, MovedLive, Zenon
    <2> QED BY <1>1, <2>1, <2>2 DEF Contract!contractVars
  <1>4. CASE Ends(health[d], t, g)
    <2>1. \A b \in Attempts : Live(b)' <=> Live(b) /\ held[b].deployment # d
      BY <1>1, <1>4, MovedLive, Zenon DEF Ends
    <2>2. Mode(health[d]) = "half_open" /\ Owned(health[d]) => Contract!Governors(d) # {}
      BY OwnedIsGoverned DEF Contract!Governors
    <2>3. \A b \in Attempts : Live(b) => held[b].deployment \in Deployments
      BY LiveBefore
    <2>4. [a \in Attempts |-> G(a)]' = Contract!ReleasedFrom({d})
      BY <1>1, <2>1, <2>3, NullAssumption DEF Contract!ReleasedFrom
    <2>5. [e \in Deployments |-> Circuit(e)]' =
            [[e \in Deployments |-> Circuit(e)] EXCEPT ![d] = Mode(t)]
      BY <1>2, Zenon
    <2>6. CASE Mode(t) = "open"
      <3>1. Contract!Trip(d)
        BY <1>2, <1>4, <2>2, <2>4, <2>5, <2>6, Zenon DEF Ends, Contract!Trip
      <3> QED BY <3>1 DEF Contract!Next
    <2>7. CASE Mode(t) = "closed"
      <3>1. Contract!Recover(d)
        BY <1>2, <1>4, <2>2, <2>4, <2>5, <2>7 DEF Ends, Contract!Recover
      <3> QED BY <3>1 DEF Contract!Next
    <2>8. CASE Mode(t) = "half_open"
      <3>1. [e \in Deployments |-> Circuit(e)]' = [e \in Deployments |-> Circuit(e)]
        BY <1>2, <1>4, <2>8 DEF Ends
      <3>2. Contract!Surrender(d)
        BY <1>2, <1>4, <2>2, <2>4, <2>8, <3>1, Zenon DEF Ends, Contract!Surrender
      <3> QED BY <3>2 DEF Contract!Next
    <2> QED BY <1>4, <2>6, <2>7, <2>8 DEF Ends
  <1> QED BY <1>1, <1>3, <1>4

LEMMA GrantsRefines ==
  ASSUME IInv, IInv', NEW a \in Attempts, NEW d \in Deployments, NEW g \in Fresh,
         AllowRequest(a, d, g), Grants(a, d, g)
  PROVE  Contract!Admit(a, d)
  <1> DEFINE G(b) == IF Live(b) THEN held[b].deployment ELSE NoDeployment
             Given(u) == [deployment |-> d, generation |-> u.generation,
                          probe |-> u.circuit = "half_open"]
  <1>1. PICK t \in Health :
          /\ health' = [health EXCEPT ![d] = t]
          /\ held' = [held EXCEPT ![a] = Given(t)]
          /\ \/ t.circuit = "closed" /\ Keeps(health[d], t, g)
             \/ /\ Mode(health[d]) = "half_open" /\ ~Owned(health[d])
                /\ t.circuit = "half_open" /\ t.generation = g
                /\ t.owner = a /\ t.lease = ProbeLease
    BY Zenon DEF Grants
  <1>2. \A e \in Deployments : /\ Circuit(e) = Mode(health[e])
                               /\ Circuit(e)' = IF e = d THEN Mode(t) ELSE Circuit(e)
    BY <1>1, MovedMode, Zenon
  <1>3. Mode(t) = t.circuit /\ Mode(health[d]) = t.circuit
    BY <1>1 DEF Keeps, Mode, Cooled
  <1>4. \A e \in Deployments : Circuit(e)' = Circuit(e)
    BY <1>2, <1>3
  <1>5. Given(t) \in Admission /\ Given(t) # NoAdmission
    <2>1. Given(t) \in Admission
      BY DEF Health, Admission
    <2> QED BY <2>1, NullAssumption, Zenon DEF Admission
  <1>6. held'[a] = Given(t) /\ \A b \in Attempts : b # a => held'[b] = held[b]
    BY <1>1, Zenon DEF IInv, TypeOK
  <1>7. Live(a)' /\ held'[a].deployment = d
    <2>1. health'[d] = t
      BY <1>1, MoveElsewhere, Zenon
    <2>2. Honours(t, a, Given(t))
      BY <1>1, PolicyAssumption, Zenon DEF Honours
    <2>3. held'[a] # NoAdmission /\ held'[a].deployment = d
      <3>1. Given(t).deployment = d
        OBVIOUS
      <3> HIDE DEF Given
      <3> QED BY <1>5, <1>6, <3>1
    <2>4. Honours(health'[held'[a].deployment], a, held'[a])
      <3> HIDE DEF Given
      <3> QED BY <1>6, <2>1, <2>2, <2>3
    <2> QED BY <2>3, <2>4, LiveAfter
  <1>8. ~Owned(health[d]) /\ Mode(health[d]) = "half_open" =>
          \A b \in Attempts : ~(Live(b) /\ held[b].deployment = d)
    BY GovernorOwns
  <1>9. \A b \in Attempts : b # a => (Live(b)' <=> Live(b))
    <2>1. CASE Keeps(health[d], t, g)
      BY <1>1, <1>6, <2>1, MovedLive, Zenon
    <2>2. CASE ~Keeps(health[d], t, g)
      <3>1. \A b \in Attempts, m \in Admission : m.generation # g => ~Honours(t, b, m)
        BY <1>1, <2>2, RestartForgets, Zenon
      <3>2. \A b \in Attempts : ~(Live(b) /\ held[b].deployment = d)
        BY <1>1, <1>8, <2>2
      <3> QED BY <1>1, <1>6, <3>1, <3>2, MovedLive, Zenon
    <2> QED BY <2>1, <2>2
  <1>10. [b \in Attempts |-> G(b)]' = [[b \in Attempts |-> G(b)] EXCEPT ![a] = d]
    BY <1>6, <1>7, <1>9, Zenon
  <1>11. Live(a) => Circuit(held[a].deployment) # "half_open"
    <2> SUFFICES ASSUME Live(a), Circuit(held[a].deployment) = "half_open"
                 PROVE  FALSE
      OBVIOUS
    <2>1. held[a].deployment \in Deployments
      BY LiveBefore
    <2>2. Owner(held[a].deployment) = a /\ Owned(health[held[a].deployment])
      BY <1>2, <2>1, GovernorOwns, Zenon
    <2>3. held[a].deployment = d
      BY <2>1, <2>2 DEF AllowRequest
    <2> QED BY <1>1, <1>2, <1>3, <2>2, <2>3
  <1>12. Contract!Governors(d) = {} \/ t.circuit = "closed"
    BY <1>1, <1>8, NullAssumption DEF Contract!Governors
  <1>13. /\ \/ [e \in Deployments |-> Circuit(e)][d] = "closed"
            \/ [e \in Deployments |-> Circuit(e)][d] = "half_open" /\ Contract!Governors(d) = {}
         /\ [e \in Deployments |-> Circuit(e)]' = [e \in Deployments |-> Circuit(e)]
    BY <1>1, <1>2, <1>3, <1>4, <1>12
  <1>14. [b \in Attempts |-> G(b)][a] # NoDeployment =>
           [e \in Deployments |-> Circuit(e)][[b \in Attempts |-> G(b)][a]] # "half_open"
    BY <1>11, LiveBefore
  <1> QED BY <1>10, <1>13, <1>14, Zenon DEF Contract!Admit

LEMMA TickRefines ==
  ASSUME IInv, IInv', Tick
  PROVE  Contract!Next
  <1> DEFINE G(b) == IF Live(b) THEN held[b].deployment ELSE NoDeployment
  <1>a. PICK C \in SUBSET Deployments :
          C = {d \in Deployments : Circuit(d) = "open" /\ Circuit(d)' = "half_open"}
    BY Zenon
  <1>b. PICK L \in SUBSET Deployments :
          L = {d \in Deployments : health[d].circuit = "half_open" /\ health'[d].lease = 0}
    BY Zenon
  <1>1. ASSUME NEW d \in Deployments
        PROVE  /\ health[d] \in Health
               /\ health'[d].generation = health[d].generation
               /\ health'[d].owner = health[d].owner
               /\ health'[d].circuit = health[d].circuit
               /\ health'[d].lease # 0 => health[d].lease # 0
               /\ health[d].cooldown = 0 => health'[d].cooldown = 0
    BY TickShape DEF IInv, TypeOK
  <1>2. ASSUME NEW d \in Deployments
        PROVE  Circuit(d)' = IF d \in C THEN "half_open" ELSE Circuit(d)
    <2>1. /\ Circuit(d) = IF health[d].circuit = "open" /\ health[d].cooldown = 0
                          THEN "half_open" ELSE health[d].circuit
          /\ Circuit(d)' = IF health'[d].circuit = "open" /\ health'[d].cooldown = 0
                           THEN "half_open" ELSE health'[d].circuit
      <3>1. health'[d] \in Health
        BY DEF IInv, TypeOK
      <3> QED BY <1>1, <3>1 DEF Circuit, Cooled, Health
    <2> QED BY <1>a, <1>1, <2>1
  <1>3. ASSUME NEW b \in Attempts
        PROVE  Live(b)' <=> Live(b) /\ held[b].deployment \notin L
    <2>1. CASE held[b] = NoAdmission
      BY <2>1, Zenon DEF Live, Tick
    <2>2. CASE held[b] # NoAdmission
      <3>1. held[b].deployment \in Deployments
        BY <2>2, LiveBefore
      <3>2. /\ Live(b) <=> Honours(health[held[b].deployment], b, held[b])
            /\ Live(b)' <=> Honours(health'[held[b].deployment], b, held[b])
        BY <2>2, LiveBefore, LiveAfter, Zenon DEF Tick
      <3> QED BY <1>b, <1>1, <3>1, <3>2, Zenon DEF Honours
    <2> QED BY <2>1, <2>2
  <1>4. \A b \in Attempts : Live(b) => held[b].deployment \in Deployments
    BY LiveBefore
  <1>5. held' = held
    BY Zenon DEF Tick
  <1>6. [b \in Attempts |-> G(b)]' = Contract!ReleasedFrom(L)
    BY <1>3, <1>4, <1>5, NullAssumption DEF Contract!ReleasedFrom
  <1>7. \A d \in L : Circuit(d) = "half_open"
    BY <1>b DEF Circuit, Cooled
  <1>8. Contract!Elapse(C, L)
    BY <1>a, <1>b, <1>2, <1>6, <1>7 DEF Contract!Elapse
  <1> QED BY <1>8 DEF Contract!Next

LEMMA StepRefines == IInv /\ [Next]_vars => [Contract!Next]_(Contract!contractVars)
  <1> SUFFICES ASSUME IInv, [Next]_vars
               PROVE  [Contract!Next]_(Contract!contractVars)
    OBVIOUS
  <1>1. IInv'
    BY StepInvariant
  <1>2. CASE Tick
    BY <1>1, <1>2, TickRefines
  <1>3. ASSUME NEW g \in Fresh, NEW a \in Attempts, CallerStep(a, g)
        PROVE  [Contract!Next]_(Contract!contractVars)
    <2>1. g \in Generations
      BY DEF Fresh
    <2>2. ASSUME NEW d \in Deployments, AllowRequest(a, d, g)
          PROVE  [Contract!Next]_(Contract!contractVars)
      <3>1. Reported(d, g) \/ Contract!Admit(a, d)
        BY <1>1, <2>1, <2>2, AllowKind, GrantsRefines
      <3> QED BY <1>1, <3>1, ReportedRefines DEF Contract!Next
    <2>3. CASE ~(\E d \in Deployments : AllowRequest(a, d, g))
      <3>1. \E d \in Deployments : Reported(d, g)
        BY <1>3, <2>1, <2>3, CallerKind DEF CallerStep
      <3> QED BY <1>1, <3>1, ReportedRefines
    <2> QED BY <2>2, <2>3
  <1>4. ASSUME NEW g \in Fresh, NEW d \in Deployments, UncorrelatedStep(d, g)
        PROVE  [Contract!Next]_(Contract!contractVars)
    <2>1. g \in Generations
      BY DEF Fresh
    <2> QED BY <1>1, <1>4, <2>1, UncorrelatedKind, ReportedRefines
  <1>5. CASE UNCHANGED vars
    <2>1. \A d \in Deployments : Circuit(d)' = Circuit(d)
      BY <1>5 DEF vars, Circuit
    <2>2. \A a \in Attempts : Live(a)' <=> Live(a)
      BY <1>1, <1>5, LiveBefore, LiveAfter DEF vars
    <2> QED BY <1>5, <2>1, <2>2 DEF vars, Contract!contractVars
  <1> QED BY <1>2, <1>3, <1>4, <1>5 DEF Next

(***************************************************************************)
(* The lazily refreshed, leased and fenced tracker implements the port's   *)
(* contract: callers observe circuits that open, cool down, are probed by  *)
(* one attempt at a time and close only for that probe, and no attempt     *)
(* moves a circuit it does not govern (InMemoryHealthTracker).             *)
(***************************************************************************)
THEOREM Refinement == Spec => ImplementsContract
  BY InitRefines, StepRefines, Invariance, PTL DEF Spec, ImplementsContract, Contract!Spec
=============================================================================
