--------------------------- MODULE CircuitBreaker ---------------------------
(***************************************************************************)
(* The per-process health tracker of application/resilience.py             *)
(* (InMemoryHealthTracker): one circuit breaker per deployment, whose      *)
(* half-open state is probed by one attempt at a time under a lease, and   *)
(* whose every regime carries a generation that fences late reports.       *)
(*                                                                         *)
(* The monotonic clock is modelled by what the code compares it with: the  *)
(* cooldown still to run (opened_at + cooldown_seconds - now) and the      *)
(* lease still to run (probe_expires_at - now), both counted down by Tick. *)
(* The code tests them only when an operation refreshes the circuit.       *)
(* A generation is a UUID: any value that nothing refers to any more.      *)
(* The consecutive-failure counter saturates at the threshold, the only    *)
(* value it is compared with.  The lifetime counters and latencies decide  *)
(* nothing in this tracker and are left out.                               *)
(***************************************************************************)
EXTENDS Naturals

CONSTANTS Deployments,       \* deployment ids
          Attempts,          \* concurrent callers; each holds one admission
          Generations,       \* values uuid4() may return
          FirstGeneration,   \* the uuid each deployment's first regime drew
          FailureThreshold,  \* CircuitBreakerPolicy.failure_threshold
          Cooldown,          \* CircuitBreakerPolicy.cooldown_seconds
          ProbeLease,        \* CircuitBreakerPolicy.probe_lease_seconds
          NoAttempt, NoAdmission, NoDeployment

ASSUME PolicyAssumption ==
  /\ FailureThreshold \in Nat \ {0}
  /\ Cooldown \in Nat \ {0}
  /\ ProbeLease \in Nat \ {0}

ASSUME GenerationAssumption ==
  /\ FirstGeneration \in [Deployments -> Generations]
  /\ \A d, e \in Deployments : FirstGeneration[d] = FirstGeneration[e] => d = e

ASSUME NullAssumption ==
  /\ NoAttempt \notin Attempts
  /\ NoDeployment \notin Deployments
  /\ NoAdmission \notin
       [deployment : Deployments, generation : Generations, probe : BOOLEAN]

VARIABLES health,  \* health[d]: _MutableDeploymentHealth of deployment d
          held     \* held[a]: the HealthAdmission attempt a was given last

vars == <<health, held>>

Admission ==
  [deployment : Deployments, generation : Generations, probe : BOOLEAN]

Health ==
  [circuit    : {"closed", "open", "half_open"},
   cooldown   : 0..Cooldown,
   generation : Generations,
   owner      : Attempts \cup {NoAttempt},
   lease      : 0..ProbeLease,
   failures   : 0..FailureThreshold]

TypeOK ==
  /\ health \in [Deployments -> Health]
  /\ held \in [Attempts -> Admission \cup {NoAdmission}]

-----------------------------------------------------------------------------
(* The tracker's helpers, on one deployment's state s.                     *)

\* _retire_probe, g being the fresh generation.
Retired(s, g) ==
  [s EXCEPT !.generation = g, !.owner = NoAttempt, !.lease = 0]

\* _refresh_circuit: an open circuit that has cooled down becomes half-open,
\* and a probe whose lease has run out is retired.
Cooled(s) ==
  IF s.circuit = "open" /\ s.cooldown = 0
  THEN [s EXCEPT !.circuit = "half_open"] ELSE s

Refreshed(s, g) ==
  IF s.owner # NoAttempt /\ s.lease = 0 THEN Retired(Cooled(s), g) ELSE Cooled(s)

\* Seeded fault: the generation is not compared.
MatchesAnyGeneration(s, a, m) ==
  \/ s.circuit = "closed" /\ ~m.probe
  \/ s.circuit = "half_open" /\ m.probe /\ s.owner = a

\* _matches: does attempt a's admission m still belong to the regime of s?
Matches(s, a, m) ==
  /\ s.generation = m.generation
  /\ \/ s.circuit = "closed" /\ ~m.probe
     \/ s.circuit = "half_open" /\ m.probe /\ s.owner = a

\* Seeded fault: an uncorrelated report may move a half-open circuit.
ControlsUnlessOpen(s, a, m) ==
  IF m = NoAdmission THEN s.circuit # "open" ELSE Matches(s, a, m)

\* _controls_circuit; m = NoAdmission is an uncorrelated report.
Controls(s, a, m) ==
  IF m = NoAdmission THEN s.circuit = "closed" ELSE Matches(s, a, m)

IsProbe(m) == m # NoAdmission /\ m.probe

\* record_success on a refreshed state.
Succeeded(s, a, m, g) ==
  LET closed == [s EXCEPT !.failures = 0, !.circuit = "closed", !.cooldown = 0]
  IN  IF ~Controls(s, a, m) THEN s
      ELSE IF IsProbe(m) THEN Retired(closed, g) ELSE closed

\* record_failure of a permanent error on a refreshed state.
FailedPermanently(s, a, m, g) ==
  LET reset == [s EXCEPT !.failures = 0]
  IN  IF ~Controls(s, a, m) THEN s
      ELSE IF IsProbe(m) THEN Retired(reset, g) ELSE reset

\* record_failure of a transient error on a refreshed state.
FailedTransiently(s, a, m, g) ==
  LET n       == IF s.failures < FailureThreshold THEN s.failures + 1
                 ELSE FailureThreshold
      counted == [s EXCEPT !.failures = n]
      opened  == [counted EXCEPT !.circuit = "open", !.cooldown = Cooldown]
  IN  IF ~Controls(s, a, m) THEN s
      ELSE IF s.circuit = "half_open" \/ n >= FailureThreshold
           THEN Retired(opened, g) ELSE counted
-----------------------------------------------------------------------------
(* The operations.  Each refreshes the circuit first, as the code does.    *)

InUse == {health[d].generation : d \in Deployments}
           \cup {held[a].generation : a \in {b \in Attempts : held[b] # NoAdmission}}

\* uuid4: which unused value is drawn makes no difference, so one stands for all.
Fresh == LET unused == Generations \ InUse IN {g \in unused : g = CHOOSE h \in unused : TRUE}

\* What a caller that refreshes d's circuit now would see.
Circuit(d) == Cooled(health[d]).circuit
Owner(d) == IF health[d].lease = 0 THEN NoAttempt ELSE health[d].owner

Init ==
  /\ health = [d \in Deployments |->
                 [circuit |-> "closed", cooldown |-> 0, generation |-> FirstGeneration[d],
                  owner |-> NoAttempt, lease |-> 0, failures |-> 0]]
  /\ held = [a \in Attempts |-> NoAdmission]

\* The clock advances.
Tick ==
  /\ health' = [d \in Deployments |->
                  [health[d] EXCEPT !.cooldown = IF @ = 0 THEN 0 ELSE @ - 1,
                                    !.lease    = IF @ = 0 THEN 0 ELSE @ - 1]]
  /\ held' = held

\* snapshot: reading refreshes.
Snapshot(d, g) ==
  /\ health' = [health EXCEPT ![d] = Refreshed(@, g)]
  /\ held' = held

(***************************************************************************)
(* allow_request.  A caller is a fresh attempt id, unless it is the probe  *)
(* owner asking again: a live probe never changes its circuit.  A refusal  *)
(* (None) leaves the caller without a new admission.                       *)
(***************************************************************************)
Granted(s, a, g) ==
  [s EXCEPT !.generation = g, !.owner = a, !.lease = ProbeLease]

\* Seeded fault: the owner's repeated check renews its lease.
AdmittedRenewing(s, a, g) ==
  IF s.circuit # "half_open" THEN s
  ELSE IF s.owner = NoAttempt THEN Granted(s, a, g)
  ELSE IF s.owner = a THEN [s EXCEPT !.lease = ProbeLease] ELSE s

Admitted(s, a, g) ==
  IF s.circuit = "half_open" /\ s.owner = NoAttempt THEN Granted(s, a, g) ELSE s

Refuses(s, a) ==
  s.circuit = "open" \/ (s.circuit = "half_open" /\ s.owner \notin {NoAttempt, a})

AllowRequest(a, d, g) ==
  LET s == Refreshed(health[d], g)
      t == Admitted(s, a, g)
  IN  /\ \A e \in Deployments \ {d} : Owner(e) # a
      /\ health' = [health EXCEPT ![d] = t]
      /\ held' = IF Refuses(s, a) THEN held
                 ELSE [held EXCEPT ![a] =
                         [deployment |-> d, generation |-> t.generation,
                          probe |-> t.circuit = "half_open"]]

\* release_request: only a matching probe is retired.
ReleaseRequest(a, g) ==
  LET m == held[a]
      s == Refreshed(health[m.deployment], g)
  IN  /\ m # NoAdmission
      /\ health' = [health EXCEPT ![m.deployment] =
                      IF m.probe /\ Matches(s, a, m) THEN Retired(s, g) ELSE s]
      /\ held' = held

\* is_admitted: a check refreshes and claims nothing.
IsAdmitted(a, g) ==
  /\ held[a] # NoAdmission
  /\ Snapshot(held[a].deployment, g)

\* record_success and record_failure with the caller's admission.
RecordSuccess(a, g) ==
  LET m == held[a]
  IN  /\ m # NoAdmission
      /\ health' = [health EXCEPT ![m.deployment] =
                      Succeeded(Refreshed(@, g), a, m, g)]
      /\ held' = held

RecordFailure(a, transient, g) ==
  LET m == held[a]
      s == Refreshed(health[m.deployment], g)
  IN  /\ m # NoAdmission
      /\ health' = [health EXCEPT ![m.deployment] =
                      IF transient THEN FailedTransiently(s, a, m, g)
                      ELSE FailedPermanently(s, a, m, g)]
      /\ held' = held

\* record_success and record_failure with no admission.
ReportSuccess(d, g) ==
  /\ health' = [health EXCEPT ![d] =
                  Succeeded(Refreshed(@, g), NoAttempt, NoAdmission, g)]
  /\ held' = held

ReportFailure(d, transient, g) ==
  LET s == Refreshed(health[d], g)
  IN  /\ health' = [health EXCEPT ![d] =
                      IF transient THEN FailedTransiently(s, NoAttempt, NoAdmission, g)
                      ELSE FailedPermanently(s, NoAttempt, NoAdmission, g)]
      /\ held' = held

CallerStep(a, g) ==
  \/ \E d \in Deployments : AllowRequest(a, d, g)
  \/ ReleaseRequest(a, g)
  \/ IsAdmitted(a, g)
  \/ RecordSuccess(a, g)
  \/ \E transient \in BOOLEAN : RecordFailure(a, transient, g)

UncorrelatedStep(d, g) ==
  \/ Snapshot(d, g)
  \/ ReportSuccess(d, g)
  \/ \E transient \in BOOLEAN : ReportFailure(d, transient, g)

Next ==
  \/ Tick
  \/ \E g \in Fresh : \/ \E a \in Attempts : CallerStep(a, g)
                      \/ \E d \in Deployments : UncorrelatedStep(d, g)

Spec == Init /\ [][Next]_vars
-----------------------------------------------------------------------------
(* Correctness.                                                            *)

\* The state a caller that refreshes d's circuit now would act on.
Seen(d) == [Cooled(health[d]) EXCEPT !.owner = Owner(d)]

\* Attempt a's admission still belongs to the regime its circuit is in: the
\* tracker would let its report move the circuit.
Live(a) ==
  held[a] # NoAdmission /\ Matches(Seen(held[a].deployment), a, held[a])

\* Whatever half-open, open and closed regimes follow, an admission whose
\* regime has ended is never honoured again (record_success, record_failure,
\* release_request and is_admitted compare generations).
FencedStep ==
  \A a \in Attempts : held'[a] = held[a] /\ ~Live(a) => ~Live(a)'

StaleAdmissionStaysStale == [][FencedStep]_vars

\* A circuit that is not closed closes only on the report of the attempt that
\* holds its live probe; no uncorrelated, late or foreign success closes it.
RecoveryStep ==
  \A d \in Deployments : Circuit(d) # "closed" /\ Circuit(d)' = "closed" =>
    /\ Circuit(d) = "half_open"
    /\ \E a \in Attempts : Live(a) /\ held[a].deployment = d /\ held'[a] = held[a]

RecoveryOnlyByLiveProbe == [][RecoveryStep]_vars

\* The owner of a probe slot always holds the admission that can free it, so
\* the slot is never owned by nobody who could report.
OwnerHoldsProbe ==
  \A d \in Deployments : Owner(d) # NoAttempt =>
    Live(Owner(d)) /\ held[Owner(d)].deployment = d /\ held[Owner(d)].probe

\* Asking again never renews a lease: while the same attempt owns the slot
\* under the same generation its lease only shrinks.
LeaseStep ==
  \A d \in Deployments :
    Owner(d) # NoAttempt /\ Owner(d)' = Owner(d) /\ health'[d].generation = health[d].generation
    => health'[d].lease <= health[d].lease

LeaseNeverRenewed == [][LeaseStep]_vars

\* The lazily refreshed, leased and fenced tracker behaves as the port's
\* contract: what callers observe and which attempts govern each circuit.
Contract == INSTANCE HealthContract WITH
  mode    <- [d \in Deployments |-> Circuit(d)],
  governs <- [a \in Attempts |-> IF Live(a) THEN held[a].deployment ELSE NoDeployment]

ImplementsContract == Contract!Spec

(***************************************************************************)
(* Liveness.  The clock advances; while requests keep arriving, some       *)
(* caller keeps asking for each deployment.  Nothing obliges a caller to   *)
(* report or to release what it holds: it may have crashed.                *)
(***************************************************************************)
AskFor(d) == \E a \in Attempts, g \in Fresh : AllowRequest(a, d, g)

Fairness == WF_vars(Tick) /\ \A d \in Deployments : WF_vars(AskFor(d))

FairSpec == Spec /\ Fairness

\* Lost probes wedge nothing: a circuit that tripped is probed again and again
\* until it closes, and every ownership ends, although nobody releases it and
\* its owner may ask again for ever.
CircuitsRecover ==
  \A d \in Deployments :
    /\ Circuit(d) # "closed" ~> (Owner(d) # NoAttempt \/ Circuit(d) = "closed")
    /\ \A a \in Attempts, g \in Generations :
         (Owner(d) = a /\ health[d].generation = g)
           ~> ~(Owner(d) = a /\ health[d].generation = g)
=============================================================================
