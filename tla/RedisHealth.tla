---------------------------- MODULE RedisHealth -----------------------------
(***************************************************************************)
(* The health tracker shared by the gateway's replicas                     *)
(* (adapters/health_redis.py, RedisDeploymentHealthTracker).  Every        *)
(* operation is one Lua script that the server runs atomically on one      *)
(* hash, so an operation is one action.  What the in-process tracker of    *)
(* CircuitBreaker does not have:                                           *)
(*  - the hash has a time to live, renewed by some scripts only; when it   *)
(*    runs out every field is gone, the generation included;               *)
(*  - the reply of a script can be lost, because the caller was cancelled  *)
(*    or its replica died while waiting for it.                            *)
(* The server's TIME is modelled as in CircuitBreaker, by countdowns.  The *)
(* lifetime counters decide only the status a snapshot reports, which is   *)
(* GovernedRouting's to read, and are left out.                            *)
(***************************************************************************)
EXTENDS Naturals

CONSTANTS Deployments, Attempts, Generations,
          FailureThreshold, Cooldown, ProbeLease,
          KeyTTL,            \* RedisHealthKeyspace.ttl_seconds
          NoAttempt, NoGeneration, NoAdmission, NoDeployment

ASSUME PolicyAssumption ==
  /\ FailureThreshold \in Nat \ {0} /\ Cooldown \in Nat \ {0} /\ ProbeLease \in Nat \ {0}
  /\ KeyTTL \in Nat /\ KeyTTL > Cooldown /\ KeyTTL > ProbeLease

ASSUME NullAssumption ==
  /\ NoAttempt \notin Attempts
  /\ NoGeneration \notin Generations
  /\ NoDeployment \notin Deployments
  /\ NoAdmission \notin
       [deployment : Deployments, generation : Generations, probe : BOOLEAN]

VARIABLES hash,   \* hash[d]: the fields stored under d's health key
          held    \* held[a]: the HealthAdmission replica attempt a was given

vars == <<hash, held>>

Admission ==
  [deployment : Deployments, generation : Generations, probe : BOOLEAN]

Fields ==
  [circuit    : {"closed", "open", "half_open"},
   cooldown   : 0..Cooldown,
   generation : Generations \cup {NoGeneration},
   owner      : Attempts \cup {NoAttempt},
   lease      : 0..ProbeLease,
   failures   : 0..FailureThreshold,
   ttl        : 0..KeyTTL]

\* What every script reads from a key that does not exist.
Absent ==
  [circuit |-> "closed", cooldown |-> 0, generation |-> NoGeneration,
   owner |-> NoAttempt, lease |-> 0, failures |-> 0, ttl |-> 0]

TypeOK ==
  /\ hash \in [Deployments -> Fields]
  /\ held \in [Attempts -> Admission \cup {NoAdmission}]
  /\ \A d \in Deployments : hash[d].ttl = 0 => hash[d] = Absent

-----------------------------------------------------------------------------
(* The scripts, on one deployment's fields s; g is the fresh generation.   *)

Expire(s) == [s EXCEPT !.ttl = KeyTTL]

Retire(s, g) ==
  Expire([s EXCEPT !.generation = g, !.owner = NoAttempt, !.lease = 0])

Cooled(s) ==
  IF s.circuit = "open" /\ s.cooldown = 0
  THEN Expire([s EXCEPT !.circuit = "half_open"]) ELSE s

\* Seeded fault: every script renews the lease of a live probe.
TransitionRenewing(s, g) ==
  LET c == Cooled(s)
  IN  IF c.circuit = "half_open" /\ c.owner # NoAttempt
      THEN IF c.lease = 0 THEN Retire(c, g) ELSE Expire([c EXCEPT !.lease = ProbeLease])
      ELSE c

\* _TRANSITION, the prologue of every script.
Transition(s, g) ==
  LET c == Cooled(s)
  IN  IF c.circuit = "half_open" /\ c.owner # NoAttempt /\ c.lease = 0
      THEN Retire(c, g) ELSE c

\* controls(); m = NoAdmission is a report with an empty generation.
Controls(s, a, m) ==
  IF m = NoAdmission THEN s.circuit = "closed"
  ELSE /\ s.generation = m.generation
       /\ IF m.probe THEN s.circuit = "half_open" /\ s.owner = a
          ELSE s.circuit = "closed"

IsProbe(m) == m # NoAdmission /\ m.probe

\* _SUCCESS_SCRIPT after the prologue.
Succeeded(s, a, m, g) ==
  LET counted == Expire(s)
      closed  == [counted EXCEPT !.failures = 0, !.circuit = "closed", !.cooldown = 0]
  IN  IF Controls(s, a, m) THEN (IF IsProbe(m) THEN Retire(closed, g) ELSE closed)
      ELSE IF IsProbe(m) THEN s ELSE counted

\* Seeded fault: opening the circuit leaves the probe in place.
FailedKeepingProbe(s, a, m, transient, g) ==
  LET counted == Expire(s)
      n       == IF s.failures < FailureThreshold THEN s.failures + 1 ELSE FailureThreshold
  IN  IF ~Controls(s, a, m) THEN counted
      ELSE IF ~transient THEN [counted EXCEPT !.failures = 0]
      ELSE IF s.circuit = "half_open" \/ n >= FailureThreshold
           THEN [counted EXCEPT !.failures = n, !.circuit = "open", !.cooldown = Cooldown]
           ELSE [counted EXCEPT !.failures = n]

\* _FAILURE_SCRIPT after the prologue.
Failed(s, a, m, transient, g) ==
  LET counted == Expire(s)
      reset   == [counted EXCEPT !.failures = 0]
      n       == IF s.failures < FailureThreshold THEN s.failures + 1 ELSE FailureThreshold
      added   == [counted EXCEPT !.failures = n]
      opened  == [added EXCEPT !.circuit = "open", !.cooldown = Cooldown]
  IN  CASE ~Controls(s, a, m) -> IF IsProbe(m) THEN s ELSE counted
        [] Controls(s, a, m) /\ ~transient -> IF IsProbe(m) THEN Retire(reset, g) ELSE reset
        [] Controls(s, a, m) /\ transient ->
             IF s.circuit = "half_open" \/ n >= FailureThreshold
             THEN Retire(opened, g) ELSE added

\* Seeded fault: granting a probe does not renew the key's time to live.
AdmittedWithoutExpire(s, a, g) ==
  CASE s.circuit = "closed" ->
         Expire([s EXCEPT !.generation = IF @ = NoGeneration THEN g ELSE @])
    [] s.circuit = "half_open" /\ s.owner = NoAttempt ->
         [s EXCEPT !.generation = g, !.owner = a, !.lease = ProbeLease]
    [] OTHER -> s

\* _ALLOW_SCRIPT after the prologue: HSETNX keeps a closed circuit's
\* generation, a free probe slot is taken under a new one.
Admitted(s, a, g) ==
  CASE s.circuit = "closed" ->
         Expire([s EXCEPT !.generation = IF @ = NoGeneration THEN g ELSE @])
    [] s.circuit = "half_open" /\ s.owner = NoAttempt ->
         Expire([s EXCEPT !.generation = g, !.owner = a, !.lease = ProbeLease])
    [] OTHER -> s

Refuses(s, a) ==
  s.circuit = "open" \/ (s.circuit = "half_open" /\ s.owner \notin {NoAttempt, a})

-----------------------------------------------------------------------------
InUse == {hash[d].generation : d \in Deployments}
           \cup {held[a].generation : a \in {b \in Attempts : held[b] # NoAdmission}}

\* uuid4: which unused value is drawn makes no difference, so one stands for all.
Fresh == LET unused == Generations \ InUse IN {g \in unused : g = CHOOSE h \in unused : TRUE}

\* What a script that runs on d now would act on.
Circuit(d) == Cooled(hash[d]).circuit
Owner(d) == IF hash[d].lease = 0 THEN NoAttempt ELSE hash[d].owner

Init ==
  /\ hash = [d \in Deployments |-> Absent]
  /\ held = [a \in Attempts |-> NoAdmission]

\* Time passes on the server; a key whose time to live runs out is deleted.
Tick ==
  LET left(n) == IF n = 0 THEN 0 ELSE n - 1
  IN  /\ hash' = [d \in Deployments |->
                    IF hash[d].ttl <= 1 THEN Absent
                    ELSE [hash[d] EXCEPT !.cooldown = left(@), !.lease = left(@),
                                         !.ttl = @ - 1]]
      /\ held' = held

\* snapshot.
Snapshot(d, g) ==
  /\ hash' = [hash EXCEPT ![d] = Transition(@, g)]
  /\ held' = held

(***************************************************************************)
(* allow_request by an attempt with a fresh id, or by the probe owner      *)
(* asking again.  When the reply is lost the script has run but no caller  *)
(* is left to use the admission.                                           *)
(***************************************************************************)
AllowRequest(a, d, delivered, g) ==
  LET s == Transition(hash[d], g)
      t == Admitted(s, a, g)
  IN  /\ \A e \in Deployments \ {d} : Owner(e) # a
      /\ hash' = [hash EXCEPT ![d] = t]
      /\ held' = IF ~delivered THEN [held EXCEPT ![a] = NoAdmission]
                 ELSE IF Refuses(s, a) THEN held
                 ELSE [held EXCEPT ![a] =
                         [deployment |-> d, generation |-> t.generation,
                          probe |-> t.circuit = "half_open"]]

\* release_request: the server is asked only for a probe.
ReleaseRequest(a, g) ==
  LET m == held[a]
      s == Transition(hash[m.deployment], g)
  IN  /\ IsProbe(m)
      /\ hash' = [hash EXCEPT ![m.deployment] =
                    IF Controls(s, a, m) THEN Retire(s, g) ELSE s]
      /\ held' = held

IsAdmitted(a, g) ==
  /\ held[a] # NoAdmission
  /\ Snapshot(held[a].deployment, g)

RecordSuccess(a, g) ==
  LET m == held[a]
  IN  /\ m # NoAdmission
      /\ hash' = [hash EXCEPT ![m.deployment] = Succeeded(Transition(@, g), a, m, g)]
      /\ held' = held

RecordFailure(a, transient, g) ==
  LET m == held[a]
  IN  /\ m # NoAdmission
      /\ hash' = [hash EXCEPT ![m.deployment] = Failed(Transition(@, g), a, m, transient, g)]
      /\ held' = held

\* record_success and record_failure with no admission.
ReportSuccess(d, g) ==
  /\ hash' = [hash EXCEPT ![d] = Succeeded(Transition(@, g), NoAttempt, NoAdmission, g)]
  /\ held' = held

ReportFailure(d, transient, g) ==
  /\ hash' = [hash EXCEPT ![d] =
                Failed(Transition(@, g), NoAttempt, NoAdmission, transient, g)]
  /\ held' = held

CallerStep(a, g) ==
  \/ \E d \in Deployments, delivered \in BOOLEAN : AllowRequest(a, d, delivered, g)
  \/ ReleaseRequest(a, g)
  \/ IsAdmitted(a, g)
  \/ RecordSuccess(a, g)
  \/ \E transient \in BOOLEAN : RecordFailure(a, transient, g)

UncorrelatedStep(d, g) ==
  \/ Snapshot(d, g)
  \/ ReportSuccess(d, g)
  \/ \E transient \in BOOLEAN : ReportFailure(d, transient, g)

Next ==
  \/ Tick
  \/ \E g \in Fresh : \/ \E a \in Attempts : CallerStep(a, g)
                      \/ \E d \in Deployments : UncorrelatedStep(d, g)

Spec == Init /\ [][Next]_vars
-----------------------------------------------------------------------------
(* Correctness.                                                            *)

Seen(d) == [Cooled(hash[d]) EXCEPT !.owner = Owner(d)]

\* Attempt a's admission still belongs to the regime its circuit is in.
Live(a) == held[a] # NoAdmission /\ Controls(Seen(held[a].deployment), a, held[a])

\* The attempt that governs d's circuit: the server's probe owner, even when
\* the reply that told it so was lost, or a live admission of a closed one.
GovernedBy(a) ==
  LET owned == {d \in Deployments : Owner(d) = a}
  IN  IF owned # {} THEN CHOOSE d \in owned : TRUE
      ELSE IF Live(a) THEN held[a].deployment ELSE NoDeployment

Contract == INSTANCE HealthContract WITH
  mode    <- [d \in Deployments |-> Circuit(d)],
  governs <- [a \in Attempts |-> GovernedBy(a)]

\* The shared tracker keeps the port's contract although keys expire and
\* replies are lost: only a governor's report trips or closes a circuit, an
\* attempt that lost its circuit never governs it again unadmitted, and at
\* most one attempt governs a half-open one across all replicas.
ImplementsSharedContract == Contract!SharedSpec

\* A key is never deleted before the regime it stores has run its course:
\* it outlives the cooldown of an open circuit and the lease of a probe, so
\* its expiry never admits traffic that the breaker would refuse.  It rests
\* on the constructor's bound on the TTL and on which scripts renew it.  The
\* hash and the admissions keep their types.
KeyOutlivesRegime ==
  /\ TypeOK
  /\ \A d \in Deployments :
       /\ hash[d].circuit = "open" => hash[d].ttl > hash[d].cooldown
       /\ Owner(d) # NoAttempt => hash[d].ttl > hash[d].lease

-----------------------------------------------------------------------------
(* Liveness, under the fairness of CircuitBreaker.                         *)

AskFor(d) ==
  \E a \in Attempts, delivered \in BOOLEAN, g \in Fresh : AllowRequest(a, d, delivered, g)

Fairness == WF_vars(Tick) /\ \A d \in Deployments : WF_vars(AskFor(d))

FairSpec == Spec /\ Fairness

\* Every probe ownership ends, also that of a replica which never learnt that
\* it was admitted.
OwnershipEnds ==
  \A d \in Deployments, a \in Attempts, g \in Generations :
    (Owner(d) = a /\ hash[d].generation = g)
      ~> ~(Owner(d) = a /\ hash[d].generation = g)
=============================================================================
