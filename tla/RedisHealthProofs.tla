------------------------- MODULE RedisHealthProofs --------------------------
(***************************************************************************)
(* RedisHealth's keys outlive what they store, for any deployments,        *)
(* attempts, generations and policy whose time to live exceeds both its    *)
(* cooldown and its lease, as the constructor demands, and the replicas    *)
(* that share them keep the contract of the health port.                   *)
(***************************************************************************)
EXTENDS RedisHealth, TLAPS

-----------------------------------------------------------------------------
(* One hash.                                                               *)

\* A stored regime runs out before its key does, a deleted key is read as
\* Absent, and an owned slot has a generation.
Sound(s) ==
  /\ s \in Fields
  /\ s.ttl = 0 => s = Absent
  /\ s.circuit = "open" => s.ttl > s.cooldown
  /\ s.owner # NoAttempt /\ s.lease # 0 => s.ttl > s.lease
  /\ s.owner # NoAttempt => s.generation \in Generations

\* What a script may write: the time to live is renewed with whatever it sets.
Renewed(t) ==
  /\ t \in Fields
  /\ t.ttl = KeyTTL
  /\ t.owner # NoAttempt => t.generation \in Generations

\* The ranges of the fields contain what the scripts set.
LEMMA Ranges ==
  /\ KeyTTL \in 0..KeyTTL
  /\ 0 \in 0..Cooldown /\ Cooldown \in 0..Cooldown
  /\ 0 \in 0..ProbeLease /\ ProbeLease \in 0..ProbeLease
  /\ 0 \in 0..FailureThreshold
  BY PolicyAssumption

LEMMA RenewedSound ==
  ASSUME NEW t, Renewed(t)
  PROVE  Sound(t)
  BY PolicyAssumption DEF Renewed, Sound, Fields

LEMMA AbsentSound == Sound(Absent)
  BY PolicyAssumption DEF Sound, Absent, Fields

LEMMA RetireRenews ==
  ASSUME NEW s \in Fields, NEW g \in Generations
  PROVE  /\ Renewed(Retire(s, g))
         /\ Retire(s, g).circuit = s.circuit
  BY Ranges, Zenon DEF Retire, Expire, Renewed, Fields

\* The prologue of every script.
LEMMA TransitionSound ==
  ASSUME NEW s, NEW g \in Generations, Sound(s)
  PROVE  Sound(Transition(s, g))
  <1>1. Sound(Cooled(s))
    <2>1. CASE s.circuit = "open" /\ s.cooldown = 0
      <3>1. Renewed(Cooled(s))
        BY <2>1, Ranges, Zenon DEF Cooled, Expire, Renewed, Sound, Fields
      <3> QED BY <3>1, RenewedSound
    <2>2. CASE ~(s.circuit = "open" /\ s.cooldown = 0)
      BY <2>2 DEF Cooled
    <2> QED BY <2>1, <2>2
  <1>2. Cooled(s) \in Fields
    BY <1>1 DEF Sound
  <1> QED BY <1>1, <1>2, RetireRenews, RenewedSound DEF Transition

LEMMA SucceededSound ==
  ASSUME NEW s, NEW a, NEW m, NEW g \in Generations, Sound(s)
  PROVE  Sound(Succeeded(s, a, m, g))
  <1> DEFINE counted == Expire(s)
             closed  == [counted EXCEPT !.failures = 0, !.circuit = "closed", !.cooldown = 0]
  <1>1. Renewed(counted)
    BY Ranges, Zenon DEF Expire, Renewed, Sound, Fields
  <1> HIDE DEF counted
  <1>2. Renewed(closed)
    BY <1>1, Ranges, Zenon DEF Renewed, Fields
  <1> HIDE DEF closed
  <1>3. closed \in Fields
    BY <1>2 DEF Renewed
  <1>4. Succeeded(s, a, m, g) \in {Retire(closed, g), closed, s, counted}
    BY DEF Succeeded, counted, closed
  <1> QED BY <1>1, <1>2, <1>3, <1>4, RetireRenews, RenewedSound

LEMMA FailedSound ==
  ASSUME NEW s, NEW a, NEW m, NEW transient \in BOOLEAN, NEW g \in Generations, Sound(s)
  PROVE  Sound(Failed(s, a, m, transient, g))
  <1> DEFINE counted == Expire(s)
             reset   == [counted EXCEPT !.failures = 0]
             n       == IF s.failures < FailureThreshold THEN s.failures + 1 ELSE FailureThreshold
             added   == [counted EXCEPT !.failures = n]
             opened  == [added EXCEPT !.circuit = "open", !.cooldown = Cooldown]
  <1>1. Renewed(counted)
    BY Ranges, Zenon DEF Expire, Renewed, Sound, Fields
  <1>2. n \in 0..FailureThreshold
    BY PolicyAssumption DEF Sound, Fields
  <1> HIDE DEF counted, n
  <1>3. Renewed(reset) /\ Renewed(added)
    BY <1>1, <1>2, Ranges DEF Renewed, Fields
  <1> HIDE DEF reset, added
  <1>4. opened \in Fields
    BY <1>3, Ranges, Zenon DEF Renewed, Fields
  <1>5. reset \in Fields
    BY <1>3 DEF Renewed
  <1> HIDE DEF opened
  <1>6. Failed(s, a, m, transient, g)
          \in {s, counted, Retire(reset, g), reset, Retire(opened, g), added}
    BY DEF Failed, counted, reset, n, added, opened
  <1> QED BY <1>1, <1>3, <1>4, <1>5, <1>6, RetireRenews, RenewedSound

LEMMA AdmittedSound ==
  ASSUME NEW s, NEW a \in Attempts, NEW g \in Generations, Sound(s)
  PROVE  /\ Sound(Admitted(s, a, g))
         /\ ~Refuses(s, a) => Admitted(s, a, g).generation \in Generations
  <1> DEFINE n == IF s.generation = NoGeneration THEN g ELSE s.generation
             joined == Expire([s EXCEPT !.generation = n])
             granted == Expire([s EXCEPT !.generation = g, !.owner = a, !.lease = ProbeLease])
  <1>1. n \in Generations
    BY DEF Sound, Fields
  <1>2. CASE s.circuit = "closed"
    <2>1. Admitted(s, a, g) = joined
      BY <1>2 DEF Admitted
    <2> HIDE DEF n
    <2>2. Renewed(joined) /\ joined.generation \in Generations
      BY <1>1, Ranges, Zenon DEF Expire, Renewed, Sound, Fields
    <2> QED BY <2>1, <2>2, RenewedSound
  <1>3. CASE s.circuit = "half_open" /\ s.owner = NoAttempt
    <2>1. Admitted(s, a, g) = granted
      BY <1>3 DEF Admitted
    <2>2. Renewed(granted) /\ granted.generation \in Generations
      BY Ranges, Zenon DEF Expire, Renewed, Sound, Fields
    <2> QED BY <2>1, <2>2, RenewedSound
  <1>4. CASE s.circuit # "closed" /\ ~(s.circuit = "half_open" /\ s.owner = NoAttempt)
    <2>1. Admitted(s, a, g) = s
      BY <1>4 DEF Admitted
    <2>2. ~Refuses(s, a) => s.owner # NoAttempt
      BY <1>4 DEF Refuses, Sound, Fields
    <2> QED BY <2>1, <2>2 DEF Sound
  <1> QED BY <1>2, <1>3, <1>4

\* Time passes: the key's remaining life shrinks with what it stores.
Aged(s) ==
  [s EXCEPT !.cooldown = IF s.cooldown = 0 THEN 0 ELSE s.cooldown - 1,
            !.lease = IF s.lease = 0 THEN 0 ELSE s.lease - 1,
            !.ttl = s.ttl - 1]

LEMMA AgedSound ==
  ASSUME NEW s, Sound(s), ~(s.ttl <= 1)
  PROVE  Sound(Aged(s))
  <1> DEFINE c == IF s.cooldown = 0 THEN 0 ELSE s.cooldown - 1
             l == IF s.lease = 0 THEN 0 ELSE s.lease - 1
             k == s.ttl - 1
             t == [s EXCEPT !.cooldown = c, !.lease = l, !.ttl = k]
  <1>1. s.cooldown \in 0..Cooldown /\ s.lease \in 0..ProbeLease /\ s.ttl \in 0..KeyTTL
    BY DEF Sound, Fields
  <1>2. /\ c \in 0..Cooldown /\ l \in 0..ProbeLease /\ k \in 0..KeyTTL /\ k # 0
        /\ s.ttl > s.cooldown => k > c
        /\ l # 0 => s.lease # 0
        /\ l # 0 /\ s.ttl > s.lease => k > l
    BY <1>1, PolicyAssumption
  <1> HIDE DEF c, l, k
  <1>3. /\ t \in Fields /\ t.cooldown = c /\ t.lease = l /\ t.ttl = k
        /\ t.circuit = s.circuit /\ t.owner = s.owner /\ t.generation = s.generation
    BY <1>2, Zenon DEF Sound, Fields
  <1> HIDE DEF t
  <1>4. Sound(t)
    BY <1>2, <1>3 DEF Sound
  <1> QED BY <1>4 DEF t, Aged, c, l, k

-----------------------------------------------------------------------------
(* The server.                                                             *)

IInv ==
  /\ hash \in [Deployments -> Fields]
  /\ held \in [Attempts -> Admission \cup {NoAdmission}]
  /\ \A d \in Deployments : Sound(hash[d])

LEMMA InitInvariant == Init => IInv
  BY AbsentSound DEF Init, IInv, Sound

\* A script moves one hash to a sound one.
LEMMA MovePreserves ==
  ASSUME IInv, NEW d \in Deployments, NEW t, Sound(t), hash' = [hash EXCEPT ![d] = t],
         held' \in [Attempts -> Admission \cup {NoAdmission}]
  PROVE  IInv'
  BY DEF IInv, Sound

LEMMA TickPreserves ==
  ASSUME IInv, Tick
  PROVE  IInv'
  <1>1. ASSUME NEW d \in Deployments
        PROVE  Sound(hash'[d])
    <2>1. hash'[d] = IF hash[d].ttl <= 1 THEN Absent ELSE Aged(hash[d])
      BY Zenon DEF Tick, Aged
    <2>2. Sound(hash[d])
      BY DEF IInv
    <2> QED BY <2>1, <2>2, AbsentSound, AgedSound
  <1>2. hash' = [d \in Deployments |-> hash'[d]] /\ held' = held
    BY Zenon DEF Tick
  <1> QED BY <1>1, <1>2 DEF IInv, Sound

LEMMA AllowPreserves ==
  ASSUME IInv, NEW a \in Attempts, NEW d \in Deployments, NEW delivered \in BOOLEAN,
         NEW g \in Generations, AllowRequest(a, d, delivered, g)
  PROVE  IInv'
  <1> DEFINE s == Transition(hash[d], g)
             t == Admitted(s, a, g)
             given == [deployment |-> d, generation |-> t.generation,
                       probe |-> t.circuit = "half_open"]
  <1>1. Sound(s)
    BY TransitionSound DEF IInv
  <1> HIDE DEF s
  <1>2. Sound(t) /\ (~Refuses(s, a) => t.generation \in Generations)
    BY <1>1, AdmittedSound
  <1>3. /\ hash' = [hash EXCEPT ![d] = t]
        /\ held' = IF ~delivered THEN [held EXCEPT ![a] = NoAdmission]
                   ELSE IF Refuses(s, a) THEN held
                   ELSE [held EXCEPT ![a] = given]
    BY DEF AllowRequest, s
  <1> HIDE DEF t
  <1>4. ~Refuses(s, a) => given \in Admission
    BY <1>2 DEF Admission
  <1> HIDE DEF given
  <1>5. held' \in [Attempts -> Admission \cup {NoAdmission}]
    BY <1>3, <1>4 DEF IInv
  <1> QED BY <1>2, <1>3, <1>5, MovePreserves, Zenon

LEMMA CallerPreserves ==
  ASSUME IInv, NEW a \in Attempts, NEW g \in Generations,
         \/ ReleaseRequest(a, g)
         \/ IsAdmitted(a, g)
         \/ RecordSuccess(a, g)
         \/ \E transient \in BOOLEAN : RecordFailure(a, transient, g)
  PROVE  IInv'
  <1> DEFINE m == held[a]
             d == m.deployment
             s == Transition(hash[d], g)
  <1>1. d \in Deployments
    BY DEF IInv, Admission, ReleaseRequest, IsProbe, IsAdmitted, RecordSuccess, RecordFailure
  <1>2. Sound(s)
    BY <1>1, TransitionSound DEF IInv
  <1>3. held' = held
    BY DEF ReleaseRequest, IsAdmitted, Snapshot, RecordSuccess, RecordFailure
  <1>4. \E t : Sound(t) /\ hash' = [hash EXCEPT ![d] = t]
    <2>1. CASE ReleaseRequest(a, g)
      <3>1. Sound(Retire(s, g))
        BY <1>2, RetireRenews, RenewedSound DEF Sound
      <3> QED BY <1>2, <2>1, <3>1, Zenon DEF ReleaseRequest
    <2>2. CASE IsAdmitted(a, g)
      BY <1>2, <2>2, Zenon DEF IsAdmitted, Snapshot
    <2>3. CASE RecordSuccess(a, g)
      BY <1>2, <2>3, SucceededSound, Zenon DEF RecordSuccess
    <2>4. CASE \E transient \in BOOLEAN : RecordFailure(a, transient, g)
      BY <1>2, <2>4, FailedSound, Zenon DEF RecordFailure
    <2> QED BY <2>1, <2>2, <2>3, <2>4
  <1> HIDE DEF d
  <1> QED BY <1>1, <1>3, <1>4, MovePreserves, Zenon DEF IInv

LEMMA UncorrelatedPreserves ==
  ASSUME IInv, NEW d \in Deployments, NEW g \in Generations, UncorrelatedStep(d, g)
  PROVE  IInv'
  <1> DEFINE s == Transition(hash[d], g)
  <1>1. Sound(s)
    BY TransitionSound DEF IInv
  <1>2. held' = held
    BY DEF UncorrelatedStep, Snapshot, ReportSuccess, ReportFailure
  <1>3. \E t : Sound(t) /\ hash' = [hash EXCEPT ![d] = t]
    <2>1. CASE Snapshot(d, g)
      BY <1>1, <2>1, Zenon DEF Snapshot
    <2>2. CASE ReportSuccess(d, g)
      BY <1>1, <2>2, SucceededSound, Zenon DEF ReportSuccess
    <2>3. CASE \E transient \in BOOLEAN : ReportFailure(d, transient, g)
      BY <1>1, <2>3, FailedSound, Zenon DEF ReportFailure
    <2> QED BY <2>1, <2>2, <2>3 DEF UncorrelatedStep
  <1> QED BY <1>2, <1>3, MovePreserves, Zenon DEF IInv

LEMMA StepInvariant == IInv /\ [Next]_vars => IInv'
  <1> SUFFICES ASSUME IInv, [Next]_vars
               PROVE  IInv'
    OBVIOUS
  <1>1. Fresh \subseteq Generations
    BY DEF Fresh
  <1>2. CASE UNCHANGED vars
    BY <1>2 DEF vars, IInv
  <1>3. CASE Next
    BY <1>1, <1>3, TickPreserves, AllowPreserves, CallerPreserves, UncorrelatedPreserves
       DEF Next, CallerStep
  <1> QED BY <1>2, <1>3

(***************************************************************************)
(* No key is deleted while the regime it stores still runs: it outlives    *)
(* the cooldown of an open circuit and the lease of a probe, whichever     *)
(* scripts run and whichever replies are lost (_TRANSITION and the scripts *)
(* of RedisDeploymentHealthTracker, which renew the key wherever they set  *)
(* a cooldown or a lease).                                                 *)
(***************************************************************************)
THEOREM KeysOutliveRegimes == Spec => []KeyOutlivesRegime
  <1>1. IInv => KeyOutlivesRegime
    BY DEF IInv, Sound, KeyOutlivesRegime, TypeOK, Owner
  <1> QED BY <1>1, InitInvariant, StepInvariant, PTL DEF Spec

-----------------------------------------------------------------------------
(* What one script does to who governs a hash.                             *)

Mode(s) == Cooled(s).circuit

\* The attempt whose lease runs.
Own(s) == IF s.lease = 0 THEN NoAttempt ELSE s.owner

\* Admission m of a closed circuit still belongs to its regime.
Joins(s, m) == ~m.probe /\ s.generation = m.generation /\ Mode(s) = "closed"

\* Only a half-open circuit has an owner.
Slot(s) == s.owner # NoAttempt => s.circuit = "half_open"

\* Callers observe t as they observed s, and no admission drawn before g
\* gained or lost its power over the circuit.
Keeps(s, t, g) ==
  /\ Mode(t) = Mode(s)
  /\ Own(t) = Own(s)
  /\ Own(t) # NoAttempt => t.generation = s.generation
  /\ \A m \in Admission : m.generation # g => (Joins(t, m) <=> Joins(s, m))

\* The regime of s ended: a closed circuit tripped, or a probe did its work.
Ends(s, t, g) ==
  /\ \/ Mode(s) = "closed" /\ Mode(t) = "open"
     \/ Mode(s) = "half_open" /\ Own(s) # NoAttempt
        /\ Mode(t) \in {"closed", "open", "half_open"}
  /\ Own(t) = NoAttempt
  /\ \A m \in Admission : m.generation # g => ~Joins(t, m)

\* What the prologue leaves: nothing is due.
Settled(s) ==
  /\ Cooled(s) = s
  /\ s.owner # NoAttempt => s.lease # 0

LEMMA KeepsThen ==
  ASSUME NEW s, NEW r, NEW t, NEW g, Keeps(s, r, g),
         Keeps(r, t, g) \/ Ends(r, t, g)
  PROVE  Keeps(s, t, g) \/ Ends(s, t, g)
  BY DEF Keeps, Ends

LEMMA KeepsBoth ==
  ASSUME NEW s, NEW r, NEW t, NEW g, Keeps(s, r, g), Keeps(r, t, g)
  PROVE  Keeps(s, t, g)
  BY DEF Keeps

LEMMA CooledFacts ==
  ASSUME NEW s \in Fields
  PROVE  /\ Cooled(s) \in Fields /\ Cooled(Cooled(s)) = Cooled(s)
         /\ Cooled(s).owner = s.owner /\ Cooled(s).lease = s.lease
         /\ Cooled(s).generation = s.generation
         /\ Cooled(s).circuit =
              IF s.circuit = "open" /\ s.cooldown = 0 THEN "half_open" ELSE s.circuit
  BY Ranges, Zenon DEF Cooled, Expire, Fields

LEMMA RetireFacts ==
  ASSUME NEW s \in Fields, NEW g \in Generations
  PROVE  /\ Retire(s, g) \in Fields
         /\ Retire(s, g).circuit = s.circuit /\ Retire(s, g).cooldown = s.cooldown
         /\ Retire(s, g).generation = g
         /\ Retire(s, g).owner = NoAttempt /\ Retire(s, g).lease = 0
  BY Ranges, Zenon DEF Retire, Expire, Fields

LEMMA SettledFacts ==
  ASSUME NEW s \in Fields, Settled(s)
  PROVE  Mode(s) = s.circuit /\ Own(s) = s.owner
  BY DEF Settled, Mode, Own

LEMMA ModeFacts ==
  ASSUME NEW s \in Fields
  PROVE  /\ Mode(s) \in {"closed", "open", "half_open"}
         /\ Mode(s) = IF s.circuit = "open" /\ s.cooldown = 0 THEN "half_open" ELSE s.circuit
  BY CooledFacts DEF Mode, Fields

LEMMA TransitionKeeps ==
  ASSUME NEW s, NEW g \in Generations, Sound(s), Slot(s)
  PROVE  /\ Transition(s, g) \in Fields /\ Slot(Transition(s, g))
         /\ Settled(Transition(s, g)) /\ Keeps(s, Transition(s, g), g)
  <1> DEFINE c == Cooled(s)
             r == Transition(s, g)
  <1>1. /\ s \in Fields /\ c \in Fields /\ Cooled(c) = c
        /\ c.owner = s.owner /\ c.lease = s.lease /\ c.generation = s.generation
        /\ c.circuit = Mode(s) /\ (s.owner # NoAttempt => c.circuit = "half_open")
        /\ (c.circuit = "closed" => s.circuit = "closed")
    <2>1. s \in Fields
      BY DEF Sound
    <2> QED BY <2>1, CooledFacts DEF Slot, Mode
  <1>2. r = IF c.circuit = "half_open" /\ c.owner # NoAttempt /\ c.lease = 0
            THEN Retire(c, g) ELSE c
    BY DEF Transition
  <1> HIDE DEF c, r
  <1>3. CASE c.circuit = "half_open" /\ c.owner # NoAttempt /\ c.lease = 0
    <2>1. /\ r \in Fields /\ r.circuit = "half_open" /\ r.owner = NoAttempt /\ r.lease = 0
      BY <1>1, <1>2, <1>3, RetireFacts
    <2>2. Cooled(r) = r
      BY <2>1 DEF Cooled
    <2> QED BY <1>1, <1>3, <2>1, <2>2 DEF r, Slot, Settled, Keeps, Mode, Own, Joins
  <1>4. CASE ~(c.circuit = "half_open" /\ c.owner # NoAttempt /\ c.lease = 0)
    <2>1. r = c
      BY <1>2, <1>4
    <2> QED BY <1>1, <1>4, <2>1 DEF r, Slot, Settled, Keeps, Mode, Own, Joins
  <1> QED BY <1>3, <1>4

\* A settled hash that keeps its owner and its generation keeps its regime.
LEMMA SameRegime ==
  ASSUME NEW s \in Fields, NEW t \in Fields, NEW g, Slot(s), Settled(s), Mode(t) = Mode(s),
         t.circuit = s.circuit, t.owner = s.owner, t.lease = s.lease,
         t.generation = s.generation
  PROVE  Keeps(s, t, g) /\ Slot(t)
  BY DEF Keeps, Slot, Own, Joins

\* A hash of a new generation without an owner ends the regime it follows.
LEMMA NewRegime ==
  ASSUME NEW s \in Fields, NEW t \in Fields, NEW g,
         t.generation = g, t.owner = NoAttempt,
         \/ Mode(s) = "closed" /\ Mode(t) = "open"
         \/ Mode(s) = "half_open" /\ Own(s) # NoAttempt
  PROVE  Ends(s, t, g) /\ Slot(t)
  BY ModeFacts DEF Ends, Slot, Own, Joins

\* The caller of a report: the attempt that holds m, or nobody.
Caller(a, m) ==
  \/ a \in Attempts /\ m \in Admission
  \/ a = NoAttempt /\ m = NoAdmission

LEMMA ControlFacts ==
  ASSUME NEW s \in Fields, Settled(s), NEW a, NEW m, Caller(a, m), Controls(s, a, m)
  PROVE  IF IsProbe(m) THEN Mode(s) = "half_open" /\ Own(s) # NoAttempt
         ELSE s.circuit = "closed"
  BY SettledFacts, NullAssumption DEF Caller, Controls, IsProbe

LEMMA SucceededKind ==
  ASSUME NEW s \in Fields, NEW g \in Generations, Slot(s), Settled(s), NEW a, NEW m, Caller(a, m)
  PROVE  LET t == Succeeded(s, a, m, g)
         IN  t \in Fields /\ Slot(t) /\ (Keeps(s, t, g) \/ Ends(s, t, g))
  <1> DEFINE counted == Expire(s)
             closed  == [counted EXCEPT !.failures = 0, !.circuit = "closed", !.cooldown = 0]
             t == Succeeded(s, a, m, g)
  <1> SUFFICES t \in Fields /\ Slot(t) /\ (Keeps(s, t, g) \/ Ends(s, t, g))
    OBVIOUS
  <1>1. /\ counted \in Fields /\ counted.circuit = s.circuit /\ counted.cooldown = s.cooldown
        /\ counted.owner = s.owner /\ counted.lease = s.lease
        /\ counted.generation = s.generation
    BY Ranges, Zenon DEF Expire, Fields
  <1>2. t = IF Controls(s, a, m) THEN (IF IsProbe(m) THEN Retire(closed, g) ELSE closed)
            ELSE IF IsProbe(m) THEN s ELSE counted
    BY DEF Succeeded
  <1> HIDE DEF counted, t
  <1>3. /\ closed \in Fields /\ closed.circuit = "closed"
        /\ closed.owner = s.owner /\ closed.lease = s.lease
        /\ closed.generation = s.generation
    BY <1>1, Ranges, Zenon DEF Fields
  <1> HIDE DEF closed
  <1>4. Mode(s) = s.circuit
    BY SettledFacts
  <1>5. CASE t = s
    BY <1>5, SameRegime
  <1>6. CASE t = counted
    BY <1>1, <1>6, ModeFacts, SameRegime
  <1>7. CASE Controls(s, a, m) /\ IsProbe(m) /\ t = Retire(closed, g)
    BY <1>3, <1>7, ControlFacts, RetireFacts, NewRegime
  <1>8. CASE Controls(s, a, m) /\ ~IsProbe(m) /\ t = closed
    BY <1>3, <1>4, <1>8, ControlFacts, ModeFacts, SameRegime
  <1> QED BY <1>2, <1>5, <1>6, <1>7, <1>8

LEMMA FailedKind ==
  ASSUME NEW s \in Fields, NEW g \in Generations, Slot(s), Settled(s), NEW a, NEW m, Caller(a, m),
         NEW transient \in BOOLEAN
  PROVE  LET t == Failed(s, a, m, transient, g)
         IN  t \in Fields /\ Slot(t) /\ (Keeps(s, t, g) \/ Ends(s, t, g))
  <1> DEFINE counted == Expire(s)
             reset   == [counted EXCEPT !.failures = 0]
             n       == IF s.failures < FailureThreshold THEN s.failures + 1 ELSE FailureThreshold
             added   == [counted EXCEPT !.failures = n]
             opened  == [added EXCEPT !.circuit = "open", !.cooldown = Cooldown]
             Same(u) == /\ u \in Fields /\ u.circuit = s.circuit /\ u.cooldown = s.cooldown
                        /\ u.owner = s.owner /\ u.lease = s.lease
                        /\ u.generation = s.generation
             t == Failed(s, a, m, transient, g)
  <1> SUFFICES t \in Fields /\ Slot(t) /\ (Keeps(s, t, g) \/ Ends(s, t, g))
    OBVIOUS
  <1>1. Same(counted)
    BY Ranges, Zenon DEF Expire, Fields
  <1>2. n \in 0..FailureThreshold
    BY PolicyAssumption DEF Fields
  <1>3. \/ t = s
        \/ t \in {counted, reset, added}
        \/ Controls(s, a, m) /\ IsProbe(m) /\ t = Retire(reset, g)
        \/ Controls(s, a, m) /\ t = Retire(opened, g)
    BY DEF Failed
  <1> HIDE DEF counted, n, t
  <1>4. Same(reset) /\ Same(added)
    BY <1>1, <1>2, Ranges DEF Fields
  <1> HIDE DEF reset, added
  <1>5. opened \in Fields /\ opened.circuit = "open" /\ opened.cooldown = Cooldown
    BY <1>4, Ranges, Zenon DEF Fields
  <1> HIDE DEF opened
  <1>6. CASE t = s
    BY <1>6, SameRegime
  <1>7. CASE t \in {counted, reset, added}
    BY <1>1, <1>4, <1>7, ModeFacts, SameRegime
  <1>8. CASE Controls(s, a, m) /\ IsProbe(m) /\ t = Retire(reset, g)
    BY <1>4, <1>8, ControlFacts, RetireFacts, NewRegime
  <1>9. CASE Controls(s, a, m) /\ t = Retire(opened, g)
    <2>1. /\ t \in Fields /\ t.circuit = "open" /\ t.cooldown = Cooldown
          /\ t.generation = g /\ t.owner = NoAttempt
      BY <1>5, <1>9, RetireFacts
    <2>2. Mode(t) = "open"
      BY <2>1, ModeFacts, PolicyAssumption
    <2> QED BY <1>9, <2>1, <2>2, ControlFacts, SettledFacts, NewRegime
  <1> QED BY <1>3, <1>6, <1>7, <1>8, <1>9

-----------------------------------------------------------------------------
(* What one operation does to the server.                                  *)

\* What the owner of a probe slot was told, unless the reply was lost.
Told(d) == [deployment |-> d, generation |-> hash[d].generation, probe |-> TRUE]

\* An attempt owns one slot at most, and holds no admission but that one.
OwnersHold ==
  \A d \in Deployments, a \in Attempts : Own(hash[d]) = a =>
    /\ held[a] \in {NoAdmission, Told(d)}
    /\ \A e \in Deployments \ {d} : Own(hash[e]) # a

Fenced ==
  /\ IInv
  /\ \A d \in Deployments : Slot(hash[d])
  /\ OwnersHold

\* Circuit d keeps its governors or ends its regime, and nobody is admitted.
Reported(d, g) ==
  \E t \in Fields :
    /\ hash' = [hash EXCEPT ![d] = t]
    /\ held' = held
    /\ Slot(t)
    /\ Keeps(hash[d], t, g) \/ Ends(hash[d], t, g)

\* Attempt a joins closed circuit d, starts to probe it or asks again as its
\* owner, or gives up what it held because the reply was lost.
Asked(a, d, g) ==
  \E t \in Fields, m \in Admission \cup {NoAdmission} :
    /\ hash' = [hash EXCEPT ![d] = t]
    /\ held' = [held EXCEPT ![a] = m]
    /\ Slot(t)
    /\ \A e \in Deployments \ {d} : Own(hash[e]) # a
    /\ \/ /\ Keeps(hash[d], t, g) /\ Mode(t) = "closed"
          /\ m = [deployment |-> d, generation |-> t.generation, probe |-> FALSE]
          /\ m # NoAdmission
       \/ /\ Mode(hash[d]) = "half_open" /\ Own(hash[d]) = NoAttempt
          /\ Mode(t) = "half_open" /\ Own(t) = a
          /\ m \in {NoAdmission, [deployment |-> d, generation |-> t.generation, probe |-> TRUE]}
       \/ /\ Keeps(hash[d], t, g) /\ Own(t) = a
          /\ m \in {NoAdmission, [deployment |-> d, generation |-> t.generation, probe |-> TRUE]}
       \/ Keeps(hash[d], t, g) /\ Own(t) # a /\ m = NoAdmission

LEMMA CallerKind ==
  ASSUME Fenced, NEW a \in Attempts, NEW g \in Generations,
         \/ ReleaseRequest(a, g)
         \/ IsAdmitted(a, g)
         \/ RecordSuccess(a, g)
         \/ \E transient \in BOOLEAN : RecordFailure(a, transient, g)
  PROVE  \E d \in Deployments : Reported(d, g)
  <1> DEFINE m == held[a]
             d == m.deployment
             s == hash[d]
             r == Transition(s, g)
  <1>1. m # NoAdmission /\ m \in Admission /\ d \in Deployments /\ Sound(s) /\ Slot(s)
    BY DEF Fenced, IInv, Admission, ReleaseRequest, IsProbe, IsAdmitted, RecordSuccess,
           RecordFailure
  <1>2. r \in Fields /\ Slot(r) /\ Settled(r) /\ Keeps(s, r, g) /\ Caller(a, m)
    BY <1>1, TransitionKeeps DEF Caller
  <1>3. Keeps(r, r, g)
    BY DEF Keeps
  <1>4. SUFFICES ASSUME NEW t \in Fields, hash' = [hash EXCEPT ![d] = t], held' = held, Slot(t),
                        Keeps(r, t, g) \/ Ends(r, t, g)
                 PROVE  Reported(d, g)
    <2>1. CASE ReleaseRequest(a, g)
      <3> DEFINE t == IF Controls(r, a, m) THEN Retire(r, g) ELSE r
      <3>1. t \in Fields /\ Slot(t) /\ (Keeps(r, t, g) \/ Ends(r, t, g))
        <4>1. CASE Controls(r, a, m)
          BY <1>2, <2>1, <4>1, RetireFacts, ControlFacts, NewRegime DEF ReleaseRequest
        <4>2. CASE ~Controls(r, a, m)
          BY <1>2, <1>3, <4>2
        <4> QED BY <4>1, <4>2
      <3>2. hash' = [hash EXCEPT ![d] = t] /\ held' = held
        BY <2>1 DEF ReleaseRequest
      <3> HIDE DEF t
      <3> QED BY <1>1, <3>1, <3>2, <1>4, Zenon
    <2>2. CASE IsAdmitted(a, g)
      <3>1. hash' = [hash EXCEPT ![d] = r] /\ held' = held
        BY <2>2 DEF IsAdmitted, Snapshot
      <3> QED BY <1>1, <1>2, <1>3, <1>4, <3>1, Zenon
    <2>3. CASE RecordSuccess(a, g)
      <3>1. hash' = [hash EXCEPT ![d] = Succeeded(r, a, m, g)] /\ held' = held
        BY <2>3 DEF RecordSuccess
      <3> QED BY <1>1, <1>2, <1>4, <3>1, SucceededKind, Zenon
    <2>4. ASSUME NEW transient \in BOOLEAN, RecordFailure(a, transient, g)
          PROVE  \E e \in Deployments : Reported(e, g)
      <3>1. hash' = [hash EXCEPT ![d] = Failed(r, a, m, transient, g)] /\ held' = held
        BY <2>4 DEF RecordFailure
      <3> QED BY <1>1, <1>2, <1>4, <3>1, FailedKind, Zenon
    <2> QED BY <2>1, <2>2, <2>3, <2>4
  <1>5. Keeps(s, t, g) \/ Ends(s, t, g)
    BY <1>2, <1>4, KeepsThen
  <1> QED BY <1>4, <1>5, Zenon DEF Reported

LEMMA UncorrelatedKind ==
  ASSUME Fenced, NEW d \in Deployments, NEW g \in Generations, UncorrelatedStep(d, g)
  PROVE  Reported(d, g)
  <1> DEFINE s == hash[d]
             r == Transition(s, g)
  <1>1. Sound(s) /\ Slot(s)
    BY DEF Fenced, IInv
  <1>2. /\ r \in Fields /\ Slot(r) /\ Settled(r) /\ Keeps(s, r, g)
        /\ Caller(NoAttempt, NoAdmission)
    BY <1>1, TransitionKeeps DEF Caller
  <1>3. Keeps(r, r, g)
    BY DEF Keeps
  <1>4. SUFFICES ASSUME NEW t \in Fields, hash' = [hash EXCEPT ![d] = t], held' = held, Slot(t),
                        Keeps(r, t, g) \/ Ends(r, t, g)
                 PROVE  Reported(d, g)
    <2>1. CASE Snapshot(d, g)
      BY <2>1, <1>2, <1>3, <1>4, Zenon DEF Snapshot
    <2>2. CASE ReportSuccess(d, g)
      <3>1. /\ hash' = [hash EXCEPT ![d] = Succeeded(r, NoAttempt, NoAdmission, g)]
            /\ held' = held
        BY <2>2 DEF ReportSuccess
      <3> QED BY <1>2, <1>4, <3>1, SucceededKind, Zenon
    <2>3. ASSUME NEW transient \in BOOLEAN, ReportFailure(d, transient, g)
          PROVE  Reported(d, g)
      <3>1. /\ hash' = [hash EXCEPT ![d] = Failed(r, NoAttempt, NoAdmission, transient, g)]
            /\ held' = held
        BY <2>3 DEF ReportFailure
      <3> QED BY <1>2, <1>4, <3>1, FailedKind, Zenon
    <2> QED BY <2>1, <2>2, <2>3 DEF UncorrelatedStep
  <1>5. Keeps(s, t, g) \/ Ends(s, t, g)
    BY <1>2, <1>4, KeepsThen
  <1> QED BY <1>4, <1>5, Zenon DEF Reported

LEMMA AllowKind ==
  ASSUME Fenced, NEW a \in Attempts, NEW d \in Deployments, NEW delivered \in BOOLEAN,
         NEW g \in Generations, AllowRequest(a, d, delivered, g)
  PROVE  Reported(d, g) \/ Asked(a, d, g)
  <1> DEFINE s == hash[d]
             r == Transition(s, g)
             t == Admitted(r, a, g)
             Given(u) == [deployment |-> d, generation |-> u.generation,
                          probe |-> u.circuit = "half_open"]
  <1>1. Sound(s) /\ Slot(s)
    BY DEF Fenced, IInv
  <1>2. r \in Fields /\ Slot(r) /\ Settled(r) /\ Keeps(s, r, g) /\ Sound(r)
    BY <1>1, TransitionKeeps, TransitionSound
  <1>3. /\ hash' = [hash EXCEPT ![d] = t]
        /\ held' = IF ~delivered THEN [held EXCEPT ![a] = NoAdmission]
                   ELSE IF Refuses(r, a) THEN held
                   ELSE [held EXCEPT ![a] = Given(t)]
    BY DEF AllowRequest
  <1>4. \A e \in Deployments \ {d} : Own(hash[e]) # a
    BY DEF AllowRequest, Owner, Own
  <1>5. t \in Fields /\ (~Refuses(r, a) => t.generation \in Generations)
    BY <1>2, AdmittedSound DEF Sound
  <1>6. Mode(r) = r.circuit /\ Own(r) = r.owner
    BY <1>2, SettledFacts
  <1>7. CASE r.circuit = "closed"
    <2> DEFINE n == IF r.generation = NoGeneration THEN g ELSE r.generation
    <2>1. t = Expire([r EXCEPT !.generation = n])
      BY <1>7 DEF Admitted
    <2>2. n \in Generations /\ (n = r.generation \/ (r.generation = NoGeneration /\ n = g))
      BY <1>2 DEF Fields
    <2> HIDE DEF n
    <2>3. r.owner = NoAttempt
      BY <1>2, <1>7 DEF Slot
    <2> HIDE DEF r
    <2>4. t.circuit = "closed" /\ t.owner = NoAttempt /\ t.generation = n
      BY <1>2, <1>7, <2>1, <2>3 DEF Expire, Fields
    <2> HIDE DEF t
    <2>5. Mode(t) = "closed" /\ Own(t) = NoAttempt /\ Slot(t)
      BY <1>5, <2>4, ModeFacts DEF Own, Slot
    <2>6. \A m \in Admission : m.generation # g => (Joins(t, m) <=> Joins(r, m))
      <3>1. \A m \in Admission : m.generation \in Generations
        BY DEF Admission
      <3> QED BY <1>6, <1>7, <2>2, <2>4, <2>5, <3>1, NullAssumption DEF Joins
    <2>7. Keeps(s, t, g)
      <3>1. Keeps(r, t, g)
        BY <1>6, <1>7, <2>3, <2>5, <2>6 DEF Keeps
      <3> QED BY <1>2, <3>1, KeepsBoth
    <2>8. CASE delivered
      <3>1. ~Refuses(r, a)
        BY <1>7 DEF Refuses
      <3>2. Given(t) = [deployment |-> d, generation |-> t.generation, probe |-> FALSE]
        BY <2>4, Zenon
      <3>3. Given(t) \in Admission
        BY <1>5, <3>1 DEF Admission
      <3>4. held' = [held EXCEPT ![a] = Given(t)]
        BY <1>3, <2>8, <3>1
      <3> HIDE DEF Given
      <3>5. Given(t) # NoAdmission
        BY <3>3, NullAssumption DEF Admission
      <3> QED BY <1>3, <1>4, <1>5, <2>5, <2>7, <3>2, <3>3, <3>4, <3>5, Zenon DEF Asked
    <2>9. CASE ~delivered
      <3>1. held' = [held EXCEPT ![a] = NoAdmission] /\ Own(t) # a
        BY <1>3, <2>5, <2>9, NullAssumption
      <3> QED BY <1>3, <1>4, <1>5, <2>5, <2>7, <3>1, Zenon DEF Asked
    <2> QED BY <2>8, <2>9
  <1>8. CASE r.circuit = "half_open" /\ r.owner = NoAttempt
    <2>1. t = Expire([r EXCEPT !.generation = g, !.owner = a, !.lease = ProbeLease])
      BY <1>8 DEF Admitted
    <2>2. t.circuit = "half_open" /\ t.owner = a /\ t.lease = ProbeLease
      BY <1>2, <1>8, <2>1, Ranges DEF Expire, Fields
    <2>3. ~Refuses(r, a)
      BY <1>8 DEF Refuses
    <2> HIDE DEF t, r
    <2>4. Mode(t) = "half_open" /\ Own(t) = a /\ Slot(t)
      BY <1>5, <2>2, ModeFacts, PolicyAssumption DEF Own, Slot
    <2>5. Mode(s) = "half_open" /\ Own(s) = NoAttempt
      BY <1>2, <1>6, <1>8 DEF Keeps
    <2>6. Given(t) = [deployment |-> d, generation |-> t.generation, probe |-> TRUE]
      BY <2>2, Zenon
    <2>7. Given(t) \in Admission
      BY <1>5, <2>3 DEF Admission
    <2>8. held' \in {[held EXCEPT ![a] = NoAdmission], [held EXCEPT ![a] = Given(t)]}
      BY <1>3, <2>3
    <2> HIDE DEF Given
    <2> QED BY <1>3, <1>4, <1>5, <2>4, <2>5, <2>6, <2>7, <2>8, Zenon DEF Asked
  <1>9. CASE r.circuit # "closed" /\ ~(r.circuit = "half_open" /\ r.owner = NoAttempt)
    <2>1. t = r
      BY <1>9 DEF Admitted
    <2>2. CASE Refuses(r, a)
      <3>1. Own(r) # a
        BY <1>2, <1>6, <2>2, NullAssumption DEF Refuses, Slot
      <3> QED BY <1>2, <1>3, <1>4, <2>1, <2>2, <3>1, Zenon DEF Reported, Asked
    <2>3. CASE ~Refuses(r, a)
      <3>1. r.circuit = "half_open" /\ Own(r) = a
        BY <1>2, <1>6, <1>9, <2>3 DEF Refuses, Fields
      <3>2. Given(t) = [deployment |-> d, generation |-> t.generation, probe |-> TRUE]
        BY <2>1, <3>1, Zenon
      <3>3. Given(t) \in Admission
        BY <1>5, <2>3 DEF Admission
      <3>4. held' \in {[held EXCEPT ![a] = NoAdmission], [held EXCEPT ![a] = Given(t)]}
        BY <1>3, <2>3
      <3> HIDE DEF Given
      <3> QED BY <1>2, <1>3, <1>4, <2>1, <3>1, <3>2, <3>3, <3>4, Zenon DEF Asked
    <2> QED BY <2>2, <2>3
  <1> QED BY <1>7, <1>8, <1>9

-----------------------------------------------------------------------------
(* The stronger invariant.                                                 *)

\* Reading the hashes when circuit d moves to t.
LEMMA MoveElsewhere ==
  ASSUME IInv, NEW d \in Deployments, NEW t \in Fields, hash' = [hash EXCEPT ![d] = t]
  PROVE  \A e \in Deployments : hash'[e] = IF e = d THEN t ELSE hash[e]
  BY DEF IInv

LEMMA ReportedFenced ==
  ASSUME Fenced, IInv', NEW d \in Deployments, NEW g, Reported(d, g)
  PROVE  Fenced'
  <1>1. PICK t \in Fields : /\ hash' = [hash EXCEPT ![d] = t]
                            /\ held' = held
                            /\ Slot(t)
                            /\ Keeps(hash[d], t, g) \/ Ends(hash[d], t, g)
    BY Zenon DEF Reported
  <1>2. \A e \in Deployments : hash'[e] = IF e = d THEN t ELSE hash[e]
    BY <1>1, MoveElsewhere, Zenon DEF Fenced
  <1>3. \A e \in Deployments : Slot(hash'[e])
    BY <1>1, <1>2 DEF Fenced
  <1>4. ASSUME NEW e \in Deployments, NEW b \in Attempts, Own(hash'[e]) = b
        PROVE  Own(hash[e]) = b /\ Told(e)' = Told(e)
    BY <1>1, <1>2, <1>4, NullAssumption, Zenon DEF Keeps, Ends, Told
  <1>5. OwnersHold'
    BY <1>1, <1>4 DEF Fenced, OwnersHold
  <1> QED BY <1>3, <1>5 DEF Fenced

LEMMA AskedFenced ==
  ASSUME Fenced, IInv', NEW a \in Attempts, NEW d \in Deployments, NEW g, Asked(a, d, g)
  PROVE  Fenced'
  <1>1. PICK t \in Fields, m \in Admission \cup {NoAdmission} :
          /\ hash' = [hash EXCEPT ![d] = t]
          /\ held' = [held EXCEPT ![a] = m]
          /\ Slot(t)
          /\ \A e \in Deployments \ {d} : Own(hash[e]) # a
          /\ \/ /\ Keeps(hash[d], t, g) /\ Mode(t) = "closed"
                /\ m = [deployment |-> d, generation |-> t.generation, probe |-> FALSE]
                /\ m # NoAdmission
             \/ /\ Mode(hash[d]) = "half_open" /\ Own(hash[d]) = NoAttempt
                /\ Mode(t) = "half_open" /\ Own(t) = a
                /\ m \in {NoAdmission, [deployment |-> d, generation |-> t.generation, probe |-> TRUE]}
             \/ /\ Keeps(hash[d], t, g) /\ Own(t) = a
                /\ m \in {NoAdmission, [deployment |-> d, generation |-> t.generation, probe |-> TRUE]}
             \/ Keeps(hash[d], t, g) /\ Own(t) # a /\ m = NoAdmission
    BY Zenon DEF Asked
  <1>2. /\ \A e \in Deployments : hash'[e] = IF e = d THEN t ELSE hash[e]
        /\ \A b \in Attempts : held'[b] = IF b = a THEN m ELSE held[b]
    BY <1>1, MoveElsewhere DEF Fenced, IInv
  <1>3. \A e \in Deployments : Slot(hash'[e])
    BY <1>1, <1>2 DEF Fenced
  <1>4. Mode(t) = "closed" => Own(t) = NoAttempt
    BY <1>1, ModeFacts DEF Slot, Own
  <1>5. ASSUME NEW e \in Deployments, NEW b \in Attempts, b # a, Own(hash'[e]) = b
        PROVE  Own(hash[e]) = b /\ Told(e)' = Told(e)
    BY <1>1, <1>2, <1>4, <1>5, NullAssumption, Zenon DEF Keeps, Told
  <1>6. ASSUME NEW e \in Deployments, Own(hash'[e]) = a
        PROVE  e = d /\ held'[a] \in {NoAdmission, Told(d)'}
    <2>1. e = d /\ Own(t) = a /\ Own(t) # NoAttempt
      BY <1>1, <1>2, <1>6, NullAssumption
    <2>2. m \in {NoAdmission, [deployment |-> d, generation |-> t.generation, probe |-> TRUE]}
      BY <1>1, <1>4, <2>1
    <2> QED BY <1>2, <2>1, <2>2 DEF Told
  <1>7. OwnersHold'
    <2> SUFFICES ASSUME NEW e \in Deployments, NEW b \in Attempts, Own(hash'[e]) = b
                 PROVE  /\ held'[b] \in {NoAdmission, Told(e)'}
                        /\ \A f \in Deployments \ {e} : Own(hash'[f]) # b
      BY DEF OwnersHold
    <2>1. CASE b = a
      BY <1>6, <2>1
    <2>2. CASE b # a
      BY <1>2, <1>5, <2>2 DEF Fenced, OwnersHold
    <2> QED BY <2>1, <2>2
  <1> QED BY <1>3, <1>7 DEF Fenced

\* What time does to one hash: a deleted one was not open, and had no owner.
LEMMA ElapsedKind ==
  ASSUME Fenced, Tick, NEW d \in Deployments
  PROVE  LET s == hash[d]
             t == hash'[d]
         IN  /\ Slot(t)
             /\ Own(t) # NoAttempt => Own(t) = Own(s) /\ t.generation = s.generation
             /\ IF s.ttl <= 1
                THEN /\ t = Absent
                     /\ Mode(s) \in {"closed", "half_open"} /\ Own(s) = NoAttempt
                ELSE /\ Mode(t) = Mode(s) \/ (Mode(s) = "open" /\ Mode(t) = "half_open")
                     /\ \A m \in Admission : Joins(t, m) <=> Joins(s, m)
  <1> DEFINE s == hash[d]
             t == hash'[d]
  <1>1. s \in Fields /\ Sound(s) /\ Slot(s)
    BY DEF Fenced, IInv
  <1>2. t = IF s.ttl <= 1 THEN Absent ELSE Aged(s)
    BY Zenon DEF Tick, Aged
  <1> SUFFICES /\ Slot(t)
               /\ Own(t) # NoAttempt => Own(t) = Own(s) /\ t.generation = s.generation
               /\ IF s.ttl <= 1
                  THEN /\ t = Absent
                       /\ Mode(s) \in {"closed", "half_open"} /\ Own(s) = NoAttempt
                  ELSE /\ Mode(t) = Mode(s) \/ (Mode(s) = "open" /\ Mode(t) = "half_open")
                       /\ \A m \in Admission : Joins(t, m) <=> Joins(s, m)
    OBVIOUS
  <1> HIDE DEF s, t
  <1>3. CASE s.ttl <= 1
    <2>1. t.owner = NoAttempt /\ t.lease = 0 /\ t.circuit = "closed"
      BY <1>2, <1>3 DEF Absent
    <2>2. /\ s.cooldown \in 0..Cooldown /\ s.lease \in 0..ProbeLease /\ s.ttl \in 0..KeyTTL
      BY <1>1 DEF Fields
    <2>3. /\ s.circuit = "open" => s.cooldown = 0
          /\ s.owner # NoAttempt => s.lease = 0
      BY <1>1, <1>3, <2>2, PolicyAssumption DEF Sound
    <2>4. Mode(s) \in {"closed", "half_open"}
      BY <1>1, <2>3, ModeFacts DEF Fields
    <2> QED BY <1>2, <1>3, <2>1, <2>3, <2>4 DEF Slot, Own
  <1>4. CASE ~(s.ttl <= 1)
    <2> DEFINE c == IF s.cooldown = 0 THEN 0 ELSE s.cooldown - 1
               l == IF s.lease = 0 THEN 0 ELSE s.lease - 1
               k == s.ttl - 1
    <2>1. t = [s EXCEPT !.cooldown = c, !.lease = l, !.ttl = k]
      BY <1>2, <1>4 DEF Aged
    <2>2. (s.cooldown = 0 => c = 0) /\ (s.lease = 0 => l = 0)
      OBVIOUS
    <2> HIDE DEF c, l, k
    <2>3. /\ t.circuit = s.circuit /\ t.owner = s.owner /\ t.generation = s.generation
          /\ t.cooldown = c /\ t.lease = l
      BY <1>1, <2>1 DEF Fields
    <2>4. t \in Fields
      BY <1>1, <1>2, <1>4, AgedSound DEF Sound
    <2>5. Mode(t) = Mode(s) \/ (Mode(s) = "open" /\ Mode(t) = "half_open")
      BY <1>1, <2>2, <2>3, <2>4, ModeFacts
    <2>6. Mode(t) = "closed" <=> Mode(s) = "closed"
      BY <1>1, <2>3, <2>4, ModeFacts
    <2> QED BY <1>1, <1>4, <2>2, <2>3, <2>5, <2>6 DEF Slot, Own, Joins
  <1> QED BY <1>3, <1>4

LEMMA TickFenced ==
  ASSUME Fenced, IInv', Tick
  PROVE  Fenced'
  <1>1. \A d \in Deployments : Slot(hash'[d])
    BY ElapsedKind
  <1>2. ASSUME NEW e \in Deployments, NEW b \in Attempts, Own(hash'[e]) = b
        PROVE  Own(hash[e]) = b /\ Told(e)' = Told(e)
    BY <1>2, ElapsedKind, NullAssumption, Zenon DEF Told
  <1>3. held' = held
    BY Zenon DEF Tick
  <1>4. OwnersHold'
    BY <1>2, <1>3 DEF Fenced, OwnersHold
  <1> QED BY <1>1, <1>4 DEF Fenced

LEMMA InitFenced == Init => Fenced
  BY InitInvariant, NullAssumption DEF Init, Fenced, OwnersHold, Slot, Own, Absent

LEMMA StepFenced == Fenced /\ [Next]_vars => Fenced'
  <1> SUFFICES ASSUME Fenced, [Next]_vars
               PROVE  Fenced'
    OBVIOUS
  <1>1. IInv'
    BY StepInvariant DEF Fenced
  <1>2. Fresh \subseteq Generations
    BY DEF Fresh
  <1>3. CASE UNCHANGED vars
    BY <1>3, <1>1 DEF vars, Fenced, OwnersHold, Told
  <1>4. CASE Tick
    BY <1>1, <1>4, TickFenced
  <1>5. ASSUME NEW g \in Fresh, NEW a \in Attempts, CallerStep(a, g)
        PROVE  Fenced'
    <2>1. \E d \in Deployments : Reported(d, g) \/ Asked(a, d, g)
      BY <1>2, <1>5, CallerKind, AllowKind DEF CallerStep
    <2> QED BY <1>1, <2>1, ReportedFenced, AskedFenced
  <1>6. ASSUME NEW g \in Fresh, NEW d \in Deployments, UncorrelatedStep(d, g)
        PROVE  Fenced'
    BY <1>1, <1>2, <1>6, UncorrelatedKind, ReportedFenced
  <1> QED BY <1>3, <1>4, <1>5, <1>6 DEF Next

-----------------------------------------------------------------------------
(* Who governs a circuit.                                                  *)

\* Attempt a owns circuit d, or holds a live admission of it while closed.
Governs(a, d) ==
  \/ Own(hash[d]) = a
  \/ held[a] # NoAdmission /\ held[a].deployment = d /\ Joins(hash[d], held[a])

GovernedFacts ==
  \A a \in Attempts :
    /\ GovernedBy(a) \in Deployments \cup {NoDeployment}
    /\ \A d \in Deployments : GovernedBy(a) = d <=> Governs(a, d)

LEMMA Governed == Fenced => GovernedFacts
  <1> SUFFICES ASSUME Fenced, NEW a \in Attempts
               PROVE  /\ GovernedBy(a) \in Deployments \cup {NoDeployment}
                      /\ \A d \in Deployments : GovernedBy(a) = d <=> Governs(a, d)
    BY DEF GovernedFacts
  <1>1. \A d \in Deployments : Owner(d) = Own(hash[d])
    BY DEF Owner, Own
  <1>2. held[a] # NoAdmission =>
          /\ held[a] \in Admission /\ held[a].deployment \in Deployments
          /\ held[a].probe \in BOOLEAN
    BY DEF Fenced, IInv, Admission
  <1>3. ASSUME held[a] # NoAdmission
        PROVE  LET s == hash[held[a].deployment]
               IN  Live(a) <=> IF held[a].probe
                               THEN /\ s.generation = held[a].generation
                                    /\ Mode(s) = "half_open" /\ Own(s) = a
                               ELSE Joins(s, held[a])
    <2> DEFINE d == held[a].deployment
               s == hash[d]
               u == Seen(d)
    <2>1. s \in Fields /\ Cooled(s) \in Fields /\ Cooled(s).generation = s.generation
      BY <1>2, <1>3, CooledFacts DEF Fenced, IInv
    <2>2. u = [Cooled(s) EXCEPT !.owner = Own(s)]
      BY <1>1, <1>2, <1>3 DEF Seen
    <2>3. u.circuit = Mode(s) /\ u.owner = Own(s) /\ u.generation = s.generation
      BY <2>1, <2>2 DEF Mode, Fields
    <2>4. Live(a) <=> Controls(u, a, held[a])
      BY <1>3 DEF Live
    <2> HIDE DEF u, s
    <2>5. Live(a) <=> IF held[a].probe
                      THEN s.generation = held[a].generation /\ Mode(s) = "half_open" /\ Own(s) = a
                      ELSE Joins(s, held[a])
      BY <1>2, <1>3, <2>3, <2>4 DEF Controls, Joins
    <2> QED BY <2>5 DEF s
  <1>4. CASE \E d \in Deployments : Owner(d) = a
    <2>1. PICK d \in Deployments : Own(hash[d]) = a
      BY <1>1, <1>4
    <2>2. /\ held[a] \in {NoAdmission, Told(d)}
          /\ \A e \in Deployments \ {d} : Own(hash[e]) # a
      BY <2>1 DEF Fenced, OwnersHold
    <2>3. {e \in Deployments : Owner(e) = a} = {d}
      BY <1>1, <2>1, <2>2
    <2>4. GovernedBy(a) = d
      BY <2>3 DEF GovernedBy
    <2>5. \A e \in Deployments : Governs(a, e) <=> e = d
      <3>1. held[a] # NoAdmission => held[a].probe
        BY <2>2 DEF Told
      <3> QED BY <2>1, <2>2, <3>1, Zenon DEF Governs, Joins
    <2> QED BY <2>4, <2>5
  <1>5. CASE \A d \in Deployments : Owner(d) # a
    <2>1. {d \in Deployments : Owner(d) = a} = {}
      BY <1>5
    <2>2. GovernedBy(a) = IF Live(a) THEN held[a].deployment ELSE NoDeployment
      BY <2>1 DEF GovernedBy
    <2>3. CASE held[a] = NoAdmission
      BY <1>1, <1>5, <2>2, <2>3, NullAssumption DEF Live, Governs
    <2>4. CASE held[a] # NoAdmission
      <3>1. Live(a) <=> Joins(hash[held[a].deployment], held[a])
        BY <1>1, <1>2, <1>3, <1>5, <2>4 DEF Joins
      <3> QED BY <1>1, <1>2, <1>5, <2>2, <2>4, <3>1, NullAssumption DEF Governs
    <2> QED BY <2>3, <2>4
  <1> QED BY <1>4, <1>5

-----------------------------------------------------------------------------
(* Every step of the server is a step of the shared contract.              *)

LEMMA GovernedNext == Fenced' => GovernedFacts'
  BY Governed, PTL

LEMMA FreshIsUnknown ==
  ASSUME IInv, NEW g \in Fresh, NEW a \in Attempts, held[a] # NoAdmission
  PROVE  held[a] \in Admission /\ held[a].deployment \in Deployments /\ held[a].generation # g
  <1>1. held[a] \in Admission
    BY DEF IInv
  <1>2. held[a].generation \in InUse
    BY DEF InUse
  <1>3. g \notin InUse
    BY DEF Fresh
  <1> QED BY <1>1, <1>2, <1>3 DEF Admission

\* The circuits callers observe, when circuit d moves to t.
LEMMA MovedMode ==
  ASSUME IInv, NEW d \in Deployments, NEW t \in Fields, hash' = [hash EXCEPT ![d] = t],
         NEW e \in Deployments
  PROVE  /\ Circuit(e) = Mode(hash[e])
         /\ Circuit(e)' = IF e = d THEN Mode(t) ELSE Circuit(e)
  <1>1. Circuit(e) = Mode(hash[e]) /\ Circuit(e)' = Mode(hash'[e])
    BY DEF Circuit, Mode
  <1>2. hash'[e] = IF e = d THEN t ELSE hash[e]
    BY MoveElsewhere
  <1>3. CASE e = d
    BY <1>1, <1>2, <1>3
  <1>4. CASE e # d
    BY <1>1, <1>2, <1>4
  <1> QED BY <1>3, <1>4

\* An attempt whose admission does not change, when circuit d moves to t.
LEMMA MovedGovernor ==
  ASSUME Fenced, Fenced', NEW d \in Deployments, NEW g \in Fresh, NEW t \in Fields,
         hash' = [hash EXCEPT ![d] = t], NEW b \in Attempts, held'[b] = held[b]
  PROVE  /\ Keeps(hash[d], t, g) => GovernedBy(b)' = GovernedBy(b)
         /\ Ends(hash[d], t, g) =>
              GovernedBy(b)' = IF GovernedBy(b) = d THEN NoDeployment ELSE GovernedBy(b)
         /\ Mode(hash[d]) = "half_open" /\ Own(hash[d]) = NoAttempt
              /\ Mode(t) = "half_open" /\ Own(t) # b => GovernedBy(b)' = GovernedBy(b)
  <1>1. /\ GovernedBy(b) \in Deployments \cup {NoDeployment}
        /\ GovernedBy(b)' \in Deployments \cup {NoDeployment}
        /\ \A e \in Deployments : GovernedBy(b) = e <=> Governs(b, e)
        /\ \A e \in Deployments : GovernedBy(b)' = e <=> Governs(b, e)'
    BY Governed, GovernedNext DEF GovernedFacts
  <1>2. \A e \in Deployments : hash'[e] = IF e = d THEN t ELSE hash[e]
    BY MoveElsewhere, Zenon DEF Fenced
  <1>3. \A e \in Deployments \ {d} : Governs(b, e)' <=> Governs(b, e)
    BY <1>2 DEF Governs
  <1>4. Governs(b, d)' <=> \/ Own(t) = b
                           \/ held[b] # NoAdmission /\ held[b].deployment = d /\ Joins(t, held[b])
    BY <1>2 DEF Governs
  <1>5. held[b] # NoAdmission => held[b] \in Admission /\ held[b].generation # g
    BY FreshIsUnknown DEF Fenced
  <1>6. ASSUME Keeps(hash[d], t, g)
        PROVE  Governs(b, d)' <=> Governs(b, d)
    BY <1>4, <1>5, <1>6 DEF Keeps, Governs
  <1>7. ASSUME Ends(hash[d], t, g)
        PROVE  ~Governs(b, d)'
    BY <1>4, <1>5, <1>7, NullAssumption DEF Ends
  <1>8. ASSUME Mode(hash[d]) = "half_open", Own(hash[d]) = NoAttempt, Mode(t) = "half_open",
               Own(t) # b
        PROVE  Governs(b, d)' <=> Governs(b, d)
    BY <1>4, <1>8, NullAssumption DEF Governs, Joins
  <1>9. ASSUME Governs(b, d)' <=> Governs(b, d)
        PROVE  GovernedBy(b)' = GovernedBy(b)
    BY <1>1, <1>3, <1>9
  <1>10. ASSUME ~Governs(b, d)'
         PROVE  GovernedBy(b)' = IF GovernedBy(b) = d THEN NoDeployment ELSE GovernedBy(b)
    BY <1>1, <1>3, <1>10
  <1> QED BY <1>6, <1>7, <1>8, <1>9, <1>10

LEMMA InitRefines == Init => Contract!Init
  <1> SUFFICES ASSUME Init
               PROVE  Contract!Init
    OBVIOUS
  <1>1. \A d \in Deployments : hash[d] = Absent
    BY Zenon DEF Init
  <1>2. \A d \in Deployments : Circuit(d) = "closed"
    <2>1. Cooled(Absent).circuit = "closed"
      BY DEF Cooled, Absent
    <2> QED BY <1>1, <2>1, Zenon DEF Circuit
  <1>3. \A a \in Attempts, d \in Deployments : ~Governs(a, d)
    BY <1>1, NullAssumption, Zenon DEF Init, Governs, Own, Absent
  <1>4. \A a \in Attempts : GovernedBy(a) = NoDeployment
    BY <1>3, InitFenced, Governed DEF GovernedFacts
  <1> QED BY <1>2, <1>4 DEF Contract!Init

LEMMA ReportedRefines ==
  ASSUME Fenced, Fenced', NEW d \in Deployments, NEW g \in Fresh, Reported(d, g)
  PROVE  [Contract!SharedNext]_(Contract!contractVars)
  <1>1. PICK t \in Fields : /\ hash' = [hash EXCEPT ![d] = t]
                            /\ held' = held
                            /\ Slot(t)
                            /\ Keeps(hash[d], t, g) \/ Ends(hash[d], t, g)
    BY Zenon DEF Reported
  <1>2. \A e \in Deployments : /\ Circuit(e) = Mode(hash[e])
                               /\ Circuit(e)' = IF e = d THEN Mode(t) ELSE Circuit(e)
    BY <1>1, MovedMode, Zenon DEF Fenced
  <1>3. CASE Keeps(hash[d], t, g)
    <2>1. \A e \in Deployments : Circuit(e)' = Circuit(e)
      BY <1>2, <1>3 DEF Keeps
    <2>2. \A b \in Attempts : GovernedBy(b)' = GovernedBy(b)
      BY <1>1, <1>3, MovedGovernor, Zenon
    <2> QED BY <2>1, <2>2 DEF Contract!contractVars
  <1>4. CASE Ends(hash[d], t, g)
    <2>1. \A b \in Attempts :
            GovernedBy(b)' = IF GovernedBy(b) = d THEN NoDeployment ELSE GovernedBy(b)
      BY <1>1, <1>4, MovedGovernor, Zenon
    <2>2. Own(hash[d]) # NoAttempt => Contract!Governors(d) # {}
      <3>1. Own(hash[d]) \in Attempts \cup {NoAttempt}
        BY DEF Fenced, IInv, Fields, Own
      <3>2. \A b \in Attempts : Own(hash[d]) = b => GovernedBy(b) = d
        BY Governed DEF GovernedFacts, Governs
      <3> QED BY <3>1, <3>2 DEF Contract!Governors
    <2>3. [b \in Attempts |-> GovernedBy(b)]' = Contract!ReleasedFrom({d})
      BY <2>1 DEF Contract!ReleasedFrom
    <2>4. [e \in Deployments |-> Circuit(e)]' =
            [[e \in Deployments |-> Circuit(e)] EXCEPT ![d] = Mode(t)]
      BY <1>2, Zenon
    <2>5. CASE Mode(t) = "open"
      <3>1. Contract!Trip(d)
        BY <1>2, <1>4, <2>2, <2>3, <2>4, <2>5 DEF Ends, Contract!Trip
      <3> QED BY <3>1 DEF Contract!Next, Contract!SharedNext
    <2>6. CASE Mode(t) = "closed"
      <3>1. Contract!Recover(d)
        BY <1>2, <1>4, <2>2, <2>3, <2>4, <2>6 DEF Ends, Contract!Recover
      <3> QED BY <3>1 DEF Contract!Next, Contract!SharedNext
    <2>7. CASE Mode(t) = "half_open"
      <3>1. [e \in Deployments |-> Circuit(e)]' = [e \in Deployments |-> Circuit(e)]
        BY <1>2, <1>4, <2>7 DEF Ends
      <3>2. Contract!Surrender(d)
        BY <1>2, <1>4, <2>2, <2>3, <2>7, <3>1 DEF Ends, Contract!Surrender
      <3> QED BY <3>2 DEF Contract!Next, Contract!SharedNext
    <2> QED BY <1>4, <2>5, <2>6, <2>7 DEF Ends
  <1> QED BY <1>1, <1>3, <1>4

LEMMA AskedRefines ==
  ASSUME Fenced, Fenced', NEW a \in Attempts, NEW d \in Deployments, NEW g \in Fresh,
         Asked(a, d, g)
  PROVE  [Contract!SharedNext]_(Contract!contractVars)
  <1> DEFINE M == [e \in Deployments |-> Circuit(e)]
             G == [b \in Attempts |-> GovernedBy(b)]
  <1>1. PICK t \in Fields, m \in Admission \cup {NoAdmission} :
          /\ hash' = [hash EXCEPT ![d] = t]
          /\ held' = [held EXCEPT ![a] = m]
          /\ Slot(t)
          /\ \A e \in Deployments \ {d} : Own(hash[e]) # a
          /\ \/ /\ Keeps(hash[d], t, g) /\ Mode(t) = "closed"
                /\ m = [deployment |-> d, generation |-> t.generation, probe |-> FALSE]
                /\ m # NoAdmission
             \/ /\ Mode(hash[d]) = "half_open" /\ Own(hash[d]) = NoAttempt
                /\ Mode(t) = "half_open" /\ Own(t) = a
                /\ m \in {NoAdmission, [deployment |-> d, generation |-> t.generation, probe |-> TRUE]}
             \/ /\ Keeps(hash[d], t, g) /\ Own(t) = a
                /\ m \in {NoAdmission, [deployment |-> d, generation |-> t.generation, probe |-> TRUE]}
             \/ Keeps(hash[d], t, g) /\ Own(t) # a /\ m = NoAdmission
    BY Zenon DEF Asked
  <1>2. /\ \A e \in Deployments : hash'[e] = IF e = d THEN t ELSE hash[e]
        /\ \A b \in Attempts : held'[b] = IF b = a THEN m ELSE held[b]
    BY <1>1, MoveElsewhere DEF Fenced, IInv
  <1>3. \A e \in Deployments : /\ Circuit(e) = Mode(hash[e])
                               /\ Circuit(e)' = IF e = d THEN Mode(t) ELSE Circuit(e)
    BY <1>1, MovedMode, Zenon DEF Fenced
  <1>4. Mode(t) = Mode(hash[d])
    BY <1>1, Zenon DEF Keeps
  <1>5. \A e \in Deployments : Circuit(e)' = Circuit(e)
    BY <1>3, <1>4
  <1>6. ASSUME NEW b \in Attempts, b # a
        PROVE  GovernedBy(b)' = GovernedBy(b)
    <2>1. held'[b] = held[b]
      BY <1>2, <1>6
    <2>2. CASE Keeps(hash[d], t, g)
      BY <1>1, <2>1, <2>2, MovedGovernor, Zenon
    <2>3. CASE ~Keeps(hash[d], t, g)
      <3>1. /\ Mode(hash[d]) = "half_open" /\ Own(hash[d]) = NoAttempt
            /\ Mode(t) = "half_open" /\ Own(t) # b
        BY <1>1, <1>6, <2>3
      <3> QED BY <1>1, <2>1, <3>1, MovedGovernor, Zenon
    <2> QED BY <2>2, <2>3
  <1>7. /\ GovernedBy(a) \in Deployments \cup {NoDeployment}
        /\ GovernedBy(a)' \in Deployments \cup {NoDeployment}
        /\ \A e \in Deployments : GovernedBy(a) = e <=> Governs(a, e)
        /\ \A e \in Deployments : GovernedBy(a)' = e <=> Governs(a, e)'
    BY Governed, GovernedNext DEF GovernedFacts
  <1>8. \A e \in Deployments : Governs(a, e) => e = d \/ Circuit(e) = "closed"
    BY <1>1, <1>3 DEF Governs, Joins
  <1>9. ASSUME GovernedBy(a)' = d,
               Circuit(d) = "closed" \/ (Circuit(d) = "half_open" /\ Own(hash[d]) = NoAttempt)
        PROVE  Contract!Admit(a, d)
    <2>1. Circuit(d) = "half_open" => \A b \in Attempts : GovernedBy(b) # d
      <3>1. ASSUME NEW b \in Attempts, Circuit(d) = "half_open"
            PROVE  ~Governs(b, d)
        BY <1>3, <1>9, <3>1, NullAssumption DEF Governs, Joins
      <3> QED BY <3>1, Governed DEF GovernedFacts
    <2>2. G' = [G EXCEPT ![a] = d]
      BY <1>6, <1>9, Zenon
    <2>3. M' = M
      BY <1>5
    <2>4. M[d] = "closed" \/ (M[d] = "half_open" /\ Contract!Governors(d) = {})
      BY <1>9, <2>1 DEF Contract!Governors
    <2>5. G[a] # NoDeployment => M[G[a]] # "half_open"
      <3> SUFFICES ASSUME GovernedBy(a) # NoDeployment
                   PROVE  GovernedBy(a) \in Deployments /\ Circuit(GovernedBy(a)) # "half_open"
        OBVIOUS
      <3>1. GovernedBy(a) \in Deployments /\ Governs(a, GovernedBy(a))
        BY <1>7
      <3>2. CASE GovernedBy(a) = d
        BY <1>9, <2>1, <3>1, <3>2
      <3>3. CASE GovernedBy(a) # d
        BY <1>8, <3>1, <3>3
      <3> QED BY <3>1, <3>2, <3>3
    <2> QED BY <2>2, <2>3, <2>4, <2>5 DEF Contract!Admit
  <1>10. CASE /\ Keeps(hash[d], t, g) /\ Mode(t) = "closed"
              /\ m = [deployment |-> d, generation |-> t.generation, probe |-> FALSE]
              /\ m # NoAdmission
    <2>1. Governs(a, d)'
      BY <1>2, <1>10 DEF Governs, Joins
    <2>2. Contract!Admit(a, d)
      BY <1>3, <1>4, <1>7, <1>9, <1>10, <2>1, Zenon
    <2> QED BY <2>2 DEF Contract!Next, Contract!SharedNext
  <1>11. CASE /\ Mode(hash[d]) = "half_open" /\ Own(hash[d]) = NoAttempt
              /\ Mode(t) = "half_open" /\ Own(t) = a
    <2>1. Governs(a, d)'
      BY <1>2, <1>11 DEF Governs
    <2>2. Contract!Admit(a, d)
      BY <1>3, <1>7, <1>9, <1>11, <2>1, Zenon
    <2> QED BY <2>2 DEF Contract!Next, Contract!SharedNext
  <1>12. CASE Keeps(hash[d], t, g) /\ Own(t) = a
    <2>1. Governs(a, d)' /\ Governs(a, d)
      BY <1>2, <1>12, Zenon DEF Governs, Keeps
    <2>2. \A b \in Attempts : GovernedBy(b)' = GovernedBy(b)
      BY <1>6, <1>7, <2>1
    <2> QED BY <1>5, <2>2 DEF Contract!contractVars
  <1>13. CASE Keeps(hash[d], t, g) /\ Own(t) # a /\ m = NoAdmission
    <2>1. \A e \in Deployments : ~Governs(a, e)'
      BY <1>1, <1>2, <1>13 DEF Governs
    <2>2. GovernedBy(a)' = NoDeployment
      BY <1>7, <2>1
    <2>3. CASE GovernedBy(a) = NoDeployment
      <3>1. \A b \in Attempts : GovernedBy(b)' = GovernedBy(b)
        BY <1>6, <2>2, <2>3
      <3> QED BY <1>5, <3>1 DEF Contract!contractVars
    <2>4. CASE GovernedBy(a) # NoDeployment
      <3>1. GovernedBy(a) \in Deployments /\ Governs(a, GovernedBy(a))
        BY <1>7, <2>4
      <3>2. Circuit(GovernedBy(a)) = "closed"
        BY <1>1, <1>3, <1>13, <3>1, Zenon DEF Governs, Joins, Keeps
      <3>3. G' = [G EXCEPT ![a] = NoDeployment]
        BY <1>6, <2>2, Zenon
      <3>4. M' = M
        BY <1>5
      <3>5. G[a] # NoDeployment /\ M[G[a]] = "closed"
        BY <2>4, <3>1, <3>2
      <3>6. Contract!Abandon(a)
        BY <3>3, <3>4, <3>5 DEF Contract!Abandon
      <3> QED BY <3>6 DEF Contract!SharedNext
    <2> QED BY <2>3, <2>4
  <1> QED BY <1>1, <1>10, <1>11, <1>12, <1>13

LEMMA TickRefines ==
  ASSUME Fenced, Fenced', Tick
  PROVE  [Contract!SharedNext]_(Contract!contractVars)
  <1> DEFINE M == [d \in Deployments |-> Circuit(d)]
             G == [a \in Attempts |-> GovernedBy(a)]
  <1>1. PICK C \in SUBSET Deployments :
          C = {d \in Deployments : hash[d].ttl > 1 /\ Circuit(d) = "open" /\ Circuit(d)' = "half_open"}
    BY Zenon
  <1>2. PICK L \in SUBSET Deployments :
          L = {d \in Deployments : hash[d].ttl > 1 /\ Own(hash[d]) # NoAttempt /\ Own(hash'[d]) = NoAttempt}
    BY Zenon
  <1>3. PICK F \in SUBSET Deployments : F = {d \in Deployments : hash[d].ttl <= 1}
    BY Zenon
  <1>4. \A d \in Deployments :
          /\ hash[d].ttl \in Nat
          /\ Slot(hash[d]) /\ hash[d] \in Fields
          /\ Circuit(d) = Mode(hash[d]) /\ Circuit(d)' = Mode(hash'[d])
    <2>1. \A d \in Deployments : Slot(hash[d]) /\ hash[d] \in Fields
      BY DEF Fenced, IInv
    <2>2. \A h \in Fields : h.ttl \in Nat
      BY DEF Fields
    <2>3. \A d \in Deployments : Circuit(d) = Mode(hash[d]) /\ Circuit(d)' = Mode(hash'[d])
      BY DEF Circuit, Mode
    <2> QED BY <2>1, <2>2, <2>3
  <1>5. Mode(Absent) = "closed" /\ Own(Absent) = NoAttempt /\ Absent.generation = NoGeneration
    BY DEF Mode, Own, Cooled, Absent
  <1>6. \A d \in Deployments : Own(hash[d]) # NoAttempt => Circuit(d) = "half_open"
    BY <1>4, ModeFacts DEF Slot, Own
  <1>7. \A a \in Attempts : held'[a] = held[a] /\ (held[a] # NoAdmission => held[a] \in Admission)
    BY Zenon DEF Tick, Fenced, IInv
  <1>8. \A m \in Admission : ~Joins(Absent, m)
    <2>1. \A m \in Admission : m.generation \in Generations
      BY DEF Admission
    <2> QED BY <1>5, <2>1, NullAssumption DEF Joins
  <1>9. ASSUME NEW a \in Attempts, NEW d \in Deployments
        PROVE  Governs(a, d)' <=> Governs(a, d) /\ d \notin L \cup F
    <2>1. CASE d \in F
      <3>1. hash'[d] = Absent
        BY <1>3, <2>1, ElapsedKind
      <3> QED BY <1>5, <1>7, <1>8, <2>1, <3>1, NullAssumption DEF Governs
    <2>2. CASE d \notin F
      <3>1. /\ Own(hash'[d]) # NoAttempt => Own(hash'[d]) = Own(hash[d])
            /\ \A m \in Admission : Joins(hash'[d], m) <=> Joins(hash[d], m)
        BY <1>3, <1>4, <2>2, ElapsedKind
      <3>2. d \in L <=> Own(hash[d]) # NoAttempt /\ Own(hash'[d]) = NoAttempt
        BY <1>2, <1>3, <1>4, <2>2
      <3>3. Own(hash[d]) # NoAttempt => \A m \in Admission : ~Joins(hash[d], m)
        BY <1>4, <1>6 DEF Joins
      <3>4. Own(hash'[d]) = a <=> Own(hash[d]) = a /\ d \notin L
        BY <3>1, <3>2, NullAssumption
      <3> QED BY <1>7, <2>2, <3>1, <3>2, <3>3, <3>4, Zenon DEF Governs
    <2> QED BY <2>1, <2>2
  <1>10. \A a \in Attempts :
           GovernedBy(a)' = IF GovernedBy(a) \in L \cup F THEN NoDeployment ELSE GovernedBy(a)
    <2> SUFFICES ASSUME NEW a \in Attempts
                 PROVE  GovernedBy(a)' = IF GovernedBy(a) \in L \cup F THEN NoDeployment
                                         ELSE GovernedBy(a)
      OBVIOUS
    <2>1. /\ GovernedBy(a) \in Deployments \cup {NoDeployment}
          /\ GovernedBy(a)' \in Deployments \cup {NoDeployment}
          /\ \A e \in Deployments : GovernedBy(a) = e <=> Governs(a, e)
          /\ \A e \in Deployments : GovernedBy(a)' = e <=> Governs(a, e)'
      BY Governed, GovernedNext DEF GovernedFacts
    <2>2. L \cup F \subseteq Deployments
      OBVIOUS
    <2> QED BY <1>9, <2>1, <2>2, NullAssumption
  <1>11. \A d \in Deployments :
           Circuit(d)' = IF d \in F THEN "closed" ELSE IF d \in C THEN "half_open" ELSE Circuit(d)
    <2> SUFFICES ASSUME NEW d \in Deployments
                 PROVE  Circuit(d)' = IF d \in F THEN "closed"
                                      ELSE IF d \in C THEN "half_open" ELSE Circuit(d)
      OBVIOUS
    <2>1. CASE d \in F
      BY <1>3, <1>4, <1>5, <2>1, ElapsedKind, Zenon
    <2>2. CASE d \notin F
      BY <1>1, <1>3, <1>4, <2>2, ElapsedKind
    <2> QED BY <2>1, <2>2
  <1>12. \A d \in F : M[d] = "closed" \/ (M[d] = "half_open" /\ Contract!Governors(d) = {})
    <2> SUFFICES ASSUME NEW d \in F, Circuit(d) # "closed"
                 PROVE  Circuit(d) = "half_open" /\ \A a \in Attempts : GovernedBy(a) # d
      BY DEF Contract!Governors
    <2>1. Circuit(d) = "half_open" /\ Own(hash[d]) = NoAttempt
      BY <1>3, <1>4, ElapsedKind
    <2>2. \A a \in Attempts : ~Governs(a, d)
      BY <1>4, <2>1, NullAssumption DEF Governs, Joins
    <2> QED BY <2>1, <2>2, Governed DEF GovernedFacts
  <1>13. /\ \A d \in C : M[d] = "open"
         /\ \A d \in L : M[d] = "half_open"
    BY <1>1, <1>2, <1>6
  <1>14. M' = [d \in Deployments |-> IF d \in F THEN "closed"
                                    ELSE IF d \in C THEN "half_open" ELSE M[d]]
    BY <1>11
  <1>15. G' = [a \in Attempts |-> IF G[a] \in L \cup F THEN NoDeployment ELSE G[a]]
    BY <1>10
  <1>16. Contract!ElapseForgetting(C, L, F)
    BY <1>12, <1>13, <1>14, <1>15 DEF Contract!ElapseForgetting, Contract!ReleasedFrom
  <1> QED BY <1>16 DEF Contract!SharedNext

LEMMA StepRefines == Fenced /\ [Next]_vars => [Contract!SharedNext]_(Contract!contractVars)
  <1> SUFFICES ASSUME Fenced, [Next]_vars
               PROVE  [Contract!SharedNext]_(Contract!contractVars)
    OBVIOUS
  <1>1. Fenced'
    BY StepFenced
  <1>2. Fresh \subseteq Generations
    BY DEF Fresh
  <1>3. CASE UNCHANGED vars
    <2>1. \A d \in Deployments : Circuit(d)' = Circuit(d)
      BY <1>3 DEF vars, Circuit
    <2>2. \A a \in Attempts : GovernedBy(a)' = GovernedBy(a)
      <3>1. \A a \in Attempts, d \in Deployments : Governs(a, d)' <=> Governs(a, d)
        BY <1>3 DEF vars, Governs
      <3> QED BY <1>1, <3>1, Governed, GovernedNext, NullAssumption DEF GovernedFacts
    <2> QED BY <2>1, <2>2 DEF Contract!contractVars
  <1>4. CASE Tick
    BY <1>1, <1>4, TickRefines
  <1>5. ASSUME NEW g \in Fresh, NEW a \in Attempts, CallerStep(a, g)
        PROVE  [Contract!SharedNext]_(Contract!contractVars)
    <2>1. \E d \in Deployments : Reported(d, g) \/ Asked(a, d, g)
      BY <1>2, <1>5, CallerKind, AllowKind DEF CallerStep
    <2> QED BY <1>1, <2>1, ReportedRefines, AskedRefines
  <1>6. ASSUME NEW g \in Fresh, NEW d \in Deployments, UncorrelatedStep(d, g)
        PROVE  [Contract!SharedNext]_(Contract!contractVars)
    BY <1>1, <1>2, <1>6, UncorrelatedKind, ReportedRefines
  <1> QED BY <1>3, <1>4, <1>5, <1>6 DEF Next

(***************************************************************************)
(* The replicas that share circuits through the server's scripts keep the  *)
(* port's contract although keys expire and replies are lost: at most one  *)
(* attempt of all the replicas probes a half-open circuit, only a governor *)
(* trips or closes one, and an expired key never hides an open circuit or  *)
(* a running probe (RedisHealthTracker).                                   *)
(***************************************************************************)
THEOREM SharedRefinement == Spec => ImplementsSharedContract
  BY InitRefines, StepRefines, InitFenced, StepFenced, PTL
     DEF Spec, ImplementsSharedContract, Contract!SharedSpec
=============================================================================
