---------------------- MODULE StreamingExecutionProofs ----------------------
(***************************************************************************)
(* Proofs about StreamingExecution, for any candidates, retry policy,      *)
(* deltas and deadlines: the replay boundary and the accounting of         *)
(* attempts (Sound), the lifecycle of a response as the consumer sees it   *)
(* (WellFormed), and the text that is stored of it (Gathered).             *)
(*                                                                         *)
(* That an attempt starts only before anything was shown is not inductive: *)
(* whether it may start is decided several steps earlier, when a failure   *)
(* is reported.  Sound adds what those steps know of the boundary.         *)
(***************************************************************************)
EXTENDS StreamingExecution, TLAPS

Names ==
  {"pc", "order", "safe", "cacheable", "i", "n", "held", "probe", "started", "public",
   "semantic", "usage", "sequence", "event", "transient", "after", "then", "queue",
   "routing", "execution", "text", "out", "left", "unaccounted"}

\* The places from which the attempt loop may still start an attempt.
Silent == {"prepared", "lookup", "head", "admitting", "deciding", "sleeping"}

\* The places inside an attempt.
Attempting == {"reading", "recording", "storing", "reporting"}

\* Before the boundary nothing was shown; past it, the attempt knows.
Boundary(t) ==
  /\ t.pc \in Silent => t.out = <<>>
  /\ t.pc = "releasing" /\ t.after \in {"next", "retry"} => t.out = <<>>
  /\ t.pc \in Attempting /\ t.out # <<>> => t.semantic
  /\ t.pc = "checking" => t.semantic
  /\ t.pc = "shown" /\ t.then \in {"reading", "checking"} => t.semantic

\* Where the scope of an admission and a yield may lead.
Leads(t) ==
  /\ t.after \in {"none", "next", "retry", "deadline"} \cup Ends
  /\ t.then \in {"none", "reading", "checking", "replay"}

Accounted(t) ==
  t.unaccounted =>
    /\ t.held
    /\ \/ t.pc \in {"reading", "checking", "recording"}
       \/ t.pc = "shown" /\ t.then \in {"reading", "checking"}

Sound(t) ==
  /\ DOMAIN t = Names
  /\ Leads(t)
  /\ Boundary(t)
  /\ timeout = 0 => Accounted(t)

-----------------------------------------------------------------------------
(* What the helpers lead to.                                               *)

LEMMA FinalSound ==
  ASSUME NEW t, DOMAIN t = Names, NEW why \in Ends \cup {"deadline"},
         timeout = 0 => ~t.unaccounted
  PROVE  Sound(Final(t, why))
  BY Zenon DEF Final, Sound, Names, Leads, Boundary, Accounted, Ends, Silent, Attempting

LEMMA LeavingSound ==
  ASSUME NEW t, DOMAIN t = Names, Leads(t),
         NEW what \in {"next", "retry", "deadline"} \cup Ends,
         what \in {"next", "retry"} => t.out = <<>>,
         timeout = 0 => ~t.unaccounted
  PROVE  Sound(Leaving(t, what))
  BY Zenon DEF Leaving, Sound, Names, Leads, Boundary, Accounted, Silent, Attempting

LEMMA AbortedSound ==
  ASSUME NEW t, DOMAIN t = Names, Leads(t), NEW why \in Ends \cup {"deadline"},
         timeout = 0 => (t.unaccounted => t.held)
  PROVE  Sound(Aborted(t, why))
  <1>1. CASE t.held
    <2> DEFINE u == Invalidated(t)
    <2>1. DOMAIN u = Names /\ Leads(u) /\ ~u.unaccounted
      BY Zenon DEF Invalidated, Names, Leads
    <2>2. why \notin {"next", "retry"}
      BY Zenon DEF Ends
    <2> QED BY <1>1, <2>1, <2>2, LeavingSound, Zenon DEF Aborted
  <1>2. CASE ~t.held
    BY <1>2, FinalSound, Zenon DEF Aborted
  <1> QED BY <1>1, <1>2, Zenon

LEMMA DeliveredSound ==
  ASSUME NEW t, DOMAIN t = Names, Leads(t), NEW e,
         NEW then \in {"none", "reading", "checking", "replay"},
         then \in {"reading", "checking"} => t.semantic,
         timeout = 0 => (t.unaccounted => t.held /\ then \in {"reading", "checking"})
  PROVE  Sound(Delivered(t, e, then))
  <1>1. CASE Expired
    BY <1>1, AbortedSound, Zenon DEF Delivered
  <1>2. CASE ~Expired
    <2> DEFINE u == [t EXCEPT !.pc = "shown", !.out = Append(@, e), !.then = then]
    <2>1. /\ DOMAIN u = Names /\ u.pc = "shown" /\ u.then = then /\ u.after = t.after
          /\ u.semantic = t.semantic /\ u.unaccounted = t.unaccounted /\ u.held = t.held
      BY Zenon DEF Names
    <2> HIDE DEF u
    <2>2. Sound(u)
      BY <2>1, Zenon DEF Sound, Leads, Boundary, Accounted, Silent, Attempting
    <2> QED BY <1>2, <2>2, Zenon DEF Delivered, u
  <1> QED BY <1>1, <1>2, Zenon

LEMMA HandledSound ==
  ASSUME NEW t, DOMAIN t = Names, Leads(t), NEW transient,
         t.out # <<>> => t.semantic
  PROVE  Sound(Handled(t, transient))
  <1>1. CASE Expired
    <2>1. timeout # 0
      BY <1>1, Zenon DEF Expired
    <2> QED BY <1>1, <2>1, LeavingSound, Zenon DEF Handled
  <1>2. CASE ~Expired
    BY <1>2, Zenon DEF Handled, Sampled, Sound, Names, Leads, Boundary, Accounted, Silent, Attempting
  <1> QED BY <1>1, <1>2, Zenon

LEMMA AdvancedSound ==
  ASSUME NEW t, DOMAIN t = Names, Leads(t), t.out = <<>>, ~t.unaccounted \/ timeout # 0
  PROVE  Sound(Advanced(t))
  <1>1. CASE t.i < Len(t.order)
    BY <1>1, Zenon DEF Advanced, Sound, Names, Leads, Boundary, Accounted, Silent, Attempting
  <1>2. CASE ~(t.i < Len(t.order))
    <2> DEFINE u == [t EXCEPT !.after = "none"]
    <2>1. DOMAIN u = Names /\ Leads(u) /\ u.unaccounted = t.unaccounted
      BY Zenon DEF Names, Leads
    <2> HIDE DEF u
    <2>2. Sound(Delivered(u, Failed(t, 1, FALSE), "none"))
      BY <2>1, DeliveredSound, Zenon
    <2> QED BY <1>2, <2>2, Zenon DEF Advanced, u
  <1> QED BY <1>1, <1>2, Zenon

-----------------------------------------------------------------------------
(* The steps keep the stream sound.                                        *)

LEMMA InitSound == Init => Sound(s)
  BY DEF Init, Idle, Sound, Names, Leads, Boundary, Accounted, Silent, Attempting

LEMMA PrepareSound ==
  ASSUME NEW order, NEW safe, NEW cacheable, NEW resolved, Prepare(order, safe, cacheable, resolved)
  PROVE  Sound(s)'
  <1>1. /\ s'.pc \in {"rejected", "prepared"} /\ DOMAIN s' = Names
        /\ s'.out = <<>> /\ s'.after = "none" /\ s'.then = "none" /\ ~s'.unaccounted
    BY Zenon DEF Prepare, Idle, Names
  <1> QED BY <1>1, Zenon DEF Sound, Leads, Boundary, Accounted, Silent, Attempting

\* What a sound stream tells the helpers' lemmas.
LEMMA SoundFacts ==
  ASSUME Sound(s)
  PROVE  /\ DOMAIN s = Names /\ Leads(s)
         /\ timeout = 0 => (s.unaccounted => s.held)
         /\ timeout = 0 /\ s.pc \notin {"reading", "checking", "recording", "shown"} =>
              ~s.unaccounted
         /\ s.pc \in Silent => s.out = <<>>
         /\ s.pc \in Attempting \cup {"checking"} /\ s.out # <<>> => s.semantic
  BY Zenon DEF Sound, Boundary, Accounted

\* Tick, and the steps before the attempt loop.
LEMMA EntrySound ==
  ASSUME Sound(s),
         Tick \/ Open \/ Replay \/ Begin \/ \E reachable \in BOOLEAN : Lookup(reachable)
  PROVE  Sound(s')
  <1>1. CASE Tick
    BY <1>1, Zenon DEF Tick, Sound, Names, Leads, Boundary, Accounted
  <1>2. CASE Open
    <2>1. s.pc = "prepared" /\ s.out = <<>>
      BY <1>2, SoundFacts, Zenon DEF Open, Silent
    <2>2. CASE Expired
      BY <1>2, <2>1, <2>2, SoundFacts, FinalSound, Zenon DEF Open
    <2>3. CASE ~Expired
      BY <1>2, <2>1, <2>3, Zenon DEF Open, Sound, Names, Leads, Boundary, Accounted, Silent, Attempting
    <2> QED BY <2>2, <2>3, Zenon
  <1>3. CASE Replay
    <2> DEFINE u == [s EXCEPT !.queue = Tail(@)]
    <2>1. /\ DOMAIN u = Names /\ Leads(u)
          /\ u.unaccounted = s.unaccounted /\ u.held = s.held
      BY SoundFacts, Zenon DEF Names, Leads
    <2> HIDE DEF u
    <2>2. timeout = 0 => ~u.unaccounted
      BY <1>3, <2>1, SoundFacts, Zenon DEF Replay
    <2>3. Sound(Delivered(u, Head(s.queue), "replay"))
      BY <2>1, <2>2, DeliveredSound, Zenon
    <2> QED BY <1>3, <2>3, Zenon DEF Replay, u
  <1>4. CASE Begin
    <2>1. s.pc = "head" /\ s.out = <<>>
      BY <1>4, SoundFacts, Zenon DEF Begin, Silent
    <2>2. CASE Expired
      BY <1>4, <2>1, <2>2, SoundFacts, FinalSound, Zenon DEF Begin
    <2>3. CASE ~Expired
      <3>1. /\ DOMAIN s' = Names /\ s'.pc = "admitting" /\ s'.out = s.out
            /\ s'.after = s.after /\ s'.then = s.then
            /\ s'.unaccounted = s.unaccounted /\ s'.held = s.held
        BY <1>4, <2>3, SoundFacts, Zenon DEF Begin, Names
      <3> QED BY <2>1, <3>1, SoundFacts, Zenon
              DEF Sound, Leads, Boundary, Accounted, Silent, Attempting
    <2> QED BY <2>2, <2>3, Zenon
  <1>5. ASSUME NEW reachable \in BOOLEAN, Lookup(reachable)
        PROVE  Sound(s')
    <2>1. s.pc = "lookup" /\ s.out = <<>>
      BY <1>5, SoundFacts, Zenon DEF Lookup, Silent
    <2>2. CASE ~reachable
      <3>1. s' = Final(s, "error")
        BY <1>5, <2>2, Zenon DEF Lookup
      <3> QED BY <2>1, <3>1, SoundFacts, FinalSound, Zenon DEF Ends
    <2>3. CASE reachable /\ Serves(cache, s.order[1])
      <3> DEFINE events == CachedEvents(cache)
                 u == [s EXCEPT !.queue = Tail(events)]
      <3>1. /\ DOMAIN u = Names /\ Leads(u)
            /\ u.unaccounted = s.unaccounted /\ u.held = s.held
        BY SoundFacts, Zenon DEF Names, Leads
      <3>2. s' = Delivered(u, Head(events), "replay")
        BY <1>5, <2>3, Zenon DEF Lookup
      <3> HIDE DEF u, events
      <3>3. timeout = 0 => ~u.unaccounted
        BY <2>1, <3>1, SoundFacts, Zenon
      <3> QED BY <3>1, <3>2, <3>3, DeliveredSound, Zenon
    <2>4. CASE reachable /\ ~Serves(cache, s.order[1])
      <3>1. s' = [s EXCEPT !.pc = "head"]
        BY <1>5, <2>4, Zenon DEF Lookup
      <3> QED BY <2>1, <3>1, Zenon DEF Sound, Names, Leads, Boundary, Accounted, Silent, Attempting
    <2> QED BY <2>2, <2>3, <2>4, Zenon
  <1> QED BY <1>1, <1>2, <1>3, <1>4, <1>5, Zenon

LEMMA AdmitSound ==
  ASSUME Sound(s), NEW answer \in {"refused", "normal", "probe"}, Admit(answer)
  PROVE  Sound(s')
  <1> DEFINE t == [s EXCEPT !.held = TRUE, !.probe = answer = "probe", !.routing = Candidate(s)]
  <1>1. s.pc = "admitting" /\ s.out = <<>> /\ (timeout = 0 => ~s.unaccounted)
    BY SoundFacts, Zenon DEF Admit, Silent
  <1>2. /\ DOMAIN t = Names /\ Leads(t) /\ t.out = s.out
        /\ t.unaccounted = s.unaccounted /\ t.held
    BY SoundFacts, Zenon DEF Names, Leads
  <1>3. CASE answer = "refused"
    <2>1. s' = Advanced(s)
      BY <1>3, Zenon DEF Admit
    <2> QED BY <1>1, <2>1, SoundFacts, AdvancedSound, Zenon
  <1>4. CASE answer # "refused" /\ Expired
    <2>1. s' = Leaving(t, "deadline")
      BY <1>4, Zenon DEF Admit
    <2> HIDE DEF t
    <2> QED BY <1>1, <1>2, <2>1, LeavingSound, Zenon
  <1>5. CASE answer # "refused" /\ ~Expired
    <2>1. s' = [t EXCEPT !.pc = "reading", !.unaccounted = TRUE]
      BY <1>5, Zenon DEF Admit
    <2> HIDE DEF t
    <2>2. /\ DOMAIN s' = Names /\ Leads(s') /\ s'.out = t.out /\ s'.pc = "reading" /\ s'.held
      BY <1>2, <2>1, Zenon DEF Names, Leads
    <2> QED BY <1>1, <1>2, <2>2, Zenon DEF Sound, Boundary, Accounted, Silent, Attempting
  <1> QED BY <1>3, <1>4, <1>5, Zenon

LEMMA ReceivedSemanticSound ==
  ASSUME Sound(s), s.pc = "reading", NEW e
  PROVE  Sound(ReceivedSemantic(s, e))
  <1> DEFINE u == [s EXCEPT !.semantic = TRUE, !.text = Collected(s, e), !.event = e]
             v == [u EXCEPT !.public = TRUE, !.sequence = 1]
  <1>1. /\ DOMAIN u = Names /\ Leads(u) /\ u.semantic
        /\ u.unaccounted = s.unaccounted /\ u.held = s.held
    BY SoundFacts, Zenon DEF Names, Leads
  <1> HIDE DEF u
  <1>2. CASE s.public
    <2>1. ReceivedSemantic(s, e) = [u EXCEPT !.pc = "checking"]
      BY <1>2, Zenon DEF ReceivedSemantic, u
    <2> DEFINE w == [u EXCEPT !.pc = "checking"]
    <2>2. /\ DOMAIN w = Names /\ Leads(w) /\ w.semantic /\ w.pc = "checking"
          /\ w.unaccounted = u.unaccounted /\ w.held = u.held
      BY <1>1, Zenon DEF Names, Leads
    <2> HIDE DEF w
    <2>3. Sound(w)
      BY <1>1, <2>2, SoundFacts, Zenon DEF Sound, Boundary, Accounted, Silent, Attempting
    <2> QED BY <2>1, <2>3, Zenon DEF w
  <1>3. CASE ~s.public
    <2>1. /\ DOMAIN v = Names /\ Leads(v) /\ v.semantic
          /\ v.unaccounted = u.unaccounted /\ v.held = u.held
      BY <1>1, Zenon DEF Names, Leads
    <2>2. ReceivedSemantic(s, e) =
            Delivered(v, [Event("response.started", 1) EXCEPT !.by = s.routing], "checking")
      BY <1>3, Zenon DEF ReceivedSemantic, u
    <2> HIDE DEF v
    <2> QED BY <1>1, <2>1, <2>2, SoundFacts, DeliveredSound, Zenon
  <1> QED BY <1>2, <1>3, Zenon

LEMMA ReceiveSound ==
  ASSUME Sound(s), NEW text,
         NEW type \in {"response.started", "usage.completed", "response.completed", "unknown"}
                        \cup Semantic,
         Receive(type, text)
  PROVE  Sound(s')
  <1>1. s.pc = "reading" /\ (s.out # <<>> => s.semantic)
    BY SoundFacts, Zenon DEF Receive, Attempting
  <1>2. CASE Expired
    <2>1. s' = Aborted(s, "deadline")
      BY <1>2, Zenon DEF Receive
    <2> QED BY <2>1, SoundFacts, AbortedSound, Zenon
  <1>3. CASE ~Expired /\ Invalid(s, type)
    <2>1. s' = Handled(s, FALSE)
      BY <1>3, Zenon DEF Receive
    <2> QED BY <1>1, <2>1, SoundFacts, HandledSound, Zenon
  <1>4. CASE ~Expired /\ ~Invalid(s, type) /\ type = "response.started"
    <2>1. s' = [s EXCEPT !.started = TRUE]
      BY <1>4, Zenon DEF Receive, Semantic
    <2>2. /\ DOMAIN s' = Names /\ Leads(s') /\ s'.out = s.out /\ s'.pc = s.pc
          /\ s'.semantic = s.semantic /\ s'.unaccounted = s.unaccounted /\ s'.held = s.held
      BY <2>1, SoundFacts, Zenon DEF Names, Leads
    <2> QED BY <1>1, <2>2, SoundFacts, Zenon DEF Sound, Boundary, Accounted, Silent, Attempting
  <1>5. CASE ~Expired /\ ~Invalid(s, type) /\ type \in Semantic
    <2> DEFINE e == [Event(type, 0) EXCEPT !.text = text]
    <2>1. s' = ReceivedSemantic(s, e)
      BY <1>5, Zenon DEF Receive, Semantic
    <2> HIDE DEF e
    <2> QED BY <1>1, <2>1, ReceivedSemanticSound, Zenon
  <1>6. CASE ~Expired /\ ~Invalid(s, type) /\ type = "usage.completed"
    <2> DEFINE u == [s EXCEPT !.usage = TRUE, !.sequence = @ + 1]
    <2>1. s' = Delivered(u, Event("usage.completed", s.sequence + 1), "reading")
      BY <1>6, Zenon DEF Receive, Semantic
    <2>2. /\ DOMAIN u = Names /\ Leads(u) /\ u.semantic = s.semantic
          /\ u.unaccounted = s.unaccounted /\ u.held = s.held
      BY SoundFacts, Zenon DEF Names, Leads
    <2>3. s.semantic
      BY <1>6, Zenon DEF Invalid
    <2> HIDE DEF u
    <2> QED BY <2>1, <2>2, <2>3, SoundFacts, DeliveredSound, Zenon
  <1>7. CASE ~Expired /\ ~Invalid(s, type) /\ type = "response.completed"
    <2>1. s' = [s EXCEPT !.pc = "recording"]
      BY <1>7, Zenon DEF Receive, Semantic
    <2>2. /\ DOMAIN s' = Names /\ Leads(s') /\ s'.out = s.out /\ s'.pc = "recording"
          /\ s'.semantic = s.semantic /\ s'.unaccounted = s.unaccounted /\ s'.held = s.held
      BY <2>1, SoundFacts, Zenon DEF Names, Leads
    <2> QED BY <1>1, <2>2, SoundFacts, Zenon DEF Sound, Boundary, Accounted, Silent, Attempting
  <1>8. type \in {"response.started", "usage.completed", "response.completed"} \cup Semantic
          \/ Invalid(s, type)
    BY Zenon DEF Invalid
  <1> QED BY <1>2, <1>3, <1>4, <1>5, <1>6, <1>7, <1>8, Zenon

\* The provider stream fails, or something else is raised while it is read.
LEMMA BrokenSound ==
  ASSUME Sound(s), Raise \/ \E transient \in BOOLEAN : Fail(transient)
  PROVE  Sound(s')
  <1>1. s.pc = "reading" /\ (s.out # <<>> => s.semantic)
    BY SoundFacts, Zenon DEF Raise, Fail, Attempting
  <1>2. CASE Raise
    <2>1. DOMAIN Invalidated(s) = Names /\ Leads(Invalidated(s)) /\ ~Invalidated(s).unaccounted
      BY SoundFacts, Zenon DEF Invalidated, Names, Leads
    <2> QED BY <1>2, <2>1, LeavingSound, Zenon DEF Raise, Ends
  <1>3. CASE \E transient \in BOOLEAN : Fail(transient)
    BY <1>1, <1>3, SoundFacts, HandledSound, Zenon DEF Fail
  <1> QED BY <1>2, <1>3, Zenon

LEMMA CheckSound ==
  ASSUME Sound(s), NEW admitted \in BOOLEAN, Check(admitted)
  PROVE  Sound(s')
  <1> DEFINE u == [s EXCEPT !.sequence = @ + 1, !.event = NoEvent]
             e == [s.event EXCEPT !.sequence = s.sequence + 1]
  <1>1. s.pc = "checking" /\ s.semantic
    BY Zenon DEF Check, Sound, Boundary
  <1>2. CASE s.probe /\ ~admitted
    <2>1. s' = Handled(s, TRUE)
      BY <1>2, Zenon DEF Check
    <2> QED BY <1>1, <2>1, SoundFacts, HandledSound, Zenon
  <1>3. CASE ~(s.probe /\ ~admitted)
    <2>1. s' = Delivered(u, e, "reading")
      BY <1>3, Zenon DEF Check
    <2>2. /\ DOMAIN u = Names /\ Leads(u) /\ u.semantic = s.semantic
          /\ u.unaccounted = s.unaccounted /\ u.held = s.held
      BY SoundFacts, Zenon DEF Names, Leads
    <2> HIDE DEF u, e
    <2> QED BY <1>1, <2>1, <2>2, SoundFacts, DeliveredSound, Zenon
  <1> QED BY <1>2, <1>3, Zenon

LEMMA CompleteSound ==
  ASSUME Sound(s), NEW yes \in BOOLEAN, RecordSuccess(yes) \/ Store(yes)
  PROVE  Sound(s')
  <1>1. CASE RecordSuccess(yes)
    <2>1. s.pc = "recording" /\ (s.out # <<>> => s.semantic)
      BY <1>1, SoundFacts, Zenon DEF RecordSuccess, Attempting
    <2>2. CASE s.probe /\ ~yes
      <3>1. s' = Handled(s, TRUE)
        BY <1>1, <2>2, Zenon DEF RecordSuccess
      <3> QED BY <2>1, <3>1, SoundFacts, HandledSound, Zenon
    <2>3. CASE ~(s.probe /\ ~yes)
      <3>1. s' = [Sampled(s) EXCEPT !.pc = "storing"]
        BY <1>1, <2>3, Zenon DEF RecordSuccess
      <3>2. /\ DOMAIN s' = Names /\ Leads(s') /\ s'.out = s.out /\ s'.pc = "storing"
            /\ s'.semantic = s.semantic /\ ~s'.unaccounted
        BY <3>1, SoundFacts, Zenon DEF Sampled, Names, Leads
      <3> QED BY <2>1, <3>2, Zenon DEF Sound, Boundary, Accounted, Silent, Attempting
    <2> QED BY <2>2, <2>3, Zenon
  <1>2. CASE Store(yes)
    <2> DEFINE u == [s EXCEPT !.sequence = @ + 1]
               e == [Event("response.completed", s.sequence + 1)
                       EXCEPT !.by = s.routing, !.execution = Candidate(s)]
    <2>1. s' = Delivered(u, e, "none")
      BY <1>2, Zenon DEF Store
    <2>2. DOMAIN u = Names /\ Leads(u) /\ u.unaccounted = s.unaccounted
      BY SoundFacts, Zenon DEF Names, Leads
    <2> HIDE DEF u, e
    <2>3. timeout = 0 => ~u.unaccounted
      BY <1>2, <2>2, SoundFacts, Zenon DEF Store
    <2> QED BY <2>1, <2>2, <2>3, DeliveredSound, Zenon
  <1> QED BY <1>1, <1>2, Zenon

LEMMA RecordFailureSound ==
  ASSUME Sound(s), RecordFailure
  PROVE  Sound(s')
  <1> DEFINE t == [s EXCEPT !.execution = Candidate(s)]
  <1>1. s' = Reported(t) /\ s.pc = "reporting"
    BY Zenon DEF RecordFailure
  <1>2. /\ DOMAIN t = Names /\ Leads(t) /\ t.out = s.out /\ t.semantic = s.semantic
        /\ t.unaccounted = s.unaccounted /\ t.held = s.held
    BY SoundFacts, Zenon DEF Names, Leads
  <1>3. (t.out # <<>> => t.semantic) /\ (timeout = 0 => ~t.unaccounted)
    BY <1>1, <1>2, SoundFacts, Zenon DEF Attempting
  <1> HIDE DEF t
  <1>4. CASE t.semantic
    <2> DEFINE u == [t EXCEPT !.sequence = @ + 1]
    <2>1. s' = Delivered(u, Failed(t, t.sequence + 1, TRUE), "none")
      BY <1>1, <1>4, Zenon DEF Reported
    <2>2. DOMAIN u = Names /\ Leads(u) /\ u.unaccounted = t.unaccounted
      BY <1>2, Zenon DEF Names, Leads
    <2> HIDE DEF u
    <2> QED BY <1>3, <2>1, <2>2, DeliveredSound, Zenon
  <1>5. CASE ~t.semantic /\ t.transient /\ MayRetry(t)
    <2>1. s' = [t EXCEPT !.pc = "deciding"]
      BY <1>1, <1>5, Zenon DEF Reported
    <2>2. /\ DOMAIN s' = Names /\ Leads(s') /\ s'.out = t.out /\ s'.pc = "deciding"
          /\ s'.unaccounted = t.unaccounted
      BY <1>2, <2>1, Zenon DEF Names, Leads
    <2> QED BY <1>3, <1>5, <2>2, Zenon DEF Sound, Boundary, Accounted, Silent, Attempting
  <1>6. CASE ~t.semantic /\ t.transient /\ ~MayRetry(t)
    <2>1. s' = Leaving(t, "next")
      BY <1>1, <1>6, Zenon DEF Reported
    <2> QED BY <1>2, <1>3, <1>6, <2>1, LeavingSound, Zenon
  <1>7. CASE ~t.semantic /\ ~t.transient
    <2>1. s' = Delivered(t, Failed(t, 1, FALSE), "none")
      BY <1>1, <1>7, Zenon DEF Reported
    <2> QED BY <1>2, <1>3, <2>1, DeliveredSound, Zenon
  <1> QED BY <1>4, <1>5, <1>6, <1>7, Zenon

LEMMA DecideSound ==
  ASSUME Sound(s), NEW open \in BOOLEAN, Decide(open)
  PROVE  Sound(s')
  <1>1. s.out = <<>> /\ (timeout = 0 => ~s.unaccounted)
    BY SoundFacts, Zenon DEF Decide, Silent
  <1> QED BY <1>1, SoundFacts, LeavingSound, Zenon DEF Decide

LEMMA ReleaseSound ==
  ASSUME Sound(s), NEW reachable \in BOOLEAN, Release(reachable)
  PROVE  Sound(s')
  <1> DEFINE t == [s EXCEPT !.held = FALSE, !.probe = FALSE]
  <1>1. /\ s.pc = "releasing" /\ (s.after \in {"next", "retry"} => s.out = <<>>)
        /\ (timeout = 0 => ~s.unaccounted)
    BY SoundFacts, Zenon DEF Release, Sound, Boundary
  <1>2. /\ DOMAIN t = Names /\ Leads(t) /\ t.out = s.out /\ t.unaccounted = s.unaccounted
    BY SoundFacts, Zenon DEF Names, Leads
  <1>3. CASE ~reachable /\ s.after \in {"next", "retry", "error"}
    <2>1. s' = Final(t, "error")
      BY <1>3, Zenon DEF Release
    <2> HIDE DEF t
    <2> QED BY <1>1, <1>2, <2>1, FinalSound, Zenon DEF Ends
  <1>4. CASE reachable /\ s.after = "next"
    <2>1. s' = Advanced(t)
      BY <1>4, Zenon DEF Release
    <2> HIDE DEF t
    <2> QED BY <1>1, <1>2, <1>4, <2>1, AdvancedSound, Zenon
  <1>5. CASE reachable /\ s.after = "retry" /\ ~Expired
    <2>1. s' = [t EXCEPT !.pc = "sleeping", !.after = "none"]
      BY <1>5, Zenon DEF Release
    <2> HIDE DEF t
    <2>2. /\ DOMAIN s' = Names /\ Leads(s') /\ s'.out = t.out /\ s'.pc = "sleeping"
          /\ s'.unaccounted = t.unaccounted
      BY <1>2, <2>1, Zenon DEF Names, Leads
    <2> QED BY <1>1, <1>2, <1>5, <2>2, Zenon DEF Sound, Boundary, Accounted, Silent, Attempting
  <1>6. CASE reachable /\ s.after = "retry" /\ Expired
    <2>1. s' = Final(t, "deadline")
      BY <1>6, Zenon DEF Release
    <2> HIDE DEF t
    <2> QED BY <1>1, <1>2, <2>1, FinalSound, Zenon
  <1>7. CASE s.after \notin {"next", "retry"} /\ ~(~reachable /\ s.after = "error")
    <2>1. s' = Final(t, s.after)
      BY <1>7, Zenon DEF Release
    <2> HIDE DEF t
    <2>2. CASE s.after = "none"
      <3>1. /\ DOMAIN s' = Names /\ Leads(s') /\ s'.pc = "none" /\ s'.unaccounted = t.unaccounted
        BY <1>2, <2>1, <2>2, Zenon DEF Final, Names, Leads
      <3> QED BY <1>1, <1>2, <3>1, Zenon DEF Sound, Boundary, Accounted, Silent, Attempting
    <2>3. CASE s.after # "none"
      <3>1. s.after \in Ends \cup {"deadline"}
        BY <1>7, <2>3, SoundFacts, Zenon DEF Leads
      <3> QED BY <1>1, <1>2, <2>1, <3>1, FinalSound, Zenon
    <2> QED BY <2>2, <2>3, Zenon
  <1> QED BY <1>3, <1>4, <1>5, <1>6, <1>7, Zenon

LEMMA WakeSound ==
  ASSUME Sound(s), Wake
  PROVE  Sound(s')
  <1>1. s.pc = "sleeping" /\ s.out = <<>> /\ (timeout = 0 => ~s.unaccounted)
    BY SoundFacts, Zenon DEF Wake, Silent
  <1>2. /\ DOMAIN s' = Names /\ Leads(s') /\ s'.out = s.out /\ s'.pc = "head"
        /\ s'.unaccounted = s.unaccounted
    BY SoundFacts, Zenon DEF Wake, Names, Leads
  <1> QED BY <1>1, <1>2, Zenon DEF Sound, Boundary, Accounted, Silent, Attempting

LEMMA TrackerFailsSound ==
  ASSUME Sound(s), TrackerFails
  PROVE  Sound(s')
  <1>1. CASE s.pc = "admitting" /\ s' = Final(s, "error")
    BY <1>1, SoundFacts, FinalSound, Zenon DEF Ends
  <1>2. CASE s' = Leaving(Invalidated(s), "error")
    <2>1. DOMAIN Invalidated(s) = Names /\ Leads(Invalidated(s)) /\ ~Invalidated(s).unaccounted
      BY SoundFacts, Zenon DEF Invalidated, Names, Leads
    <2> QED BY <1>2, <2>1, LeavingSound, Zenon DEF Ends
  <1>3. CASE s.pc \in {"reporting", "deciding"} /\ s' = Leaving(s, "error")
    <2>1. timeout = 0 => ~s.unaccounted
      BY <1>3, SoundFacts, Zenon
    <2> QED BY <1>3, <2>1, SoundFacts, LeavingSound, Zenon DEF Ends
  <1> QED BY <1>1, <1>2, <1>3, Zenon DEF TrackerFails

\* The consumer reads on, closes the stream or is interrupted.
LEMMA ConsumerSound ==
  ASSUME Sound(s),
         \/ Pull \/ Close
         \/ \E why \in {"cancelled", "deadline"}, written \in BOOLEAN : Interrupt(why, written)
  PROVE  Sound(s')
  <1>1. CASE Pull
    <2>1. CASE s' = Aborted(s, "ended") \/ s' = Aborted(s, "deadline")
      BY <2>1, SoundFacts, AbortedSound, Zenon DEF Ends
    <2>2. CASE s' = [s EXCEPT !.pc = s.then, !.then = "none"]
      <3>1. /\ DOMAIN s' = Names /\ Leads(s') /\ s'.pc = s.then /\ s'.out = s.out
            /\ s'.semantic = s.semantic /\ s'.unaccounted = s.unaccounted /\ s'.held = s.held
        BY <2>2, SoundFacts, Zenon DEF Names, Leads
      <3>2. /\ s.pc = "shown" /\ (s.then \in {"reading", "checking"} => s.semantic)
            /\ timeout = 0 => Accounted(s)
        BY <1>1, Zenon DEF Pull, Sound, Boundary
      <3> QED BY <3>1, <3>2, SoundFacts, Zenon
              DEF Sound, Leads, Boundary, Accounted, Silent, Attempting
    <2> QED BY <1>1, <2>1, <2>2, Zenon DEF Pull
  <1>2. CASE Close
    BY <1>2, SoundFacts, AbortedSound, Zenon DEF Close, Ends
  <1>3. ASSUME NEW why \in {"cancelled", "deadline"}, NEW written \in BOOLEAN,
               Interrupt(why, written)
        PROVE  Sound(s')
    <2> DEFINE t == [s EXCEPT !.held = FALSE, !.probe = FALSE]
    <2>1. CASE s.pc = "releasing"
      <3>1. s' = Final(t, why) /\ (timeout = 0 => ~s.unaccounted)
        BY <1>3, <2>1, SoundFacts, Zenon DEF Interrupt
      <3>2. DOMAIN t = Names /\ t.unaccounted = s.unaccounted
        BY SoundFacts, Zenon DEF Names
      <3> HIDE DEF t
      <3> QED BY <3>1, <3>2, FinalSound, Zenon DEF Ends
    <2>2. CASE s.pc # "releasing"
      <3>1. s' = Aborted(s, why)
        BY <1>3, <2>2, Zenon DEF Interrupt
      <3> QED BY <3>1, SoundFacts, AbortedSound, Zenon DEF Ends
    <2> QED BY <2>1, <2>2, Zenon
  <1> QED BY <1>1, <1>2, <1>3, Zenon

-----------------------------------------------------------------------------
(* The theorems.                                                           *)

LEMMA NextSound == Sound(s) /\ [Next]_vars => Sound(s)'
  <1> SUFFICES ASSUME Sound(s), [Next]_vars
               PROVE  Sound(s)'
    BY Zenon
  <1>1. CASE UNCHANGED vars
    BY <1>1, Zenon DEF vars, Sound, Leads, Boundary, Accounted
  <1>2. CASE Next
    <2>1. timeout' = timeout
      BY <1>2, Zenon DEF Next
    <2>2. CASE \E order \in Orders, safe, cacheable, resolved \in BOOLEAN :
                 Prepare(order, safe, cacheable, resolved)
      BY <2>2, PrepareSound, Zenon
    <2>3. CASE ~(\E order \in Orders, safe, cacheable, resolved \in BOOLEAN :
                   Prepare(order, safe, cacheable, resolved))
      <3>1. CASE Provider
        <4>1. ASSUME Raise \/ \E transient \in BOOLEAN : Fail(transient)
              PROVE  Sound(s')
          BY <4>1, BrokenSound, Zenon
        <4>2. ASSUME NEW type \in {"response.started", "usage.completed", "response.completed",
                                  "unknown", "tool_call"},
                     Receive(type, <<>>)
              PROVE  Sound(s')
          BY <4>2, ReceiveSound, Zenon DEF Semantic
        <4>3. ASSUME NEW delta \in Deltas, Receive("content.delta", <<delta>>)
              PROVE  Sound(s')
          BY <4>3, ReceiveSound, Zenon DEF Semantic
        <4>4. Sound(s')
          BY <3>1, <4>1, <4>2, <4>3, Zenon DEF Provider
        <4> QED BY <2>1, <4>4, Zenon DEF Sound, Leads, Boundary, Accounted
      <3>2. CASE Work
        <4>1. Sound(s')
          BY <3>2, EntrySound, RecordFailureSound, WakeSound, ConsumerSound, AdmitSound,
             CheckSound, CompleteSound, DecideSound, ReleaseSound, Zenon DEF Work
        <4> QED BY <2>1, <4>1, Zenon DEF Sound, Leads, Boundary, Accounted
      <3>3. CASE \/ Tick \/ TrackerFails \/ Close \/ Evict
                 \/ \E why \in {"cancelled", "deadline"}, written \in BOOLEAN : Interrupt(why, written)
        <4>1. Evict => s' = s
          BY Zenon DEF Evict
        <4>2. Sound(s')
          BY <3>3, <4>1, EntrySound, TrackerFailsSound, ConsumerSound, Zenon
        <4> QED BY <2>1, <4>2, Zenon DEF Sound, Leads, Boundary, Accounted
      <3> QED BY <1>2, <2>3, <3>1, <3>2, <3>3, Zenon DEF Next, Step
    <2> QED BY <2>2, <2>3, Zenon
  <1> QED BY <1>1, <1>2, Zenon

\* The stream's place, what was shown and what the attempt knows of it agree
\* at every await and yield (_stream).
THEOREM AlwaysSound == Spec => []Sound(s)
  <1>1. Init => Sound(s)
    BY InitSound, Zenon
  <1> QED BY <1>1, NextSound, PTL DEF Spec

(***************************************************************************)
(* Whatever the candidates, the retry policy, the deadline and the order   *)
(* of failures: once an event was given to the consumer, no provider       *)
(* stream is opened for the same response (replay boundary of _stream).    *)
(***************************************************************************)
THEOREM NoReplay == Spec => NoReplayAfterOutput
  <1>1. Sound(s) /\ [Next]_vars => [ReplayStep]_vars
    BY Zenon DEF Sound, Boundary, Silent, ReplayStep
  <1> QED BY <1>1, AlwaysSound, PTL DEF Spec, NoReplayAfterOutput

(***************************************************************************)
(* Without a deadline every provider attempt of a stream leaves a sample   *)
(* or a completeness gap, on every path out of it, outages and             *)
(* interruptions included (record_operational_attempt and                  *)
(* invalidate_operational_completeness in _stream).                        *)
(***************************************************************************)
THEOREM AttemptsAreAccounted == Spec => []AccountedWithoutDeadline
  <1>1. Sound(s) => AccountedWithoutDeadline
    BY Zenon DEF Sound, Accounted, AccountedWithoutDeadline, EveryAttemptAccounted
  <1> QED BY <1>1, AlwaysSound, PTL
-----------------------------------------------------------------------------
(***************************************************************************)
(* The public lifecycle.  Three places number the events they append, each *)
(* from what it knows, so the invariant says how the counters and flags of *)
(* the attempt follow what was shown, where a terminal event may have been *)
(* shown, and how much of a cached answer is still to be replayed.         *)
(***************************************************************************)
Has(out, types) == \E k \in DOMAIN out : out[k].type \in types

\* What was shown is well-formed, and names no deployment but d.
Shape(out, d) ==
  /\ \A k \in DOMAIN out : out[k].sequence = k
  /\ \A k \in DOMAIN out : out[k].type \in Terminal => k = Len(out)
  /\ \A k \in DOMAIN out : out[k].type = "response.started" => k = 1
  /\ \A k \in DOMAIN out : out[k].type # "response.failed" => out[1].type = "response.started"
  /\ \A j, k \in DOMAIN out :
       out[j].type = "usage.completed" /\ out[k].type = "usage.completed" => j = k
  /\ \A k \in DOMAIN out :
       out[k].type = "usage.completed" => \E j \in 1..k : out[j].type \in Semantic
  /\ Has(out, {"response.completed"}) => Has(out, {"usage.completed"})
  /\ \A k \in DOMAIN out :
       out[k].type = "response.failed" /\ (\E j \in 1..k : out[j].type \in Semantic)
         => out[k].partial
  /\ \A k \in DOMAIN out :
       out[k].by \in {NoDeployment, d} /\ out[k].execution \in {NoDeployment, out[k].by}

\* A terminal event is the last thing that was shown.
Ending(t) ==
  /\ Has(t.out, Terminal) =>
       \/ t.pc \in {"shown"} \cup Ends
       \/ t.pc = "releasing" /\ t.after \in {"ended", "closed"}
  /\ t.pc = "shown" /\ t.then = "none" => Has(t.out, Terminal)
  /\ t.pc = "releasing" => t.after # "none"

\* The candidate and the attempt are within the plan.
Planned(t) ==
  /\ t.pc \notin {"idle"} \cup Ends =>
       Len(t.order) <= MaxFallbacks + 1 /\ t.i \in 1..Len(t.order)
  /\ t.pc \in {"deciding", "sleeping"} => t.n < MaxAttempts
  /\ t.pc = "releasing" /\ t.after = "retry" => t.n < MaxAttempts

InAttempt(t) ==
  \/ t.pc \in Attempting \cup {"checking"}
  \/ t.pc = "shown" /\ t.then \in {"reading", "checking"}

\* A semantic event has been received and is not shown yet.
InHand(t) == t.pc = "checking" \/ (t.pc = "shown" /\ t.then = "checking")

\* The attempt's counter and flags are those of what was shown.
Counts(t) ==
  /\ t.sequence = Len(t.out) /\ t.sequence <= MaxSequence
  /\ t.semantic <=> t.out # <<>>
  /\ t.public <=> t.out # <<>>
  /\ t.usage <=> Has(t.out, {"usage.completed"})
  /\ ~Has(t.out, Terminal)

Counted(t) == t.pc = "admitting" \/ InAttempt(t) => Counts(t)

\* What an attempt that has shown something still holds.
Holding(t) ==
  /\ InHand(t) =>
       /\ t.semantic /\ t.sequence < MaxSequence
       /\ t.event.type \in Semantic
       /\ t.event.by = NoDeployment /\ t.event.execution = NoDeployment
  /\ InAttempt(t) /\ ~InHand(t) /\ t.pc # "reporting" /\ t.semantic => Has(t.out, Semantic)
  /\ t.pc \in {"recording", "storing"} => t.semantic /\ t.usage

\* The routing is that of the attempt; the last failure was of that routing
\* or of none.
Routed(t) ==
  /\ InAttempt(t) => t.routing = Candidate(t)
  /\ t.pc \in {"prepared", "lookup"} => t.routing = t.order[1]
  /\ t.pc \in Silent => t.execution \in {NoDeployment, t.routing}
  /\ t.pc = "releasing" /\ t.after \in {"next", "retry"} =>
       t.execution \in {NoDeployment, t.routing}

\* A cached answer served for d.
Script(d, text) ==
  << [Event("response.started", 1) EXCEPT !.by = d],
     [Event("content.delta", 2) EXCEPT !.text = text],
     Event("usage.completed", 3),
     [Event("response.completed", 4) EXCEPT !.by = d, !.execution = d] >>

\* out is the part of a cached answer that was shown, queue the rest.
Follows(out, queue, d) ==
  \E text \in Seq(Deltas) :
    /\ Len(out) \in 1..4 /\ Len(queue) = 4 - Len(out)
    /\ \A k \in 1..Len(out) : out[k] = Script(d, text)[k]
    /\ \A k \in 1..Len(queue) : queue[k] = Script(d, text)[Len(out) + k]

Replaying(t) ==
  t.pc = "replay" \/ (t.pc = "shown" /\ t.then = "replay") =>
    /\ Follows(t.out, t.queue, t.routing)
    /\ t.pc = "replay" => Len(t.out) < 4

WellFormed(t) ==
  /\ t \in Streams
  /\ Shape(t.out, t.routing)
  /\ Ending(t) /\ Planned(t) /\ Counted(t) /\ Holding(t) /\ Routed(t) /\ Replaying(t)

CacheTyped == cache \in [text : Seq(Deltas), by : Deployments \cup {NoDeployment}]

LifecycleInv == Sound(s) /\ WellFormed(s) /\ CacheTyped /\ timeout \in Nat

\* e is the next event of a response that names d.
Fits(out, e, d) ==
  /\ e.sequence = Len(out) + 1
  /\ e.by \in {NoDeployment, d} /\ e.execution \in {NoDeployment, e.by}
  /\ e.type = "response.started" => out = <<>>
  /\ e.type \notin {"response.started", "response.failed"} => out # <<>>
  /\ e.type = "usage.completed" => ~Has(out, {"usage.completed"}) /\ Has(out, Semantic)
  /\ e.type = "response.completed" => Has(out, {"usage.completed"})
  /\ e.type = "response.failed" /\ Has(out, Semantic) => e.partial

LEMMA AppendFacts ==
  ASSUME NEW S, NEW q \in Seq(S), NEW e \in S
  PROVE  /\ Append(q, e) \in Seq(S) /\ Len(Append(q, e)) = Len(q) + 1
         /\ \A k \in 1..Len(q) : Append(q, e)[k] = q[k]
         /\ Append(q, e)[Len(q) + 1] = e
         /\ DOMAIN Append(q, e) = 1..(Len(q) + 1) /\ DOMAIN q = 1..Len(q) /\ Len(q) \in Nat
         /\ Append(q, e) # <<>>
  OBVIOUS

LEMMA AppendHas ==
  ASSUME NEW q \in Seq(Events), NEW e \in Events, NEW types
  PROVE  Has(Append(q, e), types) <=> Has(q, types) \/ e.type \in types
  <1> DEFINE p == Append(q, e)
  <1>1. /\ \A k \in 1..Len(q) : p[k] = q[k]
        /\ p[Len(q) + 1] = e
        /\ DOMAIN p = 1..(Len(q) + 1) /\ DOMAIN q = 1..Len(q) /\ Len(q) \in Nat
    BY AppendFacts
  <1> HIDE DEF p
  <1>2. Has(p, types) <=> Has(q, types) \/ e.type \in types
    BY <1>1 DEF Has
  <1> QED BY <1>2, Zenon DEF p

LEMMA AppendShape ==
  ASSUME NEW d, NEW out \in Seq(Events), Shape(out, d), ~Has(out, Terminal),
         NEW e \in Events, Fits(out, e, d)
  PROVE  Shape(Append(out, e), d)
  <1> DEFINE p == Append(out, e)
  <1>1. /\ \A k \in 1..Len(out) : p[k] = out[k]
        /\ p[Len(out) + 1] = e /\ Len(p) = Len(out) + 1
        /\ DOMAIN p = 1..(Len(out) + 1) /\ DOMAIN out = 1..Len(out) /\ Len(out) \in Nat
    BY AppendFacts
  <1>2. \A types : Has(p, types) <=> Has(out, types) \/ e.type \in types
    BY AppendHas, Zenon
  <1>3. \A k \in 1..Len(out) : out[k].type \notin Terminal
    BY <1>1, Zenon DEF Has
  <1>4. out # <<>> => Len(out) >= 1 /\ out[1].type = "response.started"
    <2>1. ASSUME out # <<>> PROVE Len(out) >= 1
      BY <2>1, <1>1
    <2> QED BY <1>1, <1>3, <2>1 DEF Shape, Terminal
  <1>5. out = <<>> => Len(out) = 0
    OBVIOUS
  <1> HIDE DEF p
  <1>6. \A k \in DOMAIN p : p[k].sequence = k
    BY <1>1 DEF Shape, Fits
  <1>7. \A k \in DOMAIN p : p[k].type \in Terminal => k = Len(p)
    BY <1>1, <1>3
  <1>8. \A k \in DOMAIN p : p[k].type = "response.started" => k = 1
    BY <1>1, <1>5 DEF Shape, Fits
  <1>9. \A k \in DOMAIN p : p[k].type # "response.failed" => p[1].type = "response.started"
    <2>1. CASE out = <<>>
      BY <1>1, <1>5, <2>1 DEF Fits
    <2>2. CASE out # <<>>
      BY <1>1, <1>4, <2>2
    <2> QED BY <2>1, <2>2, Zenon
  <1>10. \A j, k \in DOMAIN p :
           p[j].type = "usage.completed" /\ p[k].type = "usage.completed" => j = k
    BY <1>1 DEF Shape, Fits, Has
  <1>11. ASSUME NEW k \in DOMAIN p, p[k].type = "usage.completed"
         PROVE  \E j \in 1..k : p[j].type \in Semantic
    <2>1. CASE k \in 1..Len(out)
      <3>1. PICK j \in 1..k : out[j].type \in Semantic
        BY <1>1, <1>11, <2>1, Zenon DEF Shape
      <3> QED BY <1>1, <2>1, <3>1
    <2>2. CASE k = Len(out) + 1
      <3>1. PICK j \in 1..Len(out) : out[j].type \in Semantic
        BY <1>1, <1>11, <2>2, Zenon DEF Fits, Has
      <3> QED BY <1>1, <2>2, <3>1
    <2> QED BY <1>1, <2>1, <2>2
  <1>12. Has(p, {"response.completed"}) => Has(p, {"usage.completed"})
    BY <1>2, Zenon DEF Shape, Fits
  <1>13. ASSUME NEW k \in DOMAIN p, p[k].type = "response.failed",
                NEW j \in 1..k, p[j].type \in Semantic
         PROVE  p[k].partial
    <2>1. CASE k \in 1..Len(out)
      BY <1>1, <1>3, <1>13, <2>1, Zenon DEF Terminal
    <2>2. CASE k = Len(out) + 1
      <3>1. e.type = "response.failed" /\ p[k] = e
        BY <1>1, <1>13, <2>2, Zenon
      <3>2. j # k
        BY <1>13, <3>1, Zenon DEF Semantic
      <3>3. j \in DOMAIN out /\ out[j].type \in Semantic
        BY <1>1, <1>13, <2>2, <3>2
      <3> QED BY <3>1, <3>3, Zenon DEF Fits, Has
    <2> QED BY <1>1, <2>1, <2>2
  <1>14. \A k \in DOMAIN p :
           p[k].by \in {NoDeployment, d} /\ p[k].execution \in {NoDeployment, p[k].by}
    BY <1>1 DEF Shape, Fits
  <1> QED BY <1>6, <1>7, <1>8, <1>9, <1>10, <1>11, <1>12, <1>13, <1>14, Zenon DEF Shape, p

\* The events the executor makes.
LEMMA EventTyped ==
  ASSUME NEW type \in {"response.started", "usage.completed"} \cup Semantic \cup Terminal,
         NEW k \in Nat
  PROVE  Event(type, k) \in Events
  <1>1. <<>> \in Seq(Deltas)
    OBVIOUS
  <1> QED BY <1>1, Zenon DEF Event, Events

LEMMA EventFacts ==
  ASSUME NEW type, NEW k
  PROVE  /\ Event(type, k).type = type /\ Event(type, k).sequence = k
         /\ Event(type, k).by = NoDeployment /\ Event(type, k).execution = NoDeployment
         /\ Event(type, k).text = <<>>
  BY Zenon DEF Event

-----------------------------------------------------------------------------
(* What the helpers make of a well-formed stream.                          *)

\* The stream is one of these with its plan, and has shown what it may.
Regular(t) ==
  /\ t \in Streams
  /\ Shape(t.out, t.routing)
  /\ Len(t.order) <= MaxFallbacks + 1 /\ t.i \in 1..Len(t.order)

\* The candidate of a stream is one of the deployments.
LEMMA CandidateIsDeployed == ASSUME NEW t, Regular(t) PROVE Candidate(t) \in Deployments
  BY DEF Regular, Candidate, Streams

\* A stream with another sequence number, and with no event in hand.
LEMMA Resequenced ==
  ASSUME NEW t \in Streams, NEW k \in 0..MaxSequence + 1
  PROVE  /\ [t EXCEPT !.sequence = k] \in Streams
         /\ [t EXCEPT !.sequence = k, !.event = NoEvent] \in Streams
  <1>1. NoEvent \in Events
    BY EventTyped, Zenon DEF NoEvent, Semantic
  <1>2. ASSUME NEW e \in Events PROVE [t EXCEPT !.sequence = k, !.event = e] \in Streams
    BY Zenon DEF Streams
  <1>3. [t EXCEPT !.sequence = k] \in Streams
    BY Zenon DEF Streams
  <1>4. QED BY <1>1, <1>2, <1>3, Zenon

LEMMA DeadlineFits ==
  ASSUME NEW t \in Streams, Shape(t.out, t.routing), ~Has(t.out, Terminal)
  PROVE  /\ FailedOnDeadline(t) \in Events
         /\ FailedOnDeadline(t).type = "response.failed"
         /\ Fits(t.out, FailedOnDeadline(t), t.routing)
  <1>1. /\ t.out \in Seq(Events) /\ t.routing \in Deployments \cup {NoDeployment}
        /\ Exposed(t) \in BOOLEAN
    BY Zenon DEF Streams, Exposed
  <1> DEFINE k == IF t.out = <<>> THEN 1 ELSE Last(t.out).sequence + 1
  <1>2. k = Len(t.out) + 1 /\ k \in Nat
    <2>1. CASE t.out = <<>>
      BY <2>1
    <2>2. CASE t.out # <<>>
      <3>1. Len(t.out) \in DOMAIN t.out /\ Len(t.out) \in Nat
        BY <1>1, <2>2
      <3> QED BY <2>2, <3>1 DEF Shape, Last
    <2> QED BY <2>1, <2>2, Zenon
  <1> DEFINE e == Event("response.failed", k)
  <1>3. /\ e \in Events /\ e.type = "response.failed" /\ e.sequence = k
        /\ e.execution = NoDeployment
    BY <1>2, EventTyped, EventFacts DEF Terminal
  <1> HIDE DEF e, k
  <1> DEFINE f == [e EXCEPT !.by = t.routing, !.partial = Exposed(t)]
  <1>4. FailedOnDeadline(t) = f
    BY Zenon DEF FailedOnDeadline, e, k
  <1>5. f \in Events
    BY <1>1, <1>3, Zenon DEF Events
  <1>6. /\ f.type = "response.failed" /\ f.sequence = k /\ f.by = t.routing
        /\ f.execution = NoDeployment
    BY <1>3, Zenon DEF Events
  <1>7. f.partial = Exposed(t)
    BY <1>3, Zenon DEF Events
  <1> HIDE DEF f
  <1>8. Has(t.out, Semantic) => f.partial
    BY <1>7, Zenon DEF Has, Exposed
  <1>9. Fits(t.out, f, t.routing)
    BY <1>2, <1>6, <1>8, Zenon DEF Fits
  <1> QED BY <1>4, <1>5, <1>6, <1>9, Zenon

LEMMA FinalWell ==
  ASSUME NEW t \in Streams, Shape(t.out, t.routing), NEW why \in Ends \cup {"deadline"},
         why \in {"deadline", "error"} => ~Has(t.out, Terminal),
         why = "deadline" => Len(t.order) <= MaxFallbacks + 1 /\ t.i \in 1..Len(t.order),
         why = "error" => Len(t.order) <= MaxFallbacks + 1 /\ t.i \in 1..Len(t.order)
  PROVE  WellFormed(Final(t, why))
  <1>1. CASE why = "deadline" \/ (why = "error" /\ Expired)
    <2> DEFINE e == FailedOnDeadline(t)
               q == Append(t.out, e)
               u == [t EXCEPT !.pc = "shown", !.after = "none", !.then = "none", !.out = q]
    <2>1. Final(t, why) = u
      BY <1>1, Zenon DEF Final
    <2>2. e \in Events /\ e.type = "response.failed" /\ Fits(t.out, e, t.routing)
      BY <1>1, DeadlineFits, Zenon
    <2>3. t.out \in Seq(Events)
      BY Zenon DEF Streams
    <2> HIDE DEF e
    <2>4. q \in Seq(Events) /\ Shape(q, t.routing)
      BY <1>1, <2>2, <2>3, AppendFacts, AppendShape, Zenon
    <2>5. Has(q, Terminal)
      BY <2>2, <2>3, AppendHas, Zenon DEF Terminal
    <2> HIDE DEF q
    <2>6. /\ u \in Streams /\ u.out = q /\ u.routing = t.routing /\ u.pc = "shown"
          /\ u.then = "none" /\ u.order = t.order /\ u.i = t.i
      BY <2>4, Zenon DEF Streams
    <2> HIDE DEF u
    <2>7. WellFormed(u)
      BY <1>1, <2>4, <2>5, <2>6, Zenon
         DEF WellFormed, Ending, Planned, Counted, Holding, Routed, Replaying, InAttempt, InHand,
             Silent, Attempting, Ends
    <2> QED BY <2>1, <2>7, Zenon
  <1>2. CASE ~(why = "deadline" \/ (why = "error" /\ Expired))
    <2> DEFINE u == [t EXCEPT !.pc = why, !.after = "none", !.then = "none"]
    <2>1. Final(t, why) = u
      BY <1>2, Zenon DEF Final
    <2>2. why \in Ends
      BY <1>2, Zenon
    <2>3. u \in Streams /\ u.out = t.out /\ u.routing = t.routing /\ u.pc = why
      BY <2>2, Zenon DEF Streams
    <2> HIDE DEF u
    <2>4. WellFormed(u)
      BY <2>2, <2>3, Zenon
         DEF WellFormed, Ending, Planned, Counted, Holding, Routed, Replaying, InAttempt, InHand,
             Silent, Attempting, Ends
    <2> QED BY <2>1, <2>4, Zenon
  <1> QED BY <1>1, <1>2, Zenon

LEMMA LeavingWell ==
  ASSUME NEW t, Regular(t), NEW what \in {"next", "retry", "deadline"} \cup Ends,
         what \notin {"ended", "closed"} => ~Has(t.out, Terminal),
         what = "retry" => t.n < MaxAttempts,
         what \in {"next", "retry"} => t.execution \in {NoDeployment, t.routing}
  PROVE  WellFormed(Leaving(t, what))
  <1> DEFINE u == [t EXCEPT !.pc = "releasing", !.after = what, !.transient = FALSE]
  <1>1. /\ u.out = t.out /\ u.routing = t.routing /\ u.pc = "releasing"
        /\ u.after = what /\ u.order = t.order /\ u.i = t.i /\ u.n = t.n
        /\ u.execution = t.execution
    BY Zenon DEF Regular, Streams
  <1>2. u \in Streams
    BY Zenon DEF Regular, Streams
  <1> HIDE DEF u
  <1>3. what # "none"
    BY Zenon DEF Ends
  <1>4. WellFormed(u)
    BY <1>1, <1>2, <1>3, Zenon
       DEF Regular, WellFormed, Ending, Planned, Counted, Holding, Routed, Replaying, InAttempt,
           InHand, Silent, Attempting, Ends
  <1> QED BY <1>4, Zenon DEF Leaving, u

LEMMA AbortedWell ==
  ASSUME NEW t, Regular(t), NEW why \in Ends \cup {"deadline"},
         why \notin {"ended", "closed"} => ~Has(t.out, Terminal)
  PROVE  WellFormed(Aborted(t, why))
  <1>1. CASE t.held
    <2> DEFINE u == Invalidated(t)
    <2>1. u.out = t.out /\ u.routing = t.routing /\ u.order = t.order /\ u.i = t.i
      BY Zenon DEF Regular, Streams, Invalidated
    <2>2. u \in Streams
      BY Zenon DEF Regular, Streams, Invalidated
    <2> HIDE DEF u
    <2>3. Regular(u) /\ why \notin {"next", "retry"}
      BY <2>1, <2>2, Zenon DEF Regular, Ends
    <2> QED BY <1>1, <2>1, <2>3, LeavingWell, Zenon DEF Aborted, u
  <1>2. CASE ~t.held
    BY <1>2, FinalWell, Zenon DEF Aborted, Regular
  <1> QED BY <1>1, <1>2, Zenon

\* The stream after the yield is one of the hypotheses.
LEMMA DeliveredWell ==
  ASSUME NEW t, Regular(t), ~Has(t.out, Terminal), NEW e \in Events, Fits(t.out, e, t.routing),
         NEW then \in {"none", "reading", "checking", "replay"},
         then = "none" => e.type \in Terminal,
         NEW u, u = [t EXCEPT !.pc = "shown", !.out = Append(@, e), !.then = then],
         Counted(u), Holding(u), Routed(u), Replaying(u)
  PROVE  WellFormed(Delivered(t, e, then))
  <1>1. CASE Expired
    BY <1>1, AbortedWell, Zenon DEF Delivered
  <1>2. CASE ~Expired
    <2> DEFINE q == Append(t.out, e)
    <2>1. t \in Streams /\ t.out \in Seq(Events)
      BY Zenon DEF Streams, Regular
    <2>2. q \in Seq(Events) /\ Shape(q, t.routing)
      BY <2>1, AppendFacts, AppendShape, Zenon DEF Regular
    <2>3. e.type \in Terminal => Has(q, Terminal)
      BY <2>1, AppendHas, Zenon
    <2> HIDE DEF q
    <2>4. /\ u \in Streams /\ u.out = q /\ u.routing = t.routing /\ u.pc = "shown"
          /\ u.then = then /\ u.order = t.order /\ u.i = t.i
      BY <2>1, <2>2, Zenon DEF Streams, q
    <2>5. Ending(u) /\ Planned(u)
      BY <2>3, <2>4, Zenon DEF Ending, Planned, Regular, Ends
    <2>6. WellFormed(u)
      BY <2>2, <2>4, <2>5, Zenon DEF WellFormed
    <2> QED BY <1>2, <2>6, Zenon DEF Delivered
  <1> QED BY <1>1, <1>2, Zenon

\* With its terminal event the stream has nothing left to do.
LEMMA TerminalWell ==
  ASSUME NEW t, Regular(t), ~Has(t.out, Terminal), NEW e \in Events, Fits(t.out, e, t.routing),
         e.type \in Terminal
  PROVE  WellFormed(Delivered(t, e, "none"))
  <1> DEFINE u == [t EXCEPT !.pc = "shown", !.out = Append(@, e), !.then = "none"]
  <1>1. u.pc = "shown" /\ u.then = "none"
    BY Zenon DEF Regular, Streams
  <1> HIDE DEF u
  <1>2. Counted(u) /\ Holding(u) /\ Routed(u) /\ Replaying(u)
    BY <1>1, Zenon DEF Counted, Holding, Routed, Replaying, InAttempt, InHand, Silent, Attempting
  <1> QED BY <1>2, DeliveredWell, Zenon DEF u

LEMMA FailedEvent ==
  ASSUME NEW t \in Streams, NEW k \in Nat, NEW partial \in BOOLEAN
  PROVE  /\ Failed(t, k, partial) \in Events
         /\ Failed(t, k, partial).type = "response.failed"
         /\ Failed(t, k, partial).sequence = k
         /\ Failed(t, k, partial).by = t.routing
         /\ Failed(t, k, partial).execution = t.execution
         /\ Failed(t, k, partial).partial = partial
  <1> DEFINE e == Event("response.failed", k)
             f == [e EXCEPT !.by = t.routing, !.execution = t.execution, !.partial = partial]
  <1>1. /\ e \in Events /\ e.type = "response.failed" /\ e.sequence = k
    BY EventTyped, EventFacts, Zenon DEF Terminal
  <1>2. Failed(t, k, partial) = f
    BY Zenon DEF Failed
  <1> HIDE DEF e
  <1>3. t.routing \in Deployments \cup {NoDeployment} /\ t.execution \in Deployments \cup {NoDeployment}
    BY Zenon DEF Streams
  <1>4. f \in Events
    BY <1>1, <1>3, Zenon DEF Events
  <1>5. /\ f.type = "response.failed" /\ f.sequence = k /\ f.by = t.routing
        /\ f.execution = t.execution
    BY <1>1, Zenon DEF Events
  <1>6. f.partial = partial
    BY <1>1, Zenon DEF Events
  <1> QED BY <1>2, <1>4, <1>5, <1>6, Zenon

LEMMA HandledWell ==
  ASSUME NEW t, Regular(t), Counts(t), t.routing = Candidate(t), NEW transient \in BOOLEAN
  PROVE  WellFormed(Handled(t, transient))
  <1>1. CASE Expired
    <2>1. ~Has(t.out, Terminal)
      BY Zenon DEF Counts
    <2> QED BY <1>1, <2>1, LeavingWell, Zenon DEF Handled
  <1>2. CASE ~Expired
    <2> DEFINE u == [Sampled(t) EXCEPT !.pc = "reporting", !.transient = transient]
    <2>1. Handled(t, transient) = u
      BY <1>2, Zenon DEF Handled
    <2>2. u \in Streams
      BY Zenon DEF Regular, Streams, Sampled
    <2>3. /\ u.pc = "reporting" /\ u.out = t.out /\ u.routing = t.routing /\ u.order = t.order
          /\ u.i = t.i /\ u.sequence = t.sequence
      BY Zenon DEF Regular, Streams, Sampled
    <2>4. u.semantic = t.semantic /\ u.public = t.public /\ u.usage = t.usage
      BY Zenon DEF Regular, Streams, Sampled
    <2> HIDE DEF u
    <2>5. Counts(u) /\ Candidate(u) = Candidate(t)
      BY <2>3, <2>4, Zenon DEF Counts, Candidate
    <2>6. WellFormed(u)
      BY <2>2, <2>3, <2>5, Zenon
         DEF Regular, Counts, WellFormed, Ending, Planned, Counted, Holding, Routed, Replaying,
             InAttempt, InHand, Silent, Attempting, Ends
    <2> QED BY <2>1, <2>6, Zenon
  <1> QED BY <1>1, <1>2, Zenon

LEMMA NothingShown ==
  ASSUME NEW types
  PROVE  ~Has(<<>>, types) /\ Len(<<>>) = 0
  BY DEF Has

LEMMA AdvancedWell ==
  ASSUME NEW t, Regular(t), t.out = <<>>, t.execution \in {NoDeployment, t.routing}
  PROVE  WellFormed(Advanced(t))
  <1>1. \A types : ~Has(t.out, types)
    BY NothingShown, Zenon
  <1>2. t \in Streams /\ t.order \in Seq(Deployments) /\ Len(t.order) \in Nat /\ t.i \in Nat
    BY DEF Regular, Streams
  <1>3. CASE t.i < Len(t.order)
    <2> DEFINE u == [t EXCEPT !.pc = "head", !.i = @ + 1, !.n = 1, !.after = "none"]
    <2>1. Advanced(t) = u
      BY <1>3, Zenon DEF Advanced
    <2>2. t.i + 1 \in 0..MaxFallbacks + 1 /\ 1 \in 0..MaxAttempts /\ t.i + 1 \in 1..Len(t.order)
      BY <1>2, <1>3, StreamingAssumption DEF Regular
    <2>3. u \in Streams
      BY <1>2, <2>2, Zenon DEF Streams
    <2>4. /\ u.pc = "head" /\ u.out = t.out /\ u.routing = t.routing /\ u.order = t.order
          /\ u.i = t.i + 1 /\ u.execution = t.execution
      BY <1>2, Zenon DEF Streams
    <2> HIDE DEF u
    <2>5. WellFormed(u)
      BY <1>1, <2>2, <2>3, <2>4, Zenon
         DEF Regular, WellFormed, Ending, Planned, Counted, Holding, Routed, Replaying,
             InAttempt, InHand, Silent, Attempting, Ends
    <2> QED BY <2>1, <2>5, Zenon
  <1>4. CASE ~(t.i < Len(t.order))
    <2> DEFINE u == [t EXCEPT !.after = "none"]
               e == Failed(t, 1, FALSE)
    <2>1. Advanced(t) = Delivered(u, e, "none")
      BY <1>4, Zenon DEF Advanced
    <2>2. u \in Streams
      BY <1>2, Zenon DEF Streams
    <2>3. /\ u.out = t.out /\ u.routing = t.routing /\ u.order = t.order /\ u.i = t.i
      BY <1>2, Zenon DEF Streams
    <2>4. /\ e \in Events /\ e.type = "response.failed" /\ e.sequence = 1 /\ e.by = t.routing
          /\ e.execution = t.execution
      BY <1>2, FailedEvent, Zenon
    <2> HIDE DEF u, e
    <2>5. Fits(u.out, e, u.routing)
      BY <1>1, <2>3, <2>4, NothingShown DEF Fits
    <2>6. Regular(u) /\ ~Has(u.out, Terminal)
      BY <1>1, <2>2, <2>3, Zenon DEF Regular
    <2> QED BY <2>1, <2>4, <2>5, <2>6, TerminalWell, Zenon DEF Terminal
  <1> QED BY <1>3, <1>4, Zenon

-----------------------------------------------------------------------------
(* The steps keep the stream well-formed.                                  *)

\* What a well-formed stream tells the helpers' lemmas.
LEMMA WellFacts ==
  ASSUME Sound(s), WellFormed(s)
  PROVE  /\ s \in Streams
         /\ s.pc \notin {"idle"} \cup Ends => Regular(s)
         /\ s.pc \notin {"shown", "releasing"} \cup Ends => ~Has(s.out, Terminal)
         /\ InAttempt(s) => Counts(s) /\ s.routing = Candidate(s)
         /\ s.pc \in Silent => s.out = <<>> /\ s.execution \in {NoDeployment, s.routing}
  BY Zenon DEF WellFormed, Regular, Ending, Planned, Counted, Routed, Sound, Boundary

LEMMA TickWell ==
  ASSUME Sound(s), WellFormed(s), timeout \in Nat, Tick
  PROVE  WellFormed(s')
  <1>1. s \in Streams /\ s' = [s EXCEPT !.left = @ - 1] /\ s.left > 0
    BY WellFacts, Zenon DEF Tick
  <1> DEFINE k == s.left - 1
  <1>2. k \in 0..timeout
    BY <1>1 DEF Streams
  <1> HIDE DEF k
  <1>3. s' \in Streams
    BY <1>1, <1>2, Zenon DEF Streams, k
  <1>4. /\ s'.pc = s.pc /\ s'.order = s.order /\ s'.i = s.i /\ s'.n = s.n
        /\ s'.sequence = s.sequence /\ s'.event = s.event /\ s'.after = s.after
        /\ s'.then = s.then /\ s'.queue = s.queue /\ s'.routing = s.routing
        /\ s'.execution = s.execution /\ s'.out = s.out
    BY <1>1, Zenon DEF Streams
  <1>5. s'.semantic = s.semantic /\ s'.public = s.public /\ s'.usage = s.usage
    BY <1>1, Zenon DEF Streams
  <1>6. Counts(s) => Counts(s')
    BY <1>4, <1>5, Zenon DEF Counts
  <1>7. Replaying(s')
    BY <1>4, Zenon DEF WellFormed, Replaying
  <1> QED BY <1>3, <1>4, <1>5, <1>6, <1>7
          DEF WellFormed, Ending, Planned, Counted, Holding, Routed, InAttempt, InHand, Candidate

\* A cached answer is a well-formed response, and each event of it fits what
\* was replayed before it.
LEMMA ScriptFacts ==
  ASSUME NEW d \in Deployments \cup {NoDeployment}, NEW text \in Seq(Deltas)
  PROVE  /\ \A k \in 1..4 : /\ Script(d, text)[k] \in Events
                            /\ Script(d, text)[k].sequence = k
                            /\ Script(d, text)[k].by \in {NoDeployment, d}
                            /\ Script(d, text)[k].execution \in {NoDeployment, Script(d, text)[k].by}
         /\ Script(d, text)[1].type = "response.started"
         /\ Script(d, text)[2].type = "content.delta"
         /\ Script(d, text)[3].type = "usage.completed"
         /\ Script(d, text)[4].type = "response.completed"
  <1> DEFINE a == Event("response.started", 1)
             b == Event("content.delta", 2)
             c == Event("usage.completed", 3)
             e == Event("response.completed", 4)
             a1 == [a EXCEPT !.by = d]
             b1 == [b EXCEPT !.text = text]
             e1 == [e EXCEPT !.by = d, !.execution = d]
  <1>1. a \in Events /\ b \in Events /\ c \in Events /\ e \in Events
    BY EventTyped, Zenon DEF Semantic, Terminal
  <1>2. /\ a.type = "response.started" /\ a.sequence = 1 /\ a.execution = NoDeployment
        /\ b.type = "content.delta" /\ b.sequence = 2
        /\ b.by = NoDeployment /\ b.execution = NoDeployment
        /\ c.type = "usage.completed" /\ c.sequence = 3
        /\ c.by = NoDeployment /\ c.execution = NoDeployment
        /\ e.type = "response.completed" /\ e.sequence = 4
    BY EventFacts
  <1>3. Script(d, text) = <<a1, b1, c, e1>>
    BY Zenon DEF Script
  <1> HIDE DEF a, b, c, e
  <1>4. a1 \in Events /\ b1 \in Events /\ e1 \in Events
    BY <1>1, Zenon DEF Events
  <1>5. /\ a1.type = "response.started" /\ a1.sequence = 1
        /\ a1.by = d /\ a1.execution = NoDeployment
    BY <1>1, <1>2, Zenon DEF Events
  <1>6. /\ b1.type = "content.delta" /\ b1.sequence = 2
        /\ b1.by = NoDeployment /\ b1.execution = NoDeployment
    BY <1>1, <1>2, Zenon DEF Events
  <1>7. e1.type = "response.completed" /\ e1.sequence = 4 /\ e1.by = d /\ e1.execution = d
    BY <1>1, <1>2, Zenon DEF Events
  <1> HIDE DEF a1, b1, e1
  <1> DEFINE f == Script(d, text)
  <1>8. f[1] = a1 /\ f[2] = b1 /\ f[3] = c /\ f[4] = e1
    BY <1>3
  <1> HIDE DEF f
  <1>9. \A k \in 1..4 : /\ f[k] \in Events /\ f[k].sequence = k /\ f[k].by \in {NoDeployment, d}
                        /\ f[k].execution \in {NoDeployment, f[k].by}
    <2> SUFFICES ASSUME NEW k \in 1..4
                 PROVE  /\ f[k] \in Events /\ f[k].sequence = k /\ f[k].by \in {NoDeployment, d}
                        /\ f[k].execution \in {NoDeployment, f[k].by}
      BY Zenon
    <2>1. k = 1 \/ k = 2 \/ k = 3 \/ k = 4
      OBVIOUS
    <2> QED BY <1>1, <1>2, <1>4, <1>5, <1>6, <1>7, <1>8, <2>1, Zenon
  <1> QED BY <1>2, <1>5, <1>6, <1>7, <1>8, <1>9, Zenon DEF f

LEMMA ScriptFits ==
  ASSUME NEW d \in Deployments \cup {NoDeployment}, NEW text \in Seq(Deltas),
         NEW out \in Seq(Events), Len(out) < 4,
         \A k \in 1..Len(out) : out[k] = Script(d, text)[k]
  PROVE  /\ Fits(out, Script(d, text)[Len(out) + 1], d)
         /\ ~Has(out, Terminal)
  <1>1. PICK f : f = Script(d, text)
    BY Zenon
  <1>2. /\ \A k \in 1..4 : /\ f[k].sequence = k /\ f[k].by \in {NoDeployment, d}
                           /\ f[k].execution \in {NoDeployment, f[k].by}
        /\ f[1].type = "response.started" /\ f[2].type = "content.delta"
        /\ f[3].type = "usage.completed" /\ f[4].type = "response.completed"
    BY <1>1, ScriptFacts, Zenon
  <1>3. PICK n \in 0..3 : n = Len(out)
    <2>1. PICK n \in Nat : n = Len(out)
      OBVIOUS
    <2>2. n \in 0..3
      BY <2>1
    <2> QED BY <2>1, <2>2, Zenon
  <1>4. DOMAIN out = 1..n /\ (\A k \in 1..n : out[k] = f[k]) /\ (out = <<>> <=> n = 0)
    BY <1>1, <1>3
  <1>5. \A k \in 1..n : k = 1 \/ k = 2 \/ k = 3
    BY <1>3
  <1>6. ~Has(out, Terminal)
    BY <1>2, <1>4, <1>5 DEF Has, Terminal
  <1>7. n = 2 => ~Has(out, {"usage.completed"}) /\ Has(out, Semantic)
    BY <1>2, <1>4, <1>5 DEF Has, Semantic
  <1>8. n = 3 => Has(out, {"usage.completed"})
    BY <1>2, <1>4 DEF Has
  <1>9. n + 1 = 1 \/ n + 1 = 2 \/ n + 1 = 3 \/ n + 1 = 4
    BY <1>3
  <1>10. Fits(out, f[n + 1], d)
    BY <1>2, <1>3, <1>4, <1>7, <1>8, <1>9 DEF Fits
  <1> QED BY <1>1, <1>3, <1>6, <1>10, Zenon

\* One more event of the answer is shown.
LEMMA ReplayedWell ==
  ASSUME NEW t, Regular(t), NEW text \in Seq(Deltas), NEW f, f = Script(t.routing, text),
         NEW n \in 0..3, Len(t.out) = n, \A k \in 1..n : t.out[k] = f[k],
         Len(t.queue) = 3 - n, \A k \in 1..(3 - n) : t.queue[k] = f[n + 1 + k]
  PROVE  WellFormed(Delivered(t, f[n + 1], "replay"))
  <1>1. /\ t \in Streams /\ t.out \in Seq(Events) /\ t.queue \in Seq(Events)
        /\ t.routing \in Deployments \cup {NoDeployment}
    BY Zenon DEF Regular, Streams
  <1> DEFINE e == f[n + 1]
             q == Append(t.out, e)
             u == [t EXCEPT !.pc = "shown", !.out = Append(@, e), !.then = "replay"]
  <1>2. e \in Events /\ Fits(t.out, e, t.routing) /\ ~Has(t.out, Terminal)
    <2>1. n + 1 \in 1..4 /\ n < 4
      OBVIOUS
    <2> QED BY <1>1, <2>1, ScriptFacts, ScriptFits, Zenon
  <1> HIDE DEF e
  <1>3. /\ Len(q) = n + 1 /\ (\A k \in 1..n : q[k] = t.out[k]) /\ q[n + 1] = e
    BY <1>1, <1>2, AppendFacts
  <1> HIDE DEF q
  <1>4. /\ u.pc = "shown" /\ u.then = "replay" /\ u.out = q /\ u.queue = t.queue
        /\ u.routing = t.routing
    BY <1>1, Zenon DEF Streams, q
  <1> HIDE DEF u
  <1>5. \A k \in 1..Len(q) : q[k] = f[k]
    BY <1>3 DEF e
  <1>6. \A k \in 1..Len(t.queue) : t.queue[k] = f[Len(q) + k]
    BY <1>3, Zenon
  <1>7. Follows(q, t.queue, t.routing)
    BY <1>3, <1>5, <1>6 DEF Follows
  <1>8. Counted(u) /\ Holding(u) /\ Routed(u) /\ Replaying(u)
    BY <1>4, <1>7, Zenon DEF Counted, Holding, Routed, Replaying, InAttempt, InHand, Silent, Attempting
  <1>9. WellFormed(Delivered(t, e, "replay"))
    BY <1>2, <1>8, DeliveredWell, Zenon DEF u
  <1> QED BY <1>9, Zenon DEF e

LEMMA TailFacts ==
  ASSUME NEW S, NEW q \in Seq(S), NEW m \in Nat, Len(q) = m + 1
  PROVE  /\ Head(q) = q[1] /\ Tail(q) \in Seq(S) /\ Len(Tail(q)) = m
         /\ \A k \in 1..m : Tail(q)[k] = q[k + 1]
  <1>1. q # <<>>
    OBVIOUS
  <1> QED BY <1>1

\* The steps before the attempt loop.
LEMMA EntryWell ==
  ASSUME Sound(s), WellFormed(s), CacheTyped,
         Open \/ Replay \/ Begin \/ \E reachable \in BOOLEAN : Lookup(reachable)
  PROVE  WellFormed(s')
  <1>1. s \in Streams /\ s.order \in Seq(Deployments) /\ s.queue \in Seq(Events)
    BY WellFacts, Zenon DEF Streams
  <1>2. CASE Open
    <2>1. s.pc = "prepared" /\ Regular(s) /\ s.out = <<>> /\ ~Has(s.out, Terminal)
      BY <1>2, WellFacts, Zenon DEF Open, Silent, Ends
    <2>2. CASE Expired
      BY <1>2, <2>1, <2>2, FinalWell, Zenon DEF Open, Regular
    <2>3. CASE ~Expired
      <3>1. PICK p \in {"lookup", "head"} : s' = [s EXCEPT !.pc = p]
        BY <1>2, <2>3, Zenon DEF Open
      <3>2. s' \in Streams
        BY <1>1, <3>1, Zenon DEF Streams
      <3>3. /\ s'.pc = p /\ s'.out = s.out /\ s'.routing = s.routing /\ s'.order = s.order
            /\ s'.i = s.i /\ s'.execution = s.execution
        BY <1>1, <3>1, Zenon DEF Streams
      <3> QED BY <2>1, <3>2, <3>3, Zenon
              DEF Regular, WellFormed, Ending, Planned, Counted, Holding, Routed, Replaying,
                  InAttempt, InHand, Silent, Attempting, Ends
    <2> QED BY <2>2, <2>3, Zenon
  <1>3. CASE Begin
    <2>1. /\ s.pc = "head" /\ Regular(s) /\ s.out = <<>> /\ ~Has(s.out, Terminal)
          /\ s.execution \in {NoDeployment, s.routing}
      BY <1>3, WellFacts, Zenon DEF Begin, Silent, Ends
    <2>2. CASE Expired
      BY <1>3, <2>1, <2>2, FinalWell, Zenon DEF Begin, Regular
    <2>3. CASE ~Expired
      <3>1. s' = [s EXCEPT !.pc = "admitting", !.started = FALSE, !.public = FALSE,
                           !.semantic = FALSE, !.usage = FALSE, !.sequence = 0]
        BY <1>3, <2>3, Zenon DEF Begin
      <3>2. 0 \in 0..MaxSequence + 1 /\ 0 <= MaxSequence
        BY StreamingAssumption
      <3>3. s' \in Streams
        <4> DEFINE u == [s EXCEPT !.pc = "admitting", !.started = FALSE, !.public = FALSE]
        <4>1. u \in Streams
          BY <1>1, Zenon DEF Streams
        <4>2. s' = [u EXCEPT !.semantic = FALSE, !.usage = FALSE, !.sequence = 0]
          BY <3>1, Zenon
        <4> HIDE DEF u
        <4> QED BY <3>2, <4>1, <4>2, Zenon DEF Streams
      <3>4. /\ s'.pc = "admitting" /\ s'.out = s.out /\ s'.routing = s.routing
            /\ s'.order = s.order /\ s'.i = s.i /\ s'.execution = s.execution /\ s'.sequence = 0
        BY <1>1, <3>1, Zenon DEF Streams
      <3>5. ~s'.public /\ ~s'.semantic /\ ~s'.usage
        BY <1>1, <3>1, Zenon DEF Streams
      <3>6. Counts(s')
        BY <2>1, <3>2, <3>4, <3>5, NothingShown, Zenon DEF Counts
      <3> QED BY <2>1, <3>3, <3>4, <3>6, Zenon
              DEF Regular, WellFormed, Ending, Planned, Counted, Holding, Routed, Replaying,
                  InAttempt, InHand, Silent, Attempting, Ends
    <2> QED BY <2>2, <2>3, Zenon
  <1>4. CASE Replay
    <2>1. s.pc = "replay" /\ Regular(s) /\ Follows(s.out, s.queue, s.routing) /\ Len(s.out) < 4
      BY <1>4, WellFacts, Zenon DEF Replay, Ends, WellFormed, Replaying
    <2>2. PICK text \in Seq(Deltas) :
            /\ Len(s.out) \in 1..4 /\ Len(s.queue) = 4 - Len(s.out)
            /\ \A k \in 1..Len(s.out) : s.out[k] = Script(s.routing, text)[k]
            /\ \A k \in 1..Len(s.queue) : s.queue[k] = Script(s.routing, text)[Len(s.out) + k]
      BY <2>1, Zenon DEF Follows
    <2>3. PICK n \in 1..3 : n = Len(s.out)
      <3>1. ASSUME NEW m \in 1..4, m < 4 PROVE m \in 1..3
        BY <3>1
      <3> QED BY <2>1, <2>2, <3>1, Zenon
    <2>4. PICK f : f = Script(s.routing, text)
      BY Zenon
    <2>5. 3 - n \in Nat /\ Len(s.queue) = (3 - n) + 1
      BY <2>2, <2>3
    <2> DEFINE q == Tail(s.queue)
               u == [s EXCEPT !.queue = q]
    <2>6. /\ Head(s.queue) = s.queue[1] /\ q \in Seq(Events) /\ Len(q) = 3 - n
          /\ \A k \in 1..(3 - n) : q[k] = s.queue[k + 1]
      BY <1>1, <2>5, TailFacts, Zenon
    <2> HIDE DEF q
    <2>7. u \in Streams
      BY <1>1, <2>6, Zenon DEF Streams
    <2>8. /\ u.out = s.out /\ u.queue = q /\ u.routing = s.routing
          /\ u.order = s.order /\ u.i = s.i
      BY <1>1, Zenon DEF Streams
    <2> HIDE DEF u
    <2>9. Regular(u)
      BY <2>1, <2>7, <2>8, Zenon DEF Regular
    <2>10. \A k \in 1..(3 - n) : q[k] = f[n + 1 + k]
      <3>1. \A j \in 1..(4 - n) : s.queue[j] = f[n + j]
        BY <2>2, <2>3, <2>4, <2>5, Zenon
      <3> QED BY <2>6, <3>1
    <2>11. Head(s.queue) = f[n + 1]
      BY <2>2, <2>3, <2>4, <2>5, <2>6
    <2>12. \A k \in 1..n : s.out[k] = f[k]
      BY <2>2, <2>3, <2>4, Zenon
    <2>13. /\ n \in 0..3 /\ f = Script(u.routing, text)
           /\ Len(u.out) = n /\ (\A k \in 1..n : u.out[k] = f[k])
           /\ Len(u.queue) = 3 - n /\ (\A k \in 1..(3 - n) : u.queue[k] = f[n + 1 + k])
      BY <2>3, <2>4, <2>6, <2>8, <2>10, <2>12
    <2>14. WellFormed(Delivered(u, f[n + 1], "replay"))
      BY <2>9, <2>13, ReplayedWell, Zenon
    <2> QED BY <1>4, <2>11, <2>14, Zenon DEF Replay, u, q
  <1>5. ASSUME NEW reachable \in BOOLEAN, Lookup(reachable)
        PROVE  WellFormed(s')
    <2>1. /\ s.pc = "lookup" /\ Regular(s) /\ s.out = <<>> /\ ~Has(s.out, Terminal)
          /\ s.execution \in {NoDeployment, s.routing} /\ s.routing = s.order[1]
      BY <1>5, WellFacts, Zenon DEF Lookup, Silent, Ends, WellFormed, Routed
    <2>2. CASE ~reachable
      <3>1. s' = Final(s, "error")
        BY <1>5, <2>2, Zenon DEF Lookup
      <3> QED BY <2>1, <3>1, FinalWell, Zenon DEF Regular, Ends
    <2>3. CASE reachable /\ Serves(cache, s.order[1])
      <3>1. PICK f : f = Script(s.routing, cache.text)
        BY Zenon
      <3>2. CachedEvents(cache) = f /\ cache.text \in Seq(Deltas)
        BY <2>1, <2>3, <3>1, Zenon DEF CachedEvents, Script, Serves, CacheTyped
      <3> DEFINE u == [s EXCEPT !.queue = Tail(f)]
      <3>3. s' = Delivered(u, Head(f), "replay")
        BY <1>5, <2>3, <3>2, Zenon DEF Lookup
      <3>4. \A k \in 1..4 : f[k] \in Events
        <4>1. s.routing \in Deployments \cup {NoDeployment}
          BY <1>1, Zenon DEF Streams
        <4> QED BY <3>1, <3>2, <4>1, ScriptFacts, Zenon
      <3>5. /\ Head(f) = f[1] /\ Len(Tail(f)) = 3 /\ \A k \in 1..3 : Tail(f)[k] = f[k + 1]
        BY <3>1 DEF Script
      <3>6. Tail(f) \in Seq(Events)
        <4>1. Len(f) = 4 /\ f \in Seq(Events)
          BY <3>1, <3>4 DEF Script
        <4> QED BY <4>1
      <3>7. u \in Streams
        BY <1>1, <3>6, Zenon DEF Streams
      <3>8. /\ u.out = s.out /\ u.queue = Tail(f) /\ u.routing = s.routing
            /\ u.order = s.order /\ u.i = s.i
        BY <1>1, Zenon DEF Streams
      <3> HIDE DEF u
      <3>9. Regular(u)
        BY <2>1, <3>7, <3>8, Zenon DEF Regular
      <3>10. Len(u.out) = 0
        BY <2>1, <3>8
      <3>11. WellFormed(Delivered(u, f[1], "replay"))
        <4>1. \A k \in 1..(3 - 0) : u.queue[k] = f[0 + 1 + k]
          BY <3>5, <3>8
        <4>2. /\ (\A k \in 1..0 : u.out[k] = f[k]) /\ Len(u.queue) = 3 - 0 /\ 0 \in 0..3
              /\ f = Script(u.routing, cache.text)
          BY <3>1, <3>5, <3>8
        <4>3. WellFormed(Delivered(u, f[0 + 1], "replay"))
          BY <3>2, <3>9, <3>10, <4>1, <4>2, ReplayedWell, Zenon
        <4> QED BY <4>3
      <3> QED BY <3>3, <3>5, <3>11, Zenon
    <2>4. CASE reachable /\ ~Serves(cache, s.order[1])
      <3>1. s' = [s EXCEPT !.pc = "head"]
        BY <1>5, <2>4, Zenon DEF Lookup
      <3>2. s' \in Streams
        BY <1>1, <3>1, Zenon DEF Streams
      <3>3. /\ s'.pc = "head" /\ s'.out = s.out /\ s'.routing = s.routing /\ s'.order = s.order
            /\ s'.i = s.i /\ s'.execution = s.execution
        BY <1>1, <3>1, Zenon DEF Streams
      <3> QED BY <2>1, <3>2, <3>3, Zenon
              DEF Regular, WellFormed, Ending, Planned, Counted, Holding, Routed, Replaying,
                  InAttempt, InHand, Silent, Attempting, Ends
    <2> QED BY <2>2, <2>3, <2>4, Zenon
  <1> QED BY <1>2, <1>3, <1>4, <1>5, Zenon

LEMMA AdmitWell ==
  ASSUME Sound(s), WellFormed(s), NEW answer \in {"refused", "normal", "probe"}, Admit(answer)
  PROVE  WellFormed(s')
  <1> DEFINE t == [s EXCEPT !.held = TRUE, !.probe = answer = "probe", !.routing = Candidate(s)]
  <1>1. /\ s \in Streams /\ s.pc = "admitting" /\ Regular(s) /\ s.out = <<>>
        /\ s.execution \in {NoDeployment, s.routing} /\ Counts(s) /\ ~Has(s.out, Terminal)
    BY WellFacts, Zenon DEF Admit, Silent, Ends, WellFormed, Counted
  <1>2. Candidate(s) \in Deployments /\ (answer = "probe") \in BOOLEAN
    BY <1>1, CandidateIsDeployed, Zenon
  <1>3. t \in Streams
    <2>1. ASSUME NEW b \in BOOLEAN, NEW d \in Deployments \cup {NoDeployment}
          PROVE  [s EXCEPT !.held = TRUE, !.probe = b, !.routing = d] \in Streams
      BY <1>1, Zenon DEF Streams
    <2> QED BY <1>2, <2>1, Zenon
  <1>4. /\ t.out = s.out /\ t.routing = Candidate(s) /\ t.order = s.order /\ t.i = s.i
        /\ t.sequence = s.sequence
    BY <1>1, Zenon DEF Streams
  <1>5. t.semantic = s.semantic /\ t.public = s.public /\ t.usage = s.usage
    BY <1>1, Zenon DEF Streams
  <1>6. CASE answer = "refused"
    <2>1. s' = Advanced(s)
      BY <1>6, Zenon DEF Admit
    <2> QED BY <1>1, <2>1, AdvancedWell, Zenon
  <1>7. CASE answer # "refused" /\ Expired
    <2>1. s' = Leaving(t, "deadline")
      BY <1>7, Zenon DEF Admit
    <2> HIDE DEF t
    <2>2. Regular(t)
      <3>1. Shape(<<>>, t.routing)
        BY DEF Shape, Has
      <3> QED BY <1>1, <1>3, <1>4, <3>1, Zenon DEF Regular
    <2> QED BY <1>1, <1>4, <2>1, <2>2, LeavingWell, Zenon
  <1>8. CASE answer # "refused" /\ ~Expired
    <2>1. s' = [t EXCEPT !.pc = "reading", !.unaccounted = TRUE]
      BY <1>8, Zenon DEF Admit
    <2> HIDE DEF t
    <2>2. s' \in Streams
      BY <1>3, <2>1, Zenon DEF Streams
    <2>3. /\ s'.pc = "reading" /\ s'.out = t.out /\ s'.routing = t.routing /\ s'.order = t.order
          /\ s'.i = t.i /\ s'.sequence = t.sequence
      BY <1>3, <2>1, Zenon DEF Streams
    <2>4. s'.semantic = t.semantic /\ s'.public = t.public /\ s'.usage = t.usage
      BY <1>3, <2>1, Zenon DEF Streams
    <2>5. Counts(s') /\ Shape(s'.out, s'.routing) /\ ~s'.semantic
      <3>1. Shape(<<>>, s'.routing)
        BY DEF Shape, Has
      <3> QED BY <1>1, <1>4, <1>5, <2>3, <2>4, <3>1, Zenon DEF Counts
    <2>6. Candidate(s') = s'.routing
      BY <1>4, <2>3, Zenon DEF Candidate
    <2> QED BY <1>1, <1>4, <2>2, <2>3, <2>5, <2>6, Zenon
            DEF Regular, WellFormed, Ending, Planned, Counted, Holding, Routed, Replaying,
                InAttempt, InHand, Silent, Attempting, Ends
  <1> QED BY <1>6, <1>7, <1>8, Zenon

\* What is known while the provider stream is read.
LEMMA ReadingFacts ==
  ASSUME Sound(s), WellFormed(s), s.pc = "reading"
  PROVE  /\ s \in Streams /\ Regular(s) /\ Counts(s) /\ s.routing = Candidate(s)
         /\ s.semantic => Has(s.out, Semantic)
         /\ s.out \in Seq(Events)
  <1>1. InAttempt(s) /\ ~InHand(s) /\ s.pc \notin {"idle"} \cup Ends
    BY Zenon DEF InAttempt, InHand, Attempting, Ends
  <1>2. s \in Streams /\ Regular(s) /\ Counts(s) /\ s.routing = Candidate(s)
    BY <1>1, WellFacts, Zenon
  <1>3. s.semantic => Has(s.out, Semantic)
    BY <1>1, Zenon DEF WellFormed, Holding
  <1>4. s.out \in Seq(Events)
    BY <1>2, Zenon DEF Streams
  <1> QED BY <1>2, <1>3, <1>4, Zenon

LEMMA ReceivedSemanticWell ==
  ASSUME Sound(s), WellFormed(s), s.pc = "reading", s.sequence < MaxSequence,
         NEW e \in Events, e.type \in Semantic, e.by = NoDeployment, e.execution = NoDeployment
  PROVE  WellFormed(ReceivedSemantic(s, e))
  <1> DEFINE u == [s EXCEPT !.semantic = TRUE, !.text = Collected(s, e), !.event = e]
  <1>1. s \in Streams /\ Regular(s) /\ Counts(s) /\ s.routing = Candidate(s) /\ s.out \in Seq(Events)
    BY ReadingFacts, Zenon
  <1>2. Collected(s, e) \in Seq(Deltas)
    BY <1>1 DEF Collected, Streams, Events
  <1>3. u \in Streams
    BY <1>1, <1>2, Zenon DEF Streams
  <1>4. /\ u.out = s.out /\ u.routing = s.routing /\ u.order = s.order /\ u.i = s.i
        /\ u.sequence = s.sequence /\ u.event = e
    BY <1>1, Zenon DEF Streams
  <1>5. u.semantic /\ u.public = s.public /\ u.usage = s.usage
    BY <1>1, Zenon DEF Streams
  <1>6. CASE s.public
    <2> DEFINE w == [u EXCEPT !.pc = "checking"]
    <2>1. ReceivedSemantic(s, e) = w
      BY <1>6, Zenon DEF ReceivedSemantic
    <2> HIDE DEF u
    <2>2. w \in Streams
      BY <1>3, Zenon DEF Streams
    <2>3. /\ w.pc = "checking" /\ w.out = s.out /\ w.routing = s.routing /\ w.order = s.order
          /\ w.i = s.i /\ w.sequence = s.sequence /\ w.event = e
      BY <1>3, <1>4, Zenon DEF Streams
    <2>4. w.semantic /\ w.public = s.public /\ w.usage = s.usage
      BY <1>3, <1>5, Zenon DEF Streams
    <2> HIDE DEF w
    <2>5. Counts(w) /\ Candidate(w) = w.routing
      BY <1>1, <1>6, <2>3, <2>4, Zenon DEF Counts, Candidate
    <2>6. WellFormed(w)
      BY <1>1, <2>2, <2>3, <2>4, <2>5, Zenon
         DEF Regular, Counts, WellFormed, Ending, Planned, Counted, Holding, Routed, Replaying,
             InAttempt, InHand, Silent, Attempting, Ends
    <2> QED BY <2>1, <2>6, Zenon
  <1>7. CASE ~s.public
    <2> DEFINE v == [u EXCEPT !.public = TRUE, !.sequence = 1]
               a == Event("response.started", 1)
               b == [a EXCEPT !.by = s.routing]
               w == [v EXCEPT !.pc = "shown", !.out = Append(@, b), !.then = "checking"]
    <2>1. ReceivedSemantic(s, e) = Delivered(v, b, "checking")
      BY <1>7, Zenon DEF ReceivedSemantic
    <2> HIDE DEF u
    <2>2. s.out = <<>> /\ Len(s.out) = 0
      BY <1>1, <1>7, Zenon DEF Counts
    <2>3. 1 \in 0..MaxSequence + 1 /\ 1 < MaxSequence
      BY StreamingAssumption
    <2>4. v \in Streams
      BY <1>3, <2>3, Zenon DEF Streams
    <2>5. /\ v.out = s.out /\ v.routing = s.routing /\ v.order = s.order
          /\ v.i = s.i /\ v.sequence = 1 /\ v.event = e
      BY <1>3, <1>4, Zenon DEF Streams
    <2>6. v.semantic /\ v.public /\ v.usage = s.usage
      BY <1>3, <1>5, Zenon DEF Streams
    <2> HIDE DEF v
    <2>7. /\ a \in Events /\ a.type = "response.started" /\ a.sequence = 1
          /\ a.execution = NoDeployment
      BY EventTyped, EventFacts
    <2> HIDE DEF a
    <2>8. b \in Events
      <3>1. s.routing \in Deployments \cup {NoDeployment}
        BY <1>1, Zenon DEF Streams
      <3> QED BY <2>7, <3>1, Zenon DEF Events
    <2>9. /\ b.type = "response.started" /\ b.sequence = 1 /\ b.by = s.routing
          /\ b.execution = NoDeployment
      BY <2>7, Zenon DEF Events
    <2> HIDE DEF b
    <2>10. Regular(v) /\ ~Has(v.out, Terminal) /\ Fits(v.out, b, v.routing)
      <3>1. \A types : ~Has(v.out, types)
        BY <2>2, <2>5, NothingShown, Zenon
      <3>2. Fits(v.out, b, v.routing)
        BY <2>2, <2>5, <2>9, <3>1 DEF Fits
      <3> QED BY <1>1, <2>4, <2>5, <3>1, <3>2, Zenon DEF Regular
    <2> DEFINE q == Append(s.out, b)
    <2>11. /\ w.pc = "shown" /\ w.then = "checking" /\ w.out = q /\ w.routing = s.routing
           /\ w.order = s.order /\ w.i = s.i /\ w.sequence = 1 /\ w.event = e
      BY <2>4, <2>5, Zenon DEF Streams
    <2>12. w.semantic /\ w.public /\ w.usage = s.usage
      BY <2>4, <2>6, Zenon DEF Streams
    <2> HIDE DEF w
    <2>13. /\ Len(q) = 1 /\ q # <<>> /\ (Has(q, {"usage.completed"}) <=> Has(s.out, {"usage.completed"}))
           /\ ~Has(q, Terminal)
      <3>1. b.type \notin Terminal /\ b.type \notin {"usage.completed"}
        BY <2>9, Zenon DEF Terminal
      <3>2. Len(q) = 1 /\ q # <<>>
        BY <1>1, <2>2, <2>8, AppendFacts
      <3>3. ~Has(s.out, Terminal)
        BY <2>2, NothingShown, Zenon
      <3> QED BY <1>1, <2>8, <3>1, <3>2, <3>3, AppendHas, Zenon
    <2> HIDE DEF q
    <2>14. Counts(w) /\ Candidate(w) = w.routing
      BY <1>1, <2>3, <2>11, <2>12, <2>13, StreamingAssumption DEF Counts, Candidate
    <2>15. Counted(w) /\ Holding(w) /\ Routed(w) /\ Replaying(w)
      BY <2>3, <2>11, <2>12, <2>14, Zenon
         DEF Counted, Holding, Routed, Replaying, InAttempt, InHand, Silent, Attempting
    <2> QED BY <2>1, <2>8, <2>10, <2>15, DeliveredWell, Zenon DEF w
  <1> QED BY <1>6, <1>7, Zenon

\* Reading goes on with nothing shown.
LEMMA ReadOn ==
  ASSUME Sound(s), WellFormed(s), s.pc = "reading", NEW t \in Streams,
         t.pc = "reading" \/ (t.pc = "recording" /\ s.semantic /\ s.usage),
         t.out = s.out, t.routing = s.routing, t.order = s.order, t.i = s.i,
         t.sequence = s.sequence,
         t.semantic = s.semantic, t.public = s.public, t.usage = s.usage
  PROVE  WellFormed(t)
  <1>1. /\ Regular(s) /\ Counts(s) /\ s.routing = Candidate(s)
        /\ s.semantic => Has(s.out, Semantic)
    BY ReadingFacts, Zenon
  <1>2. Counts(t) /\ Candidate(t) = t.routing
    BY <1>1, Zenon DEF Counts, Candidate
  <1> QED BY <1>1, <1>2, Zenon
          DEF Regular, Counts, WellFormed, Ending, Planned, Counted, Holding, Routed, Replaying,
              InAttempt, InHand, Silent, Attempting, Ends

LEMMA ReceiveWell ==
  ASSUME Sound(s), WellFormed(s), NEW text \in Seq(Deltas),
         NEW type \in {"response.started", "usage.completed", "response.completed", "unknown"}
                        \cup Semantic,
         Receive(type, text)
  PROVE  WellFormed(s')
  <1>1. /\ s.pc = "reading" /\ s \in Streams /\ Regular(s) /\ Counts(s)
        /\ s.routing = Candidate(s) /\ s.out \in Seq(Events)
        /\ s.semantic => Has(s.out, Semantic)
    BY ReadingFacts, Zenon DEF Receive
  <1>2. CASE Expired
    <2>1. s' = Aborted(s, "deadline") /\ ~Has(s.out, Terminal)
      BY <1>1, <1>2, Zenon DEF Receive, Counts
    <2> QED BY <1>1, <2>1, AbortedWell, Zenon
  <1>3. CASE ~Expired /\ Invalid(s, type)
    <2>1. s' = Handled(s, FALSE)
      BY <1>3, Zenon DEF Receive
    <2> QED BY <1>1, <2>1, HandledWell, Zenon
  <1>4. CASE ~Expired /\ ~Invalid(s, type) /\ type = "response.started"
    <2>1. s' = [s EXCEPT !.started = TRUE]
      BY <1>4, Zenon DEF Receive, Semantic
    <2>2. s' \in Streams
      BY <1>1, <2>1, Zenon DEF Streams
    <2>3. /\ s'.pc = s.pc /\ s'.out = s.out /\ s'.routing = s.routing /\ s'.order = s.order
          /\ s'.i = s.i /\ s'.sequence = s.sequence
      BY <1>1, <2>1, Zenon DEF Streams
    <2>4. s'.semantic = s.semantic /\ s'.public = s.public /\ s'.usage = s.usage
      BY <1>1, <2>1, Zenon DEF Streams
    <2> QED BY <1>1, <2>2, <2>3, <2>4, ReadOn, Zenon
  <1>5. CASE ~Expired /\ ~Invalid(s, type) /\ type \in Semantic
    <2> DEFINE a == Event(type, 0)
               e == [a EXCEPT !.text = text]
    <2>1. s' = ReceivedSemantic(s, e) /\ s.sequence < MaxSequence
      BY <1>5, Zenon DEF Receive, Semantic
    <2>2. a \in Events /\ a.type = type /\ a.by = NoDeployment /\ a.execution = NoDeployment
      BY <1>5, EventTyped, EventFacts
    <2> HIDE DEF a
    <2>3. e \in Events
      BY <2>2, Zenon DEF Events
    <2>4. e.type = type /\ e.by = NoDeployment /\ e.execution = NoDeployment
      BY <2>2, Zenon DEF Events
    <2> HIDE DEF e
    <2> QED BY <1>1, <1>5, <2>1, <2>3, <2>4, ReceivedSemanticWell, Zenon
  <1>6. CASE ~Expired /\ ~Invalid(s, type) /\ type = "usage.completed"
    <2> DEFINE k == s.sequence + 1
               u == [s EXCEPT !.usage = TRUE, !.sequence = k]
               e == Event("usage.completed", k)
               q == Append(s.out, e)
               w == [u EXCEPT !.pc = "shown", !.out = Append(@, e), !.then = "reading"]
    <2>1. s' = Delivered(u, e, "reading") /\ s.sequence < MaxSequence /\ s.semantic /\ ~s.usage
      BY <1>6, Zenon DEF Receive, Semantic, Invalid
    <2>2. k \in 0..MaxSequence + 1 /\ k <= MaxSequence /\ k \in Nat /\ k = Len(s.out) + 1
      BY <1>1, <2>1, StreamingAssumption DEF Streams, Counts
    <2> HIDE DEF k
    <2>3. u \in Streams
      BY <1>1, <2>2, Zenon DEF Streams
    <2>4. /\ u.out = s.out /\ u.routing = s.routing /\ u.order = s.order /\ u.i = s.i
          /\ u.sequence = k
      BY <1>1, Zenon DEF Streams
    <2>5. u.semantic = s.semantic /\ u.public = s.public /\ u.usage
      BY <1>1, Zenon DEF Streams
    <2> HIDE DEF u
    <2>6. /\ e \in Events /\ e.type = "usage.completed" /\ e.sequence = k
          /\ e.by = NoDeployment /\ e.execution = NoDeployment
      BY <2>2, EventTyped, EventFacts
    <2> HIDE DEF e
    <2>7. Regular(u) /\ ~Has(u.out, Terminal) /\ Fits(u.out, e, u.routing)
      BY <1>1, <2>1, <2>2, <2>3, <2>4, <2>6, Zenon DEF Regular, Counts, Fits
    <2>8. /\ w.pc = "shown" /\ w.then = "reading" /\ w.out = q /\ w.routing = s.routing
          /\ w.order = s.order /\ w.i = s.i /\ w.sequence = k
      BY <2>3, <2>4, Zenon DEF Streams
    <2>9. w.semantic = s.semantic /\ w.public = s.public /\ w.usage
      BY <2>3, <2>5, Zenon DEF Streams
    <2> HIDE DEF w
    <2>10. /\ Len(q) = k /\ q # <<>> /\ Has(q, {"usage.completed"}) /\ ~Has(q, Terminal)
           /\ Has(q, Semantic)
      BY <1>1, <2>1, <2>2, <2>6, AppendFacts, AppendHas DEF Terminal, Counts
    <2> HIDE DEF q
    <2>11. Counts(w) /\ Candidate(w) = w.routing
      BY <1>1, <2>1, <2>2, <2>8, <2>9, <2>10, Zenon DEF Counts, Candidate
    <2>12. Counted(w) /\ Holding(w) /\ Routed(w) /\ Replaying(w)
      BY <2>8, <2>9, <2>10, <2>11, Zenon
         DEF Counted, Holding, Routed, Replaying, InAttempt, InHand, Silent, Attempting
    <2> QED BY <2>1, <2>6, <2>7, <2>12, DeliveredWell, Zenon DEF w
  <1>7. CASE ~Expired /\ ~Invalid(s, type) /\ type = "response.completed"
    <2>1. s' = [s EXCEPT !.pc = "recording"] /\ s.semantic /\ s.usage
      BY <1>7, Zenon DEF Receive, Semantic, Invalid
    <2>2. s' \in Streams
      BY <1>1, <2>1, Zenon DEF Streams
    <2>3. /\ s'.pc = "recording" /\ s'.out = s.out /\ s'.routing = s.routing
          /\ s'.order = s.order /\ s'.i = s.i /\ s'.sequence = s.sequence
      BY <1>1, <2>1, Zenon DEF Streams
    <2>4. s'.semantic = s.semantic /\ s'.public = s.public /\ s'.usage = s.usage
      BY <1>1, <2>1, Zenon DEF Streams
    <2> QED BY <1>1, <2>1, <2>2, <2>3, <2>4, ReadOn, Zenon
  <1>8. type \in {"response.started", "usage.completed", "response.completed"} \cup Semantic
          \/ Invalid(s, type)
    BY Zenon DEF Invalid
  <1> QED BY <1>2, <1>3, <1>4, <1>5, <1>6, <1>7, <1>8, Zenon

\* The provider stream fails, or something else is raised while it is read.
LEMMA BrokenWell ==
  ASSUME Sound(s), WellFormed(s), Raise \/ \E transient \in BOOLEAN : Fail(transient)
  PROVE  WellFormed(s')
  <1>1. /\ s.pc = "reading" /\ s \in Streams /\ Regular(s) /\ Counts(s)
        /\ s.routing = Candidate(s) /\ ~Has(s.out, Terminal)
    BY ReadingFacts, Zenon DEF Raise, Fail, Counts
  <1>2. CASE Raise
    <2> DEFINE u == Invalidated(s)
    <2>1. s' = Leaving(u, "error")
      BY <1>2, Zenon DEF Raise
    <2>2. u \in Streams
      BY <1>1, Zenon DEF Invalidated, Streams
    <2>3. u.out = s.out /\ u.routing = s.routing /\ u.order = s.order /\ u.i = s.i
      BY <1>1, Zenon DEF Invalidated, Streams
    <2> HIDE DEF u
    <2>4. Regular(u)
      BY <1>1, <2>2, <2>3, Zenon DEF Regular
    <2> QED BY <1>1, <2>1, <2>3, <2>4, LeavingWell, Zenon DEF Ends
  <1>3. CASE \E transient \in BOOLEAN : Fail(transient)
    BY <1>1, <1>3, HandledWell, Zenon DEF Fail
  <1> QED BY <1>2, <1>3, Zenon

LEMMA CheckWell ==
  ASSUME Sound(s), WellFormed(s), NEW admitted \in BOOLEAN, Check(admitted)
  PROVE  WellFormed(s')
  <1> DEFINE k == s.sequence + 1
             u == [s EXCEPT !.sequence = k, !.event = NoEvent]
             e == [s.event EXCEPT !.sequence = k]
             q == Append(s.out, e)
             w == [u EXCEPT !.pc = "shown", !.out = Append(@, e), !.then = "reading"]
  <1>1. s.pc = "checking" /\ InAttempt(s) /\ InHand(s) /\ s.pc \notin {"idle"} \cup Ends
    BY Zenon DEF Check, InAttempt, InHand, Ends
  <1>2. /\ s \in Streams /\ Regular(s) /\ Counts(s) /\ s.routing = Candidate(s)
        /\ s.semantic /\ s.sequence < MaxSequence /\ s.event.type \in Semantic
        /\ s.event.by = NoDeployment /\ s.event.execution = NoDeployment
    BY <1>1, WellFacts, Zenon DEF WellFormed, Holding
  <1>3. s.out \in Seq(Events) /\ s.event \in Events
    BY <1>2, Zenon DEF Streams
  <1>4. CASE s.probe /\ ~admitted
    <2>1. s' = Handled(s, TRUE)
      BY <1>4, Zenon DEF Check
    <2> QED BY <1>2, <2>1, HandledWell, Zenon
  <1>5. CASE ~(s.probe /\ ~admitted)
    <2>1. s' = Delivered(u, e, "reading")
      BY <1>5, Zenon DEF Check
    <2>2. k \in 0..MaxSequence + 1 /\ k <= MaxSequence /\ k \in Nat /\ k = Len(s.out) + 1
      BY <1>2, StreamingAssumption DEF Streams, Counts
    <2> HIDE DEF k
    <2>3. u \in Streams
      BY <1>2, <2>2, Resequenced, Zenon
    <2>4. /\ u.out = s.out /\ u.routing = s.routing /\ u.order = s.order /\ u.i = s.i
          /\ u.sequence = k
      BY <1>2, Zenon DEF Streams
    <2>5. u.semantic = s.semantic /\ u.public = s.public /\ u.usage = s.usage
      BY <1>2, Zenon DEF Streams
    <2> HIDE DEF u
    <2>6. e \in Events
      BY <1>3, <2>2, Zenon DEF Events
    <2>7. /\ e.type \in Semantic /\ e.sequence = k
          /\ e.by = NoDeployment /\ e.execution = NoDeployment
      BY <1>2, <1>3, Zenon DEF Events
    <2> HIDE DEF e
    <2>8. e.type \in {"content.delta", "tool_call"}
      BY <2>7, Zenon DEF Semantic
    <2>9. Regular(u) /\ ~Has(u.out, Terminal)
      BY <1>2, <2>3, <2>4, Zenon DEF Regular, Counts
    <2>10. Fits(u.out, e, u.routing)
      BY <1>2, <2>2, <2>4, <2>7, <2>8, Zenon DEF Counts, Fits
    <2>11. /\ w.pc = "shown" /\ w.then = "reading" /\ w.out = q /\ w.routing = s.routing
           /\ w.order = s.order /\ w.i = s.i /\ w.sequence = k
      BY <2>3, <2>4, Zenon DEF Streams
    <2>12. w.semantic = s.semantic /\ w.public = s.public /\ w.usage = s.usage
      BY <2>3, <2>5, Zenon DEF Streams
    <2> HIDE DEF w
    <2>13. e.type \notin Terminal /\ e.type \notin {"usage.completed"}
      BY <2>8, Zenon DEF Terminal
    <2>14. /\ Len(q) = k /\ q # <<>>
           /\ Has(q, {"usage.completed"}) <=> Has(s.out, {"usage.completed"})
           /\ ~Has(q, Terminal) /\ Has(q, Semantic)
      BY <1>2, <1>3, <2>2, <2>6, <2>7, <2>13, AppendFacts, AppendHas DEF Counts
    <2> HIDE DEF q
    <2>15. Counts(w) /\ Candidate(w) = w.routing
      BY <1>2, <2>2, <2>11, <2>12, <2>14, Zenon DEF Counts, Candidate
    <2>16. Counted(w) /\ Holding(w) /\ Routed(w) /\ Replaying(w)
      BY <2>11, <2>12, <2>14, <2>15, Zenon
         DEF Counted, Holding, Routed, Replaying, InAttempt, InHand, Silent, Attempting
    <2> QED BY <2>1, <2>6, <2>9, <2>10, <2>16, DeliveredWell, Zenon DEF w
  <1> QED BY <1>4, <1>5, Zenon

LEMMA CompleteWell ==
  ASSUME Sound(s), WellFormed(s), NEW yes \in BOOLEAN, RecordSuccess(yes) \/ Store(yes)
  PROVE  WellFormed(s')
  <1>1. s.pc \in {"recording", "storing"}
    BY Zenon DEF RecordSuccess, Store
  <1>2. InAttempt(s) /\ ~InHand(s) /\ s.pc \notin {"idle"} \cup Ends /\ s.pc # "reporting"
    BY <1>1, Zenon DEF InAttempt, InHand, Ends, Attempting
  <1>3. /\ s \in Streams /\ Regular(s) /\ Counts(s) /\ s.routing = Candidate(s)
        /\ s.semantic /\ s.usage /\ Has(s.out, Semantic)
    BY <1>1, <1>2, WellFacts, Zenon DEF WellFormed, Holding
  <1>4. s.out \in Seq(Events) /\ Candidate(s) \in Deployments \cup {NoDeployment}
    BY <1>3, Zenon DEF Streams
  <1>5. CASE RecordSuccess(yes)
    <2>1. CASE s.probe /\ ~yes
      <3>1. s' = Handled(s, TRUE)
        BY <1>5, <2>1, Zenon DEF RecordSuccess
      <3> QED BY <1>3, <3>1, HandledWell, Zenon
    <2>2. CASE ~(s.probe /\ ~yes)
      <3>1. s' = [Sampled(s) EXCEPT !.pc = "storing"]
        BY <1>5, <2>2, Zenon DEF RecordSuccess
      <3>2. s' \in Streams
        BY <1>3, <3>1, Zenon DEF Sampled, Streams
      <3>3. /\ s'.pc = "storing" /\ s'.out = s.out /\ s'.routing = s.routing
            /\ s'.order = s.order /\ s'.i = s.i /\ s'.sequence = s.sequence
        BY <1>3, <3>1, Zenon DEF Sampled, Streams
      <3>4. s'.semantic = s.semantic /\ s'.public = s.public /\ s'.usage = s.usage
        BY <1>3, <3>1, Zenon DEF Sampled, Streams
      <3>5. Counts(s') /\ Candidate(s') = s'.routing
        BY <1>3, <3>3, <3>4, Zenon DEF Counts, Candidate
      <3> QED BY <1>3, <3>2, <3>3, <3>4, <3>5, Zenon
              DEF Regular, Counts, WellFormed, Ending, Planned, Counted, Holding, Routed,
                  Replaying, InAttempt, InHand, Silent, Attempting, Ends
    <2> QED BY <2>1, <2>2, Zenon
  <1>6. CASE Store(yes)
    <2> DEFINE k == s.sequence + 1
               u == [s EXCEPT !.sequence = k]
               a == Event("response.completed", k)
               e == [a EXCEPT !.by = s.routing, !.execution = Candidate(s)]
    <2>1. s' = Delivered(u, e, "none")
      BY <1>6, Zenon DEF Store
    <2>2. k \in 0..MaxSequence + 1 /\ k \in Nat /\ k = Len(s.out) + 1
      BY <1>3, StreamingAssumption DEF Streams, Counts
    <2> HIDE DEF k
    <2>3. u \in Streams
      BY <1>3, <2>2, Zenon DEF Streams
    <2>4. u.out = s.out /\ u.routing = s.routing /\ u.order = s.order /\ u.i = s.i
      BY <1>3, Zenon DEF Streams
    <2> HIDE DEF u
    <2>5. a \in Events /\ a.type = "response.completed" /\ a.sequence = k
      BY <2>2, EventTyped, EventFacts, Zenon DEF Terminal
    <2> HIDE DEF a
    <2>6. e \in Events
      <3>1. s.routing \in Deployments \cup {NoDeployment}
        BY <1>3, Zenon DEF Streams
      <3> QED BY <1>4, <2>5, <3>1, Zenon DEF Events
    <2>7. /\ e.type = "response.completed" /\ e.sequence = k /\ e.by = s.routing
          /\ e.execution = s.routing
      BY <1>3, <2>5, Zenon DEF Events
    <2> HIDE DEF e
    <2>8. Regular(u) /\ ~Has(u.out, Terminal) /\ Fits(u.out, e, u.routing)
      BY <1>3, <2>2, <2>3, <2>4, <2>7, Zenon DEF Regular, Counts, Fits
    <2> QED BY <2>1, <2>6, <2>7, <2>8, TerminalWell, Zenon DEF Terminal
  <1> QED BY <1>5, <1>6, Zenon

LEMMA RecordFailureWell ==
  ASSUME Sound(s), WellFormed(s), RecordFailure
  PROVE  WellFormed(s')
  <1> DEFINE t == [s EXCEPT !.execution = Candidate(s)]
  <1>1. /\ s.pc = "reporting" /\ InAttempt(s) /\ s.pc \notin {"idle"} \cup Ends
        /\ s' = Reported(t)
    BY Zenon DEF RecordFailure, InAttempt, Attempting, Ends
  <1>2. s \in Streams /\ Regular(s) /\ Counts(s) /\ s.routing = Candidate(s)
    BY <1>1, WellFacts, Zenon
  <1>3. t \in Streams
    <2>1. Candidate(s) \in Deployments \cup {NoDeployment}
      BY <1>2, Zenon DEF Streams
    <2> QED BY <1>2, <2>1, Zenon DEF Streams
  <1>4. /\ t.out = s.out /\ t.routing = s.routing /\ t.order = s.order /\ t.i = s.i
        /\ t.n = s.n /\ t.sequence = s.sequence /\ t.execution = s.routing
    BY <1>2, Zenon DEF Streams
  <1>5. t.semantic = s.semantic
    BY <1>2, Zenon DEF Streams
  <1> HIDE DEF t
  <1>6. Regular(t) /\ ~Has(t.out, Terminal) /\ t.out \in Seq(Events)
    BY <1>2, <1>3, <1>4, Zenon DEF Regular, Counts, Streams
  <1>7. ~t.semantic => t.out = <<>>
    BY <1>2, <1>4, <1>5, Zenon DEF Counts
  <1>8. CASE t.semantic
    <2> DEFINE k == t.sequence + 1
               u == [t EXCEPT !.sequence = k]
               e == Failed(t, k, TRUE)
    <2>1. s' = Delivered(u, e, "none")
      BY <1>1, <1>8, Zenon DEF Reported
    <2>2. k \in 0..MaxSequence + 1 /\ k \in Nat /\ k = Len(t.out) + 1
      BY <1>2, <1>4, StreamingAssumption DEF Streams, Counts
    <2> HIDE DEF k
    <2>3. u \in Streams
      BY <1>3, <2>2, Resequenced, Zenon
    <2>4. u.out = t.out /\ u.routing = t.routing /\ u.order = t.order /\ u.i = t.i
      BY <1>3, Zenon DEF Streams
    <2> HIDE DEF u
    <2>5. TRUE \in BOOLEAN
      BY Zenon
    <2>6. /\ e \in Events /\ e.type = "response.failed" /\ e.sequence = k /\ e.by = t.routing
          /\ e.execution = t.execution /\ e.partial
      BY <1>3, <2>2, <2>5, FailedEvent, Zenon
    <2> HIDE DEF e
    <2>7. Regular(u) /\ ~Has(u.out, Terminal)
      BY <1>6, <2>3, <2>4, Zenon DEF Regular
    <2>8. Fits(u.out, e, u.routing)
      BY <1>4, <2>2, <2>4, <2>6, Zenon DEF Fits
    <2> QED BY <2>1, <2>6, <2>7, <2>8, TerminalWell, Zenon DEF Terminal
  <1>9. CASE ~t.semantic /\ t.transient /\ MayRetry(t)
    <2>1. s' = [t EXCEPT !.pc = "deciding"] /\ t.n < MaxAttempts
      BY <1>1, <1>9, Zenon DEF Reported, MayRetry
    <2>2. s' \in Streams
      BY <1>3, <2>1, Zenon DEF Streams
    <2>3. /\ s'.pc = "deciding" /\ s'.out = t.out /\ s'.routing = t.routing
          /\ s'.order = t.order /\ s'.i = t.i /\ s'.n = t.n /\ s'.execution = t.execution
      BY <1>3, <2>1, Zenon DEF Streams
    <2> QED BY <1>4, <1>6, <2>1, <2>2, <2>3, Zenon
            DEF Regular, WellFormed, Ending, Planned, Counted, Holding, Routed, Replaying,
                InAttempt, InHand, Silent, Attempting, Ends
  <1>10. CASE ~t.semantic /\ t.transient /\ ~MayRetry(t)
    <2>1. s' = Leaving(t, "next")
      BY <1>1, <1>10, Zenon DEF Reported
    <2> QED BY <1>4, <1>6, <2>1, LeavingWell, Zenon
  <1>11. CASE ~t.semantic /\ ~t.transient
    <2> DEFINE e == Failed(t, 1, FALSE)
    <2>1. s' = Delivered(t, e, "none")
      BY <1>1, <1>11, Zenon DEF Reported
    <2>2. FALSE \in BOOLEAN /\ 1 \in Nat
      BY Zenon
    <2>3. /\ e \in Events /\ e.type = "response.failed" /\ e.sequence = 1 /\ e.by = t.routing
          /\ e.execution = t.execution
      BY <1>3, <2>2, FailedEvent, Zenon
    <2> HIDE DEF e
    <2>4. \A types : ~Has(t.out, types)
      BY <1>7, <1>11, NothingShown, Zenon
    <2>5. Fits(t.out, e, t.routing)
      BY <1>4, <1>7, <1>11, <2>3, <2>4, NothingShown DEF Fits
    <2> QED BY <1>6, <2>1, <2>3, <2>5, TerminalWell, Zenon DEF Terminal
  <1> QED BY <1>8, <1>9, <1>10, <1>11, Zenon

LEMMA DecideWell ==
  ASSUME Sound(s), WellFormed(s), NEW open \in BOOLEAN, Decide(open)
  PROVE  WellFormed(s')
  <1>1. /\ s.pc = "deciding" /\ Regular(s) /\ ~Has(s.out, Terminal)
        /\ s.execution \in {NoDeployment, s.routing} /\ s.n < MaxAttempts
    BY WellFacts, Zenon DEF Decide, Silent, Ends, WellFormed, Planned
  <1>2. s' = Leaving(s, "next") \/ s' = Leaving(s, "retry")
    BY Zenon DEF Decide
  <1> QED BY <1>1, <1>2, LeavingWell, Zenon

LEMMA ReleaseWell ==
  ASSUME Sound(s), WellFormed(s), NEW reachable \in BOOLEAN, Release(reachable)
  PROVE  WellFormed(s')
  <1> DEFINE t == [s EXCEPT !.held = FALSE, !.probe = FALSE]
  <1>1. /\ s.pc = "releasing" /\ s \in Streams /\ Regular(s)
        /\ s.after \in {"next", "retry"} =>
             s.out = <<>> /\ s.execution \in {NoDeployment, s.routing}
        /\ s.after = "retry" => s.n < MaxAttempts
        /\ s.after \notin {"ended", "closed"} => ~Has(s.out, Terminal)
        /\ s.after \in {"next", "retry", "deadline"} \cup Ends
    <2>1. s.pc = "releasing" /\ s \in Streams /\ Regular(s)
      BY WellFacts, Zenon DEF Release, Ends
    <2>2. s.after \in {"none", "next", "retry", "deadline"} \cup Ends /\ s.after # "none"
      BY <2>1, Zenon DEF Streams, WellFormed, Ending
    <2> QED BY <2>1, <2>2, Zenon DEF WellFormed, Ending, Planned, Routed, Sound, Boundary, Ends
  <1>2. t \in Streams
    BY <1>1, Zenon DEF Streams
  <1>3. /\ t.out = s.out /\ t.routing = s.routing /\ t.order = s.order /\ t.i = s.i
        /\ t.n = s.n /\ t.execution = s.execution
    BY <1>1, Zenon DEF Streams
  <1>4. CASE ~reachable /\ s.after \in {"next", "retry", "error"}
    <2>1. s' = Final(t, "error")
      BY <1>4, Zenon DEF Release
    <2> HIDE DEF t
    <2> QED BY <1>1, <1>2, <1>3, <1>4, <2>1, FinalWell, Zenon DEF Regular, Ends
  <1>5. CASE reachable /\ s.after = "next"
    <2>1. s' = Advanced(t)
      BY <1>5, Zenon DEF Release
    <2> HIDE DEF t
    <2>2. Regular(t)
      BY <1>1, <1>2, <1>3, Zenon DEF Regular
    <2> QED BY <1>1, <1>3, <1>5, <2>1, <2>2, AdvancedWell, Zenon
  <1>6. CASE reachable /\ s.after = "retry" /\ ~Expired
    <2>1. s' = [t EXCEPT !.pc = "sleeping", !.after = "none"]
      BY <1>6, Zenon DEF Release
    <2> HIDE DEF t
    <2>2. s' \in Streams
      BY <1>2, <2>1, Zenon DEF Streams
    <2>3. /\ s'.pc = "sleeping" /\ s'.out = t.out /\ s'.routing = t.routing
          /\ s'.order = t.order /\ s'.i = t.i /\ s'.n = t.n /\ s'.execution = t.execution
      BY <1>2, <2>1, Zenon DEF Streams
    <2> QED BY <1>1, <1>3, <1>6, <2>2, <2>3, Zenon
            DEF Regular, WellFormed, Ending, Planned, Counted, Holding, Routed, Replaying,
                InAttempt, InHand, Silent, Attempting, Ends
  <1>7. CASE reachable /\ s.after = "retry" /\ Expired
    <2>1. s' = Final(t, "deadline")
      BY <1>7, Zenon DEF Release
    <2> HIDE DEF t
    <2> QED BY <1>1, <1>2, <1>3, <1>7, <2>1, FinalWell, Zenon DEF Regular
  <1>8. CASE s.after \notin {"next", "retry"} /\ ~(~reachable /\ s.after = "error")
    <2>1. s' = Final(t, s.after) /\ s.after \in Ends \cup {"deadline"}
      BY <1>1, <1>8, Zenon DEF Release
    <2> HIDE DEF t
    <2> QED BY <1>1, <1>2, <1>3, <2>1, FinalWell, Zenon DEF Regular
  <1> QED BY <1>4, <1>5, <1>6, <1>7, <1>8, Zenon

LEMMA WakeWell ==
  ASSUME Sound(s), WellFormed(s), Wake
  PROVE  WellFormed(s')
  <1>1. /\ s.pc = "sleeping" /\ s \in Streams /\ Regular(s) /\ ~Has(s.out, Terminal)
        /\ s.execution \in {NoDeployment, s.routing} /\ s.n < MaxAttempts
    BY WellFacts, Zenon DEF Wake, Silent, Ends, WellFormed, Planned
  <1> DEFINE m == s.n + 1
  <1>2. s' = [s EXCEPT !.pc = "head", !.n = m]
    BY Zenon DEF Wake
  <1>3. m \in 0..MaxAttempts
    BY <1>1, StreamingAssumption DEF Streams
  <1> HIDE DEF m
  <1>4. s' \in Streams
    BY <1>1, <1>2, <1>3, Zenon DEF Streams
  <1>5. /\ s'.pc = "head" /\ s'.out = s.out /\ s'.routing = s.routing
        /\ s'.order = s.order /\ s'.i = s.i /\ s'.execution = s.execution
    BY <1>1, <1>2, Zenon DEF Streams
  <1> QED BY <1>1, <1>4, <1>5, Zenon
          DEF Regular, WellFormed, Ending, Planned, Counted, Holding, Routed, Replaying,
              InAttempt, InHand, Silent, Attempting, Ends

LEMMA TrackerFailsWell ==
  ASSUME Sound(s), WellFormed(s), TrackerFails
  PROVE  WellFormed(s')
  <1>1. /\ s.pc \in {"admitting", "checking", "recording", "reporting", "deciding"}
        /\ \/ s' = Final(s, "error")
           \/ s' = Leaving(Invalidated(s), "error")
           \/ s' = Leaving(s, "error")
    BY Zenon DEF TrackerFails
  <1>2. s \in Streams /\ Regular(s) /\ ~Has(s.out, Terminal)
    BY <1>1, WellFacts, Zenon DEF Ends
  <1>3. CASE s' = Final(s, "error")
    BY <1>2, <1>3, FinalWell, Zenon DEF Regular, Ends
  <1>4. CASE s' = Leaving(s, "error")
    BY <1>2, <1>4, LeavingWell, Zenon DEF Ends
  <1>5. CASE s' = Leaving(Invalidated(s), "error")
    <2> DEFINE u == Invalidated(s)
    <2>1. u \in Streams
      BY <1>2, Zenon DEF Invalidated, Streams
    <2>2. u.out = s.out /\ u.routing = s.routing /\ u.order = s.order /\ u.i = s.i
      BY <1>2, Zenon DEF Invalidated, Streams
    <2> HIDE DEF u
    <2>3. Regular(u) /\ ~Has(u.out, Terminal)
      BY <1>2, <2>1, <2>2, Zenon DEF Regular
    <2>4. WellFormed(Leaving(u, "error"))
      BY <2>3, LeavingWell, Zenon DEF Ends
    <2> QED BY <1>5, <2>4, Zenon DEF u
  <1> QED BY <1>1, <1>3, <1>4, <1>5, Zenon

\* The consumer reads on, closes the stream or is interrupted.
LEMMA ConsumerWell ==
  ASSUME Sound(s), WellFormed(s),
         \/ Pull \/ Close
         \/ \E why \in {"cancelled", "deadline"}, written \in BOOLEAN : Interrupt(why, written)
  PROVE  WellFormed(s')
  <1>1. s \in Streams /\ s.out \in Seq(Events)
    BY WellFacts, Zenon DEF Streams
  <1>2. CASE Pull
    <2>1. s.pc = "shown" /\ Regular(s)
      BY <1>2, WellFacts, Zenon DEF Pull, Ends
    <2>2. CASE Last(s.out).type \in Terminal
      <3>1. s' = Aborted(s, "ended")
        BY <1>2, <2>2, Zenon DEF Pull
      <3> QED BY <2>1, <3>1, AbortedWell, Zenon DEF Ends
    <2>3. CASE Last(s.out).type \notin Terminal
      <3>1. ~Has(s.out, Terminal)
        BY <2>1, <2>3, Zenon DEF Has, Regular, Shape, Last
      <3>2. CASE Expired
        <4>1. s' = Aborted(s, "deadline")
          BY <1>2, <2>3, <3>2, Zenon DEF Pull
        <4> QED BY <2>1, <3>1, <4>1, AbortedWell, Zenon
      <3>3. CASE ~Expired
        <4>1. s' = [s EXCEPT !.pc = s.then, !.then = "none"]
          BY <1>2, <2>3, <3>3, Zenon DEF Pull
        <4>2. s.then \in {"reading", "checking", "replay"}
          BY <1>1, <2>1, <3>1, Zenon DEF WellFormed, Ending, Streams
        <4>3. s' \in Streams
          BY <1>1, <4>1, <4>2, Zenon DEF Streams
        <4>4. /\ s'.pc = s.then /\ s'.order = s.order /\ s'.i = s.i
              /\ s'.sequence = s.sequence /\ s'.event = s.event /\ s'.queue = s.queue
              /\ s'.routing = s.routing /\ s'.out = s.out
          BY <1>1, <4>1, Zenon DEF Streams
        <4>5. s'.semantic = s.semantic /\ s'.public = s.public /\ s'.usage = s.usage
          BY <1>1, <4>1, Zenon DEF Streams
        <4>6. CASE s.then \in {"reading", "checking"}
          <5>1. InAttempt(s) /\ (InHand(s) <=> s.then = "checking")
            BY <2>1, <4>6, Zenon DEF InAttempt, InHand
          <5>2. Counts(s) /\ s.routing = Candidate(s) /\ Holding(s)
            BY <5>1, WellFacts, Zenon DEF WellFormed
          <5>3. Counts(s') /\ Candidate(s') = s'.routing
            BY <4>4, <4>5, <5>2, Zenon DEF Counts, Candidate
          <5>4. Holding(s')
            BY <2>1, <4>4, <4>5, <4>6, <5>1, <5>2, Zenon DEF Holding, InAttempt, InHand, Attempting
          <5> QED BY <2>1, <3>1, <4>3, <4>4, <4>6, <5>3, <5>4, Zenon
                  DEF Regular, WellFormed, Ending, Planned, Counted, Routed, Replaying,
                      InAttempt, InHand, Silent, Attempting, Ends
        <4>7. CASE s.then = "replay"
          <5>1. Follows(s.out, s.queue, s.routing)
            BY <2>1, <4>7, Zenon DEF WellFormed, Replaying
          <5>2. Len(s.out) < 4
            <6>1. PICK text \in Seq(Deltas) :
                    /\ Len(s.out) \in 1..4
                    /\ \A k \in 1..Len(s.out) : s.out[k] = Script(s.routing, text)[k]
              BY <5>1, Zenon DEF Follows
            <6>2. s.routing \in Deployments \cup {NoDeployment}
              BY <1>1, Zenon DEF Streams
            <6>3. ASSUME Len(s.out) = 4 PROVE FALSE
              <7>1. s.out[4].type = "response.completed"
                <8>1. Script(s.routing, text)[4].type = "response.completed"
                  BY <6>2, ScriptFacts, Zenon
                <8>2. s.out[4] = Script(s.routing, text)[4]
                  BY <6>1, <6>3, Zenon
                <8> QED BY <8>1, <8>2, Zenon
              <7> QED BY <2>3, <6>3, <7>1, Zenon DEF Last, Terminal
            <6>4. ASSUME NEW m \in 1..4, m # 4 PROVE m < 4
              BY <6>4
            <6> QED BY <6>1, <6>3, <6>4, Zenon
          <5> QED BY <2>1, <3>1, <4>3, <4>4, <4>7, <5>1, <5>2, Zenon
                  DEF Regular, WellFormed, Ending, Planned, Counted, Holding, Routed, Replaying,
                      InAttempt, InHand, Silent, Attempting, Ends
        <4> QED BY <4>2, <4>6, <4>7, Zenon
      <3> QED BY <3>2, <3>3, Zenon
    <2> QED BY <2>2, <2>3, Zenon
  <1>3. CASE Close
    <2>1. Regular(s) /\ s' = Aborted(s, "closed")
      BY <1>3, WellFacts, Zenon DEF Close, Ends
    <2> QED BY <2>1, AbortedWell, Zenon DEF Ends
  <1>4. ASSUME NEW why \in {"cancelled", "deadline"}, NEW written \in BOOLEAN,
               Interrupt(why, written)
        PROVE  WellFormed(s')
    <2>1. /\ s.pc \in {"lookup", "admitting", "reading", "recording", "storing", "reporting",
                       "deciding", "releasing", "sleeping", "checking"}
          /\ why = "deadline" => s.after \in {"none", "next", "retry", "error"}
      BY <1>4, Zenon DEF Interrupt
    <2>2. Regular(s)
      BY <2>1, WellFacts, Zenon DEF Ends
    <2>3. CASE s.pc = "releasing"
      <3> DEFINE t == [s EXCEPT !.held = FALSE, !.probe = FALSE]
      <3>1. s' = Final(t, why)
        BY <1>4, <2>3, Zenon DEF Interrupt
      <3>2. t \in Streams
        BY <1>1, Zenon DEF Streams
      <3>3. t.out = s.out /\ t.routing = s.routing /\ t.order = s.order /\ t.i = s.i
        BY <1>1, Zenon DEF Streams
      <3> HIDE DEF t
      <3>4. why = "deadline" => ~Has(t.out, Terminal)
        BY <2>1, <2>3, <3>3, Zenon DEF WellFormed, Ending, Ends
      <3> QED BY <2>2, <3>1, <3>2, <3>3, <3>4, FinalWell, Zenon DEF Regular, Ends
    <2>4. CASE s.pc # "releasing"
      <3>1. s' = Aborted(s, why) /\ ~Has(s.out, Terminal)
        BY <1>4, <2>1, <2>4, WellFacts, Zenon DEF Interrupt, Ends
      <3> QED BY <2>2, <3>1, AbortedWell, Zenon DEF Ends
    <2> QED BY <2>3, <2>4, Zenon
  <1> QED BY <1>2, <1>3, <1>4, Zenon

\* What is stored is an answer of the stream's candidate.
LEMMA CacheStep ==
  ASSUME Sound(s), WellFormed(s), CacheTyped, Next
  PROVE  /\ cache' \in [text : Seq(Deltas), by : Deployments \cup {NoDeployment}]
         /\ cache' \notin {cache, NoAnswer} =>
              s.pc = "storing" /\ s.cacheable /\ cache' = [text |-> s.text, by |-> Candidate(s)]
  <1>1. \/ cache' = cache \/ cache' = NoAnswer
        \/ s.pc = "storing" /\ \E written \in BOOLEAN : cache' = Stored(written)
    BY Zenon DEF Next, Step, Provider, Work, Tick, Prepare, Open, Lookup, Replay, Begin, Admit, Receive,
           Fail, Raise, Check, RecordSuccess, Store, RecordFailure, Decide, Release, Wake,
           TrackerFails, Pull, Close, Interrupt, Evict
  <1>2. NoAnswer \in [text : Seq(Deltas), by : Deployments \cup {NoDeployment}]
    BY DEF NoAnswer
  <1>3. ASSUME s.pc = "storing", NEW written \in BOOLEAN, cache' = Stored(written)
        PROVE  \/ cache' = cache
               \/ /\ cache' = [text |-> s.text, by |-> Candidate(s)] /\ s.cacheable
                  /\ cache' \in [text : Seq(Deltas), by : Deployments \cup {NoDeployment}]
    <2>1. s \in Streams /\ s.routing = Candidate(s)
      BY <1>3, WellFacts, Zenon DEF InAttempt, Attempting
    <2>2. s.text \in Seq(Deltas) /\ Candidate(s) \in Deployments \cup {NoDeployment}
      BY <2>1, Zenon DEF Streams
    <2> QED BY <1>3, <2>2, Zenon DEF Stored
  <1> QED BY <1>1, <1>2, <1>3, Zenon DEF CacheTyped

-----------------------------------------------------------------------------
(***************************************************************************)
(* What is stored is what was shown.  Shown recurs over the events, so     *)
(* what it says of one more event is proved with the set of the lengths    *)
(* for which some function joins their texts.                              *)
(***************************************************************************)
INSTANCE WellFoundedInduction

\* A set of numbers that holds zero and every successor holds them all.
LEMMA GoodNumbers ==
  ASSUME NEW Good \in SUBSET Nat, 0 \in Good, \A n \in Good : n + 1 \in Good
  PROVE  Good = Nat
  <1> DEFINE Bad == Nat \ Good
             R == OpToRel(<, Nat)
  <1>1. IsWellFoundedOn(R, Nat)
    BY NatLessThanWellFounded, Zenon
  <1>2. \A m, n \in Nat : m < n => <<m, n>> \in R
    BY Zenon DEF OpToRel
  <1> HIDE DEF R
  <1> SUFFICES ASSUME Bad # {} PROVE FALSE
    BY Zenon
  <1>3. Bad \subseteq Nat
    BY Zenon
  <1>4. PICK n \in Bad : \A m \in Bad : ~(<<m, n>> \in R)
    <2> HIDE DEF Bad
    <2> QED BY <1>1, <1>3, WFMin, Zenon
  <1>5. n \in Nat /\ n # 0 /\ n - 1 \in Nat /\ n - 1 < n
    BY <1>4
  <1>6. n - 1 \in Good
    BY <1>2, <1>4, <1>5, Zenon
  <1> QED BY <1>4, <1>5, <1>6

\* g joins the texts of out, by the recursion of Shown.
Joins(g, out) ==
  g = [k \in 0..Len(out) |-> IF k = 0 THEN <<>> ELSE g[k - 1] \o out[k].text]

LEMMA ShownJoins ==
  ASSUME NEW out
  PROVE  Shown(out) = (CHOOSE g : Joins(g, out))[Len(out)]
  BY Zenon DEF Shown, Joins

LEMMA JoinsFacts ==
  ASSUME NEW q \in Seq(Events), NEW g, Joins(g, q)
  PROVE  /\ DOMAIN g = 0..Len(q) /\ g[0] = <<>>
         /\ \A k \in 1..Len(q) : g[k] = g[k - 1] \o q[k].text
  <1> DEFINE f == [k \in 0..Len(q) |-> IF k = 0 THEN <<>> ELSE g[k - 1] \o q[k].text]
  <1>1. g = f
    BY Zenon DEF Joins
  <1>2. /\ DOMAIN f = 0..Len(q)
        /\ \A k \in 0..Len(q) : f[k] = IF k = 0 THEN <<>> ELSE g[k - 1] \o q[k].text
    BY Zenon
  <1>3. 0 \in 0..Len(q) /\ \A k \in 1..Len(q) : k \in 0..Len(q) /\ k # 0
    OBVIOUS
  <1> HIDE DEF f
  <1> QED BY <1>1, <1>2, <1>3, Zenon

\* Two functions that join the same texts agree.
LEMMA JoinsAgree ==
  ASSUME NEW q \in Seq(Events), NEW g, NEW h, Joins(g, q), Joins(h, q)
  PROVE  g[Len(q)] = h[Len(q)]
  <1>1. PICK n \in Nat : n = Len(q)
    OBVIOUS
  <1>2. g[0] = <<>> /\ \A k \in 1..n : g[k] = g[k - 1] \o q[k].text
    BY <1>1, JoinsFacts, Zenon
  <1>3. h[0] = <<>> /\ \A k \in 1..n : h[k] = h[k - 1] \o q[k].text
    BY <1>1, JoinsFacts, Zenon
  <1> DEFINE Good == {k \in Nat : k <= n => g[k] = h[k]}
  <1>4. 0 \in Good
    BY <1>2, <1>3, Zenon
  <1>5. ASSUME NEW k \in Good PROVE k + 1 \in Good
    <2>1. CASE k + 1 <= n
      <3>1. k + 1 \in 1..n /\ (k + 1) - 1 = k /\ k <= n /\ k + 1 \in Nat
        BY <2>1
      <3>2. g[k] = h[k]
        BY <3>1, Zenon
      <3>3. g[k + 1] = g[k] \o q[k + 1].text /\ h[k + 1] = h[k] \o q[k + 1].text
        BY <1>2, <1>3, <3>1, Zenon
      <3> QED BY <3>1, <3>2, <3>3, Zenon
    <2>2. CASE ~(k + 1 <= n)
      BY <2>2
    <2> QED BY <2>1, <2>2, Zenon
  <1>6. Good = Nat
    <2>1. Good \in SUBSET Nat
      BY Zenon
    <2> HIDE DEF Good
    <2> QED BY <1>4, <1>5, <2>1, GoodNumbers, Zenon
  <1>7. n \in Good
    BY <1>6, Zenon
  <1> QED BY <1>1, <1>7

\* What any function that joins the texts says of them is what Shown says.
LEMMA ShownIs ==
  ASSUME NEW q \in Seq(Events), NEW g, Joins(g, q)
  PROVE  Shown(q) = g[Len(q)]
  <1>1. PICK h : h = CHOOSE f : Joins(f, q)
    BY Zenon
  <1>2. Joins(h, q)
    BY <1>1, Zenon
  <1> QED BY <1>1, <1>2, JoinsAgree, ShownJoins, Zenon

\* One more text is joined.
LEMMA JoinsOn ==
  ASSUME NEW q \in Seq(Events), NEW e \in Events, NEW g \in [0..Len(q) -> Seq(Deltas)],
         Joins(g, q)
  PROVE  \E h \in [0..(Len(q) + 1) -> Seq(Deltas)] :
           Joins(h, Append(q, e)) /\ h[Len(q) + 1] = g[Len(q)] \o e.text
  <1>1. PICK n \in Nat : n = Len(q)
    OBVIOUS
  <1>2. PICK p : p = Append(q, e)
    BY Zenon
  <1>3. Len(p) = n + 1 /\ p[n + 1] = e /\ \A k \in 1..n : p[k] = q[k]
    BY <1>1, <1>2, AppendFacts
  <1>4. g[0] = <<>> /\ \A k \in 1..n : g[k] = g[k - 1] \o q[k].text
    BY <1>1, JoinsFacts, Zenon
  <1>5. g \in [0..n -> Seq(Deltas)]
    BY <1>1, Zenon
  <1>6. PICK y \in Seq(Deltas) : y = g[n] \o e.text
    <2>1. g[n] \in Seq(Deltas) /\ e.text \in Seq(Deltas)
      BY <1>5 DEF Events
    <2>2. g[n] \o e.text \in Seq(Deltas)
      BY <2>1
    <2> QED BY <2>2, Zenon
  <1> DEFINE h == [k \in 0..(n + 1) |-> IF k = n + 1 THEN y ELSE g[k]]
  <1>7. h \in [0..(n + 1) -> Seq(Deltas)] /\ h[n + 1] = y /\ \A k \in 0..n : h[k] = g[k]
    BY <1>5
  <1>8. h = [k \in 0..(n + 1) |-> h[k]]
    BY Zenon
  <1> HIDE DEF h
  <1>9. ASSUME NEW k \in 0..(n + 1)
        PROVE  h[k] = IF k = 0 THEN <<>> ELSE h[k - 1] \o p[k].text
    <2>1. CASE k = 0
      BY <1>4, <1>7, <2>1
    <2>2. CASE k = n + 1
      <3>1. k # 0 /\ k - 1 = n /\ n \in 0..n
        BY <2>2
      <3> QED BY <1>3, <1>6, <1>7, <2>2, <3>1, Zenon
    <2>3. CASE k # 0 /\ k # n + 1
      <3>1. k \in 1..n /\ k \in 0..n /\ k - 1 \in 0..n
        BY <2>3
      <3> QED BY <1>3, <1>4, <1>7, <2>3, <3>1, Zenon
    <2> QED BY <2>1, <2>2, <2>3, Zenon
  <1>10. Joins(h, p)
    BY <1>3, <1>8, <1>9, Zenon DEF Joins
  <1> QED BY <1>1, <1>2, <1>6, <1>7, <1>10, Zenon

LEMMA JoinsExist == \A q \in Seq(Events) : \E g \in [0..Len(q) -> Seq(Deltas)] : Joins(g, q)
  <1> DEFINE Good == {n \in Nat : \A q \in Seq(Events) :
                                   Len(q) = n => \E g \in [0..Len(q) -> Seq(Deltas)] : Joins(g, q)}
  <1>1. 0 \in Good
    <2> SUFFICES ASSUME NEW q \in Seq(Events), Len(q) = 0
                 PROVE  \E g \in [0..Len(q) -> Seq(Deltas)] : Joins(g, q)
      BY Zenon
    <2> DEFINE g == [k \in 0..Len(q) |-> <<>>]
    <2>1. g \in [0..Len(q) -> Seq(Deltas)]
      OBVIOUS
    <2>2. \A k \in 0..Len(q) : k = 0
      OBVIOUS
    <2>3. g = [k \in 0..Len(q) |-> IF k = 0 THEN <<>> ELSE g[k - 1] \o q[k].text]
      BY <2>2, Zenon
    <2>4. Joins(g, q)
      BY <2>3, Zenon DEF Joins
    <2> QED BY <2>1, <2>4, Zenon
  <1>2. ASSUME NEW n \in Good PROVE n + 1 \in Good
    <2> SUFFICES ASSUME NEW q \in Seq(Events), Len(q) = n + 1
                 PROVE  \E g \in [0..Len(q) -> Seq(Deltas)] : Joins(g, q)
      OBVIOUS
    <2>1. n \in Nat /\ q[n + 1] \in Events
      OBVIOUS
    <2>2. PICK p : p = SubSeq(q, 1, n)
      BY Zenon
    <2>3. p \in Seq(Events) /\ Len(p) = n /\ q = Append(p, q[n + 1])
      BY <2>1, <2>2
    <2>4. PICK f \in [0..Len(p) -> Seq(Deltas)] : Joins(f, p)
      BY <1>2, <2>3, Zenon
    <2>5. PICK h \in [0..(Len(p) + 1) -> Seq(Deltas)] : Joins(h, Append(p, q[n + 1]))
      BY <2>1, <2>3, <2>4, JoinsOn, Zenon
    <2> QED BY <2>3, <2>5, Zenon
  <1>3. Good = Nat
    <2>1. Good \in SUBSET Nat
      BY Zenon
    <2> HIDE DEF Good
    <2> QED BY <1>1, <1>2, <2>1, GoodNumbers, Zenon
  <1>4. ASSUME NEW q \in Seq(Events) PROVE \E g \in [0..Len(q) -> Seq(Deltas)] : Joins(g, q)
    <2>1. Len(q) \in Good
      BY <1>3
    <2> QED BY <2>1, Zenon
  <1> QED BY <1>4, Zenon

LEMMA ShownAppend ==
  ASSUME NEW q \in Seq(Events), NEW e \in Events
  PROVE  /\ Shown(q) \in Seq(Deltas)
         /\ Shown(Append(q, e)) = Shown(q) \o e.text
  <1>1. PICK g \in [0..Len(q) -> Seq(Deltas)] : Joins(g, q)
    BY JoinsExist, Zenon
  <1>2. PICK p \in Seq(Events) : p = Append(q, e) /\ Len(p) = Len(q) + 1 /\ Len(q) \in Nat
    BY AppendFacts, Zenon
  <1>3. PICK h \in [0..(Len(q) + 1) -> Seq(Deltas)] :
          Joins(h, p) /\ h[Len(q) + 1] = g[Len(q)] \o e.text
    BY <1>1, <1>2, JoinsOn, Zenon
  <1>4. Shown(p) = h[Len(p)] /\ Shown(q) = g[Len(q)]
    BY <1>1, <1>2, <1>3, ShownIs, Zenon
  <1>5. g[Len(q)] \in Seq(Deltas)
    <2>1. PICK n \in Nat : n = Len(q)
      BY <1>2, Zenon
    <2>2. g \in [0..n -> Seq(Deltas)] /\ n \in 0..n
      BY <1>1, <2>1
    <2>3. g[n] \in Seq(Deltas)
      BY <2>2, Zenon
    <2> QED BY <2>1, <2>3, Zenon
  <1> QED BY <1>2, <1>3, <1>4, <1>5, Zenon

LEMMA ShownNothing == Shown(<<>>) = <<>>
  <1> DEFINE g == [k \in 0..0 |-> <<>>]
  <1>1. g = [k \in 0..Len(<<>>) |-> IF k = 0 THEN <<>> ELSE g[k - 1] \o <<>>[k].text]
    OBVIOUS
  <1>2. Joins(g, <<>>) /\ <<>> \in Seq(Events) /\ Len(<<>>) = 0 /\ g[0] = <<>>
    BY <1>1 DEF Joins
  <1> HIDE DEF g
  <1> QED BY <1>2, ShownIs, Zenon

\* Nothing that will be stored is gathered here any more.
Quiet(t) ==
  \/ t.pc \in {"idle", "replay"} \cup Ends
  \/ t.pc = "shown" /\ t.then \in {"none", "replay"}
  \/ t.pc = "releasing" /\ t.after \notin {"next", "retry"}

\* The places of an attempt whose semantic events were all shown.
UpToDate(t) ==
  t.pc \in {"reading", "recording", "storing"} \/ (t.pc = "shown" /\ t.then = "reading")

\* What a cacheable stream has collected: what it showed, and the event in
\* hand.  A failure may leave the loop before that event is shown, but then
\* something else was, and the stream is not resumed.
Gathered(t) ==
  t.cacheable =>
    /\ UpToDate(t) => t.text = Shown(t.out)
    /\ InHand(t) => t.text = Shown(t.out) \o t.event.text
    /\ ~Quiet(t) /\ t.out = <<>> => t.text = <<>>

LEMMA QuietGathered ==
  ASSUME NEW t, Quiet(t)
  PROVE  Gathered(t)
  BY Zenon DEF Quiet, Gathered, UpToDate, InHand, Ends

\* A step that changes neither the texts nor what was shown.
LEMMA StillGathered ==
  ASSUME NEW t, NEW u, u.cacheable = t.cacheable, u.text = t.text, u.out = t.out,
         Gathered(t), ~Quiet(t), ~InHand(u), UpToDate(u) => UpToDate(t)
  PROVE  Gathered(u)
  BY Zenon DEF Gathered

\* The same of a step that follows an attempt which has shown nothing.
LEMMA SilentGathered ==
  ASSUME NEW t, NEW u, u.cacheable = t.cacheable, u.text = t.text, u.out = t.out,
         Gathered(t), ~Quiet(t), t.out = <<>>, ~InHand(u)
  PROVE  Gathered(u)
  BY ShownNothing, Zenon DEF Gathered

LEMMA FinalQuiet ==
  ASSUME NEW t, DOMAIN t = Names, NEW why \in Ends \cup {"deadline"}
  PROVE  Quiet(Final(t, why))
  BY Zenon DEF Final, Quiet, Names, Ends

LEMMA LeavingQuiet ==
  ASSUME NEW t, DOMAIN t = Names, NEW what \in Ends \cup {"deadline"}
  PROVE  Quiet(Leaving(t, what))
  BY Zenon DEF Leaving, Quiet, Names, Ends

LEMMA AbortedQuiet ==
  ASSUME NEW t, DOMAIN t = Names, NEW why \in Ends \cup {"deadline"}
  PROVE  Quiet(Aborted(t, why))
  <1>1. DOMAIN Invalidated(t) = Names
    BY Zenon DEF Invalidated
  <1> QED BY <1>1, FinalQuiet, LeavingQuiet, Zenon DEF Aborted

LEMMA DeliveredQuiet ==
  ASSUME NEW t, DOMAIN t = Names, NEW e, NEW then \in {"none", "replay"}
  PROVE  Quiet(Delivered(t, e, then))
  <1>1. CASE Expired
    BY <1>1, AbortedQuiet, Zenon DEF Delivered
  <1>2. CASE ~Expired
    BY <1>2, Zenon DEF Delivered, Quiet, Names
  <1> QED BY <1>1, <1>2, Zenon

\* An event that is shown is gathered with what comes after it.
LEMMA DeliveredGathered ==
  ASSUME NEW t \in Streams, DOMAIN t = Names, NEW e \in Events,
         NEW then \in {"reading", "checking"},
         t.cacheable => t.text = (Shown(t.out) \o e.text) \o
                                   (IF then = "reading" THEN <<>> ELSE t.event.text)
  PROVE  Gathered(Delivered(t, e, then))
  <1>1. CASE Expired
    BY <1>1, AbortedQuiet, QuietGathered, Zenon DEF Delivered
  <1>2. CASE ~Expired
    <2>1. PICK u : u = Delivered(t, e, then)
      BY Zenon
    <2>2. /\ u.pc = "shown" /\ u.then = then /\ u.out = Append(t.out, e) /\ u.text = t.text
          /\ u.cacheable = t.cacheable /\ u.event = t.event
      BY <1>2, <2>1, Zenon DEF Delivered, Names
    <2>3. t.out \in Seq(Events) /\ e.text \in Seq(Deltas) /\ t.text \in Seq(Deltas)
      BY Zenon DEF Streams, Events
    <2>4. /\ Shown(t.out) \in Seq(Deltas) /\ Shown(u.out) = Shown(t.out) \o e.text
          /\ u.out # <<>>
      <3>1. Shown(t.out) \in Seq(Deltas) /\ Shown(Append(t.out, e)) = Shown(t.out) \o e.text
        BY <2>3, ShownAppend, Zenon
      <3>2. Append(t.out, e) # <<>>
        BY <2>3, AppendFacts
      <3> QED BY <2>2, <3>1, <3>2, Zenon
    <2>5. Shown(u.out) \in Seq(Deltas)
      BY <2>3, <2>4
    <2>6. Shown(u.out) \o <<>> = Shown(u.out)
      BY <2>5
    <2>7. u.cacheable => u.text = Shown(u.out) \o (IF then = "reading" THEN <<>> ELSE u.event.text)
      BY <2>2, <2>4, Zenon
    <2>8. Gathered(u)
      <3>1. CASE then = "reading"
        BY <2>2, <2>4, <2>6, <2>7, <3>1, Zenon DEF Gathered, UpToDate, InHand
      <3>2. CASE then = "checking"
        BY <2>2, <2>4, <2>7, <3>2, Zenon DEF Gathered, UpToDate, InHand
      <3> QED BY <3>1, <3>2, Zenon
    <2> QED BY <2>1, <2>8, Zenon
  <1> QED BY <1>1, <1>2, Zenon

LEMMA HandledGathered ==
  ASSUME NEW t, DOMAIN t = Names, Gathered(t), ~Quiet(t), NEW transient
  PROVE  Gathered(Handled(t, transient))
  <1>1. CASE Expired
    BY <1>1, LeavingQuiet, QuietGathered, Zenon DEF Handled
  <1>2. CASE ~Expired
    <2>1. PICK u : u = Handled(t, transient)
      BY Zenon
    <2>2. u.pc = "reporting" /\ u.text = t.text /\ u.out = t.out /\ u.cacheable = t.cacheable
      BY <1>2, <2>1, Zenon DEF Handled, Sampled, Names
    <2>3. ~InHand(u) /\ ~UpToDate(u)
      BY <2>2, Zenon DEF InHand, UpToDate
    <2> QED BY <2>1, <2>2, <2>3, StillGathered, Zenon
  <1> QED BY <1>1, <1>2, Zenon

LEMMA AdvancedGathered ==
  ASSUME NEW t, DOMAIN t = Names, Gathered(t), ~Quiet(t)
  PROVE  Gathered(Advanced(t))
  <1>1. PICK u : u = Advanced(t)
    BY Zenon
  <1>2. CASE t.i < Len(t.order)
    <2>1. u.pc = "head" /\ u.text = t.text /\ u.out = t.out /\ u.cacheable = t.cacheable
      BY <1>1, <1>2, Zenon DEF Advanced, Names
    <2>2. ~InHand(u) /\ ~UpToDate(u)
      BY <2>1, Zenon DEF InHand, UpToDate
    <2> QED BY <1>1, <2>1, <2>2, StillGathered, Zenon
  <1>3. CASE ~(t.i < Len(t.order))
    <2>1. DOMAIN [t EXCEPT !.after = "none"] = Names
      BY Zenon
    <2> QED BY <1>3, <2>1, DeliveredQuiet, QuietGathered, Zenon DEF Advanced
  <1> QED BY <1>2, <1>3, Zenon

\* Tick, and the steps before the attempt loop.
LEMMA EntryGathered ==
  ASSUME Sound(s), WellFormed(s), Gathered(s),
         \/ Tick \/ Open \/ Replay \/ Begin \/ Wake
         \/ \E reachable \in BOOLEAN : Lookup(reachable)
  PROVE  Gathered(s')
  <1>1. DOMAIN s = Names
    BY SoundFacts, Zenon
  <1>2. ASSUME s.pc \in {"prepared", "lookup", "head", "sleeping"},
               s'.pc \in {"lookup", "head", "admitting"}, s'.text = s.text, s'.out = s.out,
               s'.cacheable = s.cacheable
        PROVE  Gathered(s')
    <2>1. ~Quiet(s) /\ ~InHand(s') /\ ~UpToDate(s')
      BY <1>2, Zenon DEF Quiet, InHand, UpToDate, Ends
    <2> QED BY <1>2, <2>1, StillGathered, Zenon
  <1>3. CASE Tick
    <2>1. /\ s'.pc = s.pc /\ s'.text = s.text /\ s'.out = s.out /\ s'.cacheable = s.cacheable
          /\ s'.event = s.event /\ s'.then = s.then /\ s'.after = s.after
      BY <1>1, <1>3, Zenon DEF Tick, Names
    <2> QED BY <2>1, Zenon DEF Gathered, Quiet, UpToDate, InHand
  <1>4. CASE Open
    <2>1. CASE Expired
      BY <1>1, <1>4, <2>1, FinalQuiet, QuietGathered, Zenon DEF Open
    <2>2. CASE ~Expired
      BY <1>1, <1>2, <1>4, <2>2, Zenon DEF Open, Names
    <2> QED BY <2>1, <2>2, Zenon
  <1>5. CASE Replay
    <2>1. DOMAIN [s EXCEPT !.queue = Tail(@)] = Names
      BY <1>1, Zenon
    <2> QED BY <1>5, <2>1, DeliveredQuiet, QuietGathered, Zenon DEF Replay
  <1>6. CASE Begin
    <2>1. CASE Expired
      BY <1>1, <1>6, <2>1, FinalQuiet, QuietGathered, Zenon DEF Begin
    <2>2. CASE ~Expired
      BY <1>1, <1>2, <1>6, <2>2, Zenon DEF Begin, Names
    <2> QED BY <2>1, <2>2, Zenon
  <1>7. CASE Wake
    BY <1>1, <1>2, <1>7, Zenon DEF Wake, Names
  <1>8. ASSUME NEW reachable \in BOOLEAN, Lookup(reachable) PROVE Gathered(s')
    <2>1. CASE ~reachable
      BY <1>1, <1>8, <2>1, FinalQuiet, QuietGathered, Zenon DEF Lookup, Ends
    <2>2. CASE reachable /\ Serves(cache, s.order[1])
      <3> DEFINE q == CachedEvents(cache)
                 u == [s EXCEPT !.queue = Tail(q)]
      <3>1. s' = Delivered(u, Head(q), "replay")
        BY <1>8, <2>2, Zenon DEF Lookup
      <3>2. DOMAIN u = Names
        BY <1>1, Zenon
      <3> QED BY <3>1, <3>2, DeliveredQuiet, QuietGathered, Zenon
    <2>3. CASE reachable /\ ~Serves(cache, s.order[1])
      <3>1. s.pc = "lookup" /\ s' = [s EXCEPT !.pc = "head"]
        BY <1>8, <2>3, Zenon DEF Lookup
      <3> QED BY <1>1, <1>2, <3>1, Zenon DEF Names
    <2> QED BY <2>1, <2>2, <2>3, Zenon
  <1> QED BY <1>3, <1>4, <1>5, <1>6, <1>7, <1>8, Zenon

LEMMA PrepareGathered ==
  ASSUME NEW order, NEW safe, NEW cacheable, NEW resolved, Prepare(order, safe, cacheable, resolved)
  PROVE  Gathered(s')
  <1>1. s'.pc \in {"rejected", "prepared"} /\ s'.text = <<>>
    BY Zenon DEF Prepare, Idle
  <1> QED BY <1>1, Zenon DEF Gathered, UpToDate, InHand

LEMMA AdmitGathered ==
  ASSUME Sound(s), WellFormed(s), Gathered(s), NEW answer, Admit(answer)
  PROVE  Gathered(s')
  <1> DEFINE t == [s EXCEPT !.held = TRUE, !.probe = answer = "probe", !.routing = Candidate(s)]
  <1>1. DOMAIN s = Names /\ s.pc = "admitting" /\ s.out = <<>>
    BY SoundFacts, Zenon DEF Admit, Silent
  <1>2. ~Quiet(s)
    BY <1>1, Zenon DEF Quiet, Ends
  <1>3. DOMAIN t = Names
    BY <1>1, Zenon
  <1>4. CASE answer = "refused"
    BY <1>1, <1>2, <1>4, AdvancedGathered, Zenon DEF Admit
  <1>5. CASE answer # "refused" /\ Expired
    <2>1. s' = Leaving(t, "deadline")
      BY <1>5, Zenon DEF Admit
    <2> HIDE DEF t
    <2> QED BY <1>3, <2>1, LeavingQuiet, QuietGathered, Zenon
  <1>6. CASE answer # "refused" /\ ~Expired
    <2>1. s' = [t EXCEPT !.pc = "reading", !.unaccounted = TRUE]
      BY <1>6, Zenon DEF Admit
    <2>2. /\ s'.pc = "reading" /\ s'.out = s.out /\ s'.text = s.text /\ s'.cacheable = s.cacheable
      BY <1>1, <2>1, Zenon DEF Names
    <2>3. ~InHand(s')
      BY <2>2, Zenon DEF InHand
    <2> QED BY <1>1, <1>2, <2>2, <2>3, SilentGathered, Zenon
  <1> QED BY <1>4, <1>5, <1>6, Zenon

LEMMA ReceivedSemanticGathered ==
  ASSUME s \in Streams, DOMAIN s = Names, s.pc = "reading", Gathered(s), Counts(s),
         NEW e \in Events
  PROVE  Gathered(ReceivedSemantic(s, e))
  <1> DEFINE x == Collected(s, e)
             u == [s EXCEPT !.semantic = TRUE, !.text = x, !.event = e]
             v == [u EXCEPT !.public = TRUE, !.sequence = 1]
             a == Event("response.started", 1)
             b == [a EXCEPT !.by = s.routing]
  <1>1. s.out \in Seq(Events) /\ e.text \in Seq(Deltas) /\ s.text \in Seq(Deltas)
    BY Zenon DEF Streams, Events
  <1>2. s.cacheable => s.text = Shown(s.out) /\ x = Shown(s.out) \o e.text
    BY Zenon DEF Gathered, UpToDate, Collected
  <1> HIDE DEF x
  <1>3. CASE s.public
    <2>1. ReceivedSemantic(s, e) = [u EXCEPT !.pc = "checking"]
      BY <1>3, Zenon DEF ReceivedSemantic, x
    <2>2. PICK w : w = [u EXCEPT !.pc = "checking"]
      BY Zenon
    <2>3. /\ w.pc = "checking" /\ w.text = x /\ w.event = e /\ w.out = s.out
          /\ w.cacheable = s.cacheable
      BY <2>2, Zenon DEF Names
    <2>4. s.out # <<>>
      BY <1>3, Zenon DEF Counts
    <2>5. Gathered(w)
      BY <1>2, <2>3, <2>4, Zenon DEF Gathered, UpToDate, InHand
    <2> QED BY <2>1, <2>2, <2>5, Zenon
  <1>4. CASE ~s.public
    <2>1. ReceivedSemantic(s, e) = Delivered(v, b, "checking")
      BY <1>4, Zenon DEF ReceivedSemantic, x
    <2>2. x \in Seq(Deltas)
      BY <1>1 DEF x, Collected
    <2>3. u \in Streams
      BY <2>2, Zenon DEF Streams
    <2>4. DOMAIN u = Names /\ u.text = x /\ u.event = e /\ u.out = s.out /\ u.cacheable = s.cacheable
      BY Zenon DEF Names
    <2> HIDE DEF u
    <2>5. v \in Streams
      <3>1. 1 \in 0..MaxSequence + 1
        BY StreamingAssumption
      <3> QED BY <2>3, <3>1, Zenon DEF Streams
    <2>6. DOMAIN v = Names /\ v.text = x /\ v.event = e /\ v.out = s.out /\ v.cacheable = s.cacheable
      BY <2>4, Zenon DEF Names
    <2> HIDE DEF v
    <2>7. a \in Events /\ a.text = <<>>
      BY EventTyped, EventFacts, Zenon
    <2> HIDE DEF a
    <2>8. b \in Events
      <3>1. s.routing \in Deployments \cup {NoDeployment}
        BY Zenon DEF Streams
      <3> QED BY <2>7, <3>1, Zenon DEF Events
    <2>9. b.text = <<>>
      BY <2>7, Zenon DEF Events
    <2> HIDE DEF b
    <2>10. Shown(s.out) \o <<>> = Shown(s.out)
      <3>1. Shown(s.out) \in Seq(Deltas)
        BY <1>1, ShownAppend, Zenon
      <3> QED BY <3>1
    <2>11. v.cacheable => v.text = (Shown(v.out) \o b.text) \o
                                     (IF "checking" = "reading" THEN <<>> ELSE v.event.text)
      BY <1>2, <2>6, <2>9, <2>10, Zenon
    <2> QED BY <2>1, <2>5, <2>6, <2>8, <2>11, DeliveredGathered, Zenon
  <1> QED BY <1>3, <1>4, Zenon

\* The provider's events and the ways its stream breaks.
LEMMA ReceiveGathered ==
  ASSUME Sound(s), WellFormed(s), Gathered(s), NEW text \in Seq(Deltas),
         NEW type \in {"response.started", "usage.completed", "response.completed", "unknown"}
                        \cup Semantic,
         Receive(type, text)
  PROVE  Gathered(s')
  <1>1. s.pc = "reading" /\ s \in Streams /\ DOMAIN s = Names /\ Counts(s) /\ s.out \in Seq(Events)
    BY ReadingFacts, SoundFacts, Zenon DEF Receive
  <1>2. ~Quiet(s) /\ UpToDate(s)
    BY <1>1, Zenon DEF Quiet, UpToDate, Ends
  <1>3. CASE Expired
    <2>1. s' = Aborted(s, "deadline")
      BY <1>3, Zenon DEF Receive
    <2> QED BY <1>1, <2>1, AbortedQuiet, QuietGathered, Zenon
  <1>4. CASE ~Expired /\ Invalid(s, type)
    <2>1. s' = Handled(s, FALSE)
      BY <1>4, Zenon DEF Receive
    <2> QED BY <1>1, <1>2, <2>1, HandledGathered, Zenon
  <1>5. CASE ~Expired /\ ~Invalid(s, type) /\ type \in {"response.started", "response.completed"}
    <2>1. s' = [s EXCEPT !.started = TRUE] \/ s' = [s EXCEPT !.pc = "recording"]
      BY <1>5, Zenon DEF Receive, Semantic
    <2>2. /\ s'.pc \in {"reading", "recording"} /\ s'.text = s.text /\ s'.out = s.out
          /\ s'.cacheable = s.cacheable
      BY <1>1, <2>1, Zenon DEF Names
    <2>3. ~InHand(s')
      BY <2>2, Zenon DEF InHand
    <2> QED BY <1>2, <2>2, <2>3, StillGathered, Zenon
  <1>6. CASE ~Expired /\ ~Invalid(s, type) /\ type \in Semantic
    <2> DEFINE a == Event(type, 0)
               e == [a EXCEPT !.text = text]
    <2>1. s' = ReceivedSemantic(s, e)
      BY <1>6, Zenon DEF Receive, Semantic
    <2>2. a \in Events
      BY <1>6, EventTyped, Zenon
    <2> HIDE DEF a
    <2>3. e \in Events
      BY <2>2, Zenon DEF Events
    <2> HIDE DEF e
    <2> QED BY <1>1, <2>1, <2>3, ReceivedSemanticGathered, Zenon
  <1>7. CASE ~Expired /\ ~Invalid(s, type) /\ type = "usage.completed"
    <2> DEFINE k == s.sequence + 1
               u == [s EXCEPT !.usage = TRUE, !.sequence = k]
               e == Event("usage.completed", k)
    <2>1. s' = Delivered(u, e, "reading") /\ s.sequence < MaxSequence
      BY <1>7, Zenon DEF Receive, Semantic
    <2>2. k \in 0..MaxSequence + 1 /\ k \in Nat
      BY <1>1, <2>1, StreamingAssumption DEF Streams, Counts
    <2> HIDE DEF k
    <2>3. u \in Streams
      BY <1>1, <2>2, Zenon DEF Streams
    <2>4. DOMAIN u = Names /\ u.text = s.text /\ u.out = s.out /\ u.cacheable = s.cacheable
      BY <1>1, Zenon DEF Names
    <2> HIDE DEF u
    <2>5. e \in Events /\ e.text = <<>>
      BY <2>2, EventTyped, EventFacts, Zenon
    <2> HIDE DEF e
    <2>6. Shown(s.out) \in Seq(Deltas)
      BY <1>1, <2>5, ShownAppend, Zenon
    <2>7. (Shown(s.out) \o <<>>) \o <<>> = Shown(s.out)
      BY <2>6
    <2>8. s.cacheable => s.text = Shown(s.out)
      BY <1>2, Zenon DEF Gathered
    <2>9. u.cacheable => u.text = (Shown(u.out) \o e.text) \o
                                    (IF "reading" = "reading" THEN <<>> ELSE u.event.text)
      BY <2>4, <2>5, <2>7, <2>8, Zenon
    <2> QED BY <2>1, <2>3, <2>4, <2>5, <2>9, DeliveredGathered, Zenon
  <1>8. type \in {"response.started", "usage.completed", "response.completed"} \cup Semantic
          \/ Invalid(s, type)
    BY Zenon DEF Invalid
  <1> QED BY <1>3, <1>4, <1>5, <1>6, <1>7, <1>8, Zenon

LEMMA BrokenGathered ==
  ASSUME Sound(s), WellFormed(s), Gathered(s), Raise \/ \E transient \in BOOLEAN : Fail(transient)
  PROVE  Gathered(s')
  <1>1. s.pc = "reading" /\ DOMAIN s = Names
    BY SoundFacts, Zenon DEF Raise, Fail
  <1>2. ~Quiet(s)
    BY <1>1, Zenon DEF Quiet, Ends
  <1>3. CASE Raise
    <2>1. s' = Leaving(Invalidated(s), "error") /\ DOMAIN Invalidated(s) = Names
      BY <1>1, <1>3, Zenon DEF Raise, Invalidated
    <2> QED BY <2>1, LeavingQuiet, QuietGathered, Zenon DEF Ends
  <1>4. CASE \E transient \in BOOLEAN : Fail(transient)
    BY <1>1, <1>2, <1>4, HandledGathered, Zenon DEF Fail
  <1> QED BY <1>3, <1>4, Zenon

LEMMA CheckGathered ==
  ASSUME Sound(s), WellFormed(s), Gathered(s), NEW admitted \in BOOLEAN, Check(admitted)
  PROVE  Gathered(s')
  <1> DEFINE k == s.sequence + 1
             u == [s EXCEPT !.sequence = k, !.event = NoEvent]
             e == [s.event EXCEPT !.sequence = k]
  <1>1. s.pc = "checking" /\ InAttempt(s) /\ InHand(s) /\ ~Quiet(s) /\ DOMAIN s = Names
    BY SoundFacts, Zenon DEF Check, InAttempt, InHand, Ends, Quiet
  <1>2. s \in Streams /\ Counts(s) /\ s.sequence < MaxSequence
    BY <1>1, WellFacts, Zenon DEF WellFormed, Holding
  <1>3. s.out \in Seq(Events) /\ s.event \in Events
    BY <1>2, Zenon DEF Streams
  <1>4. CASE s.probe /\ ~admitted
    <2>1. s' = Handled(s, TRUE)
      BY <1>4, Zenon DEF Check
    <2> QED BY <1>1, <2>1, HandledGathered, Zenon
  <1>5. CASE ~(s.probe /\ ~admitted)
    <2>1. s' = Delivered(u, e, "reading")
      BY <1>5, Zenon DEF Check
    <2>2. k \in 0..MaxSequence + 1 /\ k \in Nat
      BY <1>2, StreamingAssumption DEF Streams, Counts
    <2> HIDE DEF k
    <2>3. u \in Streams
      <3>1. NoEvent \in Events
        BY EventTyped, Zenon DEF NoEvent, Semantic
      <3> QED BY <1>2, <2>2, <3>1, Zenon DEF Streams
    <2>4. DOMAIN u = Names /\ u.text = s.text /\ u.out = s.out /\ u.cacheable = s.cacheable
      BY <1>1, Zenon DEF Names
    <2> HIDE DEF u
    <2>5. e \in Events
      BY <1>3, <2>2, Zenon DEF Events
    <2>6. e.text = s.event.text /\ e.text \in Seq(Deltas)
      BY <1>3, Zenon DEF Events
    <2> HIDE DEF e
    <2>7. Shown(s.out) \in Seq(Deltas)
      BY <1>3, <2>5, ShownAppend, Zenon
    <2>8. (Shown(s.out) \o e.text) \o <<>> = Shown(s.out) \o e.text
      BY <2>6, <2>7
    <2>9. s.cacheable => s.text = Shown(s.out) \o e.text
      BY <1>1, <2>6, Zenon DEF Gathered
    <2>10. u.cacheable => u.text = (Shown(u.out) \o e.text) \o
                                     (IF "reading" = "reading" THEN <<>> ELSE u.event.text)
      BY <2>4, <2>8, <2>9, Zenon
    <2> QED BY <2>1, <2>3, <2>4, <2>5, <2>10, DeliveredGathered, Zenon
  <1> QED BY <1>4, <1>5, Zenon

LEMMA CompleteGathered ==
  ASSUME Sound(s), WellFormed(s), Gathered(s), NEW yes \in BOOLEAN, RecordSuccess(yes) \/ Store(yes)
  PROVE  Gathered(s')
  <1>1. s.pc \in {"recording", "storing"} /\ DOMAIN s = Names
    BY SoundFacts, Zenon DEF RecordSuccess, Store
  <1>2. ~Quiet(s) /\ UpToDate(s)
    BY <1>1, Zenon DEF Quiet, UpToDate, Ends
  <1>3. CASE RecordSuccess(yes)
    <2>1. CASE s.probe /\ ~yes
      <3>1. s' = Handled(s, TRUE)
        BY <1>3, <2>1, Zenon DEF RecordSuccess
      <3> QED BY <1>1, <1>2, <3>1, HandledGathered, Zenon
    <2>2. CASE ~(s.probe /\ ~yes)
      <3>1. s' = [Sampled(s) EXCEPT !.pc = "storing"]
        BY <1>3, <2>2, Zenon DEF RecordSuccess
      <3>2. s'.pc = "storing" /\ s'.text = s.text /\ s'.out = s.out /\ s'.cacheable = s.cacheable
        BY <1>1, <3>1, Zenon DEF Sampled, Names
      <3>3. ~InHand(s')
        BY <3>2, Zenon DEF InHand
      <3> QED BY <1>2, <3>2, <3>3, StillGathered, Zenon
    <2> QED BY <2>1, <2>2, Zenon
  <1>4. CASE Store(yes)
    <2> DEFINE u == [s EXCEPT !.sequence = @ + 1]
               e == [Event("response.completed", s.sequence + 1)
                       EXCEPT !.by = s.routing, !.execution = Candidate(s)]
    <2>1. s' = Delivered(u, e, "none")
      BY <1>4, Zenon DEF Store
    <2>2. DOMAIN u = Names
      BY <1>1, Zenon
    <2> HIDE DEF u, e
    <2> QED BY <2>1, <2>2, DeliveredQuiet, QuietGathered, Zenon
  <1> QED BY <1>3, <1>4, Zenon

\* A failure past the boundary is delivered; before it, nothing was collected.
LEMMA RecordFailureGathered ==
  ASSUME Sound(s), WellFormed(s), Gathered(s), RecordFailure
  PROVE  Gathered(s')
  <1> DEFINE t == [s EXCEPT !.execution = Candidate(s)]
  <1>1. s.pc = "reporting" /\ InAttempt(s) /\ DOMAIN s = Names /\ s' = Reported(t)
    BY SoundFacts, Zenon DEF RecordFailure, InAttempt, Attempting
  <1>2. Counts(s) /\ ~Quiet(s)
    BY <1>1, WellFacts, Zenon DEF Quiet, Ends
  <1>3. /\ DOMAIN t = Names /\ t.out = s.out /\ t.text = s.text /\ t.cacheable = s.cacheable
        /\ t.semantic = s.semantic
    BY <1>1, Zenon DEF Names
  <1> HIDE DEF t
  <1>4. ASSUME s'.out = t.out, s'.text = t.text, s'.cacheable = t.cacheable, ~t.semantic,
               s'.pc \in {"deciding", "releasing"}
        PROVE  Gathered(s')
    <2>1. s.out = <<>>
      BY <1>2, <1>3, <1>4, Zenon DEF Counts
    <2>2. ~InHand(s')
      BY <1>4, Zenon DEF InHand
    <2> QED BY <1>2, <1>3, <1>4, <2>1, <2>2, SilentGathered, Zenon
  <1>5. CASE t.semantic
    <2> DEFINE u == [t EXCEPT !.sequence = @ + 1]
    <2>1. s' = Delivered(u, Failed(t, t.sequence + 1, TRUE), "none")
      BY <1>1, <1>5, Zenon DEF Reported
    <2>2. DOMAIN u = Names
      BY <1>3, Zenon
    <2> HIDE DEF u
    <2> QED BY <2>1, <2>2, DeliveredQuiet, QuietGathered, Zenon
  <1>6. CASE ~t.semantic /\ t.transient /\ MayRetry(t)
    <2>1. s' = [t EXCEPT !.pc = "deciding"]
      BY <1>1, <1>6, Zenon DEF Reported
    <2> QED BY <1>3, <1>4, <1>6, <2>1, Zenon DEF Names
  <1>7. CASE ~t.semantic /\ t.transient /\ ~MayRetry(t)
    <2>1. s' = Leaving(t, "next")
      BY <1>1, <1>7, Zenon DEF Reported
    <2> QED BY <1>3, <1>4, <1>7, <2>1, Zenon DEF Leaving, Names
  <1>8. CASE ~t.semantic /\ ~t.transient
    <2>1. s' = Delivered(t, Failed(t, 1, FALSE), "none")
      BY <1>1, <1>8, Zenon DEF Reported
    <2> QED BY <1>3, <2>1, DeliveredQuiet, QuietGathered, Zenon
  <1> QED BY <1>5, <1>6, <1>7, <1>8, Zenon

LEMMA DecideGathered ==
  ASSUME Sound(s), Gathered(s), NEW open \in BOOLEAN, Decide(open)
  PROVE  Gathered(s')
  <1>1. s.pc = "deciding" /\ DOMAIN s = Names
    BY SoundFacts, Zenon DEF Decide
  <1>2. PICK what : s' = Leaving(s, what)
    BY Zenon DEF Decide
  <1>3. s'.pc = "releasing" /\ s'.text = s.text /\ s'.out = s.out /\ s'.cacheable = s.cacheable
    BY <1>1, <1>2, Zenon DEF Leaving, Names
  <1>4. ~Quiet(s) /\ ~InHand(s') /\ ~UpToDate(s')
    BY <1>1, <1>3, Zenon DEF Quiet, InHand, UpToDate, Ends
  <1> QED BY <1>3, <1>4, StillGathered, Zenon

LEMMA ReleaseGathered ==
  ASSUME Sound(s), WellFormed(s), Gathered(s), NEW reachable \in BOOLEAN, Release(reachable)
  PROVE  Gathered(s')
  <1> DEFINE t == [s EXCEPT !.held = FALSE, !.probe = FALSE]
  <1>1. s.pc = "releasing" /\ DOMAIN s = Names /\ s.after \in {"next", "retry", "deadline"} \cup Ends
    BY SoundFacts, Zenon DEF Release, Leads, WellFormed, Ending
  <1>2. /\ DOMAIN t = Names /\ t.pc = "releasing" /\ t.after = s.after /\ t.out = s.out
        /\ t.text = s.text /\ t.cacheable = s.cacheable
    BY <1>1, Zenon DEF Names
  <1>3. ASSUME NEW why \in Ends \cup {"deadline"}, s' = Final(t, why)
        PROVE  Gathered(s')
    <2> HIDE DEF t
    <2> QED BY <1>2, <1>3, FinalQuiet, QuietGathered, Zenon
  <1>4. CASE reachable /\ s.after = "next"
    <2>1. s' = Advanced(t)
      BY <1>4, Zenon DEF Release
    <2> HIDE DEF t
    <2>2. ~Quiet(t) /\ Gathered(t)
      BY <1>1, <1>2, <1>4, Zenon DEF Gathered, Quiet, UpToDate, InHand, Ends
    <2> QED BY <1>2, <2>1, <2>2, AdvancedGathered, Zenon
  <1>5. CASE reachable /\ s.after = "retry" /\ ~Expired
    <2>1. s' = [t EXCEPT !.pc = "sleeping", !.after = "none"]
      BY <1>5, Zenon DEF Release
    <2>2. s'.pc = "sleeping" /\ s'.text = s.text /\ s'.out = s.out /\ s'.cacheable = s.cacheable
      BY <1>1, <2>1, Zenon DEF Names
    <2>3. ~Quiet(s) /\ ~InHand(s') /\ ~UpToDate(s')
      BY <1>1, <1>5, <2>2, Zenon DEF Quiet, InHand, UpToDate, Ends
    <2> QED BY <2>2, <2>3, StillGathered, Zenon
  <1>6. CASE ~(reachable /\ (s.after = "next" \/ (s.after = "retry" /\ ~Expired)))
    <2>1. \E why \in Ends \cup {"deadline"} : s' = Final(t, why)
      <3>1. CASE ~reachable /\ s.after \in {"next", "retry", "error"}
        <4>1. s' = Final(t, "error")
          BY <3>1, Zenon DEF Release
        <4> QED BY <4>1, Zenon DEF Ends
      <3>2. CASE reachable /\ s.after = "retry"
        <4>1. s' = Final(t, "deadline")
          BY <1>6, <3>2, Zenon DEF Release
        <4> QED BY <4>1, Zenon
      <3>3. CASE s.after \notin {"next", "retry"} /\ ~(~reachable /\ s.after = "error")
        <4>1. s' = Final(t, s.after)
          BY <3>3, Zenon DEF Release
        <4> QED BY <1>1, <3>3, <4>1, Zenon
      <3> QED BY <1>6, <3>1, <3>2, <3>3, Zenon
    <2> QED BY <1>3, <2>1, Zenon
  <1> QED BY <1>4, <1>5, <1>6, Zenon

LEMMA TrackerFailsGathered ==
  ASSUME Sound(s), TrackerFails
  PROVE  Gathered(s')
  <1>1. DOMAIN s = Names /\ DOMAIN Invalidated(s) = Names
    BY SoundFacts, Zenon DEF Invalidated
  <1>2. \/ s' = Final(s, "error") \/ s' = Leaving(Invalidated(s), "error")
        \/ s' = Leaving(s, "error")
    BY Zenon DEF TrackerFails
  <1> QED BY <1>1, <1>2, FinalQuiet, LeavingQuiet, QuietGathered, Zenon DEF Ends

\* The consumer reads on, leaves, or is interrupted.
LEMMA ConsumerGathered ==
  ASSUME Sound(s), WellFormed(s), Gathered(s),
         \/ Pull \/ Close
         \/ \E why \in {"cancelled", "deadline"}, written \in BOOLEAN : Interrupt(why, written)
  PROVE  Gathered(s')
  <1>1. DOMAIN s = Names /\ s.then \in {"none", "reading", "checking", "replay"}
    BY SoundFacts, Zenon DEF Leads
  <1>2. ASSUME NEW why \in Ends \cup {"deadline"}, s' = Aborted(s, why)
        PROVE  Gathered(s')
    BY <1>1, <1>2, AbortedQuiet, QuietGathered, Zenon
  <1>3. CASE Pull
    <2>1. s.pc = "shown"
      BY <1>3, Zenon DEF Pull
    <2>2. CASE Last(s.out).type \in Terminal \/ Expired
      <3>1. s' = Aborted(s, "ended") \/ s' = Aborted(s, "deadline")
        BY <1>3, <2>2, Zenon DEF Pull
      <3> QED BY <1>2, <3>1, Zenon DEF Ends
    <2>3. CASE Last(s.out).type \notin Terminal /\ ~Expired
      <3>1. s' = [s EXCEPT !.pc = s.then, !.then = "none"]
        BY <1>3, <2>3, Zenon DEF Pull
      <3>2. /\ s'.pc = s.then /\ s'.text = s.text /\ s'.out = s.out /\ s'.cacheable = s.cacheable
            /\ s'.event = s.event
        BY <1>1, <3>1, Zenon DEF Names
      <3>3. s.then = "none" => s.out # <<>>
        <4>1. s.then = "none" => Has(s.out, Terminal)
          BY <2>1, Zenon DEF WellFormed, Ending
        <4> QED BY <4>1, NothingShown, Zenon
      <3> QED BY <1>1, <2>1, <3>2, <3>3, Zenon DEF Gathered, Quiet, UpToDate, InHand, Ends
    <2> QED BY <2>2, <2>3, Zenon
  <1>4. CASE Close
    BY <1>2, <1>4, Zenon DEF Close, Ends
  <1>5. ASSUME NEW why \in {"cancelled", "deadline"}, NEW written \in BOOLEAN,
               Interrupt(why, written)
        PROVE  Gathered(s')
    <2> DEFINE t == [s EXCEPT !.held = FALSE, !.probe = FALSE]
    <2>1. s' = Final(t, why) \/ s' = Aborted(s, why)
      BY <1>5, Zenon DEF Interrupt
    <2>2. DOMAIN t = Names /\ why \in Ends \cup {"deadline"}
      BY <1>1, Zenon DEF Ends
    <2> HIDE DEF t
    <2> QED BY <1>2, <2>1, <2>2, FinalQuiet, QuietGathered, Zenon
  <1> QED BY <1>3, <1>4, <1>5, Zenon

LEMMA NextGathered ==
  ASSUME LifecycleInv, Gathered(s), [Next]_vars
  PROVE  Gathered(s')
  <1>1. Sound(s) /\ WellFormed(s)
    BY Zenon DEF LifecycleInv
  <1>2. CASE UNCHANGED vars
    BY <1>2, Zenon DEF vars
  <1>3. CASE Next
    <2>1. ASSUME NEW order \in Orders, NEW safe \in BOOLEAN, NEW cacheable \in BOOLEAN,
                 NEW resolved \in BOOLEAN, Prepare(order, safe, cacheable, resolved)
          PROVE  Gathered(s')
      BY <2>1, PrepareGathered, Zenon
    <2>2. ASSUME NEW type \in {"response.started", "usage.completed", "response.completed",
                              "unknown", "tool_call"},
                 Receive(type, <<>>)
          PROVE  Gathered(s')
      <3>1. <<>> \in Seq(Deltas)
        OBVIOUS
      <3> QED BY <1>1, <2>2, <3>1, ReceiveGathered, Zenon DEF Semantic
    <2>3. ASSUME NEW delta \in Deltas, Receive("content.delta", <<delta>>)
          PROVE  Gathered(s')
      <3>1. <<delta>> \in Seq(Deltas)
        OBVIOUS
      <3> QED BY <1>1, <2>3, <3>1, ReceiveGathered, Zenon DEF Semantic
    <2>4. ASSUME Raise \/ \E transient \in BOOLEAN : Fail(transient) PROVE Gathered(s')
      BY <1>1, <2>4, BrokenGathered, Zenon
    <2>5. ASSUME Work PROVE Gathered(s')
      BY <1>1, <2>5, EntryGathered, RecordFailureGathered, ConsumerGathered, AdmitGathered,
         CheckGathered, CompleteGathered, DecideGathered, ReleaseGathered, Zenon DEF Work
    <2>6. ASSUME \/ Tick \/ TrackerFails \/ Close
                 \/ \E why \in {"cancelled", "deadline"}, written \in BOOLEAN :
                      Interrupt(why, written)
          PROVE  Gathered(s')
      BY <1>1, <2>6, EntryGathered, TrackerFailsGathered, ConsumerGathered, Zenon
    <2>7. Evict => s' = s
      BY Zenon DEF Evict
    <2> QED BY <1>3, <2>1, <2>2, <2>3, <2>4, <2>5, <2>6, <2>7, Zenon DEF Next, Step, Provider
  <1> QED BY <1>2, <1>3, Zenon

-----------------------------------------------------------------------------
(***************************************************************************)
(* The lifecycle is kept by every step, and gives the consumer a           *)
(* well-formed response.                                                   *)
(***************************************************************************)
INSTANCE FiniteSetTheorems

LEMMA PrepareWell ==
  ASSUME NEW order \in Orders, NEW safe \in BOOLEAN, NEW cacheable \in BOOLEAN,
         NEW resolved \in BOOLEAN, timeout \in Nat, Prepare(order, safe, cacheable, resolved)
  PROVE  WellFormed(s')
  <1> DEFINE m == IF ~safe THEN 1 ELSE IF Len(order) <= MaxFallbacks + 1 THEN Len(order)
                                       ELSE MaxFallbacks + 1
             p == SubSeq(order, 1, m)
  <1>1. order \in Seq(Deployments)
    <2>1. Cardinality(Deployments) \in Nat
      BY StreamingAssumption, FS_CardinalityType, Zenon
    <2>2. PICK k \in 0..Cardinality(Deployments) : order \in [1..k -> Deployments]
      BY Zenon DEF Orders
    <2> QED BY <2>1, <2>2
  <1>2. Idle \in Streams
    <2>1. /\ <<>> \in Seq(Deltas) /\ <<>> \in Seq(Deployments) /\ <<>> \in Seq(Events)
          /\ NoEvent \in Events
      BY EventTyped DEF NoEvent, Semantic
    <2>2. /\ 0 \in 0..MaxFallbacks + 1 /\ 0 \in 0..MaxAttempts /\ 0 \in 0..MaxSequence + 1
          /\ 0 \in 0..timeout
      BY StreamingAssumption
    <2> QED BY <2>1, <2>2, Zenon DEF Idle, Streams
  <1>3. CASE order = <<>> \/ ~resolved
    <2>1. s' = [Idle EXCEPT !.pc = "rejected"]
      BY <1>3, Zenon DEF Prepare
    <2>2. s' \in Streams
      <3>1. "rejected" \in Ends
        BY Zenon DEF Ends
      <3> QED BY <1>2, <2>1, <3>1, Zenon DEF Streams
    <2>3. s'.pc = "rejected" /\ s'.out = <<>>
      BY <2>1, Zenon DEF Idle
    <2>4. Shape(<<>>, s'.routing) /\ ~Has(<<>>, Terminal)
      BY DEF Shape, Has
    <2> QED BY <2>2, <2>3, <2>4, Zenon
            DEF WellFormed, Ending, Planned, Counted, Holding, Routed, Replaying, InAttempt, InHand,
                Silent, Attempting, Ends
  <1>4. CASE order # <<>> /\ resolved
    <2>1. s' = [Idle EXCEPT !.pc = "prepared", !.safe = safe, !.cacheable = cacheable, !.order = p,
                            !.i = 1, !.n = 1, !.routing = order[1], !.left = timeout]
      BY <1>4, Zenon DEF Prepare
    <2>2. Len(order) \in Nat \ {0} /\ order[1] \in Deployments
      BY <1>1, <1>4
    <2>3. m \in 1..Len(order) /\ m <= MaxFallbacks + 1
      BY <2>2, StreamingAssumption
    <2> HIDE DEF m
    <2>4. p \in Seq(Deployments) /\ Len(p) = m /\ p[1] = order[1]
      BY <1>1, <2>2, <2>3
    <2>5. /\ 1 \in 0..MaxFallbacks + 1 /\ 1 \in 0..MaxAttempts /\ timeout \in 0..timeout
      BY StreamingAssumption
    <2> HIDE DEF p
    <2>6. s' \in Streams
      <3> DEFINE u == [Idle EXCEPT !.pc = "prepared", !.safe = safe, !.cacheable = cacheable,
                                   !.order = p]
      <3>1. u \in Streams
        BY <1>2, <2>4, Zenon DEF Streams
      <3>2. s' = [u EXCEPT !.i = 1, !.n = 1, !.routing = order[1], !.left = timeout]
        BY <2>1, Zenon
      <3> HIDE DEF u
      <3> QED BY <2>2, <2>5, <3>1, <3>2, Zenon DEF Streams
    <2>7. /\ s'.pc = "prepared" /\ s'.out = <<>> /\ s'.order = p /\ s'.i = 1
          /\ s'.routing = order[1] /\ s'.execution = NoDeployment
      BY <2>1, Zenon DEF Idle
    <2>8. Shape(<<>>, s'.routing) /\ ~Has(<<>>, Terminal)
      BY DEF Shape, Has
    <2>9. Planned(s') /\ Routed(s')
      BY <2>3, <2>4, <2>7 DEF Planned, Routed, InAttempt, Silent, Attempting
    <2> QED BY <2>6, <2>7, <2>8, <2>9, Zenon
            DEF WellFormed, Ending, Counted, Holding, Replaying, InAttempt, InHand, Attempting
  <1> QED BY <1>3, <1>4, Zenon

LEMMA InitLifecycle == Init => LifecycleInv
  <1> SUFFICES ASSUME Init PROVE LifecycleInv
    BY Zenon
  <1>1. timeout \in Nat /\ s = Idle /\ cache = NoAnswer
    BY StreamingAssumption, Zenon DEF Init
  <1>2. Idle \in Streams
    <2>1. /\ <<>> \in Seq(Deltas) /\ <<>> \in Seq(Deployments) /\ <<>> \in Seq(Events)
          /\ NoEvent \in Events
      BY EventTyped DEF NoEvent, Semantic
    <2>2. /\ 0 \in 0..MaxFallbacks + 1 /\ 0 \in 0..MaxAttempts /\ 0 \in 0..MaxSequence + 1
          /\ 0 \in 0..timeout
      BY <1>1, StreamingAssumption
    <2> QED BY <2>1, <2>2, Zenon DEF Idle, Streams
  <1>3. s.pc = "idle" /\ s.out = <<>> /\ s.routing = NoDeployment
    BY <1>1, Zenon DEF Idle
  <1>4. Shape(<<>>, NoDeployment) /\ ~Has(<<>>, Terminal)
    BY DEF Shape, Has
  <1>5. WellFormed(s)
    BY <1>1, <1>2, <1>3, <1>4, Zenon
       DEF WellFormed, Ending, Planned, Counted, Holding, Routed, Replaying, InAttempt, InHand,
           Silent, Attempting, Ends
  <1>6. CacheTyped
    BY <1>1 DEF CacheTyped, NoAnswer
  <1> QED BY <1>1, <1>5, <1>6, InitSound, Zenon DEF LifecycleInv

LEMMA NextLifecycle == LifecycleInv /\ [Next]_vars => LifecycleInv'
  <1> SUFFICES ASSUME LifecycleInv, [Next]_vars
               PROVE  LifecycleInv'
    BY Zenon
  <1>1. Sound(s) /\ WellFormed(s) /\ CacheTyped /\ timeout \in Nat
    BY Zenon DEF LifecycleInv
  <1>2. Sound(s)'
    BY <1>1, NextSound, Zenon
  <1>3. timeout' = timeout
    BY Zenon DEF Next, vars
  <1>4. CASE UNCHANGED vars
    <2>1. WellFormed(s')
      BY <1>1, <1>4, Zenon DEF vars
    <2>2. WellFormed(s)'
      BY <1>3, <2>1, Zenon
         DEF WellFormed, Shape, Ending, Planned, Counted, Counts, Holding, Routed, Replaying,
             Follows, InAttempt, InHand, Candidate, Streams
    <2> QED BY <1>1, <1>2, <1>4, <2>2, Zenon DEF vars, LifecycleInv, CacheTyped
  <1>5. CASE Next
    <2>1. WellFormed(s')
      <3>1. ASSUME NEW order \in Orders, NEW safe \in BOOLEAN, NEW cacheable \in BOOLEAN,
                   NEW resolved \in BOOLEAN, Prepare(order, safe, cacheable, resolved)
            PROVE  WellFormed(s')
        BY <1>1, <3>1, PrepareWell, Zenon
      <3>2. ASSUME Raise \/ \E transient \in BOOLEAN : Fail(transient)
            PROVE  WellFormed(s')
        BY <1>1, <3>2, BrokenWell, Zenon
      <3>3. ASSUME NEW type \in {"response.started", "usage.completed", "response.completed",
                                "unknown", "tool_call"},
                   Receive(type, <<>>)
            PROVE  WellFormed(s')
        <4>1. <<>> \in Seq(Deltas)
          OBVIOUS
        <4> QED BY <1>1, <3>3, <4>1, ReceiveWell, Zenon DEF Semantic
      <3>4. ASSUME NEW delta \in Deltas, Receive("content.delta", <<delta>>)
            PROVE  WellFormed(s')
        <4>1. <<delta>> \in Seq(Deltas)
          OBVIOUS
        <4> QED BY <1>1, <3>4, <4>1, ReceiveWell, Zenon DEF Semantic
      <3>5. ASSUME Work PROVE WellFormed(s')
        BY <1>1, <3>5, EntryWell, RecordFailureWell, WakeWell, ConsumerWell, AdmitWell, CheckWell,
           CompleteWell, DecideWell, ReleaseWell, Zenon DEF Work
      <3>6. ASSUME \/ Tick \/ TrackerFails \/ Close
                   \/ \E why \in {"cancelled", "deadline"}, written \in BOOLEAN :
                        Interrupt(why, written)
            PROVE  WellFormed(s')
        BY <1>1, <3>6, TickWell, TrackerFailsWell, ConsumerWell, Zenon
      <3>7. Evict => s' = s
        BY Zenon DEF Evict
      <3> QED BY <1>1, <1>5, <3>1, <3>2, <3>3, <3>4, <3>5, <3>6, <3>7, Zenon DEF Next, Step, Provider
    <2>2. WellFormed(s)'
      BY <1>3, <2>1, Zenon
         DEF WellFormed, Shape, Ending, Planned, Counted, Counts, Holding, Routed, Replaying,
             Follows, InAttempt, InHand, Candidate, Streams
    <2>3. CacheTyped'
      BY <1>1, <1>5, CacheStep, Zenon DEF CacheTyped
    <2> QED BY <1>1, <1>2, <1>3, <2>2, <2>3, Zenon DEF LifecycleInv
  <1> QED BY <1>4, <1>5, Zenon

\* What the invariant says of the events that were shown.
LEMMA LifecycleFollows == LifecycleInv => LifecycleIsWellFormed
  <1> SUFFICES ASSUME LifecycleInv PROVE LifecycleIsWellFormed
    BY Zenon
  <1>1. /\ s \in Streams /\ Shape(s.out, s.routing) /\ CacheTyped
    BY Zenon DEF LifecycleInv, WellFormed
  <1>2. PICK out \in Seq(Events) : out = s.out
    BY <1>1, Zenon DEF Streams
  <1>3. PICK d : d = s.routing
    BY Zenon
  <1>4. Shape(out, d)
    BY <1>1, <1>2, <1>3, Zenon
  <1>5. Cardinality(At("usage.completed")) <= 1
    <2>1. \A j, k \in At("usage.completed") : j = k
      BY <1>2, <1>4, Zenon DEF At, Shape
    <2>2. PICK A : A = At("usage.completed")
      BY Zenon
    <2>3. CASE A = {}
      <3>1. Cardinality({}) = 0
        BY FS_EmptySet, Zenon
      <3>2. Cardinality(At("usage.completed")) = 0
        BY <2>2, <2>3, <3>1, Zenon
      <3> QED BY <3>2
    <2>4. CASE A # {}
      <3>1. PICK x : A = {x}
        BY <2>1, <2>2, <2>4, Zenon
      <3>2. Cardinality({x}) = 1
        BY FS_Singleton, Zenon
      <3>3. Cardinality(At("usage.completed")) = 1
        BY <2>2, <3>1, <3>2, Zenon
      <3> QED BY <3>3
    <2> QED BY <2>3, <2>4, Zenon
  <1>6. /\ \A k \in DOMAIN s.out : s.out[k].sequence = k
        /\ \A k \in DOMAIN s.out : s.out[k].type \in Terminal => k = Len(s.out)
        /\ \A k \in At("usage.completed") : \E j \in 1..k : s.out[j].type \in Semantic
        /\ \A k \in At("response.failed") :
             (\E j \in 1..k : s.out[j].type \in Semantic) => s.out[k].partial
    BY <1>2, <1>4, Zenon DEF At, Shape
  <1>7. /\ At("response.started") \subseteq {1}
        /\ At("response.completed") # {} => At("usage.completed") # {}
    BY <1>2, <1>4, Zenon DEF At, Shape, Has
  <1>8. ASSUME NEW k \in DOMAIN s.out, s.out[k].type # "response.failed"
        PROVE  1 \in At("response.started")
    <2>1. out[1].type = "response.started" /\ 1 \in DOMAIN out
      BY <1>2, <1>4, <1>8 DEF Shape
    <2> QED BY <1>2, <2>1, Zenon DEF At
  <1>9. \A j, k \in DOMAIN s.out :
          /\ s.out[j].execution # NoDeployment => s.out[j].execution = s.out[j].by
          /\ s.out[j].by # NoDeployment /\ s.out[k].by # NoDeployment => s.out[j].by = s.out[k].by
    BY <1>2, <1>4, Zenon DEF Shape
  <1>10. TypeOK
    BY <1>1, Zenon DEF TypeOK, CacheTyped
  <1> QED BY <1>5, <1>6, <1>7, <1>8, <1>9, <1>10, Zenon DEF LifecycleIsWellFormed

\* How the stream's counters, flags and queue follow what was shown (_stream).
THEOREM StreamIsWellFormed == Spec => []LifecycleInv
  BY InitLifecycle, NextLifecycle, PTL DEF Spec

(***************************************************************************)
(* Whatever the candidates, the retry policy, the provider's events, the   *)
(* cache and the deadline: the consumer is given a well-formed response,   *)
(* numbered 1, 2, 3, ... across attempts, replays and the three places     *)
(* that number a failure, with one start, one terminal event, usage once   *)
(* and after output, and one deployment (stream, _stream, _failed_event,   *)
(* _cached_events).                                                        *)
(***************************************************************************)
THEOREM ResponsesAreWellFormed == Spec => []LifecycleIsWellFormed
  BY StreamIsWellFormed, LifecycleFollows, PTL

(***************************************************************************)
(* Whatever was retried, thrown out or raced: the answer that is written   *)
(* for later requests is the text its own consumer was shown, whole and in *)
(* order, by a stream that reported no failure (cached_content,            *)
(* _store_best_effort).                                                    *)
(***************************************************************************)
THEOREM StoresWhatItShowed == Spec => StoredIsShown
  <1>1. ASSUME LifecycleInv, Gathered(s), [Next]_vars
        PROVE  [StoreStep]_vars
    <2>1. CASE UNCHANGED vars
      BY <2>1, Zenon
    <2>2. CASE Next
      <3> SUFFICES ASSUME cache' \notin {cache, NoAnswer}
                   PROVE  cache'.text = Shown(s.out) /\ At("response.failed") = {}
        BY Zenon DEF StoreStep
      <3>1. s.pc = "storing" /\ s.cacheable /\ cache' = [text |-> s.text, by |-> Candidate(s)]
        BY <1>1, <2>2, CacheStep, Zenon DEF LifecycleInv
      <3>2. UpToDate(s) /\ s.pc \notin {"shown", "releasing"} \cup Ends
        BY <3>1, Zenon DEF UpToDate, Ends
      <3>3. cache'.text = Shown(s.out)
        BY <1>1, <3>1, <3>2, Zenon DEF Gathered
      <3>4. ~Has(s.out, Terminal)
        BY <1>1, <3>2, WellFacts, Zenon DEF LifecycleInv
      <3>5. At("response.failed") = {}
        BY <3>4, Zenon DEF At, Has, Terminal
      <3> QED BY <3>3, <3>5, Zenon
    <2> QED BY <1>1, <2>1, <2>2, Zenon
  <1>2. ASSUME LifecycleInv, Gathered(s), [Next]_vars
        PROVE  Gathered(s)'
    <2>1. Gathered(s')
      BY <1>2, NextGathered, Zenon
    <2> QED BY <2>1, Zenon DEF Gathered, Quiet, UpToDate, InHand, Shown
  <1>3. Init => Gathered(s)
    <2> SUFFICES ASSUME Init PROVE Gathered(s)
      BY Zenon
    <2>1. s.pc = "idle"
      BY Zenon DEF Init, Idle
    <2> QED BY <2>1, QuietGathered, Zenon DEF Quiet
  <1> QED BY <1>1, <1>2, <1>3, StreamIsWellFormed, PTL DEF Spec, StoredIsShown

=============================================================================
