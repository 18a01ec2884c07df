------------------------- MODULE StreamingExecution -------------------------
(***************************************************************************)
(* The streaming executor (application/streaming.py,                       *)
(* StreamingExecutionService): stream() reads the generator _stream() one  *)
(* event at a time under the execution deadline, and _stream() serves a    *)
(* cached answer or walks the prepared candidates.                         *)
(*                                                                         *)
(* One client's requests follow each other and share the response cache.   *)
(* The health tracker is seen through its port: it admits, refuses and     *)
(* retires at will, which is all its contract promises one stream.         *)
(* A step is what the coroutine does between two awaits or yields.         *)
(***************************************************************************)
EXTENDS Naturals, Sequences, FiniteSets

CONSTANTS Deployments, NoDeployment,
          Deltas,         \* contents of a text delta
          MaxAttempts,    \* RetryPolicy.max_attempts_per_deployment
          MaxFallbacks,   \* RetryPolicy.max_fallbacks
          Timeouts,       \* values execution_timeout_ms may be set to, in ticks; 0 disables it
          MaxSequence     \* bound: from this number on a provider only completes

ASSUME StreamingAssumption ==
  /\ MaxAttempts \in Nat \ {0} /\ MaxFallbacks \in Nat /\ Timeouts \subseteq Nat
  /\ MaxSequence \in Nat \ {0, 1}     \* room for the start and one event
  /\ IsFiniteSet(Deployments) /\ NoDeployment \notin Deployments

VARIABLES s,       \* the stream
          cache,   \* the entry under the request's cache identity
          timeout  \* the process's execution_timeout_ms

vars == <<s, cache, timeout>>

Semantic == {"content.delta", "tool_call"}
Terminal == {"response.completed", "response.failed"}

\* GatewayStreamEvent: by is the deployment its routing names, execution the
\* one its execution evidence names.
Events ==
  [type : {"response.started", "usage.completed"} \cup Semantic \cup Terminal,
   sequence : Nat, by : Deployments \cup {NoDeployment},
   execution : Deployments \cup {NoDeployment}, text : Seq(Deltas), partial : BOOLEAN]

Event(type, k) ==
  [type |-> type, sequence |-> k, by |-> NoDeployment, execution |-> NoDeployment,
   text |-> <<>>, partial |-> FALSE]

\* How a stream ends: after its terminal event, closed or cancelled by its
\* consumer, with an exception, or refused before it was opened.
Ends == {"ended", "closed", "cancelled", "error", "rejected"}

Streams ==
  [pc : {"idle", "prepared", "lookup", "replay", "head", "admitting", "reading", "checking",
         "recording", "storing", "reporting", "deciding", "releasing", "sleeping", "shown"}
        \cup Ends,
   order : Seq(Deployments),        \* plan.candidates
   safe : BOOLEAN,                  \* plan.replay_safe
   cacheable : BOOLEAN,             \* a cache and a cache identity
   i : 0..MaxFallbacks + 1, n : 0..MaxAttempts,  \* candidate and attempt number
   held : BOOLEAN, probe : BOOLEAN, \* the admission
   started : BOOLEAN, public : BOOLEAN, semantic : BOOLEAN, usage : BOOLEAN,
   sequence : 0..MaxSequence + 1,   \* the attempt's own counter
   event : Events,                  \* the semantic event in hand
   transient : BOOLEAN,             \* of the error being handled
   after : {"none", "next", "retry", "deadline"} \cup Ends,  \* what follows the scope
   then : {"none", "reading", "checking", "replay"},         \* what follows the yield
   queue : Seq(Events),             \* cached events still to be replayed
   routing : Deployments \cup {NoDeployment},    \* state.routing
   execution : Deployments \cup {NoDeployment},  \* last_execution
   text : Seq(Deltas),              \* cached_content
   out : Seq(Events),               \* what the consumer was given
   left : 0..timeout,               \* the deadline's remaining budget
   unaccounted : BOOLEAN]           \* a provider attempt without sample or gap

NoEvent == Event("content.delta", 0)

NoAnswer == [text |-> <<>>, by |-> NoDeployment]

TypeOK ==
  /\ s \in Streams
  /\ cache \in [text : Seq(Deltas), by : Deployments \cup {NoDeployment}]

Idle ==
  [pc |-> "idle", order |-> <<>>, safe |-> FALSE, cacheable |-> FALSE, i |-> 0, n |-> 0,
   held |-> FALSE, probe |-> FALSE, started |-> FALSE, public |-> FALSE, semantic |-> FALSE,
   usage |-> FALSE, sequence |-> 0, event |-> NoEvent, transient |-> FALSE, after |-> "none",
   then |-> "none", queue |-> <<>>, routing |-> NoDeployment, execution |-> NoDeployment,
   text |-> <<>>, out |-> <<>>, left |-> 0, unaccounted |-> FALSE]

Init == s = Idle /\ cache = NoAnswer /\ timeout \in Timeouts

-----------------------------------------------------------------------------
(* Helpers.  Each maps the stream's state to its next one.                 *)

Expired == timeout # 0 /\ s.left = 0

Candidate(t) == t.order[t.i]

Last(out) == out[Len(out)]

Exposed(t) == \E k \in DOMAIN t.out : t.out[k].type \in Semantic

\* The event stream() appends when the budget is spent.
FailedOnDeadline(t) ==
  [Event("response.failed", IF t.out = <<>> THEN 1 ELSE Last(t.out).sequence + 1)
     EXCEPT !.by = t.routing, !.partial = Exposed(t)]

\* What stream() makes of the end of _stream(): an expired budget wins over
\* any exception, and is reported outside the budget.
Final(t, why) ==
  IF why = "deadline" \/ (why = "error" /\ Expired)
  THEN [t EXCEPT !.pc = "shown", !.after = "none", !.then = "none",
                 !.out = Append(@, FailedOnDeadline(t))]
  ELSE [t EXCEPT !.pc = why, !.after = "none", !.then = "none"]

\* The end of health_admission_scope.
Leaving(t, what) == [t EXCEPT !.pc = "releasing", !.after = what, !.transient = FALSE]

Sampled(t) == [t EXCEPT !.unaccounted = FALSE]      \* record_operational_attempt
Invalidated(t) == [t EXCEPT !.unaccounted = FALSE]  \* invalidate_operational_completeness

\* Seeded fault: an attempt that is thrown out leaves no gap.
AbortedSilently(t, why) == IF t.held THEN Leaving(t, why) ELSE Final(t, why)

\* _stream() is thrown out of an await or a yield.
Aborted(t, why) == IF t.held THEN Leaving(Invalidated(t), why) ELSE Final(t, why)

\* _stream() yields e to stream(), which checks the budget and passes it on.
Delivered(t, e, then) ==
  IF Expired THEN Aborted(t, "deadline")
  ELSE [t EXCEPT !.pc = "shown", !.out = Append(@, e), !.then = then]

\* _failed_event of _stream().
Failed(t, k, partial) ==
  [Event("response.failed", k) EXCEPT !.by = t.routing, !.execution = t.execution,
                                      !.partial = partial]

\* Leaving the attempt loop: the next candidate, or exhaustion.
Advanced(t) ==
  IF t.i < Len(t.order)
  THEN [t EXCEPT !.pc = "head", !.i = @ + 1, !.n = 1, !.after = "none"]
  ELSE Delivered([t EXCEPT !.after = "none"], Failed(t, 1, FALSE), "none")

\* Entering the ProviderError handler, whose first check may raise out of it.
Handled(t, transient) ==
  IF Expired THEN Leaving(t, "deadline")
  ELSE [Sampled(t) EXCEPT !.pc = "reporting", !.transient = transient]

-----------------------------------------------------------------------------
(* The steps of stream() and _stream().                                    *)

Tick ==
  /\ s.left > 0
  /\ s' = [s EXCEPT !.left = @ - 1]
  /\ cache' = cache

\* prepare: the candidates that replay safety leaves, all of them resolved and
\* able to stream, or a preflight error before anything is committed.  A
\* request with tools or tool results is never cacheable.
Prepare(order, safe, cacheable, resolved) ==
  /\ s.pc \in {"idle"} \cup Ends
  /\ cacheable => safe
  /\ s' = IF order = <<>> \/ ~resolved THEN [Idle EXCEPT !.pc = "rejected"]
          ELSE [Idle EXCEPT !.pc = "prepared", !.safe = safe, !.cacheable = cacheable,
                            !.order = SubSeq(order, 1, IF ~safe THEN 1
                                                       ELSE IF Len(order) <= MaxFallbacks + 1 THEN Len(order)
                                                       ELSE MaxFallbacks + 1),
                            !.i = 1, !.n = 1, !.routing = order[1], !.left = timeout]
  /\ cache' = cache

\* The consumer reads the first event.
Open ==
  /\ s.pc = "prepared"
  /\ s' = IF Expired THEN Final(s, "deadline") ELSE [s EXCEPT !.pc = IF s.cacheable THEN "lookup" ELSE "head"]
  /\ cache' = cache

\* A stored answer is served only for the deployment ranking has selected.
Serves(answer, selected) == answer # NoAnswer /\ answer.by = selected

\* _cached_events.
CachedEvents(answer) ==
  << [Event("response.started", 1) EXCEPT !.by = s.order[1]],
     [Event("content.delta", 2) EXCEPT !.text = answer.text],
     Event("usage.completed", 3),
     [Event("response.completed", 4) EXCEPT !.by = s.order[1], !.execution = answer.by] >>

\* cache.get: an outage of the cache is not handled.
Lookup(reachable) ==
  /\ s.pc = "lookup"
  /\ s' = CASE ~reachable -> Final(s, "error")
            [] reachable /\ Serves(cache, s.order[1]) ->
                 LET events == CachedEvents(cache)
                 IN  Delivered([s EXCEPT !.queue = Tail(events)], Head(events), "replay")
            [] OTHER -> [s EXCEPT !.pc = "head"]
  /\ cache' = cache

Replay ==
  /\ s.pc = "replay"
  /\ s' = Delivered([s EXCEPT !.queue = Tail(@)], Head(s.queue), "replay")
  /\ cache' = cache

\* The head of the attempt loop.
Begin ==
  /\ s.pc = "head"
  /\ s' = IF Expired THEN Final(s, "deadline")
          ELSE [s EXCEPT !.pc = "admitting", !.started = FALSE, !.public = FALSE,
                         !.semantic = FALSE, !.usage = FALSE, !.sequence = 0]
  /\ cache' = cache

\* allow_request, and on admission the start of the provider stream.
Admit(answer) ==
  /\ s.pc = "admitting"
  /\ LET t == [s EXCEPT !.held = TRUE, !.probe = answer = "probe", !.routing = Candidate(s)]
     IN  s' = CASE answer = "refused" -> Advanced(s)
                [] answer # "refused" /\ Expired -> Leaving(t, "deadline")
                [] OTHER -> [t EXCEPT !.pc = "reading", !.unaccounted = TRUE]
  /\ cache' = cache

\* Seeded fault: text is collected only once the stream is public.
CollectedOncePublic(t, e) == IF t.cacheable /\ t.public THEN t.text \o e.text ELSE t.text

\* cached_content.
Collected(t, e) == IF t.cacheable THEN t.text \o e.text ELSE t.text

\* A semantic event of the provider: the replay boundary is crossed before
\* response.started is yielded.
ReceivedSemantic(t, e) ==
  LET u == [t EXCEPT !.semantic = TRUE, !.text = Collected(t, e), !.event = e]
  IN  IF t.public THEN [u EXCEPT !.pc = "checking"]
      ELSE Delivered([u EXCEPT !.public = TRUE, !.sequence = 1],
                     [Event("response.started", 1) EXCEPT !.by = t.routing], "checking")

\* Seeded fault: final usage may be repeated.
InvalidIgnoringRepeats(t, type) ==
  \/ type = "response.started" /\ t.started
  \/ type # "response.started" /\ ~t.started
  \/ type = "usage.completed" /\ ~t.semantic
  \/ type = "response.completed" /\ ~(t.semantic /\ t.usage /\ t.public)
  \/ type = "unknown"

\* The provider events that break the lifecycle: a second start, anything
\* before the start, usage twice or too early, completion too early, and
\* events that are unknown or change the response id.
Invalid(t, type) ==
  \/ type = "response.started" /\ t.started
  \/ type # "response.started" /\ ~t.started
  \/ type = "usage.completed" /\ (t.usage \/ ~t.semantic)
  \/ type = "response.completed" /\ ~(t.semantic /\ t.usage /\ t.public)
  \/ type = "unknown"

\* The next event of the provider stream.
Receive(type, text) ==
  /\ s.pc = "reading" /\ (type # "response.completed" => s.sequence < MaxSequence)
  /\ type = "tool_call" => ~s.cacheable
  /\ s' = CASE Expired -> Aborted(s, "deadline")
            [] ~Expired /\ Invalid(s, type) -> Handled(s, FALSE)
            [] ~Expired /\ ~Invalid(s, type) /\ type = "response.started" ->
                 [s EXCEPT !.started = TRUE]
            [] ~Expired /\ ~Invalid(s, type) /\ type \in Semantic ->
                 ReceivedSemantic(s, [Event(type, 0) EXCEPT !.text = text])
            [] ~Expired /\ ~Invalid(s, type) /\ type = "usage.completed" ->
                 Delivered([s EXCEPT !.usage = TRUE, !.sequence = @ + 1],
                           Event("usage.completed", s.sequence + 1), "reading")
            [] ~Expired /\ ~Invalid(s, type) /\ type = "response.completed" ->
                 [s EXCEPT !.pc = "recording"]
  /\ cache' = cache

\* The provider stream fails, ends early or outlives its probe.
Fail(transient) ==
  /\ s.pc = "reading"
  /\ s' = Handled(s, transient)
  /\ cache' = cache

\* Anything else is raised while the provider stream is read.
Raise ==
  /\ s.pc = "reading"
  /\ s' = Leaving(Invalidated(s), "error")
  /\ cache' = cache

\* is_admitted for a probe, then the semantic event itself.
Check(admitted) ==
  /\ s.pc = "checking"
  /\ s' = IF s.probe /\ ~admitted THEN Handled(s, TRUE)
          ELSE Delivered([s EXCEPT !.sequence = @ + 1, !.event = NoEvent],
                         [s.event EXCEPT !.sequence = s.sequence + 1], "reading")
  /\ cache' = cache

\* record_success: a retired probe must not complete.
RecordSuccess(current) ==
  /\ s.pc = "recording"
  /\ s' = IF s.probe /\ ~current THEN Handled(s, TRUE) ELSE [Sampled(s) EXCEPT !.pc = "storing"]
  /\ cache' = cache

\* What cache.put leaves: nothing without text, and a failed write is swallowed.
Stored(written) ==
  IF s.cacheable /\ s.text # <<>> /\ written THEN [text |-> s.text, by |-> Candidate(s)] ELSE cache

\* _store_best_effort and response.completed.
Store(written) ==
  /\ s.pc = "storing"
  /\ cache' = Stored(written)
  /\ s' = Delivered([s EXCEPT !.sequence = @ + 1],
                    [Event("response.completed", s.sequence + 1)
                       EXCEPT !.by = s.routing, !.execution = Candidate(s)], "none")

\* The part of can_retry that bounds the attempts: attempt_limit is one for a
\* plan that is not safe to replay.
MayRetry(t) == t.safe /\ t.n < MaxAttempts

\* Seeded fault: a transient failure is retried whatever was shown.
ReportedRetrying(t) ==
  CASE t.transient /\ MayRetry(t) -> Leaving(t, "retry")
    [] t.semantic /\ ~(t.transient /\ MayRetry(t)) ->
         Delivered([t EXCEPT !.sequence = @ + 1], Failed(t, t.sequence + 1, TRUE), "none")
    [] ~t.semantic /\ t.transient /\ ~MayRetry(t) -> Leaving(t, "next")
    [] OTHER -> Delivered(t, Failed(t, 1, FALSE), "none")

\* What a reported failure leads to.
Reported(t) ==
  CASE t.semantic ->
         Delivered([t EXCEPT !.sequence = @ + 1], Failed(t, t.sequence + 1, TRUE), "none")
    [] ~t.semantic /\ t.transient /\ MayRetry(t) -> [t EXCEPT !.pc = "deciding"]
    [] ~t.semantic /\ t.transient /\ ~MayRetry(t) -> Leaving(t, "next")
    [] OTHER -> Delivered(t, Failed(t, 1, FALSE), "none")

\* record_failure.
RecordFailure ==
  /\ s.pc = "reporting"
  /\ s' = Reported([s EXCEPT !.execution = Candidate(s)])
  /\ cache' = cache

\* The snapshot that decides between retry and fallback.
Decide(open) ==
  /\ s.pc = "deciding"
  /\ s' = Leaving(s, IF open THEN "next" ELSE "retry")
  /\ cache' = cache

\* release_request; its outage is swallowed unless the scope is left normally
\* or by an unexpected error.
Release(reachable) ==
  /\ s.pc = "releasing"
  /\ LET t == [s EXCEPT !.held = FALSE, !.probe = FALSE]
     IN  s' = CASE ~reachable /\ s.after \in {"next", "retry", "error"} -> Final(t, "error")
                [] reachable /\ s.after = "next" -> Advanced(t)
                [] reachable /\ s.after = "retry" /\ ~Expired ->
                     [t EXCEPT !.pc = "sleeping", !.after = "none"]
                [] reachable /\ s.after = "retry" /\ Expired -> Final(t, "deadline")
                [] OTHER -> Final(t, s.after)
  /\ cache' = cache

Wake ==
  /\ s.pc = "sleeping"
  /\ s' = [s EXCEPT !.pc = "head", !.n = @ + 1]
  /\ cache' = cache

\* A call to the remote tracker raises.
TrackerFails ==
  /\ \/ s.pc = "admitting" /\ s' = Final(s, "error")
     \/ s.pc = "checking" /\ s.probe /\ s' = Leaving(Invalidated(s), "error")
     \/ s.pc = "recording" /\ s' = Leaving(Invalidated(s), "error")
     \/ s.pc \in {"reporting", "deciding"} /\ s' = Leaving(s, "error")
  /\ cache' = cache

\* The consumer has taken an event and reads on; after the terminal event
\* stream() closes _stream() and returns.
Pull ==
  /\ s.pc = "shown"
  /\ s' = CASE Last(s.out).type \in Terminal -> Aborted(s, "ended")
            [] Last(s.out).type \notin Terminal /\ Expired -> Aborted(s, "deadline")
            [] OTHER -> [s EXCEPT !.pc = s.then, !.then = "none"]
  /\ cache' = cache

\* The consumer closes the stream it was given an event of.
Close ==
  /\ s.pc = "shown"
  /\ s' = Aborted(s, "closed")
  /\ cache' = cache

\* Seeded fault: the timer does not reach the read of a provider event.
InterruptOutsideReads(why, written) ==
  /\ s.pc \in {"lookup", "admitting", "recording", "storing", "reporting", "deciding",
               "releasing", "sleeping"} \cup (IF s.probe THEN {"checking"} ELSE {})
  /\ why = "deadline" => Expired /\ s.after \in {"none", "next", "retry", "error"}
  /\ s' = IF s.pc = "releasing" THEN Final([s EXCEPT !.held = FALSE, !.probe = FALSE], why)
          ELSE Aborted(s, why)
  /\ cache' = IF s.pc = "storing" THEN Stored(written) ELSE cache

\* The consumer's task is cancelled, or the budget's timer fires, at an await.
\* A cache write may have reached the server.  _stream() is closed outside
\* the timer's scope.
Interrupt(why, written) ==
  /\ s.pc \in {"lookup", "admitting", "reading", "recording", "storing", "reporting", "deciding",
               "releasing", "sleeping"} \cup (IF s.probe THEN {"checking"} ELSE {})
  /\ why = "deadline" => Expired /\ s.after \in {"none", "next", "retry", "error"}
  /\ s' = IF s.pc = "releasing" THEN Final([s EXCEPT !.held = FALSE, !.probe = FALSE], why)
          ELSE Aborted(s, why)
  /\ cache' = IF s.pc = "storing" THEN Stored(written) ELSE cache

\* The entry's TTL passes.
Evict ==
  /\ cache # NoAnswer
  /\ cache' = NoAnswer
  /\ s' = s

-----------------------------------------------------------------------------
Orders == {p \in UNION {[1..k -> Deployments] : k \in 0..Cardinality(Deployments)} :
             \A j, k \in DOMAIN p : p[j] = p[k] => j = k}

Provider ==
  \/ \E type \in {"response.started", "usage.completed", "response.completed", "unknown", "tool_call"} :
       Receive(type, <<>>)
  \/ \E delta \in Deltas : Receive("content.delta", <<delta>>)
  \/ \E transient \in BOOLEAN : Fail(transient)
  \/ Raise

Work ==
  \/ Open \/ Replay \/ Begin \/ RecordFailure \/ Wake \/ Pull
  \/ \E answer \in {"refused", "normal", "probe"} : Admit(answer)
  \/ \E yes \in BOOLEAN :
       Lookup(yes) \/ Check(yes) \/ RecordSuccess(yes) \/ Store(yes) \/ Decide(yes) \/ Release(yes)

Step ==
  \/ Tick \/ Provider \/ Work \/ TrackerFails \/ Close \/ Evict
  \/ \E order \in Orders, safe, cacheable, resolved \in BOOLEAN :
       Prepare(order, safe, cacheable, resolved)
  \/ \E why \in {"cancelled", "deadline"}, written \in BOOLEAN : Interrupt(why, written)

Next == Step /\ timeout' = timeout

Spec == Init /\ [][Next]_vars

-----------------------------------------------------------------------------
(* Correctness.                                                            *)

At(type) == {k \in DOMAIN s.out : s.out[k].type = type}

\* The public lifecycle of GatewayStreamEvent.  The consumer sees 1, 2, 3, ...
\* although every attempt counts from zero and three places number their
\* failure themselves; one terminal event, at the end; everything else follows
\* the one response.started; final usage comes once and after output, and
\* completion only after usage; a failure after output says partial.  A
\* response never combines two executions: whatever routing and execution
\* evidence its events carry name one deployment.
LifecycleIsWellFormed ==
  /\ TypeOK
  /\ \A k \in DOMAIN s.out : s.out[k].sequence = k
  /\ \A k \in DOMAIN s.out : s.out[k].type \in Terminal => k = Len(s.out)
  /\ At("response.started") \subseteq {1}
  /\ \A k \in DOMAIN s.out : s.out[k].type # "response.failed" => 1 \in At("response.started")
  /\ Cardinality(At("usage.completed")) <= 1
  /\ \A k \in At("usage.completed") : \E j \in 1..k : s.out[j].type \in Semantic
  /\ At("response.completed") # {} => At("usage.completed") # {}
  /\ \A k \in At("response.failed") :
       (\E j \in 1..k : s.out[j].type \in Semantic) => s.out[k].partial
  /\ \A j, k \in DOMAIN s.out :
       /\ s.out[j].execution # NoDeployment => s.out[j].execution = s.out[j].by
       /\ s.out[j].by # NoDeployment /\ s.out[k].by # NoDeployment => s.out[j].by = s.out[k].by

\* The replay boundary: once anything is public, no provider stream is opened.
ReplayStep == (s.pc = "admitting" /\ s'.pc = "reading") => s.out = <<>>

NoReplayAfterOutput == [][ReplayStep]_vars

\* The text of the events that were shown, one after the other.
Shown(out) ==
  LET upTo[k \in 0..Len(out)] == IF k = 0 THEN <<>> ELSE upTo[k - 1] \o out[k].text
  IN  upTo[Len(out)]

\* What is stored for later requests is exactly the text this stream showed.
StoreStep ==
  cache' \notin {cache, NoAnswer} =>
    /\ cache'.text = Shown(s.out)
    /\ At("response.failed") = {}

StoredIsShown == [][StoreStep]_vars

\* Every provider attempt has left a sample or a completeness gap by the time
\* its stream has left the attempt.
EveryAttemptAccounted ==
  s.unaccounted => s.pc \in {"reading", "checking", "recording", "shown"} /\ s.held

\* The same of the streams that run without a deadline.
AccountedWithoutDeadline == timeout = 0 => EveryAttemptAccounted

(***************************************************************************)
(* Liveness.  The event loop runs ready work, time advances, the budget's  *)
(* timer fires, and the consumer reads on; the provider owes nothing.      *)
(***************************************************************************)
Fairness ==
  /\ WF_vars(Tick /\ UNCHANGED timeout)
  /\ WF_vars(Work /\ UNCHANGED timeout)
  /\ WF_vars(Interrupt("deadline", FALSE) /\ UNCHANGED timeout)

FairSpec == Spec /\ Fairness

Active == s.pc \notin {"idle"} \cup Ends

\* Under a deadline every stream ends, even if its provider falls silent.
StreamEnds == (Active /\ timeout # 0) ~> ~Active
=============================================================================
