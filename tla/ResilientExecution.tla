------------------------- MODULE ResilientExecution -------------------------
(***************************************************************************)
(* The non-streaming executor (application/resilience.py,                  *)
(* ResilientExecutionService): concurrent executions walk their ranked     *)
(* candidates with bounded retry and fallback, share the health tracker of *)
(* CircuitBreaker, run under an execution deadline, and leave evidence of  *)
(* every provider attempt.                                                 *)
(*                                                                         *)
(* A step is what the coroutine does between two awaits.  Each health call *)
(* is an await of its own, because the port may be served by a remote      *)
(* tracker (SharedTracker): then it can fail, and the caller can be        *)
(* interrupted while it waits for the reply.                               *)
(* A deadline is what is left of the budget, counted down by Tick.         *)
(***************************************************************************)
EXTENDS Naturals, Sequences, FiniteSets

CONSTANTS Deployments, Attempts, Generations, FirstGeneration,
          FailureThreshold, Cooldown, ProbeLease,
          NoAttempt, NoAdmission, NoDeployment,
          Settings          \* the settings the process may have been started with

\* attempts and fallbacks bound RetryPolicy.max_attempts_per_deployment and
\* max_fallbacks; timeout is execution_timeout_ms in ticks, 0 when disabled;
\* shared says that the health port is a remote tracker; clients execute at
\* the same time; served are the deployments they are ranked, authorized those
\* of the model group the PDP authorized.
ASSUME ExecutionAssumption ==
  /\ IsFiniteSet(Deployments)
  /\ \A s \in Settings :
       /\ s.attempts \in Nat \ {0} /\ s.fallbacks \in Nat /\ s.timeout \in Nat
       /\ s.shared \in BOOLEAN /\ s.clients \subseteq Attempts
       /\ s.served \subseteq Deployments /\ s.authorized \subseteq Deployments

\* The assumptions of CircuitBreaker.
ASSUME TrackerAssumption ==
  /\ {FailureThreshold, Cooldown, ProbeLease} \subseteq Nat \ {0}
  /\ FirstGeneration \in [Deployments -> Generations]
  /\ NoAttempt \notin Attempts /\ NoDeployment \notin Deployments
  /\ NoAdmission \notin [deployment : Deployments, generation : Generations, probe : BOOLEAN]

VARIABLES health,   \* the tracker's circuits, as in CircuitBreaker
          held,     \* the admission each execution holds
          ex,       \* ex[a]: the state of execution a
          settings  \* chosen at start-up

vars == <<health, held, ex, settings>>

MaxAttempts == settings.attempts
MaxFallbacks == settings.fallbacks
Timeout == settings.timeout
SharedTracker == settings.shared
Authorized == settings.authorized

Breaker == INSTANCE CircuitBreaker

\* How an execution ends: with a result, ExecutionDeadlineExceeded,
\* CancelledError, or any other exception.
Outcomes == {"succeeded", "failed", "deadline", "cancelled"}

\* Inside the attempt's try block, and inside health_admission_scope.
InTry == {"calling", "recording"}
InScope == InTry \cup {"reporting", "deciding", "releasing"}
Waiting == InScope \cup {"admitting", "sleeping"}

\* The ranked candidates: an arbitrary ranking, best first.
Plans == {p \in UNION {[1..k -> settings.served] : k \in 0..Cardinality(settings.served)} :
            \A j, k \in DOMAIN p : p[j] = p[k] => j = k}

Executions ==
  [pc          : {"idle", "head"} \cup Waiting \cup Outcomes,
   plan        : Plans,                      \* bounded_candidates
   i           : 0..Cardinality(Deployments),  \* candidate_index + 1
   n           : 0..MaxAttempts,             \* attempt_number
   tried       : Seq(Deployments),           \* fallback_sequence
   calls       : [Deployments -> 0..MaxAttempts + 1],  \* provider calls made, saturating
   transient   : BOOLEAN,                    \* of the error being handled
   after       : {"none", "retry", "next"} \cup Outcomes,  \* what follows the scope
   left        : 0..Timeout,                 \* the deadline's remaining budget
   unaccounted : BOOLEAN]   \* a provider attempt without sample or gap

TypeOK ==
  settings \in Settings /\ Breaker!TypeOK /\ ex \in [Attempts -> Executions]

Idle ==
  [pc |-> "idle", plan |-> <<>>, i |-> 0, n |-> 0, tried |-> <<>>,
   calls |-> [d \in Deployments |-> 0], transient |-> FALSE, after |-> "none",
   left |-> 0, unaccounted |-> FALSE]

Candidate(a) == ex[a].plan[ex[a].i]

-----------------------------------------------------------------------------
(* ExecutionDeadline.                                                      *)

Expired(a) == Timeout # 0 /\ ex[a].left = 0

\* budget.run: whatever _execute returned or raised, an expired budget wins,
\* except over a cancellation, which is not an Exception.
Finished(a, o) ==
  [Idle EXCEPT !.pc = IF Expired(a) /\ o # "cancelled" THEN "deadline" ELSE o,
               !.unaccounted = ex[a].unaccounted]

-----------------------------------------------------------------------------
Init ==
  /\ settings \in Settings
  /\ Breaker!Init
  /\ ex = [a \in Attempts |-> Idle]

\* The tracker's clock and every running budget advance.
Tick ==
  /\ Breaker!Tick
  /\ ex' = [a \in Attempts |-> [ex[a] EXCEPT !.left = IF @ = 0 THEN 0 ELSE @ - 1]]

\* Seeded fault: one fallback too many.
BoundedOneMore(p) == SubSeq(p, 1, IF Len(p) <= MaxFallbacks + 2 THEN Len(p) ELSE MaxFallbacks + 2)

\* bounded_candidates.
Bounded(p) == SubSeq(p, 1, IF Len(p) <= MaxFallbacks + 1 THEN Len(p) ELSE MaxFallbacks + 1)

\* _execute up to the candidate loop: nothing to execute, or a candidate of
\* another model group, ends the execution before any provider call; so does
\* a safety state that forbids replay.
Start(a, p, replayable) ==
  LET bounded == Bounded(p)
  IN  /\ ex[a].pc \in {"idle"} \cup Outcomes
      /\ ex' = [ex EXCEPT ![a] =
                  IF p = <<>> \/ ~replayable \/ \E j \in DOMAIN bounded : bounded[j] \notin Authorized
                  THEN [Idle EXCEPT !.pc = "failed"]
                  ELSE [Idle EXCEPT !.pc = "head", !.plan = bounded, !.i = 1, !.n = 1,
                                    !.left = Timeout]]
      /\ UNCHANGED <<health, held>>

\* Leaving the attempt loop with break.
Advanced(a) ==
  IF ex[a].i < Len(ex[a].plan)
  THEN [ex[a] EXCEPT !.pc = "head", !.i = @ + 1, !.n = 1, !.after = "none"]
  ELSE Finished(a, "failed")

\* The head of the attempt loop: deadline.check, then resolver.resolve, which
\* fails for a deployment with no provider adapter.
Resolve(a, resolved) ==
  /\ ex[a].pc = "head"
  /\ ex' = [ex EXCEPT ![a] = IF Expired(a) THEN Finished(a, "deadline")
                             ELSE IF ~resolved THEN Finished(a, "failed")
                             ELSE [@ EXCEPT !.pc = "admitting"]]
  /\ UNCHANGED <<health, held>>

Sampled(s) == [s EXCEPT !.unaccounted = FALSE]      \* record_operational_attempt
Invalidated(s) == [s EXCEPT !.unaccounted = FALSE]  \* invalidate_operational_completeness

Leaving(s, what) ==
  [s EXCEPT !.pc = "releasing", !.after = what, !.transient = FALSE]

\* fallback_sequence once deployment d is admitted.
Listed(a, d) == IF ex[a].n = 1 THEN Append(ex[a].tried, d) ELSE ex[a].tried

\* The refusals of allow_request: every attempt comes with a fresh id, so it
\* never is the owner that asks again.
Refused(s) == s.circuit = "open" \/ (s.circuit = "half_open" /\ s.owner # NoAttempt)

\* allow_request, and on admission the start of the provider call.
Admit(a, g) ==
  LET d      == Candidate(a)
      s      == Breaker!Refreshed(health[d], g)
      t      == Breaker!Admitted(s, a, g)
      called == [ex[a] EXCEPT !.pc = "calling", !.unaccounted = TRUE,
                              !.calls[d] = IF @ <= MaxAttempts THEN @ + 1 ELSE @]
  IN  /\ ex[a].pc = "admitting"
      /\ health' = [health EXCEPT ![d] = t]
      /\ IF Refused(s)
         THEN held' = held /\ ex' = [ex EXCEPT ![a] = Advanced(a)]
         ELSE /\ held' = [held EXCEPT ![a] = [deployment |-> d, generation |-> t.generation,
                                              probe |-> t.circuit = "half_open"]]
              /\ ex' = [ex EXCEPT ![a] =
                          IF Expired(a) THEN Leaving([@ EXCEPT !.tried = Listed(a, d)], "deadline")
                          ELSE [called EXCEPT !.tried = Listed(a, d)]]

\* The provider answers.
Respond(a) ==
  /\ ex[a].pc = "calling"
  /\ ex' = [ex EXCEPT ![a] = IF Expired(a) THEN Leaving(Invalidated(@), "deadline")
                             ELSE [@ EXCEPT !.pc = "recording"]]
  /\ UNCHANGED <<health, held>>

\* The except clause for anything that is not a ProviderError.
UnexpectedError(a) == Leaving(Invalidated(ex[a]), "failed")

\* Entering the ProviderError handler.  The check that comes first raises out
\* of the handler: then no sample is recorded and no gap is left either.
Handled(a, transient) ==
  IF Expired(a) THEN Leaving(ex[a], "deadline")
  ELSE [Sampled(ex[a]) EXCEPT !.pc = "reporting", !.transient = transient]

\* The provider, its adapter or the probe's timer fails the call.
Fail(a, transient) ==
  /\ ex[a].pc = "calling"
  /\ ex' = [ex EXCEPT ![a] = Handled(a, transient)]
  /\ UNCHANGED <<health, held>>

Raise(a) ==
  /\ ex[a].pc = "calling"
  /\ ex' = [ex EXCEPT ![a] = UnexpectedError(a)]
  /\ UNCHANGED <<health, held>>

\* Seeded fault: the verdict of record_success is ignored.
PublishedAlways(a, s) == Leaving(Sampled(ex[a]), "succeeded")

\* What the verdict of record_success, on the refreshed circuit s, leads to:
\* a retired probe's success becomes a transient provider error.
Published(a, s) ==
  IF held[a].probe /\ ~Breaker!Controls(s, a, held[a]) THEN Handled(a, TRUE)
  ELSE Leaving(Sampled(ex[a]), "succeeded")

RecordSuccess(a, g) ==
  LET d == held[a].deployment
      s == Breaker!Refreshed(health[d], g)
  IN  /\ ex[a].pc = "recording"
      /\ health' = [health EXCEPT ![d] = Breaker!Succeeded(s, a, held[a], g)]
      /\ ex' = [ex EXCEPT ![a] = Published(a, s)]
      /\ held' = held

\* The part of can_retry that bounds the attempts.
MayRetry(a) == ex[a].n < MaxAttempts

\* record_failure, and what a failure that will not be retried leads to.
RecordFailure(a, g) ==
  LET d == held[a].deployment
      s == Breaker!Refreshed(health[d], g)
  IN  /\ ex[a].pc = "reporting"
      /\ health' = [health EXCEPT ![d] =
                      IF ex[a].transient THEN Breaker!FailedTransiently(s, a, held[a], g)
                      ELSE Breaker!FailedPermanently(s, a, held[a], g)]
      /\ ex' = [ex EXCEPT ![a] =
                  CASE ~ex[a].transient -> Leaving(@, "failed")
                    [] ex[a].transient /\ ~MayRetry(a) -> Leaving(@, "next")
                    [] OTHER -> [@ EXCEPT !.pc = "deciding"]]
      /\ held' = held

\* The snapshot that decides between retry and fallback.
Decide(a, g) ==
  LET d == held[a].deployment
      s == Breaker!Refreshed(health[d], g)
  IN  /\ ex[a].pc = "deciding"
      /\ health' = [health EXCEPT ![d] = s]
      /\ ex' = [ex EXCEPT ![a] = Leaving(@, IF s.circuit = "open" THEN "next" ELSE "retry")]
      /\ held' = held

\* Seeded fault: leaving the scope does not leave the attempt loop.
LeftRetrying(a) ==
  CASE ex[a].after = "next" -> [ex[a] EXCEPT !.pc = "head", !.n = MaxAttempts, !.after = "none"]
    [] ex[a].after = "retry" -> [ex[a] EXCEPT !.pc = "sleeping", !.after = "none"]
    [] OTHER -> Finished(a, ex[a].after)

\* What follows the scope once the admission is released.
Left(a) ==
  CASE ex[a].after = "next" -> Advanced(a)
    [] ex[a].after = "retry" -> IF Expired(a) THEN Finished(a, "deadline")
                                ELSE [ex[a] EXCEPT !.pc = "sleeping", !.after = "none"]
    [] OTHER -> Finished(a, ex[a].after)

\* Seeded fault: the scope releases only after a failure.
ReleasedOnFailure(a, s, g) ==
  IF held[a].probe /\ ex[a].after \in {"next", "retry"} THEN Breaker!Retired(s, g)
  ELSE s

\* release_request at the end of health_admission_scope.
Released(a, s, g) ==
  IF held[a].probe /\ Breaker!Matches(s, a, held[a]) THEN Breaker!Retired(s, g) ELSE s

Release(a, g) ==
  LET d == held[a].deployment
  IN  /\ ex[a].pc = "releasing"
      /\ health' = [health EXCEPT ![d] = Released(a, Breaker!Refreshed(@, g), g)]
      /\ held' = [held EXCEPT ![a] = NoAdmission]
      /\ ex' = [ex EXCEPT ![a] = Left(a)]

\* The retry delay ends.
Wake(a) ==
  /\ ex[a].pc = "sleeping"
  /\ ex' = [ex EXCEPT ![a].pc = "head", ![a].n = @ + 1]
  /\ UNCHANGED <<health, held>>

(***************************************************************************)
(* The task is cancelled at an await: by its client, or by the deadline's  *)
(* own timer once the budget is spent.  With an in-process tracker only    *)
(* the provider call and the retry delay suspend.                          *)
(***************************************************************************)
\* Seeded fault: a cancelled attempt leaves no evidence.
InterruptedSilently(a, why) ==
  IF ex[a].pc \in InScope \ {"releasing"} THEN Leaving(ex[a], why) ELSE Finished(a, why)

Interrupted(a, why) ==
  CASE ex[a].pc \in InTry -> Leaving(Invalidated(ex[a]), why)
    [] ex[a].pc \in {"reporting", "deciding"} -> Leaving(ex[a], why)
    [] OTHER -> Finished(a, why)

Interrupt(a, why) ==
  /\ ex[a].pc \in IF SharedTracker THEN Waiting ELSE {"calling", "sleeping"}
  /\ why = "deadline" => Expired(a)
  /\ ex' = [ex EXCEPT ![a] = Interrupted(a, why)]
  /\ held' = IF ex[a].pc = "releasing" THEN [held EXCEPT ![a] = NoAdmission] ELSE held
  /\ health' = health

\* As above, but the server had already admitted the attempt: nobody is left
\* to release its probe.
InterruptAdmitted(a, why, g) ==
  LET d == Candidate(a)
      s == Breaker!Refreshed(health[d], g)
  IN  /\ SharedTracker /\ ex[a].pc = "admitting"
      /\ why = "deadline" => Expired(a)
      /\ health' = [health EXCEPT ![d] = IF Refused(s) THEN s ELSE Breaker!Admitted(s, a, g)]
      /\ ex' = [ex EXCEPT ![a] = Finished(a, why)]
      /\ held' = held

(***************************************************************************)
(* A remote tracker's call raises, before or without an effect.  In the    *)
(* try block that is an unexpected error; in the handler and at the loop's *)
(* head it escapes.  A release that fails is swallowed when the scope is   *)
(* left by cancellation or expiry and replaces any other result with its   *)
(* own error; the slot is then freed by its lease alone.                   *)
(***************************************************************************)
TrackerFails(a) ==
  /\ SharedTracker
  /\ \/ /\ ex[a].pc = "admitting"
        /\ ex' = [ex EXCEPT ![a] = Finished(a, "failed")]
        /\ held' = held
     \/ /\ ex[a].pc = "recording"
        /\ ex' = [ex EXCEPT ![a] = UnexpectedError(a)]
        /\ held' = held
     \/ /\ ex[a].pc \in {"reporting", "deciding"}
        /\ ex' = [ex EXCEPT ![a] = Leaving(@, "failed")]
        /\ held' = held
     \/ /\ ex[a].pc = "releasing"
        /\ ex' = [ex EXCEPT ![a] =
                    Finished(a, IF ex[a].after \in {"cancelled", "deadline"} THEN ex[a].after
                                ELSE "failed")]
        /\ held' = [held EXCEPT ![a] = NoAdmission]
  /\ health' = health

Work(a, g) ==
  Admit(a, g) \/ RecordSuccess(a, g) \/ RecordFailure(a, g) \/ Decide(a, g) \/ Release(a, g)

Provider(a) == Respond(a) \/ (\E transient \in BOOLEAN : Fail(a, transient)) \/ Raise(a)

Advance(a) == (\E resolved \in BOOLEAN : Resolve(a, resolved)) \/ Wake(a)

Step ==
  \/ Tick
  \/ \E a \in settings.clients, p \in Plans, replayable \in BOOLEAN : Start(a, p, replayable)
  \/ \E a \in Attempts, g \in Breaker!Fresh : Work(a, g)
  \/ \E a \in Attempts : Provider(a) \/ Advance(a) \/ TrackerFails(a)
  \/ \E a \in Attempts, why \in {"cancelled", "deadline"} :
       Interrupt(a, why) \/ \E g \in Breaker!Fresh : InterruptAdmitted(a, why, g)

Next == Step /\ settings' = settings

Spec == Init /\ [][Next]_vars
-----------------------------------------------------------------------------
(* Correctness.                                                            *)

\* Retry and fallback are bounded exactly, and never leave the authorized
\* group, however trips, refusals and probes of other executions interleave;
\* the provenance a result reports (fallback_sequence) lists exactly the
\* deployments that were called, each once, and ends with the one that
\* answered; the state is well-typed.
CallsBounded ==
  /\ TypeOK
  /\ \A a \in Attempts :
       LET called == {d \in Deployments : ex[a].calls[d] > 0}
           tried == ex[a].tried
       IN  /\ called \subseteq Authorized
           /\ Cardinality(called) <= MaxFallbacks + 1
           /\ \A d \in called : ex[a].calls[d] <= MaxAttempts
           /\ ex[a].pc \in InTry \cup {"reporting", "deciding"} =>
                /\ Len(tried) = Cardinality(called) /\ {tried[j] : j \in DOMAIN tried} = called
                /\ tried[Len(tried)] = Candidate(a)

\* Every way out of an attempt gives its probe slot back: an execution that is
\* not inside an attempt owns no circuit.  (A remote tracker's answer can be
\* lost, and then the lease frees the slot.)
ProbeIsReturned ==
  \A a \in Attempts, d \in Deployments :
    ~SharedTracker /\ Breaker!Owner(d) = a => ex[a].pc \in InScope

\* A success is earned twice over: it is not published on behalf of a probe
\* that has been retired (the circuit it closed must have been its own), and
\* it is not returned once the budget is spent.
SuccessStep ==
  \A a \in Attempts :
    /\ ex'[a].after = "succeeded" /\ ex[a].after # "succeeded" /\ held[a].probe => Breaker!Live(a)
    /\ ex'[a].pc = "succeeded" /\ ex[a].pc # "succeeded" => ~Expired(a)

SuccessIsEarned == [][SuccessStep]_vars

\* The evidence never certifies a false-complete window: every provider
\* attempt that started has left a sample or a completeness gap by the time
\* its execution has moved on.
EveryAttemptAccounted ==
  \A a \in Attempts : ex[a].unaccounted => ex[a].pc \in InTry

\* The same of the executions that run without a deadline.
AccountedWithoutDeadline == Timeout = 0 => EveryAttemptAccounted

\* Where an execution stands: the candidates, then the attempts, then the
\* phases of the attempt it has left.
Running(a) == ex[a].pc \in {"head"} \cup Waiting

PhaseOrder ==
  <<"sleeping", "releasing", "deciding", "reporting", "recording", "calling", "admitting", "head">>

Remaining(a) ==
  LET phase == CHOOSE k \in DOMAIN PhaseOrder : PhaseOrder[k] = ex[a].pc
  IN  IF ~Running(a) THEN 0
      ELSE ((Len(ex[a].plan) - ex[a].i) * MaxAttempts + (MaxAttempts - ex[a].n)) * Len(PhaseOrder) + phase

\* No interleaving of trips, retries, probes and interruptions keeps an
\* execution looping: every step it takes brings it strictly closer to its
\* end.  (Each wait has its own bound: a provider's timeout, a retry delay or
\* a health call.)
AdvanceStep ==
  \A a \in Attempts :
    Running(a) /\ ex'[a] # [ex[a] EXCEPT !.left = ex'[a].left] => Remaining(a)' < Remaining(a)

AlwaysAdvances == [][AdvanceStep]_vars
=============================================================================
