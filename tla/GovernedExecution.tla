-------------------------- MODULE GovernedExecution --------------------------
(***************************************************************************)
(* The executor under signed governance (application/                      *)
(* governance_execution.py and governance_evidence.py): a request comes    *)
(* with an envelope, GovernanceExecutionService enforces it, hands the     *)
(* ranked plan to the executor of ResilientExecution, and journals what    *)
(* came of it, locally first and then to an optional remote sink.          *)
(*                                                                         *)
(* settings.journal is "off" for an executor used without the service,     *)
(* "local" without a sink, and else the delivery mode of the sink.         *)
(***************************************************************************)
EXTENDS ResilientExecution, GovernanceAuthorization

CONSTANTS Envelopes,      \* what clients may present
          Mismatches,     \* the sets of facts in which a request may differ from its envelope
          NoEvidence

\* A GovernanceRuntimeEvidence: a denial, or an execution with its last
\* provider and the number of its provider attempts.
EvidenceRecords ==
  [outcome : {"denied", "execution_succeeded", "execution_failed"},
   deployment : Deployments \cup {NoDeployment}, count : Nat, reason : {"none"} \cup DenialReasons]

\* groups gives each deployment its model_group; the PDP authorizes one group.
ASSUME GovernanceAssumption ==
  /\ NoEvidence \notin EvidenceRecords
  /\ \A s \in Settings :
       /\ s.journal \in {"off", "local", "best_effort", "required"}
       /\ DOMAIN s.groups = Deployments
       /\ \E d \in Deployments : s.authorized = {e \in Deployments : s.groups[e] = s.groups[d]}

VARIABLE gov   \* gov[a]: the governed call execution a serves

gvars == <<vars, gov>>

\* reply is what the caller will get, final once pc is "done": "violation" is
\* a denial, "undelivered" GovernanceEvidenceDeliveryError, "error" the
\* executor's ResilienceExecutionError and "exception" any other of its own.
\* called lists the provider calls that were started: it is history.
NewCall ==
  [pc |-> "idle", envelope |-> "none", wait |-> 0, left |-> 0, group |-> "none", log |-> <<>>,
   called |-> <<>>, evidence |-> NoEvidence, reply |-> "none"]

GroupOf(d) == settings.groups[d]

\* The model group of the routing decision.
DecisionGroup == GroupOf(CHOOSE d \in Authorized : TRUE)

Governed(a) == gov[a].pc = "executing"

Last(log) == log[Len(log)]

-----------------------------------------------------------------------------
(* Evidence.                                                               *)

\* record: the journal keeps the evidence, then a sink is offered it.
Recorded(c, evidence, reply) ==
  [c EXCEPT !.evidence = evidence, !.reply = reply,
            !.pc = IF settings.journal = "local" THEN "done" ELSE "delivering"]

Unrecorded(c, reply) == [c EXCEPT !.reply = reply, !.pc = "done"]

\* build_governance_denial_evidence.
Denial(reason) == [outcome |-> "denied", deployment |-> NoDeployment, count |-> 0, reason |-> reason]

\* build_governance_execution_evidence.
ExecutionEvidence(outcome, d, count) ==
  [outcome |-> outcome, deployment |-> d, count |-> count, reason |-> "none"]

\* Seeded fault: an attempt that its circuit refused counts.
AllAttempts(log) == DOMAIN log

\* The attempts that reached a provider, by their place in the log: those that
\* _provider_attempt_count counts.
ProviderAttempts(log) == {k \in DOMAIN log : log[k].outcome # "circuit_open"}

\* _last_provider_attempt_candidate.
LastProvider(log) ==
  log[CHOOSE k \in ProviderAttempts(log) : \A j \in ProviderAttempts(log) : j <= k].deployment

\* execute once the executor is over with outcome o; resilience says that it
\* raised ResilienceExecutionError.
Concluded(c, o, resilience) ==
  LET real == ProviderAttempts(c.log)
      Evidence(outcome) == ExecutionEvidence(outcome, LastProvider(c.log), Cardinality(real))
  IN  CASE o = "succeeded" ->
             Recorded(c, Evidence("execution_succeeded"), "result")
        [] o = "failed" /\ resilience /\ real # {} ->
             Recorded(c, Evidence("execution_failed"), "error")
        [] o = "failed" /\ resilience /\ real = {} -> Unrecorded(c, "error")
        [] o = "failed" /\ ~resilience -> Unrecorded(c, "exception")
        [] OTHER -> Unrecorded(c, o)

-----------------------------------------------------------------------------
GInit == Init /\ gov = [a \in Attempts |-> NewCall]

\* The envelope is verified; its window is counted down from now on.
Submit(a, e, wait, left) ==
  /\ gov[a].pc \in {"idle", "done"}
  /\ left - wait = e.until - e.from
  /\ gov' = [gov EXCEPT ![a] =
               IF Verified(e) THEN [NewCall EXCEPT !.pc = "submitted", !.envelope = e, !.wait = wait, !.left = left]
               ELSE [NewCall EXCEPT !.pc = "done", !.reply = "unverified"]]
  /\ UNCHANGED <<health, held, ex>>

Down(n) == IF n = 0 THEN 0 ELSE n - 1

GovernedTick ==
  /\ Tick
  /\ gov' = [a \in Attempts |-> [gov[a] EXCEPT !.wait = Down(@), !.left = Down(@)]]

\* execute up to the call of the executor, and the executor's own entry.
Enforce(a, differs, p, replayable) ==
  LET c == gov[a]
      reason == DenialReason(c.envelope, differs, c.wait, c.left, DecisionGroup)
      entered == [c EXCEPT !.wait = 0, !.left = 0, !.pc = "executing", !.group = DecisionGroup]
      denied == [NewCall EXCEPT !.envelope = c.envelope]
  IN  /\ c.pc = "submitted"
      /\ IF reason # "none"
         THEN /\ gov' = [gov EXCEPT ![a] = Recorded(denied, Denial(reason), "violation")]
              /\ UNCHANGED <<health, held, ex>>
         ELSE /\ Start(a, p, replayable)
              /\ gov' = [gov EXCEPT ![a] = IF ex'[a].pc = "failed" THEN Unrecorded(entered, "error") ELSE entered]

\* The governed call after a step of its executor that left log and called;
\* resilience as in Concluded.
Follow(a, log, called, resilience) ==
  LET c == [gov[a] EXCEPT !.log = log, !.called = called]
  IN  gov' = [gov EXCEPT ![a] = IF ex'[a].pc \in Outcomes THEN Concluded(c, ex'[a].pc, resilience) ELSE c]

Attempt(d, outcome) == [deployment |-> d, outcome |-> outcome]

\* A refused candidate is an attempt too; the last one exhausts the plan.
GovernedAdmit(a, g) ==
  LET d == Candidate(a)
      refused == held'[a] = NoAdmission
  IN  /\ Admit(a, g)
      /\ Follow(a, IF refused THEN Append(gov[a].log, Attempt(d, "circuit_open")) ELSE gov[a].log,
                IF ex'[a].pc = "calling" THEN Append(gov[a].called, d) ELSE gov[a].called, refused)

GovernedSuccess(a, g) ==
  /\ RecordSuccess(a, g)
  /\ Follow(a, IF ex'[a].after = "succeeded" THEN Append(gov[a].log, Attempt(Candidate(a), "succeeded"))
               ELSE gov[a].log, gov[a].called, FALSE)

\* The handler of a ProviderError appends its attempt on its way out.
GovernedFailure(a, g) ==
  /\ RecordFailure(a, g) \/ Decide(a, g)
  /\ Follow(a, IF ex'[a].pc = "releasing"
               THEN Append(gov[a].log, Attempt(Candidate(a), IF ex[a].transient THEN "transient" ELSE "permanent"))
               ELSE gov[a].log, gov[a].called, FALSE)

\* The plan is exhausted, or a permanent failure leaves the scope.
GovernedRelease(a, g) ==
  LET log == gov[a].log
  IN  /\ Release(a, g)
      /\ Follow(a, log, gov[a].called,
                ex[a].after = "next" \/ (log # <<>> /\ Last(log).outcome = "permanent"))

\* Anything else leaves the lists alone; what it raises is no ResilienceExecutionError.
GovernedOther(a) ==
  /\ \/ Provider(a) \/ Advance(a) \/ TrackerFails(a)
     \/ \E why \in {"cancelled", "deadline"} :
          Interrupt(a, why) \/ \E g \in Breaker!Fresh : InterruptAdmitted(a, why, g)
  /\ Follow(a, gov[a].log, gov[a].called, FALSE)

\* The sink answers, fails, or the caller cancels while it waits for it.
Deliver(a, how) ==
  /\ gov[a].pc = "delivering"
  /\ gov' = [gov EXCEPT ![a] =
               Unrecorded(@, CASE how = "cancelled" -> "cancelled"
                               [] how = "fails" /\ settings.journal = "required" -> "undelivered"
                               [] OTHER -> gov[a].reply)]
  /\ UNCHANGED <<health, held, ex>>

GovernedStep ==
  \/ GovernedTick
  \/ \E a \in settings.clients, e \in Envelopes :
       \E wait \in 0..(e.from - e.issued) : Submit(a, e, wait, wait + (e.until - e.from))
  \/ \E a \in settings.clients, differs \in Mismatches, p \in Plans, replayable \in BOOLEAN :
       Enforce(a, differs, p, replayable)
  \/ \E a \in settings.clients :
       /\ Governed(a)
       /\ \/ \E g \in Breaker!Fresh : \/ GovernedAdmit(a, g) \/ GovernedSuccess(a, g)
                                      \/ GovernedFailure(a, g) \/ GovernedRelease(a, g)
          \/ GovernedOther(a)
  \/ \E a \in settings.clients, how \in {"answers", "fails", "cancelled"} : Deliver(a, how)

GNext ==
  \/ settings.journal = "off" /\ Next /\ gov' = gov
  \/ settings.journal # "off" /\ GovernedStep /\ settings' = settings

GSpec == GInit /\ [][GNext]_gvars
-----------------------------------------------------------------------------
(* Correctness.                                                            *)

\* What the envelope says of a deployment's group, read off the reviewed
\* models: one of them may see this class of data and routes to the group.
Covers(e, d) ==
  \E k \in DOMAIN e.models : e.models[k].group = GroupOf(d) /\ e.class \in e.models[k].classes

\* No fallback, retry or probe leads a governed request to a provider that
\* the signed scope does not cover: every call was made under an authentic
\* envelope, and for a group of a model reviewed for this class of data.
CallsAreCovered ==
  \A a \in Attempts :
    \A k \in DOMAIN gov[a].called :
      LET d == gov[a].called[k]
      IN  Verified(gov[a].envelope) /\ Covers(gov[a].envelope, d) /\ GroupOf(d) = gov[a].group

\* The journal tells what the providers saw.  An execution that returned, or
\* gave up on its providers, left one record that names the last provider
\* called and the number of calls, whatever circuits refused in between; a
\* denied request left its reason and reached no provider; and no record
\* claims an execution that made no call.  (A required sink that fails, or a
\* cancelled wait for it, takes the result away but not the record.)
EvidenceMatchesCalls ==
  \A a \in Attempts :
    LET c == gov[a]
        e == c.evidence
    IN  c.pc \in {"delivering", "done"} =>
          /\ c.reply = "result" => e # NoEvidence /\ e.outcome = "execution_succeeded"
          /\ c.reply = "error" /\ c.called # <<>> => e # NoEvidence /\ e.outcome = "execution_failed"
          /\ c.reply = "violation" => e # NoEvidence /\ e.outcome = "denied"
          /\ c.reply = "undelivered" => e # NoEvidence
          /\ e # NoEvidence /\ e.outcome = "denied" => c.called = <<>> /\ e.reason # "none"
          /\ e # NoEvidence /\ e.outcome # "denied" =>
               c.called # <<>> /\ e.deployment = Last(c.called) /\ e.count = Len(c.called)

=============================================================================
