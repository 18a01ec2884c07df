----------------------- MODULE GovernedExecutionProofs -----------------------
(***************************************************************************)
(* Proofs about GovernedExecution, for any deployments, executions,        *)
(* breaker policy, settings, envelopes and rankings: the governance        *)
(* service drives the executor and nothing else, so what is proved of the  *)
(* executor holds of it, and its journal follows the executor's moves.     *)
(***************************************************************************)
EXTENDS GovernedExecution, ResilientExecutionProofs

\* The governance service drives the executor and nothing else: every step of
\* GovernedExecution is one of ResilientExecution, or leaves it alone.
LEMMA GovernedSteps ==
  ASSUME ExecutorInv, [GNext]_gvars
  PROVE  [Next]_vars
  <1>1. settings.clients \subseteq Attempts
    BY SettingsType, Zenon DEF ExecutorInv
  <1>2. CASE UNCHANGED gvars
    BY <1>2, Zenon DEF gvars
  <1>3. CASE settings.journal = "off" /\ Next
    BY <1>3, Zenon
  <1>4. CASE GovernedStep /\ settings' = settings
    <2>1. CASE GovernedTick
      BY <1>4, <2>1, Zenon DEF GovernedTick, Next, Step
    <2>2. ASSUME NEW a \in settings.clients, NEW e \in Envelopes, NEW wait, NEW left, Submit(a, e, wait, left)
          PROVE  UNCHANGED vars
      BY <1>4, <2>2, Zenon DEF Submit, vars
    <2>3. ASSUME NEW a \in settings.clients, NEW differs \in Mismatches, NEW p \in Plans,
                 NEW replayable \in BOOLEAN, Enforce(a, differs, p, replayable)
          PROVE  [Next]_vars
      <3>1. Start(a, p, replayable) \/ UNCHANGED <<health, held, ex>>
        BY <2>3, Zenon DEF Enforce
      <3> QED BY <1>4, <3>1, Zenon DEF Next, Step, vars
    <2>4. ASSUME NEW a \in settings.clients, NEW g \in Breaker!Fresh,
                 \/ GovernedAdmit(a, g) \/ GovernedSuccess(a, g)
                 \/ GovernedFailure(a, g) \/ GovernedRelease(a, g)
          PROVE  Next
      <3>1. Work(a, g)
        BY <2>4, Zenon DEF GovernedAdmit, GovernedSuccess, GovernedFailure, GovernedRelease, Work
      <3> QED BY <1>1, <1>4, <3>1, Zenon DEF Next, Step
    <2>5. ASSUME NEW a \in settings.clients, GovernedOther(a)
          PROVE  Next
      <3>1. \/ Provider(a) \/ Advance(a) \/ TrackerFails(a)
            \/ \E why \in {"cancelled", "deadline"} :
                 Interrupt(a, why) \/ \E g \in Breaker!Fresh : InterruptAdmitted(a, why, g)
        BY <2>5, Zenon DEF GovernedOther
      <3> QED BY <1>1, <1>4, <3>1, Zenon DEF Next, Step
    <2>6. ASSUME NEW a \in settings.clients, NEW how \in {"answers", "fails", "cancelled"}, Deliver(a, how)
          PROVE  UNCHANGED vars
      BY <1>4, <2>6, Zenon DEF Deliver, vars
    <2> QED BY <1>4, <2>1, <2>2, <2>3, <2>4, <2>5, <2>6, Zenon DEF GovernedStep
  <1> QED BY <1>2, <1>3, <1>4, Zenon DEF GNext

\* So every behaviour of the governance service (GovernanceExecutionService
\* around ResilientExecutor.generate) is a behaviour of the executor alone.
THEOREM GovernanceDrivesExecutor == GSpec => Spec
  <1>1. ASSUME ExecutorInv, [GNext]_gvars
        PROVE  [Next]_vars /\ ExecutorInv'
    BY <1>1, GovernedSteps, NextKeeps, Zenon
  <1>2. GInit => Init /\ ExecutorInv
    BY InitExecutor, Zenon DEF GInit
  <1> QED BY <1>1, <1>2, PTL DEF GSpec, Spec

-----------------------------------------------------------------------------
(* The governance service.  A call c serves the execution x.               *)

CallFields ==
  {"pc", "envelope", "wait", "left", "group", "log", "called", "evidence", "reply"}

Verdicts == {"circuit_open", "succeeded", "transient", "permanent"}
Logged == [deployment : Deployments, outcome : Verdicts]

\* Every call has its attempt in the log, and the last one is the last.
Matched(log, called) ==
  /\ Cardinality(ProviderAttempts(log)) = Len(called)
  /\ called # <<>> => \E k \in ProviderAttempts(log) :
                        /\ \A j \in ProviderAttempts(log) : j <= k
                        /\ log[k].deployment = Last(called)

\* The call of d has no attempt in the log yet.
Pending(log, called, d) ==
  called # <<>> /\ Len(called) = Cardinality(ProviderAttempts(log)) + 1 /\ Last(called) = d

\* What the log lacks of the calls, at each place of the execution.
TallyInv(log, called, x) ==
  /\ x.pc \in {"head", "admitting", "sleeping"} => Matched(log, called)
  /\ x.pc \in InTry \cup {"reporting", "deciding"} => Pending(log, called, Current(x))
  /\ x.pc = "releasing" /\ x.after \in {"succeeded", "next", "retry"} =>
       Matched(log, called) /\ called # <<>>
  /\ log # <<>> /\ Last(log).outcome = "permanent" =>
       x.pc = "releasing" /\ x.after = "failed" /\ Matched(log, called) /\ called # <<>>

\* An envelope that is executed is authentic and covers the one group that
\* can be called.
CoverInv(st, c) ==
  c.pc = "executing" \/ c.called # <<>> =>
    /\ Verified(c.envelope) /\ c.group \in AuthorizedGroups(c.envelope)
    /\ \A d \in st.authorized : st.groups[d] = c.group
    /\ \A k \in 1..Len(c.called) : c.called[k] \in st.authorized

\* EvidenceMatchesCalls, of one call; a sink is only offered a record.
ReplyInv(c) ==
  c.pc \in {"delivering", "done"} =>
    /\ c.reply = "result" => c.evidence # NoEvidence /\ c.evidence.outcome = "execution_succeeded"
    /\ c.reply = "error" /\ c.called # <<>> =>
         c.evidence # NoEvidence /\ c.evidence.outcome = "execution_failed"
    /\ c.reply = "violation" => c.evidence # NoEvidence /\ c.evidence.outcome = "denied"
    /\ c.reply = "undelivered" => c.evidence # NoEvidence
    /\ c.evidence # NoEvidence /\ c.evidence.outcome = "denied" =>
         c.called = <<>> /\ c.evidence.reason # "none"
    /\ c.evidence # NoEvidence /\ c.evidence.outcome # "denied" =>
         /\ c.called # <<>> /\ c.evidence.deployment = Last(c.called)
         /\ c.evidence.count = Len(c.called)
    /\ c.pc = "delivering" => c.evidence # NoEvidence

CallInv(st, c, x) ==
  /\ DOMAIN c = CallFields /\ c.pc \in {"idle", "submitted", "executing", "delivering", "done"}
  /\ c.log \in Seq(Logged) /\ c.called \in Seq(Deployments)
  /\ CoverInv(st, c) /\ ReplyInv(c)
  /\ c.pc = "submitted" => Verified(c.envelope)
  /\ c.pc \in {"idle", "submitted"} => c.log = <<>> /\ c.called = <<>> /\ c.evidence = NoEvidence
  /\ c.pc = "executing" => c.evidence = NoEvidence /\ TallyInv(c.log, c.called, x)
  /\ IF st.journal = "off" THEN c.pc = "idle" ELSE c.pc = "executing" <=> x.pc \in Busy

\* The inductive invariant of the governance service.
GovernedInv ==
  /\ ExecutorInv /\ gov = [a \in Attempts |-> gov[a]]
  /\ \A a \in Attempts : CallInv(settings, gov[a], ex[a])

\* The log.

LEMMA AttemptsFinite ==
  ASSUME NEW log \in Seq(Logged)
  PROVE  /\ IsFiniteSet(ProviderAttempts(log)) /\ Cardinality(ProviderAttempts(log)) \in Nat
         /\ Cardinality(ProviderAttempts(log)) = 0 <=> ProviderAttempts(log) = {}
         /\ ProviderAttempts(log) \subseteq 1..Len(log) /\ Len(log) \in Nat
  <1>1. ProviderAttempts(log) \subseteq 1..Len(log) /\ Len(log) \in Nat
    BY DEF ProviderAttempts
  <1>2. IsFiniteSet(1..Len(log))
    BY <1>1, FS_Interval
  <1>3. IsFiniteSet(ProviderAttempts(log))
    BY <1>1, <1>2, FS_Subset, Zenon
  <1> QED BY <1>1, <1>3, FS_EmptySet, FS_CardinalityType, Zenon

\* A circuit that refuses adds an attempt of no provider.
LEMMA RefusalIsNoCall ==
  ASSUME NEW log \in Seq(Logged), NEW called, NEW d \in Deployments, Matched(log, called)
  PROVE  Matched(Append(log, Attempt(d, "circuit_open")), called)
  <1> DEFINE longer == Append(log, Attempt(d, "circuit_open"))
  <1>1. Attempt(d, "circuit_open") \in Logged /\ Attempt(d, "circuit_open").outcome = "circuit_open"
    BY Zenon DEF Attempt, Logged, Verdicts
  <1>2. /\ DOMAIN longer = 1..Len(log) + 1 /\ Len(log) \in Nat /\ DOMAIN log = 1..Len(log)
        /\ longer[Len(log) + 1] = Attempt(d, "circuit_open")
        /\ \A k \in 1..Len(log) : longer[k] = log[k]
    BY <1>1
  <1> HIDE DEF longer
  <1>3. ProviderAttempts(longer) = ProviderAttempts(log)
    BY <1>1, <1>2 DEF ProviderAttempts
  <1>4. \A k \in ProviderAttempts(log) : longer[k] = log[k]
    BY <1>2, Zenon DEF ProviderAttempts
  <1>5. Matched(longer, called)
    BY <1>3, <1>4, Zenon DEF Matched
  <1> QED BY <1>5, Zenon DEF longer

\* The attempt of a pending call settles it.
LEMMA AttemptSettles ==
  ASSUME NEW log \in Seq(Logged), NEW called, NEW d \in Deployments, Pending(log, called, d),
         NEW outcome \in Verdicts, outcome # "circuit_open"
  PROVE  Matched(Append(log, Attempt(d, outcome)), called)
  <1> DEFINE longer == Append(log, Attempt(d, outcome))
             n == Len(log) + 1
             P == ProviderAttempts(log)
  <1>1. Attempt(d, outcome) \in Logged /\ Attempt(d, outcome).outcome = outcome
        /\ Attempt(d, outcome).deployment = d
    BY Zenon DEF Attempt, Logged
  <1>2. /\ DOMAIN longer = 1..n /\ Len(log) \in Nat /\ DOMAIN log = 1..Len(log)
        /\ longer[n] = Attempt(d, outcome)
        /\ \A k \in 1..Len(log) : longer[k] = log[k]
    BY <1>1
  <1> HIDE DEF longer
  <1>3. ProviderAttempts(longer) = P \cup {n}
    BY <1>1, <1>2 DEF ProviderAttempts
  <1>4. n \notin P /\ \A j \in P : j <= n
    BY <1>2 DEF ProviderAttempts
  <1>5. Cardinality(P \cup {n}) = Cardinality(P) + 1
    <2> HIDE DEF n, P
    <2>1. IsFiniteSet(P)
      BY AttemptsFinite, Zenon DEF P
    <2> QED BY <1>4, <2>1, FS_AddElement, Zenon
  <1>6. /\ n \in ProviderAttempts(longer) /\ longer[n].deployment = Last(called)
        /\ \A j \in ProviderAttempts(longer) : j <= n
    BY <1>1, <1>2, <1>3, <1>4 DEF Pending
  <1> HIDE DEF n, P
  <1>7. Matched(longer, called)
    BY <1>3, <1>5, <1>6, Zenon DEF Matched, Pending, P
  <1> QED BY <1>7, Zenon DEF longer

\* What the record of a matched log says.
LEMMA MatchedEvidence ==
  ASSUME NEW log \in Seq(Logged), NEW called \in Seq(Deployments), Matched(log, called)
  PROVE  /\ ProviderAttempts(log) = {} <=> called = <<>>
         /\ called # <<>> => LastProvider(log) = Last(called)
         /\ Cardinality(ProviderAttempts(log)) = Len(called)
  <1>1. Len(called) = 0 <=> called = <<>>
    OBVIOUS
  <1>2. ProviderAttempts(log) = {} <=> called = <<>>
    BY <1>1, AttemptsFinite, Zenon DEF Matched
  <1>3. ASSUME called # <<>> PROVE LastProvider(log) = Last(called)
    <2>1. PICK k \in ProviderAttempts(log) :
            (\A j \in ProviderAttempts(log) : j <= k) /\ log[k].deployment = Last(called)
      BY <1>3, Zenon DEF Matched
    <2>2. \A j \in ProviderAttempts(log) : j \in Int
      BY AttemptsFinite
    <2>3. \A i \in ProviderAttempts(log) : (\A j \in ProviderAttempts(log) : j <= i) => i = k
      BY <2>1, <2>2
    <2>4. k = CHOOSE i \in ProviderAttempts(log) : \A j \in ProviderAttempts(log) : j <= i
      BY <2>1, <2>3, Zenon
    <2> QED BY <2>1, <2>4, Zenon DEF LastProvider
  <1> QED BY <1>2, <1>3, Zenon DEF Matched

\* The envelope.

\* A request that is not denied is for a group of the envelope; a denial has a
\* reason.
LEMMA Denials ==
  ASSUME NEW e, NEW differs, NEW wait, NEW left, NEW group
  PROVE  /\ DenialReason(e, differs, wait, left, group) \in {"none"} \cup DenialReasons
         /\ DenialReason(e, differs, wait, left, group) = "none" => group \in AuthorizedGroups(e)
  <1> DEFINE mismatches == {k \in DOMAIN FactOrder : FactOrder[k] \in differs}
             first == CHOOSE k \in mismatches : \A j \in mismatches : k <= j
             v == DenialReason(e, differs, wait, left, group)
             A == Self \in e.audience
  <1>1. ~(wait > 0 /\ wait = 0) /\ ~(left > 0 /\ left = 0)
    OBVIOUS
  <1>2. \A k \in DOMAIN FactOrder : FactOrder[k] \in DenialReasons /\ FactOrder[k] # "none"
    <2>1. DOMAIN FactOrder = 1..8 /\ \A k \in 1..8 : \/ k = 1 \/ k = 2 \/ k = 3 \/ k = 4
                                                     \/ k = 5 \/ k = 6 \/ k = 7 \/ k = 8
      BY DEF FactOrder
    <2>2. /\ FactOrder[1] = "workload" /\ FactOrder[2] = "risk_level"
          /\ FactOrder[3] = "data_classification" /\ FactOrder[4] = "context_tokens"
          /\ FactOrder[5] = "output_tokens" /\ FactOrder[6] = "structured_output"
          /\ FactOrder[7] = "latency_ceiling" /\ FactOrder[8] = "cost_ceiling"
      BY Zenon DEF FactOrder
    <2>3. \A k \in 1..8 : FactOrder[k] # "none"
      BY <2>1, <2>2, Zenon
    <2>4. \A k \in DOMAIN FactOrder : FactOrder[k] \in Facts
      BY Zenon DEF Facts, Range
    <2> QED BY <2>1, <2>3, <2>4, Zenon DEF DenialReasons
  <1>3. ASSUME mismatches # {} PROVE first \in mismatches
    <2>1. mismatches \subseteq 1..8
      BY DEF FactOrder
    <2> HIDE DEF mismatches
    <2>2. \E k \in mismatches : \A j \in mismatches : k <= j
      <3> SUFFICES ASSUME \A k \in mismatches : \E j \in mismatches : j < k
                   PROVE  FALSE
        BY <2>1
      <3>1. 1 \notin mismatches /\ 2 \notin mismatches
        BY <2>1
      <3>2. 3 \notin mismatches
        BY <2>1, <3>1
      <3>3. 4 \notin mismatches
        BY <2>1, <3>1, <3>2
      <3>4. 5 \notin mismatches
        BY <2>1, <3>1, <3>2, <3>3
      <3>5. 6 \notin mismatches
        BY <2>1, <3>1, <3>2, <3>3, <3>4
      <3>6. 7 \notin mismatches /\ 8 \notin mismatches
        BY <2>1, <3>1, <3>2, <3>3, <3>4, <3>5
      <3>7. \A k \in 1..8 : k = 1 \/ k = 2 \/ k = 3 \/ k = 4 \/ k = 5 \/ k = 6 \/ k = 7 \/ k = 8
        OBVIOUS
      <3> QED BY <1>3, <2>1, <3>1, <3>2, <3>3, <3>4, <3>5, <3>6, <3>7, Zenon
    <2> QED BY <2>2, Zenon
  <1>4. mismatches # {} => FactOrder[first] \in DenialReasons /\ FactOrder[first] # "none"
    BY <1>2, <1>3, Zenon
  <1>5. CASE ~A
    <2>1. v = "audience_mismatch"
      BY <1>5, Zenon DEF DenialReason
    <2> QED BY <2>1, Zenon DEF DenialReasons
  <1>6. CASE A /\ wait > 0
    <2>1. v = "not_active"
      BY <1>1, <1>6, Zenon DEF DenialReason
    <2> QED BY <2>1, Zenon DEF DenialReasons
  <1>7. CASE A /\ wait = 0 /\ left = 0
    <2>1. v = "expired"
      BY <1>1, <1>7, Zenon DEF DenialReason
    <2> QED BY <2>1 DEF DenialReasons
  <1>8. CASE A /\ wait = 0 /\ left > 0 /\ mismatches # {}
    <2>1. v = FactOrder[first]
      BY <1>1, <1>8, Zenon DEF DenialReason
    <2> QED BY <1>4, <1>8, <2>1
  <1>9. CASE /\ ~(A /\ wait > 0) /\ ~(A /\ wait = 0 /\ left = 0) /\ A
             /\ ~(A /\ wait = 0 /\ left > 0 /\ mismatches # {})
    <2>1. v = IF group \in AuthorizedGroups(e) THEN "none" ELSE "selected_model_group_mismatch"
      BY <1>9, Zenon DEF DenialReason
    <2> QED BY <2>1 DEF DenialReasons
  <1> QED BY <1>5, <1>6, <1>7, <1>8, <1>9, Zenon

\* The authorized deployments are those of the decision's group.
LEMMA OneGroup ==
  ASSUME settings \in Settings
  PROVE  \A d \in settings.authorized : settings.groups[d] = DecisionGroup
  <1>1. PICK d \in Deployments :
          settings.authorized = {e \in Deployments : settings.groups[e] = settings.groups[d]}
    BY GovernanceAssumption, Zenon
  <1>2. d \in settings.authorized
    BY <1>1, Zenon
  <1>3. (CHOOSE e \in Authorized : TRUE) \in settings.authorized
    BY <1>2, Zenon DEF Authorized
  <1> QED BY <1>1, <1>3 DEF DecisionGroup, GroupOf
\* A step that adds nothing to the lists leaves the tally right.
LEMMA SameLists ==
  ASSUME NEW st, NEW x \in RawExecution, NEW y, Move(st, x, y), x.pc \in Busy,
         x.pc \in {"calling", "head", "sleeping"} \/ Discreet(y)
  PROVE  /\ y.pc \in Busy \cup Outcomes /\ y.pc # "succeeded"
         /\ y.pc \in Busy => \A log, called : TallyInv(log, called, x) => TallyInv(log, called, y)
  <1> USE DEF Busy, Waiting, InScope, InTry, Outcomes
  <1>1. DOMAIN x = {"pc", "plan", "i", "n", "tried", "calls", "transient", "after", "left", "unaccounted"}
    BY Zenon DEF RawExecution
  <1>2. ~Begins(st, x, y) /\ ~Declines(x, y)
    BY Zenon DEF Begins, Declines, Resting
  <1>3. CASE Ends(st, x, y)
    <2>1. PICK o \in Outcomes :
            /\ y = [Idle EXCEPT !.pc = o, !.unaccounted = x.unaccounted]
            /\ o = "succeeded" => x.pc = "releasing"
      BY <1>3, Zenon DEF Ends
    <2>2. y.pc = o
      BY <2>1, Zenon DEF Idle
    <2> QED BY <2>1, <2>2, Zenon DEF Discreet
  <1>4. CASE Proceeds(x, y)
    <2>1. x.pc = "head" /\ y.pc = "admitting"
      BY <1>1, <1>4, Zenon DEF Proceeds
    <2> QED BY <2>1, Zenon DEF TallyInv
  <1>5. CASE FallsBack(x, y)
    <2>1. y.pc = "head" /\ (x.pc = "admitting" \/ (x.pc = "releasing" /\ x.after = "next"))
      BY <1>1, <1>5, Zenon DEF FallsBack
    <2> QED BY <2>1, Zenon DEF TallyInv
  <1>6. CASE Calls(x, y)
    <2>1. x.pc = "admitting" /\ y.pc = "calling"
      BY <1>1, <1>6, Zenon DEF Calls
    <2> QED BY <2>1, Zenon DEF Discreet
  <1>7. CASE Leaves(st, x, y)
    <2>1. PICK w \in {"retry", "next"} \cup Outcomes, t \in Seq(Deployments), u \in BOOLEAN :
            /\ y = [x EXCEPT !.pc = "releasing", !.after = w, !.transient = FALSE,
                             !.tried = t, !.unaccounted = u]
            /\ w = "retry" => x.pc = "deciding"
            /\ w = "next" => x.pc \in {"reporting", "deciding"}
            /\ w = "succeeded" => x.pc = "recording"
      BY <1>7, Zenon DEF Leaves
    <2>2. y.pc = "releasing" /\ y.after = w /\ x.pc # "releasing"
      BY <1>1, <1>7, <2>1, Zenon DEF Leaves
    <2>3. y.after \notin {"succeeded", "next", "retry"}
      BY <2>1, <2>2, Zenon DEF Discreet
    <2> QED BY <2>2, <2>3, Zenon DEF TallyInv
  <1>8. CASE Answers(x, y)
    <2>1. x.pc = "calling" /\ y.pc = "recording" /\ Current(y) = Current(x)
      BY <1>1, <1>8, Zenon DEF Answers, Current
    <2> QED BY <2>1, Zenon DEF TallyInv
  <1>9. CASE Handles(x, y)
    <2>1. x.pc \in InTry /\ y.pc = "reporting" /\ Current(y) = Current(x)
      BY <1>1, <1>9, Zenon DEF Handles, Current
    <2> QED BY <2>1, Zenon DEF TallyInv
  <1>10. CASE Considers(st, x, y)
    <2>1. x.pc = "reporting" /\ y.pc = "deciding" /\ Current(y) = Current(x)
      BY <1>1, <1>10, Zenon DEF Considers, Current
    <2> QED BY <2>1, Zenon DEF TallyInv
  <1>11. CASE Sleeps(x, y)
    <2>1. x.pc = "releasing" /\ x.after = "retry" /\ y.pc = "sleeping"
      BY <1>1, <1>11, Zenon DEF Sleeps
    <2> QED BY <2>1, Zenon DEF TallyInv
  <1>12. CASE Wakes(x, y)
    <2>1. x.pc = "sleeping" /\ y.pc = "head"
      BY <1>1, <1>12, Zenon DEF Wakes
    <2> QED BY <2>1, Zenon DEF TallyInv
  <1> QED BY <1>2, <1>3, <1>4, <1>5, <1>6, <1>7, <1>8, <1>9, <1>10, <1>11, <1>12, Zenon DEF Move

\* The end of a call: what it keeps of the call, and what it tells.
LEMMA Endings ==
  ASSUME NEW c, DOMAIN c = CallFields, settings \in Settings, settings.journal # "off",
         NEW evidence, NEW reply
  PROVE  /\ LET z == Recorded(c, evidence, reply)
            IN  /\ DOMAIN z = CallFields /\ z.pc \in {"delivering", "done"}
                /\ z.log = c.log /\ z.called = c.called /\ z.envelope = c.envelope
                /\ z.group = c.group /\ z.evidence = evidence /\ z.reply = reply
         /\ LET z == Unrecorded(c, reply)
            IN  /\ DOMAIN z = CallFields /\ z.pc = "done"
                /\ z.log = c.log /\ z.called = c.called /\ z.envelope = c.envelope
                /\ z.group = c.group /\ z.evidence = c.evidence /\ z.reply = reply
  BY Zenon DEF Recorded, Unrecorded, CallFields

LEMMA RecordsAreEvidence ==
  /\ \A outcome \in {"execution_succeeded", "execution_failed"}, d \in Deployments, n \in Nat :
       ExecutionEvidence(outcome, d, n) # NoEvidence
  /\ \A reason \in DenialReasons : Denial(reason) # NoEvidence
  <1>1. ASSUME NEW outcome \in {"execution_succeeded", "execution_failed"}, NEW d \in Deployments,
               NEW n \in Nat
        PROVE  ExecutionEvidence(outcome, d, n) \in EvidenceRecords
    BY Zenon DEF ExecutionEvidence, EvidenceRecords
  <1>2. ASSUME NEW reason \in DenialReasons PROVE Denial(reason) \in EvidenceRecords
    BY Zenon DEF Denial, EvidenceRecords
  <1> QED BY <1>1, <1>2, GovernanceAssumption

\* z is the call c at its end.
EndsWell(c, z) ==
  /\ DOMAIN z = CallFields /\ z.pc \in {"delivering", "done"}
  /\ z.log = c.log /\ z.called = c.called /\ z.envelope = c.envelope
  /\ z.group = c.group /\ ReplyInv(z)

\* execute, once the executor is over.
LEMMA ConcludedKeeps ==
  ASSUME settings \in Settings, settings.journal # "off", NEW c, DOMAIN c = CallFields,
         c.evidence = NoEvidence, c.log \in Seq(Logged), c.called \in Seq(Deployments),
         NEW o \in Outcomes, NEW r \in BOOLEAN,
         o = "succeeded" => Matched(c.log, c.called) /\ c.called # <<>>,
         o = "failed" /\ r => Matched(c.log, c.called)
  PROVE  EndsWell(c, Concluded(c, o, r))
  <1> DEFINE real == ProviderAttempts(c.log)
             E(outcome) == ExecutionEvidence(outcome, LastProvider(c.log), Cardinality(real))
             z == Concluded(c, o, r)
  <1>1. ASSUME NEW outcome \in {"execution_succeeded", "execution_failed"}, NEW reply \in {"result", "error"},
               outcome = "execution_succeeded" <=> reply = "result",
               Matched(c.log, c.called), c.called # <<>>, z = Recorded(c, E(outcome), reply)
        PROVE  EndsWell(c, z)
    <2>1. LastProvider(c.log) = Last(c.called) /\ Cardinality(real) = Len(c.called)
      BY <1>1, MatchedEvidence, Zenon
    <2>2. Last(c.called) \in Deployments /\ Len(c.called) \in Nat
      BY <1>1 DEF Last
    <2>3. E(outcome) # NoEvidence
      BY <1>1, <2>1, <2>2, RecordsAreEvidence, Zenon
    <2>4. /\ E(outcome).outcome = outcome /\ E(outcome).deployment = Last(c.called)
          /\ E(outcome).count = Len(c.called)
      BY <2>1, Zenon DEF ExecutionEvidence
    <2> HIDE DEF E, z
    <2>5. /\ DOMAIN z = CallFields /\ z.pc \in {"delivering", "done"}
          /\ z.log = c.log /\ z.called = c.called /\ z.envelope = c.envelope
          /\ z.group = c.group /\ z.evidence = E(outcome) /\ z.reply = reply
      BY <1>1, Endings
    <2>6. ReplyInv(z)
      BY <1>1, <2>3, <2>4, <2>5, Zenon DEF ReplyInv
    <2> QED BY <2>5, <2>6, Zenon DEF EndsWell
  <1>2. ASSUME NEW reply, reply \notin {"result", "violation", "undelivered"},
               reply = "error" => c.called = <<>>, z = Unrecorded(c, reply)
        PROVE  EndsWell(c, z)
    <2> HIDE DEF z
    <2>1. /\ DOMAIN z = CallFields /\ z.pc = "done"
          /\ z.log = c.log /\ z.called = c.called /\ z.envelope = c.envelope
          /\ z.group = c.group /\ z.evidence = c.evidence /\ z.reply = reply
      BY <1>2, Endings
    <2>2. ReplyInv(z)
      BY <1>2, <2>1, Zenon DEF ReplyInv
    <2> QED BY <2>1, <2>2, Zenon DEF EndsWell
  <1> HIDE DEF z
  <1>3. CASE o = "succeeded"
    <2>1. z = Recorded(c, E("execution_succeeded"), "result")
      BY <1>3, Zenon DEF Concluded, z
    <2> HIDE DEF E
    <2> QED BY <1>1, <1>3, <2>1, Zenon DEF z
  <1>4. CASE o = "failed" /\ r /\ real # {}
    <2>1. o # "succeeded"
      BY <1>4, Zenon
    <2>2. z = Recorded(c, E("execution_failed"), "error")
      BY <1>4, <2>1, Zenon DEF Concluded, z
    <2>3. c.called # <<>>
      BY <1>4, MatchedEvidence, Zenon
    <2> HIDE DEF E
    <2> QED BY <1>1, <1>4, <2>2, <2>3, Zenon DEF z
  <1>5. CASE o = "failed" /\ r /\ real = {}
    <2>1. o # "succeeded"
      BY <1>5, Zenon
    <2>2. z = Unrecorded(c, "error")
      BY <1>5, <2>1, Zenon DEF Concluded, z
    <2>3. c.called = <<>>
      BY <1>5, MatchedEvidence, Zenon
    <2> QED BY <1>2, <2>2, <2>3, Zenon DEF z
  <1>6. CASE o = "failed" /\ ~r
    <2>1. o # "succeeded"
      BY <1>6, Zenon
    <2>2. z = Unrecorded(c, "exception")
      BY <1>6, <2>1, Zenon DEF Concluded, z
    <2> QED BY <1>2, <2>2, Zenon DEF z
  <1>7. CASE o \in {"deadline", "cancelled"}
    <2>1. o # "succeeded" /\ o # "failed"
      BY <1>7, Zenon
    <2>2. z = Unrecorded(c, o)
      BY <2>1, Zenon DEF Concluded, z
    <2> QED BY <1>2, <1>7, <2>2, Zenon DEF z
  <1> QED BY <1>3, <1>4, <1>5, <1>6, <1>7, Zenon DEF Outcomes, z

\* A step of the executor and what the service makes of it.
LEMMA FollowKeeps ==
  ASSUME settings \in Settings, settings.journal # "off", NEW a \in Attempts,
         gov = [b \in Attempts |-> gov[b]], CallInv(settings, gov[a], ex[a]), gov[a].pc = "executing",
         NEW log \in Seq(Logged), NEW called \in Seq(Deployments), NEW r \in BOOLEAN,
         Follow(a, log, called, r), ex'[a].pc \in Busy \cup Outcomes,
         \A k \in 1..Len(called) : called[k] \in settings.authorized,
         ex'[a].pc \in Busy => TallyInv(log, called, ex'[a]),
         ex'[a].pc = "succeeded" => Matched(log, called) /\ called # <<>>,
         ex'[a].pc = "failed" /\ r => Matched(log, called)
  PROVE  CallInv(settings, gov'[a], ex'[a])
  <1> DEFINE c == [gov[a] EXCEPT !.log = log, !.called = called]
             y == ex'[a]
  <1>1. /\ DOMAIN c = CallFields /\ c.log = log /\ c.called = called /\ c.pc = "executing"
        /\ c.envelope = gov[a].envelope /\ c.group = gov[a].group /\ c.evidence = NoEvidence
    BY Zenon DEF CallInv, CallFields
  <1>2. gov'[a] = IF y.pc \in Outcomes THEN Concluded(c, y.pc, r) ELSE c
    BY Zenon DEF Follow
  <1>3. y.pc \in Busy <=> y.pc \notin Outcomes
    BY Zenon DEF Busy, Waiting, InScope, InTry, Outcomes
  <1>4. /\ Verified(gov[a].envelope) /\ gov[a].group \in AuthorizedGroups(gov[a].envelope)
        /\ \A d \in settings.authorized : settings.groups[d] = gov[a].group
    BY Zenon DEF CallInv, CoverInv
  <1> HIDE DEF c
  <1>5. CASE y.pc \in Busy
    <2>1. gov'[a] = c
      BY <1>2, <1>3, <1>5, Zenon
    <2>2. CoverInv(settings, c) /\ ReplyInv(c)
      BY <1>1, <1>4, Zenon DEF CoverInv, ReplyInv
    <2> QED BY <1>1, <1>5, <2>1, <2>2, Zenon DEF CallInv
  <1>6. CASE y.pc \in Outcomes
    <2>1. PICK z : z = Concluded(c, y.pc, r)
      BY Zenon
    <2>2. /\ DOMAIN z = CallFields /\ z.pc \in {"delivering", "done"}
          /\ z.log = log /\ z.called = called /\ z.envelope = gov[a].envelope
          /\ z.group = gov[a].group /\ ReplyInv(z)
      <3> DEFINE o == y.pc
      <3>1. o \in Outcomes /\ (o = "succeeded" => Matched(c.log, c.called) /\ c.called # <<>>)
            /\ (o = "failed" /\ r => Matched(c.log, c.called))
        BY <1>1, <1>6, Zenon
      <3> HIDE DEF o
      <3>2. z = Concluded(c, o, r)
        BY <2>1, Zenon DEF o
      <3> QED BY <1>1, <3>1, <3>2, ConcludedKeeps DEF EndsWell
    <2>3. CoverInv(settings, z)
      BY <1>4, <2>2, Zenon DEF CoverInv
    <2>4. gov'[a] = z
      BY <1>2, <1>6, <2>1, Zenon
    <2> QED BY <1>3, <1>6, <2>2, <2>3, <2>4, Zenon DEF CallInv
  <1> QED BY <1>5, <1>6, Zenon

LEMMA MoveFacts ==
  ASSUME NEW st, NEW x \in RawExecution, NEW y, Move(st, x, y), x.pc \in Busy
  PROVE  /\ y.pc \in Busy \cup Outcomes
         /\ y.pc = "succeeded" => x.pc = "releasing" /\ x.after = "succeeded"
         /\ y.pc = "calling" => Current(y) = Current(x)
  <1> USE DEF Busy, Waiting, InScope, InTry, Outcomes
  <1>1. DOMAIN x = {"pc", "plan", "i", "n", "tried", "calls", "transient", "after", "left", "unaccounted"}
    BY Zenon DEF RawExecution
  <1>2. ~Begins(st, x, y) /\ ~Declines(x, y)
    BY Zenon DEF Begins, Declines, Resting
  <1>3. CASE Ends(st, x, y)
    <2>1. PICK o \in Outcomes :
            /\ y = [Idle EXCEPT !.pc = o, !.unaccounted = x.unaccounted]
            /\ o = "succeeded" => x.pc = "releasing" /\ x.after = "succeeded"
      BY <1>3, Zenon DEF Ends
    <2>2. y.pc = o
      BY <2>1, Zenon DEF Idle
    <2> QED BY <2>1, <2>2, Zenon
  <1>4. CASE Calls(x, y)
    BY <1>1, <1>4, Zenon DEF Calls, Current
  <1>5. CASE Leaves(st, x, y)
    <2>1. y.pc = "releasing"
      BY <1>1, <1>5, Zenon DEF Leaves
    <2> QED BY <2>1, Zenon
  <1>6. CASE Proceeds(x, y) \/ FallsBack(x, y) \/ Sleeps(x, y) \/ Wakes(x, y)
    <2>1. y.pc \in {"admitting", "head", "sleeping"}
      BY <1>1, <1>6, Zenon DEF Proceeds, FallsBack, Sleeps, Wakes
    <2> QED BY <2>1, Zenon
  <1>7. CASE Answers(x, y) \/ Handles(x, y) \/ Considers(st, x, y)
    <2>1. y.pc \in {"recording", "reporting", "deciding"}
      BY <1>1, <1>7, Zenon DEF Answers, Handles, Considers
    <2> QED BY <2>1, Zenon
  <1> QED BY <1>2, <1>3, <1>4, <1>5, <1>6, <1>7, Zenon DEF Move

\* What is known of a governed execution.
LEMMA GovernedFacts ==
  ASSUME GovernedInv, NEW a \in Attempts, settings.journal # "off", Governed(a)
  PROVE  /\ settings \in Settings /\ ExecutorInv /\ gov = [b \in Attempts |-> gov[b]]
         /\ CallInv(settings, gov[a], ex[a]) /\ gov[a].pc = "executing"
         /\ gov[a].log \in Seq(Logged) /\ gov[a].called \in Seq(Deployments)
         /\ \A k \in 1..Len(gov[a].called) : gov[a].called[k] \in settings.authorized
         /\ ex[a] \in RawExecution /\ ex[a].pc \in Busy /\ PlaceInv(settings, ex[a])
         /\ TallyInv(gov[a].log, gov[a].called, ex[a])
         /\ Candidate(a) = Current(ex[a]) /\ Current(ex[a]) \in Deployments \cap settings.authorized
  <1>1. /\ settings \in Settings /\ ExecutorInv /\ gov = [b \in Attempts |-> gov[b]]
        /\ CallInv(settings, gov[a], ex[a]) /\ gov[a].pc = "executing"
    BY Zenon DEF GovernedInv, ExecutorInv, Governed
  <1>2. /\ gov[a].log \in Seq(Logged) /\ gov[a].called \in Seq(Deployments)
        /\ \A k \in 1..Len(gov[a].called) : gov[a].called[k] \in settings.authorized
        /\ ex[a].pc \in Busy /\ TallyInv(gov[a].log, gov[a].called, ex[a])
    BY <1>1, Zenon DEF CallInv, CoverInv
  <1>3. ex[a] \in RawExecution /\ PlaceInv(settings, ex[a])
    BY <1>1, <1>2, Zenon DEF ExecutorInv, ExecutionInv
  <1>4. Candidate(a) = Current(ex[a]) /\ Current(ex[a]) \in settings.authorized
    BY <1>3, Zenon DEF Candidate, Current, PlaceInv, SoundPlan
  <1>5. settings.authorized \subseteq Deployments
    BY <1>1, SettingsType, Zenon
  <1> QED BY <1>1, <1>2, <1>3, <1>4, <1>5, Zenon

LEMMA OtherFollows ==
  ASSUME GovernedInv, NEW a \in Attempts, settings.journal # "off", Governed(a), GovernedOther(a)
  PROVE  CallInv(settings, gov'[a], ex'[a])
  <1>1. Follow(a, gov[a].log, gov[a].called, FALSE)
    BY Zenon DEF GovernedOther
  <1>2. ExecutorInv /\ ex[a] \in RawExecution /\ ex[a].pc \in Busy
    BY GovernedFacts, Zenon
  <1>3. MovesOn(a) /\ (ex[a].pc \in {"calling", "head", "sleeping"} \/ Discreet(ex'[a]))
    <2>1. CASE Provider(a)
      BY <1>2, <2>1, ProviderMoves, Zenon DEF Provider, Respond, Fail, Raise
    <2>2. CASE Advance(a)
      BY <1>2, <2>2, AdvanceMoves, Zenon DEF Advance, Resolve, Wake
    <2>3. CASE TrackerFails(a)
      BY <1>2, <2>3, TrackerFailsMoves, Zenon
    <2>4. ASSUME NEW why \in {"cancelled", "deadline"}, Interrupt(a, why)
          PROVE  MovesOn(a) /\ Discreet(ex'[a])
      BY <1>2, <2>4, InterruptMoves, Zenon
    <2>5. ASSUME NEW why \in {"cancelled", "deadline"}, NEW g \in Breaker!Fresh, InterruptAdmitted(a, why, g)
          PROVE  MovesOn(a) /\ Discreet(ex'[a])
      BY <1>2, <2>5, InterruptAdmittedMoves, FreshIsGeneration, Zenon
    <2> QED BY <2>1, <2>2, <2>3, <2>4, <2>5, Zenon DEF GovernedOther
  <1>4. PICK y : y = ex'[a]
    BY Zenon
  <1>5. /\ y.pc \in Busy \cup Outcomes /\ y.pc # "succeeded"
        /\ y.pc \in Busy => TallyInv(gov[a].log, gov[a].called, y)
    <2>1. Move(settings, ex[a], y)
      BY <1>3, <1>4, Zenon DEF MovesOn
    <2>2. TallyInv(gov[a].log, gov[a].called, ex[a])
      BY GovernedFacts, Zenon
    <2> QED BY <1>2, <1>3, <1>4, <2>1, <2>2, SameLists, Zenon
  <1> QED BY <1>1, <1>4, <1>5, GovernedFacts, FollowKeeps, Zenon

LEMMA AppendLast ==
  ASSUME NEW S, NEW s \in Seq(S), NEW e \in S
  PROVE  /\ Append(s, e) \in Seq(S) /\ Append(s, e) # <<>> /\ Last(Append(s, e)) = e
         /\ Len(Append(s, e)) = Len(s) + 1 /\ Len(s) \in Nat
         /\ \A k \in 1..Len(s) + 1 : Append(s, e)[k] = IF k = Len(s) + 1 THEN e ELSE s[k]
  BY DEF Last

LEMMA AdmitFollows ==
  ASSUME GovernedInv, NEW a \in Attempts, settings.journal # "off", Governed(a),
         NEW g \in Breaker!Fresh, GovernedAdmit(a, g)
  PROVE  CallInv(settings, gov'[a], ex'[a])
  <1> DEFINE d == Candidate(a)
             refused == held'[a] = NoAdmission
             oldlog == gov[a].log
             oldcalled == gov[a].called
             log == IF refused THEN Append(oldlog, Attempt(d, "circuit_open")) ELSE oldlog
             called == IF ex'[a].pc = "calling" THEN Append(oldcalled, d) ELSE oldcalled
             x == ex[a]
             y == ex'[a]
  <1>1. Follow(a, log, called, refused) /\ refused \in BOOLEAN
    BY Zenon DEF GovernedAdmit
  <1>2. /\ ExecutorInv /\ x \in RawExecution /\ x.pc \in Busy
        /\ oldlog \in Seq(Logged) /\ oldcalled \in Seq(Deployments)
        /\ \A k \in 1..Len(oldcalled) : oldcalled[k] \in settings.authorized
        /\ TallyInv(oldlog, oldcalled, x) /\ d = Current(x)
        /\ d \in Deployments /\ d \in settings.authorized
    BY GovernedFacts, Zenon
  <1>3. /\ MovesOn(a) /\ x.pc = "admitting"
        /\ \/ refused /\ y = Advanced(a)
           \/ ~refused /\ y.pc = "releasing" /\ y.after = "deadline"
           \/ ~refused /\ y.pc = "calling"
    BY <1>2, AdmitMoves, FreshIsGeneration, Zenon DEF GovernedAdmit
  <1>4. Matched(oldlog, oldcalled) /\ ~(oldlog # <<>> /\ Last(oldlog).outcome = "permanent")
    BY <1>2, <1>3, Zenon DEF TallyInv
  <1>5. y.pc \in Busy \cup Outcomes /\ y.pc # "succeeded" /\ (y.pc = "calling" => Current(y) = d)
    <2>1. Move(settings, x, y)
      BY <1>3, Zenon DEF MovesOn
    <2> HIDE DEF x, y, d
    <2> QED BY <1>2, <1>3, <2>1, MoveFacts, Zenon
  <1> HIDE DEF d, oldlog, oldcalled, refused, x, y
  <1>6. Attempt(d, "circuit_open") \in Logged /\ Attempt(d, "circuit_open").outcome # "permanent"
    BY <1>2, Zenon DEF Attempt, Logged, Verdicts
  <1>7. CASE refused
    <2>1. y.pc \in {"head"} \cup Outcomes
      BY <1>2, <1>3, <1>7, AdvancedMoves, Zenon DEF x
    <2>2. log = Append(oldlog, Attempt(d, "circuit_open")) /\ called = oldcalled
      BY <1>7, <2>1, Zenon DEF Outcomes, y
    <2> HIDE DEF log, called
    <2>3. Matched(log, called) /\ log \in Seq(Logged) /\ Last(log).outcome # "permanent"
      BY <1>2, <1>4, <1>6, <2>2, RefusalIsNoCall, AppendLast
    <2>4. TallyInv(log, called, y) \/ y.pc \notin Busy
      BY <2>1, <2>3, Zenon DEF TallyInv, InTry, Outcomes, Busy, Waiting, InScope
    <2> QED BY <1>1, <1>2, <1>5, <2>2, <2>3, <2>4, GovernedFacts, FollowKeeps DEF y
  <1>8. CASE ~refused /\ y.pc = "calling"
    <2>1. log = oldlog /\ called = Append(oldcalled, d)
      BY <1>8, Zenon DEF y
    <2> HIDE DEF log, called
    <2>2. /\ called \in Seq(Deployments) /\ called # <<>> /\ Last(called) = d
          /\ Len(called) = Len(oldcalled) + 1
      BY <1>2, <2>1, AppendLast, Zenon
    <2>3. \A k \in 1..Len(called) : called[k] \in settings.authorized
      BY <1>2, <2>1, <2>2, AppendLast
    <2>4. Pending(log, called, Current(y))
      BY <1>4, <1>5, <1>8, <2>1, <2>2, Zenon DEF Pending, Matched
    <2>5. TallyInv(log, called, y)
      BY <1>4, <1>8, <2>1, <2>4, Zenon DEF TallyInv
    <2> QED BY <1>1, <1>2, <1>5, <1>8, <2>1, <2>2, <2>3, <2>5, GovernedFacts, FollowKeeps, Zenon DEF y
  <1>9. CASE ~refused /\ y.pc = "releasing" /\ y.after = "deadline"
    <2>1. log = oldlog /\ called = oldcalled
      BY <1>9, Zenon DEF y
    <2> HIDE DEF log, called
    <2>2. TallyInv(log, called, y)
      BY <1>4, <1>9, <2>1, Zenon DEF TallyInv, InTry
    <2> QED BY <1>1, <1>2, <1>5, <1>9, <2>1, <2>2, GovernedFacts, FollowKeeps, Zenon DEF y
  <1> QED BY <1>3, <1>7, <1>8, <1>9, Zenon

LEMMA SuccessFollows ==
  ASSUME GovernedInv, NEW a \in Attempts, settings.journal # "off", Governed(a),
         NEW g \in Breaker!Fresh, GovernedSuccess(a, g)
  PROVE  CallInv(settings, gov'[a], ex'[a])
  <1> DEFINE d == Candidate(a)
             oldlog == gov[a].log
             called == gov[a].called
             log == IF ex'[a].after = "succeeded" THEN Append(oldlog, Attempt(d, "succeeded")) ELSE oldlog
             x == ex[a]
             y == ex'[a]
  <1>1. Follow(a, log, called, FALSE)
    BY Zenon DEF GovernedSuccess
  <1>2. /\ ExecutorInv /\ oldlog \in Seq(Logged) /\ called \in Seq(Deployments)
        /\ TallyInv(oldlog, called, x) /\ d = Current(x) /\ d \in Deployments
        /\ \A k \in 1..Len(called) : called[k] \in settings.authorized
    BY GovernedFacts, Zenon
  <1>3. /\ x.pc = "recording" /\ Current(y) = d
        /\ \/ y.pc = "reporting" /\ y.after = "none"
           \/ y.pc = "releasing" /\ y.after \in {"succeeded", "deadline"}
    BY <1>2, RecordSuccessMoves, FreshIsGeneration, Zenon DEF GovernedSuccess
  <1>4. Pending(oldlog, called, d) /\ ~(oldlog # <<>> /\ Last(oldlog).outcome = "permanent")
    BY <1>2, <1>3, Zenon DEF TallyInv, InTry
  <1> HIDE DEF d, oldlog, called, x, y
  <1>5. /\ Attempt(d, "succeeded") \in Logged /\ Attempt(d, "succeeded").outcome # "permanent"
        /\ "succeeded" \in Verdicts
    BY <1>2, Zenon DEF Attempt, Logged, Verdicts
  <1>6. TallyInv(log, called, y) /\ log \in Seq(Logged)
    <2>1. CASE y.after = "succeeded"
      <3>1. log = Append(oldlog, Attempt(d, "succeeded"))
        BY <2>1, Zenon DEF y
      <3> HIDE DEF log
      <3>2. Matched(log, called) /\ called # <<>> /\ Last(log).outcome # "permanent" /\ log \in Seq(Logged)
        BY <1>2, <1>4, <1>5, <3>1, AttemptSettles, AppendLast DEF Pending
      <3> QED BY <1>3, <2>1, <3>2, Zenon DEF TallyInv, InTry
    <2>2. CASE y.after # "succeeded"
      <3>1. log = oldlog
        BY <2>2, Zenon DEF y
      <3> HIDE DEF log
      <3> QED BY <1>2, <1>3, <1>4, <2>2, <3>1, Zenon DEF TallyInv, InTry
    <2> QED BY <2>1, <2>2, Zenon
  <1> HIDE DEF log
  <1>7. y.pc \in Busy \cup Outcomes /\ y.pc \notin Outcomes
    BY <1>3, Zenon DEF Busy, Waiting, InScope, Outcomes
  <1> QED BY <1>1, <1>2, <1>6, <1>7, GovernedFacts, FollowKeeps, Zenon DEF y, Outcomes

LEMMA FailureFollows ==
  ASSUME GovernedInv, NEW a \in Attempts, settings.journal # "off", Governed(a),
         NEW g \in Breaker!Fresh, GovernedFailure(a, g)
  PROVE  CallInv(settings, gov'[a], ex'[a])
  <1> DEFINE d == Candidate(a)
             oldlog == gov[a].log
             called == gov[a].called
             verdict == IF ex[a].transient THEN "transient" ELSE "permanent"
             log == IF ex'[a].pc = "releasing" THEN Append(oldlog, Attempt(d, verdict)) ELSE oldlog
             x == ex[a]
             y == ex'[a]
  <1>1. Follow(a, log, called, FALSE)
    BY Zenon DEF GovernedFailure
  <1>2. /\ ExecutorInv /\ oldlog \in Seq(Logged) /\ called \in Seq(Deployments)
        /\ TallyInv(oldlog, called, x) /\ d = Current(x) /\ d \in Deployments
        /\ \A k \in 1..Len(called) : called[k] \in settings.authorized
        /\ PlaceInv(settings, x)
    BY GovernedFacts, Zenon
  <1>3. /\ x.pc \in {"reporting", "deciding"} /\ Current(y) = d
        /\ \/ y.pc = "deciding"
           \/ y.pc = "releasing" /\ y.after = "failed"
           \/ y.pc = "releasing" /\ y.after \in {"next", "retry"} /\ x.transient
    <2>1. CASE RecordFailure(a, g)
      BY <1>2, <2>1, RecordFailureMoves, FreshIsGeneration, Zenon
    <2>2. CASE Decide(a, g)
      BY <1>2, <2>2, DecideMoves, FreshIsGeneration, Zenon DEF PlaceInv
    <2> QED BY <2>1, <2>2, Zenon DEF GovernedFailure
  <1>4. Pending(oldlog, called, d) /\ ~(oldlog # <<>> /\ Last(oldlog).outcome = "permanent")
    BY <1>2, <1>3, Zenon DEF TallyInv
  <1>5. /\ verdict \in Verdicts /\ verdict # "circuit_open"
        /\ verdict = "permanent" => ~x.transient
    BY Zenon DEF Verdicts
  <1> HIDE DEF d, oldlog, called, verdict, x, y
  <1>6. Attempt(d, verdict) \in Logged /\ Attempt(d, verdict).outcome = verdict
    BY <1>2, <1>5, Zenon DEF Attempt, Logged
  <1>7. TallyInv(log, called, y) /\ log \in Seq(Logged)
    <2>1. CASE y.pc = "releasing"
      <3>1. log = Append(oldlog, Attempt(d, verdict))
        BY <2>1, Zenon DEF y
      <3> HIDE DEF log
      <3>2. Matched(log, called) /\ called # <<>> /\ Last(log).outcome = verdict /\ log \in Seq(Logged)
        BY <1>2, <1>4, <1>5, <1>6, <3>1, AttemptSettles, AppendLast DEF Pending
      <3> QED BY <1>3, <1>5, <2>1, <3>2, Zenon DEF TallyInv, InTry
    <2>2. CASE y.pc # "releasing"
      <3>1. log = oldlog
        BY <2>2, Zenon DEF y
      <3> HIDE DEF log
      <3> QED BY <1>2, <1>3, <1>4, <2>2, <3>1, Zenon DEF TallyInv, InTry
    <2> QED BY <2>1, <2>2, Zenon
  <1> HIDE DEF log
  <1>8. y.pc \in Busy \cup Outcomes /\ y.pc \notin Outcomes
    BY <1>3, Zenon DEF Busy, Waiting, InScope, Outcomes
  <1> QED BY <1>1, <1>2, <1>7, <1>8, GovernedFacts, FollowKeeps, Zenon DEF y, Outcomes

LEMMA ReleaseFollows ==
  ASSUME GovernedInv, NEW a \in Attempts, settings.journal # "off", Governed(a),
         NEW g \in Breaker!Fresh, GovernedRelease(a, g)
  PROVE  CallInv(settings, gov'[a], ex'[a])
  <1> DEFINE log == gov[a].log
             called == gov[a].called
             x == ex[a]
             y == ex'[a]
             r == x.after = "next" \/ (log # <<>> /\ Last(log).outcome = "permanent")
  <1>1. Follow(a, log, called, r) /\ r \in BOOLEAN
    BY Zenon DEF GovernedRelease
  <1>2. /\ ExecutorInv /\ x \in RawExecution /\ x.pc \in Busy
        /\ log \in Seq(Logged) /\ called \in Seq(Deployments) /\ TallyInv(log, called, x)
        /\ \A k \in 1..Len(called) : called[k] \in settings.authorized
    BY GovernedFacts, Zenon
  <1>3. MovesOn(a) /\ x.pc = "releasing" /\ y = Left(a)
    BY <1>2, ReleaseMoves, FreshIsGeneration, Zenon DEF GovernedRelease
  <1>4. y.pc \in {"head", "sleeping"} \cup Outcomes
    BY <1>2, <1>3, LeftMoves, Zenon
  <1>5. Move(settings, x, y)
    BY <1>3, Zenon DEF MovesOn
  <1> HIDE DEF log, called, x, y
  <1>6. /\ y.pc \in Busy \cup Outcomes
        /\ y.pc = "succeeded" => Matched(log, called) /\ called # <<>>
    BY <1>2, <1>3, <1>5, MoveFacts, Zenon DEF TallyInv
  <1>7. y.pc \in Busy => TallyInv(log, called, y)
    <2>1. SUFFICES ASSUME y.pc \in Busy PROVE TallyInv(log, called, y)
      BY Zenon
    <2>2. Discreet(y)
      BY <1>4, <2>1, Zenon DEF Discreet, Busy, Waiting, InScope, InTry, Outcomes
    <2> QED BY <1>2, <1>5, <2>1, <2>2, SameLists, Zenon
  <1>8. r => Matched(log, called)
    BY <1>2, <1>3, Zenon DEF TallyInv
  <1> HIDE DEF r
  <1> QED BY <1>1, <1>2, <1>6, <1>7, <1>8, GovernedFacts, FollowKeeps DEF y

\* A step that changes one call and its execution.
LEMMA OthersKeep ==
  ASSUME GovernedInv, ExecutorInv', settings' = settings, NEW a \in Attempts, NEW z,
         gov' = [gov EXCEPT ![a] = z], \A b \in Attempts \ {a} : ex'[b] = ex[b],
         CallInv(settings, gov'[a], ex'[a])
  PROVE  GovernedInv'
  <1>1. gov' = [b \in Attempts |-> gov'[b]] /\ \A b \in Attempts \ {a} : gov'[b] = gov[b]
    BY Zenon DEF GovernedInv
  <1>2. \A b \in Attempts : CallInv(settings', gov'[b], ex'[b])
    <2> TAKE b \in Attempts
    <2>1. CASE b = a
      BY <2>1, Zenon
    <2>2. CASE b # a
      BY <1>1, <2>2, Zenon DEF GovernedInv
    <2> QED BY <2>1, <2>2, Zenon
  <1> QED BY <1>1, <1>2, Zenon DEF GovernedInv

LEMMA NewCallFacts ==
  /\ DOMAIN NewCall = CallFields /\ NewCall.pc = "idle" /\ NewCall.log = <<>> /\ NewCall.called = <<>>
  /\ NewCall.evidence = NoEvidence /\ NewCall.reply = "none"
  BY Zenon DEF NewCall, CallFields

LEMMA NothingMatches == Matched(<<>>, <<>>)
  <1>1. ProviderAttempts(<<>>) = {}
    BY DEF ProviderAttempts
  <1> QED BY <1>1, FS_EmptySet, Zenon DEF Matched

LEMMA SubmitKeeps ==
  ASSUME GovernedInv, NEW a \in Attempts, settings.journal # "off", NEW e, NEW wait, NEW left,
         Submit(a, e, wait, left)
  PROVE  CallInv(settings, gov'[a], ex'[a])
  <1> DEFINE new == IF Verified(e)
                    THEN [NewCall EXCEPT !.pc = "submitted", !.envelope = e, !.wait = wait, !.left = left]
                    ELSE [NewCall EXCEPT !.pc = "done", !.reply = "unverified"]
  <1>1. gov'[a] = new /\ ex'[a] = ex[a] /\ ex[a].pc \notin Busy
    BY Zenon DEF Submit, GovernedInv, CallInv
  <1>2. /\ DOMAIN new = CallFields /\ new.log = <<>> /\ new.called = <<>> /\ new.evidence = NoEvidence
        /\ \/ new.pc = "submitted" /\ Verified(new.envelope)
           \/ new.pc = "done" /\ new.reply = "unverified"
    BY NewCallFacts, Zenon DEF CallFields
  <1> HIDE DEF new
  <1>3. CoverInv(settings, new) /\ ReplyInv(new)
    BY <1>2, Zenon DEF CoverInv, ReplyInv
  <1> QED BY <1>1, <1>2, <1>3 DEF CallInv

LEMMA EnforceKeeps ==
  ASSUME GovernedInv, NEW a \in Attempts, settings.journal # "off", NEW differs, NEW p \in Plans,
         NEW replayable \in BOOLEAN, Enforce(a, differs, p, replayable)
  PROVE  CallInv(settings, gov'[a], ex'[a]) /\ (MovesOn(a) \/ ex' = ex)
  <1> DEFINE c == gov[a]
             reason == DenialReason(c.envelope, differs, c.wait, c.left, DecisionGroup)
             entered == [c EXCEPT !.wait = 0, !.left = 0, !.pc = "executing", !.group = DecisionGroup]
             denied == [NewCall EXCEPT !.envelope = c.envelope]
  <1>1. /\ settings \in Settings /\ ExecutorInv /\ gov = [b \in Attempts |-> gov[b]]
        /\ c.pc = "submitted" /\ ex[a].pc \notin Busy
        /\ DOMAIN c = CallFields /\ c.log = <<>> /\ c.called = <<>> /\ c.evidence = NoEvidence
        /\ Verified(c.envelope)
    BY Zenon DEF Enforce, GovernedInv, ExecutorInv, CallInv
  <1>2. /\ reason \in {"none"} \cup DenialReasons
        /\ reason = "none" => DecisionGroup \in AuthorizedGroups(c.envelope)
    BY Denials, Zenon
  <1>3. CASE reason # "none"
    <2>1. PICK z : z = Recorded(denied, Denial(reason), "violation")
      BY Zenon
    <2>2. gov'[a] = z /\ ex' = ex
      BY <1>1, <1>3, <2>1, Zenon DEF Enforce
    <2>3. /\ DOMAIN denied = CallFields /\ denied.log = <<>> /\ denied.called = <<>>
      BY NewCallFacts, Zenon DEF CallFields
    <2>4. Denial(reason) # NoEvidence /\ Denial(reason).outcome = "denied" /\ Denial(reason).reason # "none"
      BY <1>2, <1>3, RecordsAreEvidence, Zenon DEF Denial
    <2> HIDE DEF denied, reason
    <2>5. /\ DOMAIN z = CallFields /\ z.pc \in {"delivering", "done"} /\ z.log = <<>>
          /\ z.called = <<>> /\ z.evidence = Denial(reason) /\ z.reply = "violation"
      BY <1>1, <2>1, <2>3, Endings
    <2>6. CoverInv(settings, z) /\ ReplyInv(z)
      BY <2>4, <2>5, Zenon DEF CoverInv, ReplyInv
    <2> QED BY <1>1, <2>2, <2>5, <2>6 DEF CallInv
  <1>4. CASE reason = "none"
    <2>1. Start(a, p, replayable)
      BY <1>4, Zenon DEF Enforce
    <2>2. MovesOn(a) /\ ex'[a].pc \in {"head", "failed"}
      BY <1>1, <2>1, StartMoves, Zenon
    <2>3. gov'[a] = IF ex'[a].pc = "failed" THEN Unrecorded(entered, "error") ELSE entered
      BY <1>1, <1>4, Zenon DEF Enforce
    <2>4. /\ DOMAIN entered = CallFields /\ entered.pc = "executing" /\ entered.log = <<>>
          /\ entered.called = <<>> /\ entered.evidence = NoEvidence /\ entered.envelope = c.envelope
          /\ entered.group = DecisionGroup
      BY <1>1, Zenon DEF CallFields
    <2>5. /\ Verified(c.envelope) /\ DecisionGroup \in AuthorizedGroups(c.envelope)
          /\ \A d \in settings.authorized : settings.groups[d] = DecisionGroup
      BY <1>1, <1>2, <1>4, OneGroup, Zenon
    <2> HIDE DEF entered, reason, c
    <2>6. CASE ex'[a].pc = "head"
      <3>1. gov'[a] = entered
        BY <2>3, <2>6, Zenon
      <3>2. CoverInv(settings, entered) /\ ReplyInv(entered)
        BY <2>4, <2>5 DEF CoverInv, ReplyInv
      <3>3. TallyInv(<<>>, <<>>, ex'[a])
        BY <2>6, NothingMatches, Zenon DEF TallyInv, InTry
      <3>4. CallInv(settings, entered, ex'[a])
        BY <2>4, <2>6, <3>2, <3>3 DEF CallInv, Busy
      <3> QED BY <2>2, <3>1, <3>4, Zenon
    <2>7. CASE ex'[a].pc = "failed"
      <3>1. PICK z : z = Unrecorded(entered, "error")
        BY Zenon
      <3>2. /\ DOMAIN z = CallFields /\ z.pc = "done" /\ z.log = <<>> /\ z.called = <<>>
            /\ z.evidence = NoEvidence /\ z.reply = "error"
        BY <1>1, <2>4, <3>1, Endings
      <3>3. CoverInv(settings, z) /\ ReplyInv(z)
        BY <3>2, Zenon DEF CoverInv, ReplyInv
      <3>4. gov'[a] = z
        BY <2>3, <2>7, <3>1, Zenon
      <3>5. CallInv(settings, z, ex'[a])
        BY <2>7, <3>2, <3>3 DEF CallInv, Busy, Waiting, InScope, InTry
      <3> QED BY <2>2, <3>4, <3>5, Zenon
    <2> QED BY <2>2, <2>6, <2>7, Zenon
  <1> QED BY <1>3, <1>4, Zenon

LEMMA DeliverKeeps ==
  ASSUME GovernedInv, NEW a \in Attempts, settings.journal # "off", NEW how, Deliver(a, how)
  PROVE  CallInv(settings, gov'[a], ex'[a])
  <1> DEFINE c == gov[a]
             reply == CASE how = "cancelled" -> "cancelled"
                        [] how = "fails" /\ settings.journal = "required" -> "undelivered"
                        [] OTHER -> c.reply
  <1>1. /\ settings \in Settings /\ gov = [b \in Attempts |-> gov[b]] /\ CallInv(settings, c, ex[a])
        /\ c.pc = "delivering" /\ ex' = ex
    BY Zenon DEF Deliver, GovernedInv, ExecutorInv
  <1>2. reply \in {"cancelled", "undelivered", c.reply}
    <2>1. CASE how = "cancelled"
      <3>1. ~(how = "fails")
        BY <2>1, Zenon
      <3> QED BY <2>1, <3>1, Zenon
    <2>2. CASE how # "cancelled" /\ how = "fails" /\ settings.journal = "required"
      BY <2>2, Zenon
    <2>3. CASE how # "cancelled" /\ ~(how = "fails" /\ settings.journal = "required")
      BY <2>3, Zenon
    <2> QED BY <2>1, <2>2, <2>3, Zenon
  <1>3. gov'[a] = Unrecorded(c, reply)
    BY <1>1, Zenon DEF Deliver
  <1> HIDE DEF reply, c
  <1>4. PICK z : z = Unrecorded(c, reply)
    BY Zenon
  <1>5. DOMAIN c = CallFields
    BY <1>1, Zenon DEF CallInv
  <1>6. /\ DOMAIN z = CallFields /\ z.pc = "done" /\ z.log = c.log /\ z.called = c.called
        /\ z.envelope = c.envelope /\ z.group = c.group /\ z.evidence = c.evidence /\ z.reply = reply
    BY <1>1, <1>4, <1>5, Endings
  <1>7. CoverInv(settings, z) /\ ReplyInv(z)
    BY <1>1, <1>2, <1>6, Zenon DEF CallInv, CoverInv, ReplyInv
  <1> QED BY <1>1, <1>3, <1>4, <1>6, <1>7, Zenon DEF CallInv

\* Time that passes changes nothing of a call but what is left of its window.
LEMMA GovernedTickKeeps ==
  ASSUME GovernedInv, ExecutorInv', settings' = settings, GovernedTick
  PROVE  GovernedInv'
  <1>1. gov' = [b \in Attempts |-> gov'[b]]
    BY Zenon DEF GovernedTick
  <1>2. ASSUME NEW a \in Attempts PROVE CallInv(settings', gov'[a], ex'[a])
    <2> DEFINE c == gov[a]
               z == gov'[a]
               x == ex[a]
               y == ex'[a]
    <2>1. CallInv(settings, c, x) /\ x \in RawExecution
      BY Zenon DEF GovernedInv, ExecutorInv
    <2>2. z = [c EXCEPT !.wait = Down(c.wait), !.left = Down(c.left)]
      BY Zenon DEF GovernedTick
    <2>3. /\ DOMAIN z = DOMAIN c /\ z.pc = c.pc /\ z.log = c.log /\ z.called = c.called
          /\ z.envelope = c.envelope /\ z.group = c.group /\ z.evidence = c.evidence
          /\ z.reply = c.reply
      BY <2>1, <2>2, Zenon DEF CallInv, CallFields
    <2>4. y.pc = x.pc /\ y.after = x.after /\ Current(y) = Current(x)
      BY <2>1, Zenon DEF GovernedTick, Tick, RawExecution, Current
    <2> HIDE DEF c, x, y, z
    <2>5. CoverInv(settings, z) /\ ReplyInv(z)
      BY <2>1, <2>3, Zenon DEF CallInv, CoverInv, ReplyInv
    <2>6. z.pc = "executing" => TallyInv(z.log, z.called, y)
      BY <2>1, <2>3, <2>4, Zenon DEF CallInv, TallyInv
    <2>7. CallInv(settings, z, y)
      BY <2>1, <2>3, <2>4, <2>5, <2>6, Zenon DEF CallInv
    <2> QED BY <2>7, Zenon DEF y, z
  <1> QED BY <1>1, <1>2, Zenon DEF GovernedInv

LEMMA GovernedInit ==
  ASSUME GInit
  PROVE  GovernedInv
  <1>1. ExecutorInv /\ gov = [a \in Attempts |-> gov[a]]
    BY InitExecutor, Zenon DEF GInit
  <1>2. ASSUME NEW a \in Attempts PROVE CallInv(settings, gov[a], ex[a])
    <2>1. gov[a] = NewCall /\ ex[a] = Idle
      BY Zenon DEF GInit, Init
    <2>2. Idle.pc \notin Busy
      BY IdleType, Zenon DEF Busy, Waiting, InScope, InTry
    <2>3. CoverInv(settings, NewCall) /\ ReplyInv(NewCall)
      BY NewCallFacts, Zenon DEF CoverInv, ReplyInv
    <2> QED BY <2>1, <2>2, <2>3, NewCallFacts DEF CallInv
  <1> QED BY <1>1, <1>2, Zenon DEF GovernedInv

LEMMA GovernedKeeps ==
  ASSUME GovernedInv, [GNext]_gvars
  PROVE  GovernedInv'
  <1>1. ExecutorInv'
    BY GovernedSteps, NextKeeps, Zenon DEF GovernedInv
  <1>2. CASE UNCHANGED gvars
    <2>1. settings' = settings /\ ex' = ex /\ gov' = gov
      BY <1>2, Zenon DEF gvars, vars
    <2> QED BY <1>1, <2>1, Zenon DEF GovernedInv
  <1>3. CASE settings.journal = "off" /\ Next /\ gov' = gov
    <2>1. settings' = settings
      BY <1>3, Zenon DEF Next
    <2>2. ASSUME NEW a \in Attempts PROVE CallInv(settings', gov'[a], ex'[a])
      BY <1>3, <2>1, Zenon DEF GovernedInv, CallInv
    <2> QED BY <1>1, <1>3, <2>2, Zenon DEF GovernedInv
  <1>4. CASE settings.journal # "off" /\ GovernedStep /\ settings' = settings
    <2>1. settings.clients \subseteq Attempts /\ ExecutorInv
      BY SettingsType, Zenon DEF GovernedInv, ExecutorInv
    <2>2. CASE GovernedTick
      BY <1>1, <1>4, <2>2, GovernedTickKeeps, Zenon
    <2>3. ASSUME NEW a \in settings.clients, NEW e \in Envelopes, NEW wait, NEW left, Submit(a, e, wait, left)
          PROVE  GovernedInv'
      <3>1. a \in Attempts /\ ex' = ex /\ \E z : gov' = [gov EXCEPT ![a] = z]
        BY <2>1, <2>3, Zenon DEF Submit
      <3>2. CallInv(settings, gov'[a], ex'[a])
        BY <1>4, <2>3, <3>1, SubmitKeeps, Zenon
      <3> QED BY <1>1, <1>4, <3>1, <3>2, OthersKeep, Zenon
    <2>4. ASSUME NEW a \in settings.clients, NEW differs \in Mismatches, NEW p \in Plans,
                 NEW replayable \in BOOLEAN, Enforce(a, differs, p, replayable)
          PROVE  GovernedInv'
      <3>1. a \in Attempts /\ \E z : gov' = [gov EXCEPT ![a] = z]
        BY <2>1, <2>4, Zenon DEF Enforce
      <3>2. CallInv(settings, gov'[a], ex'[a]) /\ (MovesOn(a) \/ ex' = ex)
        BY <1>4, <2>4, <3>1, EnforceKeeps, Zenon
      <3>3. \A b \in Attempts \ {a} : ex'[b] = ex[b]
        BY <2>1, <3>2, Zenon DEF MovesOn, ExecutorInv
      <3> QED BY <1>1, <1>4, <3>1, <3>2, <3>3, OthersKeep, Zenon
    <2>5. ASSUME NEW a \in settings.clients, Governed(a),
                 \/ \E g \in Breaker!Fresh : \/ GovernedAdmit(a, g) \/ GovernedSuccess(a, g)
                                             \/ GovernedFailure(a, g) \/ GovernedRelease(a, g)
                 \/ GovernedOther(a)
          PROVE  GovernedInv'
      <3>1. a \in Attempts
        BY <2>1, Zenon
      <3>2. CallInv(settings, gov'[a], ex'[a])
        BY <1>4, <2>5, <3>1, AdmitFollows, SuccessFollows, FailureFollows, ReleaseFollows, OtherFollows, Zenon
      <3>3. \E log, called, r : Follow(a, log, called, r)
        BY <2>5, Zenon DEF GovernedAdmit, GovernedSuccess, GovernedFailure, GovernedRelease, GovernedOther
      <3>4. \E z : gov' = [gov EXCEPT ![a] = z]
        BY <3>3, Zenon DEF Follow
      <3>5. MovesOn(a)
        <4>1. ASSUME NEW g \in Breaker!Fresh,
                     \/ GovernedAdmit(a, g) \/ GovernedSuccess(a, g)
                     \/ GovernedFailure(a, g) \/ GovernedRelease(a, g)
              PROVE  MovesOn(a)
          <5>1. \/ Admit(a, g) \/ RecordSuccess(a, g) \/ RecordFailure(a, g)
                \/ Decide(a, g) \/ Release(a, g)
            BY <4>1, Zenon DEF GovernedAdmit, GovernedSuccess, GovernedFailure, GovernedRelease
          <5> QED BY <2>1, <3>1, <5>1, FreshIsGeneration, AdmitMoves, RecordSuccessMoves,
                     RecordFailureMoves, DecideMoves, ReleaseMoves, Zenon
        <4>2. CASE GovernedOther(a)
          BY <2>1, <3>1, <4>2, ProviderMoves, AdvanceMoves, TrackerFailsMoves, InterruptMoves,
             InterruptAdmittedMoves, FreshIsGeneration, Zenon DEF GovernedOther
        <4> QED BY <2>5, <4>1, <4>2, Zenon
      <3>6. \A b \in Attempts \ {a} : ex'[b] = ex[b]
        BY <2>1, <3>5, Zenon DEF MovesOn, ExecutorInv
      <3> QED BY <1>1, <1>4, <3>1, <3>2, <3>4, <3>6, OthersKeep, Zenon
    <2>6. ASSUME NEW a \in settings.clients, NEW how \in {"answers", "fails", "cancelled"}, Deliver(a, how)
          PROVE  GovernedInv'
      <3>1. a \in Attempts /\ ex' = ex /\ \E z : gov' = [gov EXCEPT ![a] = z]
        BY <2>1, <2>6, Zenon DEF Deliver
      <3>2. CallInv(settings, gov'[a], ex'[a])
        BY <1>4, <2>6, <3>1, DeliverKeeps, Zenon
      <3> QED BY <1>1, <1>4, <3>1, <3>2, OthersKeep, Zenon
    <2> QED BY <1>4, <2>2, <2>3, <2>4, <2>5, <2>6, Zenon DEF GovernedStep
  <1> QED BY <1>2, <1>3, <1>4, Zenon DEF GNext

\* GovernedInv is an invariant of the governed system.
THEOREM GovernanceIsSound == GSpec => []GovernedInv
  <1>1. GInit => GovernedInv
    BY GovernedInit, Zenon
  <1>2. GovernedInv /\ [GNext]_gvars => GovernedInv'
    BY GovernedKeeps, Zenon
  <1> QED BY <1>1, <1>2, PTL DEF GSpec

\* No governed request reaches a provider outside its signed scope: every call
\* of execute_governed was made under a verified envelope, for the group it
\* decided on, which a model reviewed for this class of data routes to.
THEOREM GovernedCallsAreCovered == GSpec => []CallsAreCovered
  <1>1. ASSUME GovernedInv, NEW a \in Attempts, NEW k \in DOMAIN gov[a].called
        PROVE  /\ Verified(gov[a].envelope) /\ Covers(gov[a].envelope, gov[a].called[k])
               /\ GroupOf(gov[a].called[k]) = gov[a].group
    <2> DEFINE c == gov[a]
               d == gov[a].called[k]
    <2>1. CoverInv(settings, c) /\ c.called \in Seq(Deployments)
      BY <1>1, Zenon DEF GovernedInv, CallInv
    <2>2. DOMAIN c.called = 1..Len(c.called) /\ c.called # <<>>
      BY <1>1, <2>1
    <2>3. /\ Verified(c.envelope) /\ c.group \in AuthorizedGroups(c.envelope)
          /\ GroupOf(d) = c.group
      BY <1>1, <2>1, <2>2, Zenon DEF CoverInv, GroupOf
    <2>4. Covers(c.envelope, d)
      BY <2>3, Zenon DEF Covers, AuthorizedGroups
    <2> QED BY <2>3, <2>4, Zenon
  <1>2. GovernedInv => CallsAreCovered
    BY <1>1, Zenon DEF CallsAreCovered
  <1> QED BY <1>2, GovernanceIsSound, PTL

\* The journal tells what the providers saw: a result or an exhausted
\* execution left one record with its last provider and the number of its
\* calls, a denial left its reason and made no call.
THEOREM JournalsMatchCalls == GSpec => []EvidenceMatchesCalls
  <1>1. GovernedInv => \A a \in Attempts : ReplyInv(gov[a])
    BY Zenon DEF GovernedInv, CallInv
  <1>2. GovernedInv => EvidenceMatchesCalls
    BY <1>1, Zenon DEF EvidenceMatchesCalls, ReplyInv
  <1> QED BY <1>2, GovernanceIsSound, PTL

\* The executor keeps its promises under governance.
THEOREM GovernedExecutorIsSound ==
  GSpec => [](CallsBounded /\ ProbeIsReturned /\ AccountedWithoutDeadline)
  BY GovernanceDrivesExecutor, CallsAreBounded, ProbesAreReturned, AttemptsAreAccounted, PTL

=============================================================================
