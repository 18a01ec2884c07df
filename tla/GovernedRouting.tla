--------------------------- MODULE GovernedRouting ---------------------------
(***************************************************************************)
(* What happens to a request before a provider is called: the credential   *)
(* is resolved to a trusted context, runtime health is read, the policy    *)
(* router (PDP) decides on a model group, and the registry is narrowed to  *)
(* the deployments that may serve (GenerateCoordinator,                    *)
(* ComplexityGenerateCoordinator, RouteExplainCoordinator and the core     *)
(* services they compose).                                                 *)
(*                                                                         *)
(* Requests run concurrently and share the circuits.  The PDP is external: *)
(* it decides once per request, and what reaches the gateway may be late,  *)
(* lost, malformed or the answer to another request.                       *)
(* A step is what the coroutine does between two awaits.  Identifiers of   *)
(* deployments are numbers, because ranking compares them; levels (risk,   *)
(* classification, complexity) are numbers in their order.                 *)
(***************************************************************************)
EXTENDS Integers, FiniteSets

CONSTANTS Requests, Keys, Messages,
          Deployments,    \* deployment_id
          Registry,       \* deployment -> its entry of the model registry
          Scores,         \* ranked workload -> deployment -> its score inputs
          Adapters,       \* deployment -> what its provider adapter can do
          Bindings,       \* the client authentication bindings, resolved
          PolicyClients,  \* clients with a PDP credential
          Groups, Environments,
          Defaults,       \* PolicyProjectionDefaults
          MaxFallbacks,   \* RetryPolicy.max_fallbacks
          Cached,         \* workloads of the response cache policy; {} disables it
          Complexity,     \* ComplexityPolicy and ComplexityQualityPolicy
          ComplexityOn,   \* complexity routing is configured
          Scenarios,      \* what the requests may ask for
          Volatile,       \* bound: the deployments whose health changes
          NoLimit, None

\* GenerateRequestModel and RouteExplainRequestModel, with the credential.
Claims ==
  [surface : {"generate", "explain"}, mode : {"operational", "complexity"},
   key : Keys, workload : STRING, risk : Nat, classification : Nat, needs : SUBSET STRING,
   tokens : Nat, output : Nat, minContext : Nat, cost : Nat \cup {NoLimit},
   latency : Nat \cup {NoLimit}, bounded : BOOLEAN, replayable : BOOLEAN, plain : BOOLEAN,
   messages : Messages]

ASSUME RoutingAssumption ==
  /\ Deployments \subseteq Int /\ Volatile \subseteq Deployments /\ MaxFallbacks \in Nat
  /\ "undecided" \notin Groups /\ "denied" \notin Groups
  /\ DOMAIN Registry = Deployments /\ Scenarios \subseteq [Requests -> Claims]
  /\ Defaults \in [cost : Int, latency : Int]
  /\ \A d \in Deployments :
       /\ Registry[d].classification \in Nat
       /\ Registry[d].inputPrice \in Int /\ Registry[d].outputPrice \in Int

\* _validate_bindings: client identities are unique.
ASSUME BindingAssumption ==
  /\ \A b \in Bindings : b.classification \in Nat
  /\ \A a, b \in Bindings : a.client = b.client => a = b

VARIABLES claim,     \* request -> the caller's claims, fixed
          pre,       \* request -> the state of its preflight
          pdp,       \* request -> what the PDP decided about it
          down,      \* deployments a health snapshot would report unusable
          downSince  \* request -> deployments down ever since it was received

vars == <<claim, pre, pdp, down, downSince>>

Endings ==
  {"prepared", "explained", "invalid_gateway_credential", "gateway_client_not_authorized",
   "invalid_generation_request", "invalid_policy_projection", "policy_denied", "policy_request_rejected",
   "policy_router_authentication_failed", "policy_router_unavailable",
   "ranking_policy_unavailable", "complexity_routing_unavailable",
   "no_eligible_streaming_deployment", "provider_adapter_unavailable",
   "streaming_not_supported", "streaming_usage_unavailable", "invalid_provider_request",
   "execution_deadline_exceeded", "internal_error"}

\* plan is the ranked candidates; their order is that of Ahead.
Fresh ==
  [pc |-> "received", context |-> None, unread |-> Deployments, healthy |-> {},
   policy |-> None, plan |-> {}, identity |-> None]

Init ==
  /\ claim \in Scenarios
  /\ pre = [r \in Requests |-> Fresh]
  /\ pdp = [r \in Requests |-> "undecided"]
  /\ down \in SUBSET Volatile
  /\ downSince = [r \in Requests |-> down]

-----------------------------------------------------------------------------
(* Trusted context.                                                        *)

Maximum(a, b) == IF a >= b THEN a ELSE b
Minimum(a, b) == IF a <= b THEN a ELSE b

\* _authenticate_binding: the bindings whose credential is the one presented.
Matches(key) == {b \in Bindings : b.credential = key}

\* EffectivePolicyContext: claims may only be stricter than the binding.
Context(c, b) ==
  [client |-> b.client, environment |-> b.environment, workload |-> c.workload,
   risk |-> Maximum(c.risk, b.risk),
   classification |-> Maximum(c.classification, b.classification)]

\* Ceilings of PolicyRequestMetadata: a caller may only lower the default.
Ceiling(limit, default) == IF limit = NoLimit THEN default ELSE Minimum(limit, default)

-----------------------------------------------------------------------------
(* Narrowing.                                                              *)

\* authorized_registry_candidates
Candidates(group) == {d \in DOMAIN Registry : Registry[d].group = group}

Scored(c, d) == c.workload \in DOMAIN Scores /\ d \in DOMAIN Scores[c.workload]

EstimatedCost(c, d) == Registry[d].inputPrice * c.tokens + Registry[d].outputPrice * c.output

\* Seeded fault: runtime health is not consulted.
UsableUnchecked(p, c, d) == TRUE

\* _runtime_health_rejection; explanations are given no health.
Usable(p, c, d) == c.surface = "explain" \/ d \in p.healthy

\* _eligibility_rejection finds nothing.
Eligible(p, c, d) ==
  /\ Registry[d].enabled
  /\ Usable(p, c, d)
  /\ p.context.environment \in Registry[d].environments
  /\ p.context.classification <= Registry[d].classification
  /\ c.needs \subseteq Registry[d].capabilities
  /\ Registry[d].context >= Maximum(c.minContext, c.tokens + c.output)
  /\ Scored(c, d)
  /\ Registry[d].priced
  /\ EstimatedCost(c, d) <= p.policy.cost
  /\ Scores[c.workload][d].latency <= p.policy.latency

\* The order of ranked.sort: best score first, then deployment_id.
Ahead(c, d, e) ==
  \/ Scores[c.workload][d].total > Scores[c.workload][e].total
  \/ Scores[c.workload][d].total = Scores[c.workload][e].total /\ d < e

\* The first n of S in that order.
Leading(c, S, n) == {d \in S : Cardinality({e \in S : Ahead(c, e, d)}) < n}

\* DeterministicComplexityEvaluator.assess
Threshold(value, medium, high) == IF value >= high THEN 2 ELSE IF value >= medium THEN 1 ELSE 0

Floors(c) ==
  {Complexity.floors[n] : n \in c.needs \cap DOMAIN Complexity.floors}
    \cup {Complexity.workloads[w] : w \in {c.workload} \cap DOMAIN Complexity.workloads}

Assessed(c) ==
  LET context == Threshold(Maximum(c.tokens, c.minContext), Complexity.context[1], Complexity.context[2])
      output == Threshold(c.output, Complexity.output[1], Complexity.output[2])
  IN  CHOOSE l \in {context, output} \cup Floors(c) :
        \A k \in {context, output} \cup Floors(c) : l >= k

\* narrow_authorized_candidates_by_complexity
Narrowed(c, S) ==
  IF c.mode = "complexity"
  THEN {d \in S : Scores[c.workload][d].quality >= Complexity.quality[Assessed(c)]}
  ELSE S

\* It has a score for every candidate and keeps at least one.
Narrowable(c, S) == (\A d \in S : Scored(c, d)) /\ Narrowed(c, S) # {}

-----------------------------------------------------------------------------
(* The response cache identity.                                            *)

\* Seeded fault: the caller's own classification is judged.
CacheableAsDeclared(c, p) ==
  c.mode # "complexity" /\ c.workload \in Cached /\ c.classification = 0 /\ c.plain

\* permits and is_cacheable_request; complexity routing never caches.
Cacheable(c, p) ==
  c.mode # "complexity" /\ c.workload \in Cached /\ p.context.classification = 0 /\ c.plain

\* _cache_identity; the digests of the registry and of the ranking policy are
\* fixed for the life of the process; the PDP's policy digest, which only
\* separates more entries, is left out.
Identity(c, p, group) ==
  IF Cacheable(c, p)
  THEN [client |-> p.context.client, workload |-> c.workload, risk |-> p.context.risk,
        classification |-> p.context.classification, group |-> group,
        output |-> c.output, messages |-> c.messages]
  ELSE None

-----------------------------------------------------------------------------
(* The steps of one request.                                               *)

\* StreamingExecutionService.prepare: candidates are resolved in order, and
\* the first whose adapter cannot stream refuses the request.
Prepared(c, p, ranked, group) ==
  LET bounded == Leading(c, ranked, IF c.replayable THEN MaxFallbacks + 1 ELSE 1)
      broken == {d \in bounded : Adapters[d] # "ready"}
  IN  IF broken # {}
      THEN [p EXCEPT !.pc = Adapters[CHOOSE d \in broken : \A e \in broken \ {d} : Ahead(c, d, e)]]
      ELSE [p EXCEPT !.pc = "prepared", !.plan = bounded, !.identity = Identity(c, p, group)]

\* What follows an accepted decision, without an await: narrow, rank, prepare.
Routed(c, p, group) ==
  LET S == Candidates(group)
      ranked == {d \in Narrowed(c, S) : Eligible(p, c, d)}
  IN  IF c.mode = "complexity" /\ ~Narrowable(c, S)
      THEN [p EXCEPT !.pc = "complexity_routing_unavailable"]
      ELSE IF c.workload \notin DOMAIN Scores
      THEN [p EXCEPT !.pc = "ranking_policy_unavailable"]
      ELSE IF c.surface = "explain"
      THEN [p EXCEPT !.pc = "explained", !.plan = ranked]
      ELSE IF ranked = {}
      THEN [p EXCEPT !.pc = "no_eligible_streaming_deployment"]
      ELSE Prepared(c, p, ranked, group)

Become(r, p) ==
  /\ pre' = [pre EXCEPT ![r] = p]
  /\ UNCHANGED <<claim, pdp, down, downSince>>

End(r, ending) == Become(r, [pre[r] EXCEPT !.pc = ending])

\* The coordinator of the mode, then StaticGatewayClientContextResolver.resolve.
Resolve(r) ==
  LET c == claim[r]
  IN  /\ pre[r].pc = "received"
      /\ IF c.mode = "complexity" /\ ~ComplexityOn
         THEN End(r, "complexity_routing_unavailable")
         ELSE IF Cardinality(Matches(c.key)) # 1
         THEN End(r, "invalid_gateway_credential")
         ELSE \E b \in Matches(c.key) :
                IF c.workload \notin b.workloads
                THEN End(r, "gateway_client_not_authorized")
                ELSE Become(r, [pre[r] EXCEPT
                       !.context = Context(c, b),
                       !.pc = IF c.surface = "explain" \/ Deployments = {}
                              THEN "projecting" ELSE "observing"])

\* snapshots() reads the deployments one after the other, in order.
Observe(r) ==
  /\ pre[r].pc = "observing"
  /\ \E d \in pre[r].unread :
       /\ \A e \in pre[r].unread : d <= e
       /\ Become(r, [pre[r] EXCEPT
            !.unread = @ \ {d},
            !.healthy = IF d \in down THEN @ ELSE @ \cup {d},
            !.pc = IF pre[r].unread = {d} THEN "projecting" ELSE "observing"])

\* A shared health store fails, which nothing in the preflight catches.
ObserveFails(r) == pre[r].pc = "observing" /\ End(r, "internal_error")

\* project_policy_request, then the PDP credential of the client.
Project(r) ==
  LET c == claim[r]
  IN  /\ pre[r].pc = "projecting"
      /\ IF c.cost # NoLimit /\ c.cost <= 0
         THEN End(r, IF c.surface = "explain" THEN "invalid_policy_projection"
                                              ELSE "invalid_generation_request")
         ELSE IF pre[r].context.client \notin PolicyClients
         THEN End(r, "policy_router_authentication_failed")
         ELSE Become(r, [pre[r] EXCEPT
                !.policy = [cost |-> Ceiling(c.cost, Defaults.cost),
                            latency |-> Ceiling(c.latency, Defaults.latency)],
                !.pc = "asking"])

\* Seeded fault: an answer is not matched with the request it was sent for.
CorrelatedByEnvironment(r, q, environment) == environment = pre[r].context.environment

\* _parse_success: the answer echoes this request and its environment.
Correlated(r, q, environment) == q = r /\ environment = pre[r].context.environment

\* The PDP decides a request once; its answers all say the same.
Decide(r) ==
  /\ pre[r].pc = "asking" /\ pdp[r] = "undecided"
  /\ \E decision \in Groups \cup {"denied"} : pdp' = [pdp EXCEPT ![r] = decision]
  /\ UNCHANGED <<claim, pre, down, downSince>>

\* The exchange returns the decision made for request q.
Answered(r) ==
  /\ pre[r].pc = "asking"
  /\ \E q \in Requests, environment \in Environments :
       /\ pdp[q] \in Groups
       /\ IF Correlated(r, q, environment)
          THEN Become(r, Routed(claim[r], pre[r], pdp[q]))
          ELSE End(r, "policy_router_unavailable")

\* What an exchange without a decision ends as: a rejection of this request or a
\* bare 403, a 422 about the request itself, a 401, and anything else.
Refusals ==
  {"policy_denied", "policy_request_rejected", "policy_router_authentication_failed",
   "policy_router_unavailable"}

\* Seeded fault: the exchange has no timeout of its own.
RefusedOnlyWhenDecided(r) ==
  /\ pre[r].pc = "asking" /\ pdp[r] # "undecided"
  /\ \E ending \in Refusals : End(r, ending)

\* It returns no decision: a denial (a rejection of this request, or a bare
\* 403), an error status, a malformed body, a transport failure, or the
\* adapter's timeout.
Refused(r) ==
  /\ pre[r].pc = "asking"
  /\ \E ending \in Refusals : End(r, ending)

\* ExecutionDeadline.run cancels what it bounds, and replaces a late error.
Expire(r) ==
  /\ claim[r].bounded /\ claim[r].surface = "generate"
  /\ claim[r].mode = "complexity" => ComplexityOn
  /\ pre[r].pc \in {"received", "observing", "projecting", "asking"}
  /\ End(r, "execution_deadline_exceeded")

\* Other traffic trips and recovers circuits at any time.
Flip(d) ==
  /\ down' = IF d \in down THEN down \ {d} ELSE down \cup {d}
  /\ downSince' = [r \in Requests |->
       IF pre[r].pc \in Endings THEN downSince[r] ELSE downSince[r] \ {d}]
  /\ UNCHANGED <<claim, pre, pdp>>

Step(r) ==
  Resolve(r) \/ Observe(r) \/ ObserveFails(r) \/ Project(r) \/ Answered(r) \/ Refused(r)

Next ==
  \/ \E r \in Requests : Step(r) \/ Decide(r) \/ Expire(r)
  \/ \E d \in Volatile : Flip(d)

Spec == Init /\ [][Next]_vars

\* The event loop runs every request, and an exchange with the PDP ends.
Fairness == \A r \in Requests : WF_vars(Step(r))

FairSpec == Spec /\ Fairness

-----------------------------------------------------------------------------
(* Properties.                                                             *)

\* Whatever answers arrive and in whatever order, a request is only given
\* deployments of the group the PDP decided on for that very request, within
\* its client's environment, workloads and classification floor, and within
\* its own claims and ceilings; complexity routing also holds its quality
\* floor (GenerateCoordinator: "without widening the PDP candidate set").
PlanIsAuthorized ==
  \A r \in Requests : \A d \in pre[r].plan :
    LET c == claim[r]
    IN  /\ Registry[d].group = pdp[r]
        /\ \E b \in Bindings :
             /\ b.credential = c.key /\ c.workload \in b.workloads
             /\ b.environment \in Registry[d].environments
             /\ b.classification <= Registry[d].classification
        /\ c.classification <= Registry[d].classification
        /\ Registry[d].enabled /\ c.needs \subseteq Registry[d].capabilities
        /\ c.cost # NoLimit => EstimatedCost(c, d) <= c.cost
        /\ c.mode = "complexity" =>
             Scores[c.workload][d].quality >= Complexity.quality[Assessed(c)]

\* Health is read before the PDP is asked and used after it answers, so a plan
\* may name a circuit that opened in between; it never names one that has been
\* open ever since the request arrived.
NeverPlansALastingOutage ==
  \A r \in Requests :
    pre[r].pc = "prepared" => pre[r].plan \cap downSince[r] = {}

\* Requests that share a cache entry belong to one client, whose binding holds
\* nothing above public, and the PDP decided on the same group for both.
CacheScopeIsAuthorized ==
  \A r, q \in Requests :
    pre[r].identity # None /\ pre[r].identity = pre[q].identity =>
      /\ pdp[r] = pdp[q]
      /\ \E b \in Bindings :
           /\ b.credential = claim[r].key /\ b.credential = claim[q].key
           /\ b.classification = 0
      /\ claim[r].classification = 0

\* Every preflight ends, even when the PDP stays silent and no execution
\* deadline is configured.
PreflightEnds == \A r \in Requests : <>(pre[r].pc \in Endings)

=============================================================================
