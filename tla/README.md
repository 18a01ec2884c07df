# Formal models of the governed LLM gateway

TLA+ specifications of the parts of the gateway where order, time and failure
decide correctness, checked by TLC on small instances and, for the core, proved
with TLAPS for every value of the constants. Paths below are relative to
`src/packages/gateway-core/src/governed_llm_gateway_core/` unless they say
otherwise. `PROJECT.json` maps each definition to the lines it models.

## 1. The system and its parts

A request passes through these parts. **Bold** ones are modelled, whole or in part.

1. **HTTP surface and protocols** (`apps/gateway-api`): authenticates the client,
   translates native, OpenAI or Anthropic requests, runs the **preflight**, renders the
   events of an execution and bounds their delivery by the deadline.
2. **Policy decision** (`application/policy.py`, `adapters/policy_router.py`): asks the
   policy router (PDP) which model group is authorized and fails closed.
3. **Registry, ranking, complexity routing**: narrow the authorized set to an ordered
   list of deployments. Ranking reads the health tracker's snapshots.
4. **Resilient execution** (`application/resilience.py`) and **streaming execution**
   (`application/streaming.py`): walk that list with retry and fallback, under one
   **execution deadline** (`application/execution_deadline.py`).
5. **Governance** (`adapters/governance_authorization.py`, `domain/governance.py`,
   `application/governance_execution.py`, `governance_evidence.py`): a signed envelope
   narrows what an execution may do, and a journal records what it did. The service is
   exercised by scripts and tests; the API does not construct it.
6. **Deployment health** (`InMemoryHealthTracker`, or `adapters/health_redis.py` shared
   by replicas): a circuit breaker that both executors ask before and inform after every
   provider call, with a leased, fenced half-open probe.
7. **Response cache** (as streaming uses it).
8. **Provider adapters**: one wire translation per provider, plain and streaming, over
   an **SSE reader**.
9. **Operational samples** (`application/operational_recording.py`, `operational_evidence.py`,
   `operational_sample_batch.py`, `adapters/operational_samples_memory.py`): both executors
   leave a sample or a completeness gap per provider attempt; windows of samples become
   evidence for ranking, in the same process or, through batch files, in another.
10. **Spend**: a guard over a shared **ledger** (`application/spend.py`,
    `adapters/spend_redis.py`), the **reservation reference** with its budgets and journals
    (`adapters/spend_admission_memory.py`) and the **cost evidence** its amounts come from
    (`domain/spend_cost_evidence.py`, `_v2.py`).
11. **Credential availability reference** (`adapters/credential_availability_memory.py`):
    rotation, leased validation and quarantine of a provider credential.
12. **Client SDK** and **console**: readers of the native stream.
13. *Operations read model, bootstrap, telemetry, artifact codecs, benchmarks.*

State, operations and interactions of the modelled parts:

| Part | State | Operations | Interacts with |
|---|---|---|---|
| Preflight | trusted context, health read so far, ceilings, plan, cache identity per request | resolve, observe, project, ask, narrow and prepare; expire | policy router, health, execution |
| Health, in process | circuit, opened-at, failure streak, generation, probe owner and expiry per deployment | allow, release, is_admitted, record success/failure, snapshot; lazy refresh in each | executors, ranking |
| Health, Redis | the same, in one hash with a TTL, plus counters | the same as Lua scripts; a reply may be lost, a key may expire | replicas, ranking |
| Execution | candidate, attempt number, admission, budget, outcome | resolve, admit, call, report, decide, release, sleep; interruption at each await | health, samples, deadline, governance |
| Governance | envelope, verdict, journal | verify, enforce, execute, append, deliver | execution, a remote sink |
| Streaming | the same as execution, plus the public events, the replay boundary and the collected answer | the same plus receive, check, store, replay, pull, close | health, samples, cache, consumer |
| Pipeline | the posted request, the provider's bytes, reader and adapter locals, encoder locals, frames sent | translate, send, read a chunk, normalize, publish, encode, deliver; retry, expire, leave | provider, streaming, clients |
| Samples | ordered samples, eviction and gap watermarks, batch and snapshot files | record, invalidate, read window, aggregate, export, reload | executors, evidence |
| Spend ledger | one bucket per limit and window, with an expiry | check bucket by bucket, record bucket by bucket | Redis, date |
| Spend reservations | settled and held amounts per scope, journal and slots per request, registered evidence and reports | quote, reserve, dispatch, report, settle, close | clock, date, prices |
| Credentials | current token, availability, lease, rejected material | publish, admit, release, complete, reject, snapshot | workers, controller |

What makes them hard: health is read before the policy router is asked and used after it
answers; an answer may be lost or another request's; an admission outlives the regime that
granted it; a report arrives after a recovery; a probe dies, or its admission reply is lost;
a deadline or a disconnect arrives at any await or yield; a key expires; a clock steps back;
a window is read while attempts can still end in it; a lease runs out between two calls; a
provider repeats, reorders or truncates its events, and cuts them anywhere. Section
`hazards` of `PROJECT.json` lists each with its source line and the properties aimed at it.

## 2. Modules

| Module | Models | State and actions |
|---|---|---|
| `GovernedRouting` | `GenerateCoordinator`, `ComplexityGenerateCoordinator`, the explain coordinators and what they compose: client authentication, policy projection and exchange, registry intersection, complexity narrowing, eligibility, ranking, `StreamingExecutionService.prepare`, cache identity | `pre[r]` per request, the PDP's decisions `pdp`, the circuits that are `down`; one step between two awaits |
| `HealthContract` | the promise of `DeploymentHealthPort` (abstract) | `mode`, `governs`; Admit, Trip, Recover, Surrender, Elapse; for a shared store also ElapseForgetting and Abandon |
| `CircuitBreaker` | `InMemoryHealthTracker` | `health[d]`, the admission `held[a]` by each attempt; one action per method, `Tick` |
| `RedisHealth` | `RedisDeploymentHealthTracker` and its Lua scripts | `hash[d]` with its TTL, `held`; one action per script, admissions whose reply is lost, `Tick` with key expiry |
| `ResilientExecution` | `ResilientExecutionService.generate`, `health_admission_scope`, `ExecutionDeadline` | the circuits of `CircuitBreaker` (INSTANCE) and `ex[a]`; a step per await |
| `GovernanceAuthorization` | verification of a signed envelope and its enforcement on a request | operators; every refusal in the order of the code |
| `GovernedExecution` | `GovernanceExecutionService` and its evidence journal around `ResilientExecution` | `gov[a]`; enforce, hand over, journal, deliver |
| `StreamingExecution` | `StreamingExecutionService.stream` and `_stream`, cached replay | `s` (one stream) and `cache`; a step per await or yield |
| `SseReader` | `_HttpxSseStream`: chunks to lines to events | operators on the reader's fields |
| `ProviderStreams` | the four provider adapters: event automata, whole replies, failure classes | operators on the adapter's locals and one raw event |
| `RequestTranslation` | the four northbound request models, the public contract, what each adapter sends | operators; each refuses or returns the blocks it keeps |
| `NorthboundProtocols` | the native, Responses, Messages and chat encoders, streamed and aggregated | operators on the encoder's locals and one gateway event |
| `StreamClients` | the Python SDK and the console | folds over the frames sent |
| `GatewayPipeline` | the last five composed with the rules of `_stream` and with `deadline_response.py`, for one deployment | `post`, `payload`, `src`, `exec`, `out`; one step per pull |
| `SpendAdmission` | `InMemorySpendAdmissionWorker` and its state | budgets, journals, slots, leases, the date |
| `SpendCostEvidence` | both price models, bounds, estimates and reports | operators in exact arithmetic |
| `MeteredSpend` | `SpendAdmission` with the bounds it reserves and the reports it settles | adds the current prices and the registered reports |
| `SpendLedger` | `SpendGuard`, `RedisSpendLedger` | buckets with expiry, one step per bucket read or written |
| `SpendControl` | a deployment that uses one of the two | chooses in the initial state |
| `CredentialAvailability` | `InMemoryCredentialAvailabilityWorker`, `InMemoryCredentialGenerationPublisher` | one binding: token, availability, lease, all handles and receipts ever given out |
| `OperationalSamples` | sample store, recording helper, aggregation | clock, samples, watermarks, materialized evidence |
| `OperationalBatches` | export, batch and snapshot files, strict reload, evidence elsewhere | adds `file` and `batch` |

Modelling choices shared by all:

- A method with no suspension point, and a Lua script, is one atomic step, with its lazy
  refresh inside it. Executors are split at every await (and yield).
- A monotonic clock appears as countdowns (`cooldown`, `lease`, `left`, `ttl`) that `Tick`
  decrements, so the state space is finite. UTC, where instants are compared, is a number.
- A `uuid4` is a value not in use (`Fresh`, `FreshFences`). A generation no live state mentions may be
  reused in the model only when no admission remembers it; the instances give enough
  values that a fresh one always exists.
- A refused or idempotent call that changes nothing is stuttering.
- Names, payloads, latencies and spans are left out or reduced to small sets. Latencies
  are kept in `OperationalSamples`, where percentiles depend on them.
- Definitions commented *Seeded fault* are not part of any specification. They are
  plausible bugs, substituted one at a time to show that each property can fail.

Choices of single modules:

- *Routing.* The registry, scores, bindings and policies are constants, as they are
  immutable in a process. The PDP is external: it decides once per request and its answers
  may reach any request. An answer is correlated by its request; the code compares the request
  id, which the client chooses, so requests sent under one id stand for one here. A plan is a set whose order is `Ahead`. The gateway's own repeated
  subset and digest checks cannot fail on these values and are left out.
- *Streaming.* The tracker is an environment that admits, refuses and retires at will, which
  includes everything `HealthContract` allows. Text and tool deltas are one kind of event
  there; `GatewayPipeline` keeps them apart.
- *Governance.* Signatures match or differ; the JSON of an envelope is strict or not.
  Enforcement happens once, at entry, so retries may run after `expires_at`, as in the code.
- *Pipeline.* Taken from the providers' documented behaviour and marked external: an
  Anthropic tool starts with the input `{}`, the arguments an OpenAI call is done with are
  its deltas joined, a provider gives every call its own id, and names and ids meet the
  patterns of the contract. A provider may otherwise send anything in any order: unknown
  and misplaced events, no usage, no end. `said.loose` marks an OpenAI provider that
  completes a call twice or ends with one open, which that adapter accepts. Each content
  block is a message of its own. Requests of every protocol may be answered from the cache,
  which is more than the gateway's surfaces allow. The registry may promise more than an adapter supports.
- *Spend.* Rates count fractions of a micro-USD, so that rounding shows. A check of the
  ledger spans at most one midnight. `DaysPerMonth` is the longest month, against the
  retention of a bucket in days.
- *Samples.* SHA-256 is injective; a batch is a set, its canonical order left out. The UTC
  clock is read once for the stamp of an attempt and again by `record` and by
  `invalidate_completeness`; the exporter and the materializer read it after `read_window` did.
  No await lies between those readings, so they are one step, in which each reading may show
  another time, an earlier one if the clock can be set back (`Later`).

## 3. What TLC checks

| Run | Instance | What it shows |
|---|---|---|
| `routing` | 2 concurrent requests, 6 deployments in 2 groups, 3 clients, 12 pairs of claims, 1 circuit that changes | plans stay within the decision, the binding and the claims; a lasting outage is never planned; cache entries are shared within one client and public data; every preflight ends |
| `breaker` | 1 circuit, 3 attempts, threshold 2, cooldown 2, lease 3 | late reports are fenced for good; refinement of `HealthContract!Spec`; a tripped circuit is probed until it closes, however its probes die |
| `redis_health` | 1 circuit, 2 attempts, TTL 4 > lease 3 > cooldown 2 | a key outlives every open regime and live probe; refinement of `HealthContract!SharedSpec`; a slot nobody knows of is freed |
| `execution` | 2 executions racing on 2 circuits; retry with and without fallback; a ranking that leaves the authorized group; a remote tracker that fails, or is interrupted under a deadline; the same under governance, with 15 envelopes and a local, best-effort or required journal | exact bounds on calls; every call authorized by the PDP and the signed envelope; every exit path returns the probe and leaves evidence; no retired probe is published and no spent budget followed by a success; no step repeats (`AlwaysAdvances`); the journal tells what the providers saw |
| `stream` | 2 deployments, retry, fallback, cache, no deadline or one of 2 ticks | one gapless, well-formed lifecycle of one deployment; the cache stores what was shown; no attempt starts after output; attempts are accounted for; with a deadline every stream ends |
| `pipeline` | every provider API with every protocol, streamed and aggregated; two interleaved calls; structured output; a deadline with stored answers; CR, LF and CRLF bytes in chunks of one to three; posts of up to three blocks of every kind and role | a block posted reaches the provider or the request is refused; output is validated before it is complete; the wire of each protocol is well formed; SDK and console accept what is sent, and read what the provider said; after expiry only a failure follows; chunk boundaries make no difference |
| `spend` | reservations: 4 requests, 5 slots, 2 budgets, usage below, at and above a bound, one price change; or ledger: 3 calls, a monthly and a daily limit, dates 0, 1, 2, 30 and 31, so that a daily key expires and a check crosses the end of a month | the store's own validation never fails; ceilings hold up to tokens used beyond the evidence; possible spending stays charged; ended executions never change; a spent budget refuses until its window ends |
| `credential` | 2 workers, 4 tokens of 2 materials (one a rollback) | the record stays valid and quarantine is exactly the rejection of the material in use; only the live owner promotes; dead handles stay dead; a lease ends however often its owner asks again |
| `samples` | 4 attempts of one request identity, room for 2, clock values up to 3, a clock that only advances or one that can be set back at any time and between any two readings, one batch and one snapshot that may be damaged | a readable window holds the attempts that ended in it and no other, all of them unless the clock was set back while one was recorded; evidence stays the truth about its window, percentiles included, also when it was made elsewhere from a file |

Three more runs end in a counterexample; section 6 describes them. The type invariant of
each module is a conjunct of one of its invariants, or proved (section 4).

**Why the bounds are enough.** The thresholds and leases are the smallest with distinct
phases: a threshold of 2 separates one failure from a trip, a lease longer than the
cooldown lets a regime end while an older admission is alive. Two attempts per circuit
are needed for a late report and a takeover. One binding or one circuit is enough where
different ones share no state; the theorems of section 4 hold for any number.
In `routing` every check has a deployment that fails it, and the second request is there
to be confused with the first; `Volatile` bounds the circuits that change, which are
independent of each other. Claims that interact are paired, the others run beside a
request that is refused at once.
In `pipeline` a provider says at most two texts and one or two calls per attempt, which is
enough for a block to be open when the next begins and for calls to interleave; the bytes
are cut in every way on one adapter, since the reader is the same for all.
In `spend` one execution retries and three share a budget; a fourth has no evidence. In
`samples` an eviction leaves an equal timestamp behind. `execution` gives each envelope but
one a single defect.
`MaxSequence`, `MaxTime`, `LastDay`, `MaxChunk` and the sizes of `Generations` and `Fences`
bound counters; from `MaxSequence` on a provider can only complete or fail, and once fences
are used up a credential cannot be claimed again, which is a prefix of the real behaviour.
Which unused uuid is drawn makes no difference, so `Fresh` offers one; `execution`
identifies states that differ only in the names of generations or of the racing executions,
`spend` those that differ in the names of two calls of one workload, and the runs that check
liveness use no symmetry.

**Deadlock** is checked except where the instance really stops: the requests, calls, tokens
and attempts of the routing, spend, credential and sample instances are finite.

**Fairness.** Time advances (`WF(Tick)`). For `CircuitsRecover` and `OwnershipEnds` somebody
keeps asking for each deployment; nobody is required to report or to release. Preflights: the
loop runs, and the exchange with the policy router ends, by an answer or by the timeout the
adapter passes to its transport; the PDP is *not* assumed to decide. Streams: the loop runs,
and the deadline's timer fires; the provider is *not* assumed to answer and the consumer not
to leave. Credentials: only time. The executor needs none: `AlwaysAdvances` says that each of
its steps, whatever the environment answers, lowers a measure of what is left to do, so an
execution that is scheduled ends.

## 4. What is proved

| Module | Theorems | Argument |
|---|---|---|
| `CircuitBreakerProofs` | `Invariance`, `TypeCorrect`, `OwnerAlwaysHoldsProbe`, `Fencing`, `Recovery`, `LeaseBound`, `Refinement` (`Spec => ImplementsContract`) | inductive invariant `IInv`: types; `SlotInv`, a slot has an owner exactly while its lease runs and only while half-open; `OwnerInv`, the owner of a running lease holds the admission with the circuit's generation. For the refinement, every tracker operation either keeps who governs a circuit (`Keeps`) or ends its regime (`Ends`), and each is a step of `HealthContract` or a stutter |
| `RedisHealthProofs` | `KeysOutliveRegimes`, `SharedRefinement` (`Spec => ImplementsSharedContract`) | every script leaves a hash as it was or renews its time to live with whatever it sets (`Renewed`), so the remaining life of a key exceeds what is left of its cooldown and lease (`Sound`), and time lowers all three together; on top of it, `Fenced`: only a half-open hash has an owner, and an owner owns no other slot and holds no other admission, so every script keeps a regime, ends it, or admits one attempt, and expiry forgets only circuits nobody probes |
| `ResilientExecutionProofs` | `ExecutorIsSound`, `CallsAreBounded`, `ProbesAreReturned`, `AttemptsAreAccounted`, `SuccessesAreEarned`, `ExecutionsAdvance` | what a step may make of one execution is a *move*; every action is a move of one execution or a tick, and every move keeps `ExecutorInv`: where an execution stands in its plan, what it called and listed, the admission it holds, and that the owner of a probe slot is inside the scope that returns it |
| `GovernedExecutionProofs` | `GovernanceDrivesExecutor` (`GSpec => Spec`), `GovernanceIsSound`, `GovernedExecutorIsSound`, `GovernedCallsAreCovered`, `JournalsMatchCalls` | every step of the governance service is a step of the executor or leaves it alone, so all of the previous row holds of it; `GovernedInv` adds for each call that its envelope was enforced before it executes and that the attempts logged so far are the calls made (`TallyInv`) |
| `StreamingExecutionProofs` | `AlwaysSound`, `NoReplay`, `AttemptsAreAccounted`, `StreamIsWellFormed`, `ResponsesAreWellFormed`, `StoresWhatItShowed` | inductive invariant `Sound`: per phase, whether output is public (`Silent`, `Boundary`), what the phase may lead to (`Leads`), and whether the open attempt has left its evidence (`Accounted`). `LifecycleInv` adds `WellFormed`: the shape of what was sent, and what each phase knows of it. `Gathered`: the text collected is the text shown, plus the event in hand |
| `SpendProofs` | `TextBoundIsABound`, `CacheBoundIsABound`, `EvidenceBoundsCost`, `JournalsAlwaysCohere`, `ChargesAreKept`, `EndedStaysFrozen`, `ImagesAreValid`, `StoreIsImplemented`, `LedgerIsImplemented`, `DeployedImagesAreValid`, `CeilingsHold` | a sum of products of naturals grows with each factor, and rounding up is monotone; a bound takes for each share of the input the dearest of the rates in each band it can reach. The store's invariant `StoreInv`: coherent journals, and budgets equal to their opening amounts plus the sums over slots. `MeterInv` adds the ceilings, with what was used beyond the evidence |
| `OperationalSamplesProofs` | `HandoffIsTrue`, `WindowsAreComplete`, `EvidenceTellsTruth` | `StoreInv`: whatever ended in the store's coverage is a sample it holds, or lies at or before a watermark, or was recorded while the clock was set back behind its stamp (`behind`, never with a clock that only advances). A batch, a file and a snapshot are each true of their window (`TrueBatch`, `TrueFile`, `TrueSnapshot`), and what is true of a window stays true of it |
| `PreflightProofs` | `PlansAreAuthorized`, `LastingOutagesAreAvoided`, `CacheScopesAreAuthorized` | inductive invariant of `GovernedRouting`: while a request is on its way its context is that of its binding and its ceilings those of its claims (`Trusted`), it has no plan yet (`Settled`), and what it believes healthy is disjoint from what has been down since it arrived (`Watched`) |
| | `TypeCorrect`, `RecordAlwaysValid`, `RejectionIsFinal`, `PromotionByLiveOwner`, `DeadStaysDead` | inductive invariant of `CredentialAvailability` over the record, the handles and receipts given out, and the fences used |
| | `SpentBudgetsRefuse` | inductive invariant of `SpendLedger`: a bucket holds all that was spent in its window until the window and a midnight are over (`BucketsHold`), so a check that spans a midnight still reads it (`ChecksStand`) |

`PlansAreAuthorized` needs `Trusted` because a plan is built from a context resolved several
awaits earlier, and `Settled` because the PDP may decide late: a decision changes only for
a request without a plan. `CacheScopesAreAuthorized` uses that client identities are
unique, which `_validate_bindings` enforces.

`Fencing` needs more than types: that a stale admission stays stale follows because every
step either keeps a circuit's generation and owner or replaces the generation by a fresh
one, and an owner whose admission was not live would break that, hence `OwnerInv`.
`Refinement` needs `OwnerInv` too: without it an owned circuit could be one that nobody
governs, and the report that frees it would have no counterpart in the contract.
`SharedRefinement` cannot use it, because a reply that carried an admission may be lost: an
owner then holds nothing, and `Fenced` only excludes that it holds something else. It needs
`KeysOutliveRegimes`' invariant, or the expiry of a key could turn an open circuit closed.
`DeadStaysDead` needs that every fence in the record was given out in a handle, so that a
fresh one differs from all of them, and that publications only raise the epoch.

`CallsAreBounded` counts calls per deployment over a whole execution, with retries and
fallback; it is inductive once it is known that candidates differ and that only those up to
the current one were called. `ProbesAreReturned` relates the tracker to the executions: a slot
whose owner had already left its scope could never be freed by it.

`NoReplay` is about two moments that lie several awaits apart: whether an attempt may be
retried is decided where it failed, and the next attempt starts after the health report, the
release of the probe and the delay. `Sound` carries the decision through those phases: on each
of them nothing public has been sent, or the stream only closes. `AttemptsAreAccounted` needs
the same for the evidence of an attempt, on the paths an interruption takes as well.
`ResponsesAreWellFormed` speaks of the whole sequence of events. Each event is appended under
what its phase knows of those before it (`Fits`), which is why the invariant describes every
phase, the replay of a stored answer included.

`ImagesAreValid` says that no amount becomes negative and every total is what the slots add up
to. The store subtracts and adds single amounts, so the proof rests on what one slot more or
less does to a sum. `CeilingsHold` combines it with the cost bounds: settling raises a budget
only by a price above the bound, which takes tokens beyond the evidence. `StoreIsImplemented`
and `LedgerIsImplemented` carry what is proved of the two parts to the composed
`SpendControl`, which the run `spend` checks.

Sums, percentiles and texts are defined by recursion or by choice over data. Where a theorem
needs them, the induction is made over a *set*: the numbers, or the subsets of a finite set,
for which the claim holds, shown to be all of them by well-foundedness (`GoodNumbers`,
`SubsetInduction`).

The proofs rest on the named assumptions of the modules: thresholds and leases are
positive naturals, a Redis time to live exceeds the cooldown and the lease, the absent values
are not members of the sets they complement, and functions on constants have their types. The
code validates the same facts in its constructors. Deployments and slots are finite sets, as a
registry and a set of requests are. `MaxSequence` is at least 2, so that a response can start
and say something.

Model-checked only:

- all liveness, which needs fairness: `CircuitsRecover`, `OwnershipEnds`, the end of
  preflights, streams and leases;
- the pipeline from provider bytes to client (`GatewayPipeline`). Its properties are about what
  recursive functions and folds compute of whole messages, byte by byte and event by event.

## 5. Not modelled, and why

`components` of `PROJECT.json` says this part by part. What changes state or order and is
still missing is in section 7. The rest:

- *Bootstrap, provider runtime, artifact codecs*: sequential construction and strict parsing
  before the first request, which fail closed.
- *Operations read model*: read-only projections. *Telemetry*: no effect on execution.
- *Policy-router transports*: I/O, seen by `GovernedRouting` as an answer, a failure or a
  timeout. Their pool is opened and closed by the server's lifespan.
- *OpenAI input count, usage counters*: pure validation of one body or reply.
- *Benchmarks and scripts*: offline tooling.

Left out inside the modelled parts:

- *Routing*: the PDP's policy digest in a cache identity, which only separates more entries;
  ranking overrides and evidence-driven policies, which are fixed before a process starts; a
  cache read that raises, which fails its request before any event.
- *Governance*: the forwarding of an envelope to the PDP, and `governance_authorized_candidates`
  (`domain/governance.py:253`), which nothing calls.
- *Pipeline*: URLs, headers, HTTP error bodies, the order of content blocks and `is_error`; the
  byte bounds of the clients' frame readers; names or ids outside the contract's patterns,
  with which building the event raises `ValueError` inside `_stream` and the stream ends
  without a terminal event; several deployments and probes, which are `StreamingExecution`'s.
- *Clients*: the console's user interface.
- *Spend*: snapshots and opaque identifiers. The guard checks before and records after a call,
  so concurrent calls may pass a limit together: it promises no ceiling, and none is stated.
- *Samples*: evidence materialized before UTC is set back (`EvidenceStaysTrue` asks for a
  clock that only advances; the store cannot see a step back that happens before its next
  sample). A request identity used twice is modelled: its window is refused, not wrong.

## 6. Disagreements between code and documentation

- `execution_evidence`: `deadline.check()` is the first statement of the `ProviderError`
  handler. When the budget is spent by then, it raises past the sibling clauses and the
  attempt leaves neither a sample nor a gap. Streaming has the same statement
  (`streaming.py:635`), which is why the passing runs check `AccountedWithoutDeadline`.
- `samples_clock`: the recording helper stamps an attempt and the store reads the clock again.
  When UTC is set back in between, `record` refuses the sample as from the future
  (`operational_samples_memory.py:70`), `invalidate_completeness` refuses the gap for the same
  reason (`:55`), and the refusal is swallowed (`operational_recording.py:84`). Once the clock
  has passed the stamp again, a window without the attempt reads as complete, which
  `OPERATIONAL_EVIDENCE.md:139` says must never happen. `WindowIsComplete` and its theorem show
  that this is the only way an attempt can be missing.
- `console`: `decodeEvent` decodes the execution of every event by the rules of a completed
  one, but a stream that fails after an attempt carries the failed execution. The console
  reports a protocol error where its test expects the failure to be surfaced.

Smaller observations have no run:

- The replay boundary is marked before the probe check that can still suppress the event
  (`streaming.py:472`, `486`), so a stream can end `partial=true` with no semantic event
  shown, against ADR-0024.
- The shared tracker's status for ranking is derived from counters (`health_redis.py:418`), so
  one *permanent* failure of a deployment with no success yet makes it unhealthy although its
  circuit is closed; `test_shared_health_redis.py:134` says a permanent failure is not circuit
  evidence.
- ADR-0012 says that failed provider executions emit evidence. A deadline, a cancellation or
  an unexpected error after a provider call leaves none (`governance_execution.py:125`); a
  failed verification leaves no denial record; and a required sink that fails replaces the
  result or the denial by its own error, while the local record stays.
- The console's list of execution fields lacks `cached` (`inference.ts:170`), which the gateway
  sends with a replayed answer, so it rejects what the SDK accepts.
- The Messages stream derives its stop reason from calls begun, the aggregated answer from
  calls completed, and the stream never reports input tokens.
- Tokens used beyond the evidence suspend a deployment only when their price passes the bound,
  so under free pricing they suspend nothing.

## 7. Plan

1. Proofs about the line reader and the event automata of the pipeline, which need their
   recursion restated over sets.
2. The compatibility normalizer of `claude_code_compat.py` in `RequestTranslation`.
3. The response cache's Redis encoding and identity digest; ranking overrides.
4. Readiness and shutdown order, with the lifetime of the policy-router pool.
