------------------------- MODULE OperationalSamples -------------------------
(***************************************************************************)
(* Operational evidence: the executors record every finished provider      *)
(* attempt in a bounded chronological store                                *)
(* (adapters/operational_samples_memory.py) or invalidate its completeness *)
(* (application/operational_recording.py); the materializer                *)
(* (application/operational_evidence.py) turns a complete half-open window *)
(* into evidence.                                                          *)
(*                                                                         *)
(* Time is a natural number.  The executor, the store, the exporter and    *)
(* the materializer are given the same UTC clock, and each reads it for    *)
(* itself.  The calls between two readings have no await, so they are one  *)
(* step, in which the clock may show another time at every reading.        *)
(***************************************************************************)
EXTENDS Integers, Sequences, FiniteSets, Functions

CONSTANTS Attempts,     \* provider attempts
          Retried,      \* Retried[a]: the failed attempt that leads to a, or NoAttempt
          NoAttempt,
          Request,      \* Request[a]: its gateway_request_id, chosen by the client
          FallbackIndex,\* FallbackIndex[a]
          Number,       \* Number[a]: its attempt_number
          Target,       \* Target[a]: its (runtime_workload, deployment_id)
          Latency,      \* Latency[a]: latency_ms
          Endings,      \* Endings[a]: the outcomes a may have
          MaxSamples,   \* max_samples
          MaxTime,      \* bound of the clock
          NoEvidence,
          Rejected      \* a snapshot its own contract refuses

VARIABLES now,         \* the UTC clock the executors and the store read
          monotonic,   \* whether that clock is never set back
          samples,     \* _samples, oldest first
          latest,      \* _latest_observed_at
          evicted,     \* _evicted_through
          incomplete,  \* _incomplete_through
          done,        \* done[a]: when and how attempt a really ended, and whether
                       \* the store last read a time behind that for it
          evidence     \* the evidence materialized last

vars == <<now, monotonic, samples, latest, evicted, incomplete, done, evidence>>

\* A timestamp that is None is before every other.
NoTime == -1

\* _coverage_start: the store is created before the first attempt.
CoverageStart == 1

SampleOutcomes == {"succeeded", "rate_limit", "timeout", "other"}

\* "unrepresentable": a cancellation, a closed generator, an unexpected
\* exception, or a sample its own contract refuses.
Outcomes == SampleOutcomes \cup {"unrepresentable"}

Records ==
  [requests : Nat, attempts : Nat, successes : Nat, errors : Nat, rateLimits : Nat,
   timeouts : Nat, fallbacks : Nat, p50 : Nat, p95 : Nat]

\* Any snapshot of any of the targets.
Snapshots ==
  [from : 0..MaxTime, to : 0..MaxTime, captured : 0..MaxTime,
   records : UNION {[targets -> Records] : targets \in SUBSET Range(Target)}]

ASSUME SamplesAssumption ==
  /\ MaxSamples \in Nat \ {0} /\ MaxTime \in Nat /\ CoverageStart <= MaxTime
  /\ Retried \in [Attempts -> Attempts \cup {NoAttempt}] /\ Number \in [Attempts -> Nat]
  /\ FallbackIndex \in [Attempts -> Nat] /\ Latency \in [Attempts -> Nat]
  /\ DOMAIN Target = Attempts /\ Endings \in [Attempts -> SUBSET Outcomes]
  /\ Rejected # NoEvidence /\ Rejected \notin Snapshots

Samples == [attempt : Attempts, at : 0..MaxTime, outcome : SampleOutcomes]

TypeOK ==
  /\ now \in 0..MaxTime /\ monotonic \in BOOLEAN
  /\ samples \in Seq(Samples) /\ Len(samples) <= MaxSamples
  /\ {latest, evicted, incomplete} \subseteq CoverageStart..MaxTime \cup {NoTime}
  /\ done \in [Attempts -> [at : 0..MaxTime \cup {NoTime}, outcome : Outcomes, behind : BOOLEAN]]

Init ==
  /\ now = CoverageStart /\ monotonic \in BOOLEAN /\ samples = <<>>
  /\ latest = NoTime /\ evicted = NoTime /\ incomplete = NoTime
  /\ done = [a \in Attempts |-> [at |-> NoTime, outcome |-> "other", behind |-> FALSE]]
  /\ evidence = NoEvidence

-----------------------------------------------------------------------------
\* The executor makes an attempt once the one it retries or falls back from has
\* failed; a client may submit a request again at any time.
Attempted(a) ==
  Retried[a] # NoAttempt =>
    done[Retried[a]].at # NoTime /\ done[Retried[a]].outcome \in SampleOutcomes \ {"succeeded"}

\* What the clock may show at a reading after it showed t.
Later(t) == (IF monotonic THEN t ELSE 0)..MaxTime

\* The conditions of record, whose clock shows t.
Recordable(at, t) == CoverageStart <= at /\ at <= t /\ latest <= at

\* invalidate_completeness, whose clock shows t; a refusal is swallowed by
\* _invalidate_at_best_effort.
Invalidated(at, t) ==
  IF CoverageStart <= at /\ at <= t /\ at > incomplete THEN at ELSE incomplete

\* The boundary once record has evicted the oldest sample of s.
EvictedThrough(s) ==
  IF Len(s) > MaxSamples /\ Head(s).at > evicted THEN Head(s).at ELSE evicted

\* What record does with a sample it accepts.
Record(x) ==
  LET grown == Append(samples, x)
  IN  /\ samples' = IF Len(grown) > MaxSamples THEN Tail(grown) ELSE grown
      /\ latest' = x.at /\ evicted' = EvictedThrough(grown)
      /\ UNCHANGED incomplete

\* record_operational_attempt_best_effort, or
\* invalidate_operational_completeness_best_effort for an outcome no sample can
\* represent.  The helper stamps the attempt; record reads the clock again, at
\* t, and after a refusal, or at once, invalidate_completeness does, at u.
Finish(a, outcome) ==
  /\ done[a].at = NoTime /\ Attempted(a)
  /\ \E t \in Later(now) : \E u \in Later(t) :
       /\ IF outcome \in SampleOutcomes /\ Recordable(now, t)
          THEN u = t /\ Record([attempt |-> a, at |-> now, outcome |-> outcome])
          ELSE incomplete' = Invalidated(now, u) /\ UNCHANGED <<samples, latest, evicted>>
       /\ now' = u
       /\ done' = [done EXCEPT ![a] = [at |-> now, outcome |-> outcome, behind |-> u < now]]
  /\ UNCHANGED <<monotonic, evidence>>

\* Seeded fault: a window may start at the boundary of what was evicted.
ReadableAtBoundary(s, e) ==
  s < e /\ e <= now /\ CoverageStart <= s /\ evicted <= s /\ incomplete < s

\* The conditions of read_window.
Readable(s, e) ==
  s < e /\ e <= now /\ CoverageStart <= s /\ evicted < s /\ incomplete < s

InWindow(at, s, e) == s <= at /\ at < e

\* read_window.  An attempt ends once, so no sample is there twice, and what is
\* made of the tuple sorts it first: it is a set here.
ReadWindow(s, e) == {x \in Range(samples) : InWindow(x.at, s, e)}

\* _nearest_rank.
NearestRank(values, percentile) == values[(percentile * Len(values) + 99) \div 100]

\* fallback_request_count of a group of samples.
Fallbacks(group) == Cardinality({Request[x.attempt] : x \in {y \in group : FallbackIndex[y.attempt] > 0}})

\* The samples of a group by latency: of the orders that never decrease, one.
ByLatency(group) ==
  CHOOSE order \in Bijection(1..Cardinality(group), group) :
    \A i, j \in 1..Cardinality(group) :
      i <= j => Latency[order[i].attempt] <= Latency[order[j].attempt]

\* latencies.
Latencies(group) == [i \in 1..Cardinality(group) |-> Latency[ByLatency(group)[i].attempt]]

\* The record _aggregate_records makes of the samples of one target.
RecordOf(group) ==
  LET Count(outcome) == Cardinality({x \in group : x.outcome = outcome})
  IN  [requests |-> Cardinality({Request[x.attempt] : x \in group}),
       attempts |-> Cardinality(group),
       successes |-> Count("succeeded"), errors |-> Cardinality(group) - Count("succeeded"),
       rateLimits |-> Count("rate_limit"), timeouts |-> Count("timeout"),
       fallbacks |-> Fallbacks(group),
       p50 |-> NearestRank(Latencies(group), 50),
       p95 |-> NearestRank(Latencies(group), 95)]

\* _aggregate_records.
AggregateRecords(window) ==
  [t \in {Target[x.attempt] : x \in window} |->
     RecordOf({x \in window : Target[x.attempt] = t})]

\* What _reject_duplicate_attempts compares.
Identity(a) == <<Request[a], Target[a], FallbackIndex[a], Number[a]>>

\* _reject_duplicate_attempts.
AttemptsDiffer(window) ==
  \A x, y \in window : x # y => Identity(x.attempt) # Identity(y.attempt)

\* _validate_record.
ValidRecord(r) ==
  /\ r.requests > 0 /\ r.attempts > 0 /\ r.successes + r.errors = r.attempts
  /\ r.rateLimits <= r.errors /\ r.timeouts <= r.errors
  /\ r.fallbacks <= r.requests /\ r.p50 <= r.p95

\* OperationalEvidenceSnapshot.__post_init__, the content identity apart.  The
\* records are a function of their target, so they are distinct and need no
\* order.
ValidSnapshot(x) ==
  /\ x.from < x.to /\ x.to <= x.captured /\ DOMAIN x.records # {}
  /\ \A t \in DOMAIN x.records : ValidRecord(x.records[t])

\* _snapshot_content_payload, of a snapshot captured at t.
SnapshotContent(window, s, e, t) ==
  [from |-> s, to |-> e, captured |-> t, records |-> AggregateRecords(window)]

\* create_operational_evidence_snapshot.
CreateSnapshot(window, s, e, t) ==
  LET x == SnapshotContent(window, s, e, t)
  IN  IF ValidSnapshot(x) THEN x ELSE Rejected

\* materialize, from the samples the source returns for a window: it refuses an
\* empty window, one with two samples of the same identity and one that its
\* clock, at t, says is not over.  Bound: one snapshot a behaviour.
Materialized(window, s, e, t) ==
  /\ evidence = NoEvidence /\ window # {} /\ AttemptsDiffer(window) /\ e <= t
  /\ evidence' = CreateSnapshot(window, s, e, t)

\* materialize over the store itself: read_window reads the clock, then
\* materialize does.
Materialize(s, e) ==
  /\ Readable(s, e)
  /\ \E t \in Later(now) : Materialized(ReadWindow(s, e), s, e, t) /\ now' = t
  /\ UNCHANGED <<monotonic, samples, latest, evicted, incomplete, done>>

Tick ==
  /\ now < MaxTime
  /\ now' = now + 1
  /\ UNCHANGED <<monotonic, samples, latest, evicted, incomplete, done, evidence>>

\* The operator or the time service sets the UTC clock back.
SetBack ==
  /\ ~monotonic /\ now > 0
  /\ now' = now - 1
  /\ UNCHANGED <<monotonic, samples, latest, evicted, incomplete, done, evidence>>

Next ==
  \/ \E a \in Attempts : \E outcome \in Endings[a] : Finish(a, outcome)
  \/ \E s, e \in 0..MaxTime : Materialize(s, e)
  \/ Tick
  \/ SetBack

Spec == Init /\ [][Next]_vars

-----------------------------------------------------------------------------
(* Correctness.                                                            *)

\* The attempts that really ended in a window.
Ended(s, e) == {a \in Attempts : done[a].at # NoTime /\ s <= done[a].at /\ done[a].at < e}

\* The attempts read_window returns a sample of.
Read(s, e) == {x.attempt : x \in ReadWindow(s, e)}

\* A window the store agrees to read holds the attempts that ended in it and no
\* other: neither eviction at capacity, nor an outcome without a sample, nor a
\* sample refused because the clock was set back since the last one makes a gap
\* look complete.  The only attempts missing from it are those between whose
\* stamp and the store's last reading the clock was set back, which never
\* happens with a clock that only advances.  The store keeps its types and its
\* capacity.
WindowIsComplete ==
  /\ TypeOK
  /\ \A s, e \in 0..MaxTime :
       Readable(s, e) => /\ Read(s, e) \subseteq Ended(s, e)
                         /\ \A a \in Ended(s, e) \ Read(s, e) : ~monotonic /\ done[a].behind

\* docs/evaluation/OPERATIONAL_EVIDENCE.md:139: "Capacity eviction, cancellation
\* or recording failure must never silently convert an incomplete window into
\* apparently complete operational evidence."  A clock that is set back between
\* the stamp of an attempt and the store's readings makes the store refuse the
\* sample, and the gap that should replace it, as from the future.
NeverFalselyComplete ==
  \A s, e \in 0..MaxTime : Readable(s, e) => Ended(s, e) \subseteq Read(s, e)

\* The p-th percentile by definition: the least latency that at least p per
\* cent of the attempts do not exceed.
Percentile(attempts, p) ==
  CHOOSE v \in {Latency[a] : a \in attempts} :
    /\ 100 * Cardinality({a \in attempts : Latency[a] <= v}) >= p * Cardinality(attempts)
    /\ \A w \in {Latency[a] : a \in attempts} :
         100 * Cardinality({a \in attempts : Latency[a] <= w}) >= p * Cardinality(attempts) => v <= w

\* Evidence, once materialized, stays the truth about its window: no attempt
\* that ends later is missing from it, and its counts and percentiles are those
\* of the attempts that ended in the window, as long as the clock is not set
\* back into a window that was already read.  A complete window is never
\* refused by the evidence contract (_validate_record).
EvidenceStaysTrue ==
  /\ evidence # Rejected
  /\ monotonic /\ evidence # NoEvidence =>
       LET ended == Ended(evidence.from, evidence.to)
       IN  /\ DOMAIN evidence.records = {Target[a] : a \in ended}
           /\ \A t \in DOMAIN evidence.records :
                LET group == {a \in ended : Target[a] = t}
                    r == evidence.records[t]
                IN  /\ r.attempts = Cardinality(group)
                    /\ r.successes = Cardinality({a \in group : done[a].outcome = "succeeded"})
                    /\ r.p50 = Percentile(group, 50) /\ r.p95 = Percentile(group, 95)
=============================================================================
