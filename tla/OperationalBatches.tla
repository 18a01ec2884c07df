------------------------- MODULE OperationalBatches -------------------------
(***************************************************************************)
(* The handoff of operational samples between processes: a complete window *)
(* of one gateway instance is exported as a content-addressed batch        *)
(* (application/operational_sample_batch.py), written as a JSON file, and  *)
(* read back (adapters/operational_sample_batch_json.py) as the source     *)
(* (adapters/operational_sample_batch_source.py) of a materializer in      *)
(* another process, whose snapshot is itself handed on as a file           *)
(* (domain/operational_evidence.py, adapters/operational_evidence_json.py).*)
(*                                                                         *)
(* A file is its content and the identity written with it.  SHA-256 is     *)
(* taken to be injective, so the identity of a content is the content.     *)
(* The canonical order of the samples is left out: they are a set.         *)
(***************************************************************************)
EXTENDS OperationalSamples

CONSTANTS NoFile, NoBatch

VARIABLES file,    \* the artifact on disk
          batch    \* the batch the collector's source is bound to

handoffVars == <<vars, file, batch>>

HandoffInit == Init /\ file = NoFile /\ batch = NoBatch

\* _sha256_payload of the payload without its identity.
Sha256(content) == content

\* canonical_operational_sample_batch_json and its counterpart for snapshots:
\* every field of the content, and its identity.
Written(kind, content) ==
  [kind |-> kind, wellFormed |-> TRUE, content |-> content, id |-> Sha256(content)]

\* _batch_content_payload, of a batch created at t.
BatchContent(window, s, e, t) == [from |-> s, to |-> e, exported |-> t, samples |-> window]

\* _validate_samples_in_window.
SamplesInWindow(b) == \A x \in b.samples : InWindow(x.at, b.from, b.to)

\* OperationalSampleBatch.__post_init__, the identity apart.
ValidBatch(b) ==
  /\ b.from < b.to /\ b.to <= b.exported /\ b.samples # {}
  /\ SamplesInWindow(b) /\ AttemptsDiffer(b.samples)

\* What a file must be before its values are looked at: JSON, with exactly the
\* fields of the schema, each of its type (the _require functions).
WellFormed(f) == f.wellFormed

\* build_operational_sample_batch.
BuildBatch(f) == WellFormed(f) /\ ValidBatch(f.content) /\ Sha256(f.content) = f.id

\* _build_record.
BuildRecord(r) ==
  /\ {r.requests, r.attempts} \subseteq Nat \ {0}
  /\ {r.successes, r.errors, r.rateLimits, r.timeouts, r.fallbacks, r.p50, r.p95} \subseteq Nat
  /\ ValidRecord(r)

\* build_operational_evidence_snapshot.
BuildSnapshot(f) ==
  /\ WellFormed(f) /\ \A t \in DOMAIN f.content.records : BuildRecord(f.content.records[t])
  /\ ValidSnapshot(f.content) /\ Sha256(f.content) = f.id

\* export: read the window, read the clock, create the batch.  Bound: one batch
\* a behaviour.
Export(s, e) ==
  /\ file = NoFile /\ batch = NoBatch /\ Readable(s, e)
  /\ \E t \in Later(now) :
       LET b == BatchContent(ReadWindow(s, e), s, e, t)
       IN  ValidBatch(b) /\ file' = Written("batch", b) /\ now' = t
  /\ UNCHANGED <<monotonic, samples, latest, evicted, incomplete, done, evidence, batch>>

\* The snapshot is written over the batch file.
Publish ==
  /\ evidence \notin {NoEvidence, Rejected}
  /\ IF file = NoFile THEN TRUE ELSE file.kind = "batch"
  /\ file' = Written("snapshot", evidence)
  /\ UNCHANGED <<vars, batch>>

\* The file is truncated or its JSON broken, or a field is altered so that it
\* still parses: here the window it claims to cover.
Damage ==
  /\ file # NoFile /\ file.wellFormed /\ file.content = file.id
  /\ \/ file' = [file EXCEPT !.wellFormed = FALSE]
     \/ file' = [file EXCEPT !.content.from = @ - 1]
     \/ file' = [file EXCEPT !.content.to = @ + 1]
  /\ UNCHANGED <<vars, batch>>

\* load_operational_sample_batch_text: an artifact that is refused leaves the
\* collector without a batch.
LoadBatch ==
  /\ file # NoFile /\ file.kind = "batch" /\ BuildBatch(file)
  /\ batch' = file.content
  /\ UNCHANGED <<vars, file>>

\* load_operational_evidence_text.
LoadSnapshot ==
  /\ file # NoFile /\ file.kind = "snapshot" /\ BuildSnapshot(file)
  /\ evidence' = file.content
  /\ UNCHANGED <<now, monotonic, samples, latest, evicted, incomplete, done, file, batch>>

\* Seeded fault: a window that ends after the batch is served.
CoversStart(s, e) == s < e /\ batch.from <= s

\* The conditions of OperationalSampleBatchSource.read_window.
Covers(s, e) == s < e /\ batch.from <= s /\ e <= batch.to

\* materialize over OperationalSampleBatchSource.
MaterializeBatch(s, e) ==
  /\ batch # NoBatch /\ Covers(s, e)
  /\ Materialized({x \in batch.samples : InWindow(x.at, s, e)}, s, e, now)
  /\ UNCHANGED <<now, monotonic, samples, latest, evicted, incomplete, done, file, batch>>

Handoff ==
  \/ \E s, e \in 0..MaxTime : Export(s, e) \/ MaterializeBatch(s, e)
  \/ Publish
  \/ Damage
  \/ LoadBatch
  \/ LoadSnapshot

HandoffNext == Handoff \/ (Next /\ UNCHANGED <<file, batch>>)

HandoffSpec == HandoffInit /\ [][HandoffNext]_handoffVars
=============================================================================
