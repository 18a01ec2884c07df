------------------------- MODULE SpendCostEvidence -------------------------
(***************************************************************************)
(* What an attempt may cost and what it did cost                           *)
(* (domain/spend_cost_evidence.py and domain/spend_cost_evidence_v2.py).   *)
(* A bound prices the most tokens an attempt may use before it is sent;    *)
(* the finality of its usage prices the tokens it used.  Both round up     *)
(* once.  Version 1 prices input and output; version 2 prices ordinary,    *)
(* cache-read and cache-write input in one of two bands, chosen by the     *)
(* whole input.                                                            *)
(*                                                                         *)
(* Rates are exact decimals in the code.  Here they count Scale-ths of a   *)
(* micro-USD per token, so a sum of products divided by Scale is exact.    *)
(***************************************************************************)
EXTENDS Integers

CONSTANT Scale   \* the denominator of the rates

ASSUME ScaleAssumption == Scale \in Nat \ {0}

CacheRates == [ordinary : Nat, read : Nat, write : Nat, output : Nat]

\* A version 1 model names one input and one output rate; a version 2 model
\* has a band up to its threshold and a band above it.
TextModel == [input : Nat, output : Nat]

CacheModel == [threshold : Nat \ {0}, short : CacheRates, long : CacheRates]

\* SpendTextUsageFinality and SpendCacheUsageFinality: the complete counts.
Usage == [input : Nat, read : Nat, write : Nat, output : Nat, reasoning : Nat, total : Nat]

-----------------------------------------------------------------------------
\* _ceil_micros: the whole sum is rounded up once.
CeilMicros(amount) == (amount + Scale - 1) \div Scale

\* _priced_micros of version 1.
PricedMicros(model, input, output) ==
  CeilMicros(model.input * input + model.output * output)

MaxOf(a, b) == IF a >= b THEN a ELSE b

\* The largest rate at which one band may charge an input token.
DearestInput(rates) == MaxOf(rates.ordinary, MaxOf(rates.read, rates.write))

\* Seeded fault: the bound expects the request to stay in the lower band.
ShortBandBoundMicros(model, input, output) ==
  CeilMicros(DearestInput(model.short) * input + model.short.output * output)

\* SpendCacheCostBound.bound_micros: the largest rates of both bands, since
\* neither the band nor the cache's share of the input is known beforehand.
CacheBoundMicros(model, input, output) ==
  CeilMicros(MaxOf(DearestInput(model.short), DearestInput(model.long)) * input
               + MaxOf(model.short.output, model.long.output) * output)

\* The band of a request is chosen by its whole input, the cached part included.
Band(model, u) == IF u.input > model.threshold THEN model.long ELSE model.short

\* SpendCacheUsageFinality.estimated_micros.
CacheEstimatedMicros(model, u) ==
  LET rates == Band(model, u)
  IN  CeilMicros((u.input - u.read - u.write) * rates.ordinary + u.read * rates.read
                   + u.write * rates.write + u.output * rates.output)

\* What the constructor of version 2's finality asks of the counts.
Partitioned(u) ==
  /\ u.read + u.write <= u.input
  /\ u.reasoning <= u.output
  /\ u.total = u.input + u.output

-----------------------------------------------------------------------------
\* bound_micros of evidence b: SpendTextCostBound or SpendCacheCostBound.
BoundMicros(b) ==
  IF b.version = 1 THEN PricedMicros(b.model, b.inputBound, b.maxOutput)
                   ELSE CacheBoundMicros(b.model, b.inputBound, b.maxOutput)

\* estimated_micros of usage u under the model that evidence b pinned.
EstimatedMicros(b, u) ==
  IF b.version = 1 THEN PricedMicros(b.model, u.input, u.output)
                   ELSE CacheEstimatedMicros(b.model, u)

\* token_bound_exceeded: the attempt used more than its evidence allows for.
TokenBoundExceeded(b, u) == u.input > b.inputBound \/ u.output > b.maxOutput

\* The counts a finality value can be built from: version 1 has no partition.
Complete(b, u) == b.version = 2 => Partitioned(u)
=============================================================================
