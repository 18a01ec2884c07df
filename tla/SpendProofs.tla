---------------------------- MODULE SpendProofs ----------------------------
(***************************************************************************)
(* Proofs about SpendControl, for any requests, slots, budgets, prices,    *)
(* usage, limits and dates: the cost bounds of the evidence are bounds,    *)
(* the reservation store never publishes an image it would refuse, and no  *)
(* ceiling is passed except by usage beyond the evidence.  SpendControl    *)
(* implements the store and the ledger, so what is proved of either holds  *)
(* of it.                                                                  *)
(***************************************************************************)
EXTENDS SpendControl, TLAPS

(***************************************************************************)
(* Cost bounds.  Usage within the token limits of the evidence never costs *)
(* more than the evidence says, for every schedule of rates, threshold and *)
(* mix of cached and ordinary input.  The argument is monotonicity: of     *)
(* products in both factors, of the sum, and of rounding up.               *)
(***************************************************************************)
\* A product grows with both factors.
LEMMA ProductGrows ==
  ASSUME NEW a \in Nat, NEW b \in Nat, NEW c \in Nat, NEW d \in Nat, a <= b, c <= d
  PROVE  a * c <= b * d
<1>1. a * c <= b * c
  <2>1. (b - a) \in Nat
    OBVIOUS
  <2>2. (b - a) * c >= 0
    BY <2>1
  <2>3. (b - a) * c = b * c - a * c
    OBVIOUS
  <2> QED BY <2>2, <2>3
<1>2. b * c <= b * d
  <2>1. (d - c) \in Nat
    OBVIOUS
  <2>2. b * (d - c) >= 0
    BY <2>1
  <2>3. b * (d - c) = b * d - b * c
    OBVIOUS
  <2> QED BY <2>2, <2>3
<1> QED BY <1>1, <1>2

\* Rounding up keeps the order of amounts.
LEMMA CeilGrows ==
  ASSUME NEW a \in Nat, NEW b \in Nat, a <= b
  PROVE  CeilMicros(a) <= CeilMicros(b)
BY ScaleAssumption DEF CeilMicros

\* MaxOf is the larger of two rates.
LEMMA MaxIsLarger ==
  ASSUME NEW a \in Nat, NEW b \in Nat
  PROVE  MaxOf(a, b) \in Nat /\ a <= MaxOf(a, b) /\ b <= MaxOf(a, b)
BY DEF MaxOf

\* No band charges an input token more than the dearest rate.
LEMMA DearestIsLargest ==
  ASSUME NEW r \in CacheRates
  PROVE  /\ DearestInput(r) \in Nat
         /\ r.ordinary <= DearestInput(r)
         /\ r.read <= DearestInput(r)
         /\ r.write <= DearestInput(r)
BY DEF DearestInput, MaxOf, CacheRates

\* An input split over three rates costs no more than all of it at a rate none
\* of the three exceeds.
LEMMA SplitCostsLess ==
  ASSUME NEW o \in Nat, NEW r \in Nat, NEW w \in Nat, NEW top \in Nat,
         o <= top, r <= top, w <= top,
         NEW i \in Nat, NEW j \in Nat, NEW k \in Nat
  PROVE  i * o + j * r + k * w <= (i + j + k) * top
<1>1. i * o <= i * top
  BY ProductGrows
<1>2. j * r <= j * top
  BY ProductGrows
<1>3. k * w <= k * top
  BY ProductGrows
<1>4. (i + j + k) * top = i * top + j * top + k * top
  OBVIOUS
<1>5. /\ i * o \in Nat /\ j * r \in Nat /\ k * w \in Nat
      /\ i * top \in Nat /\ j * top \in Nat /\ k * top \in Nat
  OBVIOUS
<1> QED BY <1>1, <1>2, <1>3, <1>4, <1>5

\* Version 1: usage within the token limits of a bound costs at most the bound.
THEOREM TextBoundIsABound ==
  ASSUME NEW m \in TextModel, NEW i \in Nat, NEW o \in Nat, NEW ib \in Nat, NEW ob \in Nat,
         i <= ib, o <= ob
  PROVE  PricedMicros(m, i, o) <= PricedMicros(m, ib, ob)
<1>1. m.input \in Nat /\ m.output \in Nat
  BY DEF TextModel
<1>2. m.input * i <= m.input * ib
  BY <1>1, ProductGrows
<1>3. m.output * o <= m.output * ob
  BY <1>1, ProductGrows
<1>4. /\ m.input * i \in Nat /\ m.input * ib \in Nat
      /\ m.output * o \in Nat /\ m.output * ob \in Nat
  BY <1>1
<1>5. m.input * i + m.output * o <= m.input * ib + m.output * ob
  BY <1>2, <1>3, <1>4
<1> QED BY <1>4, <1>5, CeilGrows DEF PricedMicros

\* Version 2: whatever band the usage falls in and however its input divides
\* between ordinary, cache-read and cache-write tokens, usage within the token
\* limits costs at most the bound that was reserved before it was known.
THEOREM CacheBoundIsABound ==
  ASSUME NEW m \in CacheModel, NEW u \in Usage, Partitioned(u),
         NEW ib \in Nat, NEW ob \in Nat, u.input <= ib, u.output <= ob
  PROVE  CacheEstimatedMicros(m, u) <= CacheBoundMicros(m, ib, ob)
<1> DEFINE rates == Band(m, u)
           dear  == MaxOf(DearestInput(m.short), DearestInput(m.long))
           dearOut == MaxOf(m.short.output, m.long.output)
           plain == u.input - u.read - u.write
<1>1. m.short \in CacheRates /\ m.long \in CacheRates
  BY DEF CacheModel
<1>2. u.input \in Nat /\ u.read \in Nat /\ u.write \in Nat /\ u.output \in Nat
  BY DEF Usage
<1>3. plain \in Nat /\ plain + u.read + u.write = u.input
  BY <1>2 DEF Partitioned
<1>4. rates \in CacheRates
  BY <1>1 DEF Band
<1>5. /\ dear \in Nat
      /\ DearestInput(m.short) <= dear /\ DearestInput(m.long) <= dear
      /\ DearestInput(m.short) \in Nat /\ DearestInput(m.long) \in Nat
  BY <1>1, DearestIsLargest, MaxIsLarger, Zenon
<1>6. /\ dearOut \in Nat /\ rates.output \in Nat
      /\ rates.output <= dearOut
  BY <1>1, MaxIsLarger, Zenon DEF Band, CacheRates
<1>7. /\ rates.ordinary \in Nat /\ rates.read \in Nat /\ rates.write \in Nat
      /\ rates.ordinary <= dear /\ rates.read <= dear /\ rates.write <= dear
  <2>1. rates.ordinary \in Nat /\ rates.read \in Nat /\ rates.write \in Nat
    BY <1>4 DEF CacheRates
  <2>2. DearestInput(rates) <= dear /\ DearestInput(rates) \in Nat
    BY <1>5 DEF Band
  <2>3. /\ rates.ordinary <= DearestInput(rates)
        /\ rates.read <= DearestInput(rates)
        /\ rates.write <= DearestInput(rates)
    BY <1>4, DearestIsLargest
  <2> HIDE DEF rates, dear
  <2> QED BY <2>1, <2>2, <2>3, <1>5
<1> HIDE DEF rates, dear, dearOut, plain
<1>8. plain * rates.ordinary + u.read * rates.read + u.write * rates.write
        <= (plain + u.read + u.write) * dear
  BY <1>2, <1>3, <1>5, <1>7, SplitCostsLess, Zenon
<1>9. u.input * dear <= ib * dear /\ u.output * rates.output <= ob * dearOut
  BY <1>2, <1>5, <1>6, ProductGrows
<1>10. /\ plain * rates.ordinary \in Nat /\ u.read * rates.read \in Nat
       /\ u.write * rates.write \in Nat /\ u.output * rates.output \in Nat
       /\ ib * dear \in Nat /\ ob * dearOut \in Nat
  BY <1>2, <1>3, <1>5, <1>6, <1>7
<1>11. /\ plain * rates.ordinary + u.read * rates.read + u.write * rates.write
            + u.output * rates.output \in Nat
       /\ dear * ib + dearOut * ob \in Nat
  BY <1>5, <1>6, <1>10
<1>12. plain * rates.ordinary + u.read * rates.read + u.write * rates.write
         + u.output * rates.output <= dear * ib + dearOut * ob
  <2>1. dear * ib = ib * dear /\ dearOut * ob = ob * dearOut
    BY <1>5, <1>6
  <2>2. u.input * dear \in Nat
    BY <1>2, <1>5
  <2>3. plain * rates.ordinary + u.read * rates.read + u.write * rates.write <= u.input * dear
    BY <1>3, <1>8
  <2> QED BY <1>9, <1>10, <2>1, <2>2, <2>3
<1> QED BY <1>11, <1>12, CeilGrows DEF CacheEstimatedMicros, CacheBoundMicros, rates, dear,
                                       dearOut, plain

\* What the settlement relies on: an attempt whose reported usage respects its
\* evidence never costs more than was reserved for it.
THEOREM EvidenceBoundsCost ==
  ASSUME NEW b, NEW u \in Usage,
         b.version \in {1, 2}, b.inputBound \in Nat, b.maxOutput \in Nat,
         b.version = 1 => b.model \in TextModel,
         b.version = 2 => b.model \in CacheModel,
         Complete(b, u), ~TokenBoundExceeded(b, u)
  PROVE  EstimatedMicros(b, u) <= BoundMicros(b)
<1>1. u.input \in Nat /\ u.output \in Nat
  BY DEF Usage
<1>2. u.input <= b.inputBound /\ u.output <= b.maxOutput
  BY <1>1 DEF TokenBoundExceeded
<1>3. CASE b.version = 1
  <2>1. PricedMicros(b.model, u.input, u.output)
          <= PricedMicros(b.model, b.inputBound, b.maxOutput)
    BY <1>1, <1>2, <1>3, TextBoundIsABound
  <2> QED BY <1>3, <2>1 DEF EstimatedMicros, BoundMicros
<1>4. CASE b.version = 2
  <2>1. Partitioned(u)
    BY <1>4 DEF Complete
  <2>2. CacheEstimatedMicros(b.model, u)
          <= CacheBoundMicros(b.model, b.inputBound, b.maxOutput)
    BY <1>2, <1>4, <2>1, CacheBoundIsABound
  <2> QED BY <1>4, <2>2 DEF EstimatedMicros, BoundMicros
<1> QED BY <1>3, <1>4

-----------------------------------------------------------------------------
(***************************************************************************)
(* Amounts: the arithmetic of moving, settling and exceeding them.         *)
(***************************************************************************)
LEMMA NaturalIsInteger == 0 \in Nat /\ \A n \in Nat : n \in Int /\ n >= 0
  OBVIOUS

LEMMA AtMostItself == \A n \in Int : n <= n
  OBVIOUS

\* An amount enters one sum, and leaves another.
LEMMA EntersSum == \A opening, total, n \in Int : (opening + total) + n = opening + (n + total)
  OBVIOUS

LEMMA JoinsSum == \A opening, total, n \in Int : (opening + total) + n = opening + (total + n)
  OBVIOUS

LEMMA LeavesSum == \A opening, total, n \in Int : (opening + (n + total)) - n = opening + total
  OBVIOUS

LEMMA QuitsSum == \A opening, total, n \in Int : (opening + (total + n)) - n = opening + total
  OBVIOUS

\* What the cost c exceeds the bound b by.
LEMMA ExceedsBound ==
  \A c, b \in Nat : /\ MaxOf(0, c - b) \in Nat /\ c - b <= MaxOf(0, c - b)
                    /\ c <= b => c - b <= 0
  BY DEF MaxOf

\* A limit that counts the excess is kept when the amount grows by no more.
LEMMA ExcessIsCounted ==
  \A amount, limit, total, c, b, n \in Int :
    amount <= limit + (0 + total) /\ c - b <= n => amount + c - b <= limit + (n + total)
  OBVIOUS

LEMMA Lowered == \A s, h \in Int : \A n \in Nat : s + (h + (- n)) <= s + h
  OBVIOUS

LEMMA Regrouped == \A s, h, n \in Int : s + (h + n) = s + h + n
  OBVIOUS

\* The amounts the configuration gives.
LEMMA ConfiguredAmounts ==
  /\ \A x \in Slots : Bound[x] \in Nat /\ Bound[x] \in Int /\ - Bound[x] \in Int
  /\ \A sc \in Scopes : /\ Ceiling[sc] \in Int /\ OpeningHeld[sc] \in Int
                        /\ OpeningSettled[sc] \in Int
  /\ MaxMicros \in Int
  BY SpendAssumption

\* The limit that the exposure of a budget keeps to.
Admissible(sc) == MaxOf(Ceiling[sc], OpeningSettled[sc] + OpeningHeld[sc])

LEMMA AdmissibleIsNatural ==
  \A sc \in Scopes : /\ Admissible(sc) \in Nat /\ Ceiling[sc] <= Admissible(sc)
                     /\ Ceiling[sc] \in Nat /\ OpeningSettled[sc] + OpeningHeld[sc] \in Int
                     /\ OpeningSettled[sc] + OpeningHeld[sc] <= Admissible(sc)
  BY SpendAssumption DEF Admissible, MaxOf

\* A budget that was within its limit stays there, excess counted.
LEMMA StaysWithin ==
  \A before, after, ceiling \in Int : \A limit, excess \in Nat :
    /\ ceiling <= limit /\ before <= limit + excess /\ (after <= before \/ after <= ceiling)
       => after <= limit + excess
    /\ before <= limit => before <= limit + excess
  OBVIOUS

\* The exposure of every budget is an integer.
LEMMA ExposureIsInteger ==
  \A s, h \in [Scopes -> Int] : \A sc \in Scopes : s[sc] \in Int /\ h[sc] \in Int /\ s[sc] + h[sc] \in Int
  OBVIOUS

\* Adding nothing to the budgets of an execution.
LEMMA ChangedByNothing == \A budget \in [Scopes -> Int] : \A e : Changed(budget, e, 0) = budget
  BY DEF Changed

\* Adding an amount to them, and taking it off.
LEMMA Raised ==
  \A budget \in [Scopes -> Int] : \A n \in Nat : \A e :
    /\ Changed(budget, e, n) \in [Scopes -> Int]
    /\ \A sc \in Scopes :
         Changed(budget, e, n)[sc] = IF sc \in ScopesOf[e] THEN budget[sc] + n ELSE budget[sc]
  BY DEF Changed

LEMMA ReducedType ==
  \A budget \in [Scopes -> Int] : \A n \in Nat : \A e : Changed(budget, e, - n) \in [Scopes -> Int]
  BY DEF Changed

LEMMA Reduced ==
  \A budget \in [Scopes -> Int] : \A n \in Nat : \A e :
    \A sc \in Scopes : /\ sc \in ScopesOf[e] => Changed(budget, e, - n)[sc] = budget[sc] - n
                       /\ sc \notin ScopesOf[e] => Changed(budget, e, - n)[sc] = budget[sc]
  BY DEF Changed

\* A settlement takes the bound of its slot off the held budgets and adds its cost to the settled.
LEMMA SettlementMoves ==
  ASSUME NEW x \in Slots, NEW c \in Nat, Bound[x] \in Nat,
         settled \in [Scopes -> Int], held \in [Scopes -> Int],
         held' = Changed(held, ExecutionOf[x], - Bound[x]),
         settled' = Changed(settled, ExecutionOf[x], c)
  PROVE  /\ held' \in [Scopes -> Int] /\ settled' \in [Scopes -> Int]
         /\ \A sc \in Scopes :
              /\ held'[sc] = IF sc \in ScopesOf[ExecutionOf[x]] THEN held[sc] - Bound[x] ELSE held[sc]
              /\ settled'[sc] = IF sc \in ScopesOf[ExecutionOf[x]] THEN settled[sc] + c ELSE settled[sc]
  BY DEF Changed

\* A reduced budget stays within a limit that it kept to.
LEMMA StaysBelow ==
  ASSUME NEW s \in Int, NEW h \in Int, NEW g, NEW n \in Nat, NEW limit \in Int,
         s + h <= limit, g = h - n \/ g = h
  PROVE  s + g <= limit
  OBVIOUS

\* A budget raised within its ceiling stays below the largest amount.
LEMMA AdmittedBelow ==
  ASSUME NEW s \in Int, NEW h \in Int, NEW n \in Nat, NEW sc \in Scopes, s + h + n <= Ceiling[sc]
  PROVE  s + (h + n) <= MaxMicros
  BY SpendAssumption

\* The shape of evidence.
LEMMA EvidenceShape ==
  \A b \in Evidences : /\ b.version \in {1, 2} /\ b.inputBound \in Nat /\ b.maxOutput \in Nat
                       /\ b.version = 1 => b.model \in TextModel
                       /\ b.version = 2 => b.model \in CacheModel
  BY EvidenceAssumption

-----------------------------------------------------------------------------
(***************************************************************************)
(* The invariant of the reservation store.  IInv makes its journals        *)
(* coherent.  StoreInv is inductive: the budgets are integers that fit,    *)
(* they are conserved, and every settled slot has a cost.  That the        *)
(* amounts are not negative follows: they are opening amounts plus sums of *)
(* natural numbers.                                                        *)
(***************************************************************************)
JournalTypes ==
  /\ record \in [Executions -> {"absent", "denied", "open", "closed"}]
  /\ slot \in [Slots -> {"none", "reserved", "may_have_executed", "settled", "unknown",
                         "closed_unused"}]
  /\ cost \in [Slots -> Costs \cup {Unknown}]
  /\ left \in [Executions -> 0..Lease]

IInv == JournalTypes /\ JournalsCohere

SettledIn(sc) == {x \in In(sc) : slot[x] = "settled"}

RetainedIn(sc) == {x \in In(sc) : slot[x] \in Retained}

StoreTypes ==
  /\ settled \in [Scopes -> Int] /\ held \in [Scopes -> Int]
  /\ \A sc \in Scopes : Exposure(sc) <= MaxMicros
  /\ suspended \subseteq Deployments /\ failed \in BOOLEAN /\ day \in 0..LastDay

SettledHaveCosts == \A x \in Slots : slot[x] = "settled" => cost[x] \in Costs

StoreInv ==
  IInv /\ StoreTypes /\ SettledHaveCosts /\ Conservation /\ SuspensionIsEvidence

\* A cost is a natural number.
LEMMA CostIsNatural == \A c \in Costs : c \in Nat
  <1>1. \A c \in Costs : c \in 0..MaxMicros BY SpendAssumption
  <1>2. QED BY <1>1, SpendAssumption

\* What settle does to the budgets and to the one slot it is called for.
LEMMA SettleEffect ==
  ASSUME StoreInv, NEW x \in Slots, NEW c \in Costs \cup {Unknown}, Settle(x, c)
  PROVE  /\ slot[x] = "may_have_executed"
         /\ \A y \in Slots \ {x} : slot'[y] = slot[y] /\ cost'[y] = cost[y]
         /\ \/ slot'[x] # "settled" /\ settled' = settled /\ held' = held
            \/ /\ c \in Costs /\ slot'[x] = "settled" /\ cost'[x] = c
               /\ \A sc \in Scopes :
                    Exposure(sc)' = IF x \in In(sc) THEN Exposure(sc) + c - Bound[x]
                                    ELSE Exposure(sc)
  <1> DEFINE e == ExecutionOf[x]
  <1>1. slot[x] = "may_have_executed" BY Zenon DEF Settle, Unsettled
  <1>2. /\ slot \in [Slots -> {"none", "reserved", "may_have_executed", "settled", "unknown",
                               "closed_unused"}]
        /\ cost \in [Slots -> Costs \cup {Unknown}]
        /\ settled \in [Scopes -> Int] /\ held \in [Scopes -> Int] /\ Bound[x] \in Nat
    BY ConfiguredAmounts, Zenon DEF StoreInv, StoreTypes, IInv, JournalTypes
  <1>3. CASE UNCHANGED <<slot, cost, held, settled>>
    BY <1>1, <1>3
  <1>4. CASE c = Unknown /\ Fits(SettledHeld(x, c), SettledSettled(x, c))
    <2>1. /\ slot' = [slot EXCEPT ![x] = "unknown"] /\ cost' = [cost EXCEPT ![x] = Unknown]
          /\ held' = held /\ settled' = Changed(settled, e, 0)
      BY <1>4, Zenon DEF Settle, SettledHeld, SettledSettled
    <2>2. settled' = settled
      BY <1>2, <2>1, ChangedByNothing, Zenon
    <2>3. QED BY <1>1, <1>2, <2>1, <2>2, Zenon
  <1>5. CASE c # Unknown /\ Fits(SettledHeld(x, c), SettledSettled(x, c))
    <2>1. /\ slot' = [slot EXCEPT ![x] = "settled"] /\ cost' = [cost EXCEPT ![x] = c]
          /\ held' = Changed(held, e, - Bound[x]) /\ settled' = Changed(settled, e, c)
      BY <1>5, Zenon DEF Settle, SettledHeld, SettledSettled
    <2>2. c \in Costs /\ c \in Int
      BY <1>5, CostIsNatural, NaturalIsInteger, Zenon
    <2>3. ASSUME NEW sc \in Scopes
          PROVE  settled'[sc] + held'[sc] = IF x \in In(sc) THEN settled[sc] + held[sc] + c - Bound[x]
                                            ELSE settled[sc] + held[sc]
      BY <1>2, <2>1, <2>2 DEF Changed, In
    <2>4. QED BY <1>1, <1>2, <2>1, <2>2, <2>3, Zenon DEF Exposure
  <1>6. QED BY <1>3, <1>4, <1>5, Zenon DEF Settle

-----------------------------------------------------------------------------
(***************************************************************************)
(* The journals of the reservation store.                                  *)
(***************************************************************************)
\* An empty store has coherent journals.
LEMMA InitIInv == Init => IInv
  BY SpendAssumption DEF Init, IInv, JournalTypes, JournalsCohere, SlotsOf

\* reserve keeps the journals coherent.
LEMMA ReserveIInv == ASSUME IInv, NEW e \in Executions, Reserve(e) PROVE IInv'
  <1> USE SpendAssumption DEF IInv, SlotsOf
  <1>1. CASE record' = [record EXCEPT ![e] = "open"]
    <2>1. /\ slot' = [x \in Slots |-> IF x \in SlotsOf(e) THEN "reserved" ELSE slot[x]]
          /\ left' = [left EXCEPT ![e] = Lease] /\ cost' = cost /\ record[e] = "absent"
      BY <1>1 DEF Reserve, JournalTypes
    <2>2. JournalTypes' BY <1>1, <2>1 DEF JournalTypes
    <2>3. JournalsCohere' BY <1>1, <2>1 DEF JournalTypes, JournalsCohere
    <2>4. QED BY <2>2, <2>3
  <1>2. CASE record' = [record EXCEPT ![e] = "denied"] /\ UNCHANGED <<slot, left, cost>>
    <2>1. record[e] = "absent" BY DEF Reserve
    <2>2. JournalTypes' BY <1>2 DEF JournalTypes
    <2>3. JournalsCohere' BY <1>2, <2>1 DEF JournalTypes, JournalsCohere
    <2>4. QED BY <2>2, <2>3
  <1>3. QED BY <1>1, <1>2 DEF Reserve

\* dispatch opens a claim only where there is none.
LEMMA DispatchIInv == ASSUME IInv, NEW x \in Slots, Dispatch(x) PROVE IInv'
  <1> USE SpendAssumption DEF IInv, SlotsOf
  <1>1. /\ slot[x] = "reserved" /\ record[ExecutionOf[x]] = "open"
        /\ \A y \in SlotsOf(ExecutionOf[x]) : slot[y] # "may_have_executed"
        /\ slot' = [slot EXCEPT ![x] = "may_have_executed"] /\ UNCHANGED <<record, cost, left>>
    BY DEF Dispatch, Live
  <1>2. JournalTypes' BY <1>1 DEF JournalTypes
  <1>3. JournalsCohere' BY <1>1 DEF JournalTypes, JournalsCohere
  <1>4. QED BY <1>2, <1>3

\* settle ends a claim, or stops the store and leaves the journals alone.
LEMMA SettleIInv ==
  ASSUME IInv, NEW x \in Slots, NEW c \in Costs \cup {Unknown}, Settle(x, c) PROVE IInv'
  <1> USE SpendAssumption DEF IInv, SlotsOf
  <1>1. CASE /\ slot' = [slot EXCEPT ![x] = IF c = Unknown THEN "unknown" ELSE "settled"]
             /\ cost' = [cost EXCEPT ![x] = c] /\ UNCHANGED <<record, left>>
    <2>1. slot[x] = "may_have_executed" /\ record[ExecutionOf[x]] = "open"
      BY Zenon DEF Settle, Settles, Unsettled, Live
    <2>2. JournalTypes' BY <1>1 DEF JournalTypes
    <2>3. JournalsCohere' BY <1>1, <2>1 DEF JournalTypes, JournalsCohere
    <2>4. QED BY <2>2, <2>3
  <1>2. CASE UNCHANGED <<record, slot, cost, left>>
    BY <1>2 DEF JournalTypes, JournalsCohere
  <1>3. QED BY <1>1, <1>2 DEF Settle

\* close leaves no claimable or open slot.
LEMMA CloseIInv == ASSUME IInv, NEW e \in Executions, Close(e) PROVE IInv'
  <1> USE SpendAssumption DEF IInv, SlotsOf
  <1>1. /\ record[e] = "open" /\ record' = [record EXCEPT ![e] = "closed"]
        /\ slot' = [x \in Slots |-> IF x \in SlotsOf(e) THEN ClosedSlot(x) ELSE slot[x]]
        /\ UNCHANGED <<cost, left>>
    BY DEF Close, Live
  <1>2. JournalTypes' BY <1>1 DEF JournalTypes, ClosedSlot
  <1>3. JournalsCohere' BY <1>1 DEF JournalTypes, JournalsCohere, ClosedSlot
  <1>4. QED BY <1>2, <1>3

\* Every step keeps the journals coherent.
LEMMA NextIInv == IInv /\ [Next]_vars => IInv'
  <1> SUFFICES ASSUME IInv, [Next]_vars PROVE IInv'
    OBVIOUS
  <1>1. ASSUME NEW e \in Executions, Reserve(e) PROVE IInv' BY <1>1, ReserveIInv
  <1>2. ASSUME NEW e \in Executions, Close(e) PROVE IInv' BY <1>2, CloseIInv
  <1>3. ASSUME NEW x \in Slots, Dispatch(x) PROVE IInv' BY <1>3, DispatchIInv
  <1>4. ASSUME NEW x \in Slots, NEW c \in Costs \cup {Unknown}, Settle(x, c) PROVE IInv'
    BY <1>4, SettleIInv
  <1>5. CASE Tick
    BY <1>5, SpendAssumption DEF Tick, IInv, JournalTypes, JournalsCohere
  <1>6. CASE Midnight \/ UNCHANGED vars
    BY <1>6 DEF Midnight, vars, IInv, JournalTypes, JournalsCohere
  <1>7. QED BY <1>1, <1>2, <1>3, <1>4, <1>5, <1>6 DEF Next

\* Slots exist exactly under a reservation, a closed journal has no claimable
\* or open slot, and at most one claim of an execution is open.
THEOREM JournalsAlwaysCohere == Spec => []JournalsCohere
  <1>1. IInv => JournalsCohere BY DEF IInv
  <1>2. QED BY <1>1, InitIInv, NextIInv, PTL DEF Spec

-----------------------------------------------------------------------------
\* What one step may do to the slots and journals, action by action.
LEMMA StepRetains == IInv /\ [Next]_vars => RetentionStep
  <1> SUFFICES ASSUME IInv, [Next]_vars, NEW x \in Slots
               PROVE  /\ slot[x] = "unknown" => slot'[x] = "unknown"
                      /\ slot[x] = "settled" => slot'[x] = "settled" /\ cost'[x] = cost[x]
                      /\ slot[x] = "may_have_executed" =>
                           \/ slot'[x] \in {"may_have_executed", "unknown"}
                           \/ slot'[x] = "settled" /\ cost'[x] # Unknown
    BY DEF RetentionStep
  <1> USE SpendAssumption DEF IInv, JournalTypes, SlotsOf
  <1>1. ASSUME NEW e \in Executions, Reserve(e)
        PROVE  slot'[x] \in {slot[x], "reserved"} /\ cost' = cost
               /\ (slot'[x] = slot[x] \/ slot[x] = "none")
    BY <1>1 DEF Reserve, JournalsCohere
  <1>2. ASSUME NEW e \in Executions, Close(e)
        PROVE  slot'[x] \in {slot[x], ClosedSlot(x)} /\ cost' = cost
    BY <1>2 DEF Close
  <1>3. ASSUME NEW y \in Slots, Dispatch(y)
        PROVE  (slot'[x] = slot[x] \/ slot[x] = "reserved") /\ cost' = cost
    BY <1>3 DEF Dispatch
  <1>4. ASSUME NEW y \in Slots, NEW c \in Costs \cup {Unknown}, Settle(y, c)
        PROVE  \/ slot'[x] = slot[x] /\ cost'[x] = cost[x]
               \/ /\ slot[x] = "may_have_executed"
                  /\ slot'[x] = "unknown" \/ (slot'[x] = "settled" /\ cost'[x] # Unknown)
    BY <1>4 DEF Settle, Unsettled
  <1>5. CASE Tick \/ Midnight \/ UNCHANGED vars
    BY <1>5 DEF Tick, Midnight, vars
  <1>6. QED BY <1>1, <1>2, <1>3, <1>4, <1>5 DEF Next, ClosedSlot

\* A slot that may have executed stays charged until a measured cost replaces
\* its bound; settlements are never revised.
THEOREM ChargesAreKept == Spec => ExposureIsRetained
  BY InitIInv, NextIInv, StepRetains, PTL DEF Spec, ExposureIsRetained

\* A step changes the slots of an execution only while it is live or absent.
LEMMA StepFreezes == IInv /\ [Next]_vars => FrozenStep
  <1> SUFFICES ASSUME IInv, [Next]_vars, NEW e \in Executions, record[e] # "absent", ~Live(e)
               PROVE  /\ record'[e] = record[e]
                      /\ \A x \in SlotsOf(e) : slot'[x] = slot[x] /\ cost'[x] = cost[x]
    BY Zenon DEF FrozenStep
  <1> USE SpendAssumption DEF IInv, JournalTypes, SlotsOf
  <1>1. ASSUME NEW f \in Executions, Reserve(f)
        PROVE  record'[e] = record[e] /\ \A x \in SlotsOf(e) : slot'[x] = slot[x] /\ cost' = cost
    BY <1>1 DEF Reserve
  <1>2. ASSUME NEW f \in Executions, Close(f)
        PROVE  record'[e] = record[e] /\ \A x \in SlotsOf(e) : slot'[x] = slot[x] /\ cost' = cost
    BY <1>2 DEF Close
  <1>3. ASSUME NEW y \in Slots, Dispatch(y)
        PROVE  record' = record /\ \A x \in SlotsOf(e) : slot'[x] = slot[x] /\ cost' = cost
    BY <1>3 DEF Dispatch
  <1>4. ASSUME NEW y \in Slots, NEW c \in Costs \cup {Unknown}, Settle(y, c)
        PROVE  record' = record /\ \A x \in SlotsOf(e) : slot'[x] = slot[x] /\ cost'[x] = cost[x]
    BY <1>4 DEF Settle, Settles, Unsettled
  <1>5. CASE Tick \/ Midnight \/ UNCHANGED vars
    BY <1>5 DEF Tick, Midnight, vars
  <1>6. QED BY <1>1, <1>2, <1>3, <1>4, <1>5 DEF Next

\* A closed, denied or expired execution is never changed again.
THEOREM EndedStaysFrozen == Spec => FrozenAfterEnd
  BY InitIInv, NextIInv, StepFreezes, PTL DEF Spec, FrozenAfterEnd

-----------------------------------------------------------------------------
(***************************************************************************)
(* Sums over finite sets.  Total is a recursive function of sets, so what  *)
(* it computes is shown by induction on the subsets of a finite set.  The  *)
(* induction is stated with the set of those that are good, and runs over  *)
(* the lengths of the sequences that list them.                            *)
(***************************************************************************)
INSTANCE WellFoundedInduction

\* A set of numbers that holds zero and every successor holds them all.
LEMMA GoodNumbers ==
  ASSUME NEW Good \in SUBSET Nat, 0 \in Good, \A n \in Good : n + 1 \in Good
  PROVE  Good = Nat
  <1> DEFINE Bad == Nat \ Good
             R == OpToRel(<, Nat)
  <1>1. IsWellFoundedOn(R, Nat)
    BY NatLessThanWellFounded, Zenon
  <1>2. \A m, n \in Nat : m < n => <<m, n>> \in R
    BY DEF OpToRel
  <1> HIDE DEF R
  <1> SUFFICES ASSUME Bad # {} PROVE FALSE
    BY Zenon
  <1>3. Bad \subseteq Nat
    OBVIOUS
  <1>4. PICK n \in Bad : \A m \in Bad : ~(<<m, n>> \in R)
    <2> HIDE DEF Bad
    <2> QED BY <1>1, <1>3, WFMin, Zenon
  <1>5. n \in Nat /\ n # 0 /\ n - 1 \in Nat /\ n - 1 < n
    BY <1>4
  <1>6. n - 1 \in Good
    BY <1>2, <1>4, <1>5, Zenon
  <1> QED BY <1>4, <1>5, <1>6

\* Parts of a finite set, and a finite set with one more element, are finite.
LEMMA FinitePart ==
  ASSUME NEW S, IsFiniteSet(S), NEW T \in SUBSET S
  PROVE  IsFiniteSet(T)
  <1>1. PICK q \in Seq(S) : \A x \in S : \E n \in 1..Len(q) : q[n] = x
    BY DEF IsFiniteSet
  <1>2. CASE T = {}
    <2>1. <<>> \in Seq(T)
      OBVIOUS
    <2> QED BY <1>2, <2>1, Zenon DEF IsFiniteSet
  <1>3. CASE T # {}
    <2>1. PICK t \in T : TRUE
      BY <1>3
    <2> DEFINE r == [n \in 1..Len(q) |-> IF q[n] \in T THEN q[n] ELSE t]
    <2>2. r \in Seq(T) /\ Len(r) = Len(q)
      OBVIOUS
    <2>3. \A x \in T : \E n \in 1..Len(r) : r[n] = x
      BY <1>1, <2>2, Zenon
    <2> HIDE DEF r
    <2> QED BY <2>2, <2>3 DEF IsFiniteSet
  <1> QED BY <1>2, <1>3

LEMMA FiniteWith ==
  ASSUME NEW S, IsFiniteSet(S), NEW x
  PROVE  IsFiniteSet(S \cup {x})
  <1>1. PICK q \in Seq(S) : \A y \in S : \E n \in 1..Len(q) : q[n] = y
    BY DEF IsFiniteSet
  <1> DEFINE r == Append(q, x)
  <1>2. r \in Seq(S \cup {x}) /\ Len(r) = Len(q) + 1
    OBVIOUS
  <1>3. r[Len(q) + 1] = x /\ \A n \in 1..Len(q) : r[n] = q[n]
    OBVIOUS
  <1> HIDE DEF r
  <1>4. ASSUME NEW y \in S \cup {x} PROVE \E n \in 1..Len(r) : r[n] = y
    <2>1. CASE y = x
      BY <1>2, <1>3, <2>1
    <2>2. CASE y \in S
      <3>1. PICK n \in 1..Len(q) : q[n] = y
        BY <1>1, <2>2
      <3> QED BY <1>2, <1>3, <3>1
    <2> QED BY <2>1, <2>2
  <1> QED BY <1>2, <1>4, Zenon DEF IsFiniteSet

\* A set of subsets that holds the empty set, and each set with whose every
\* element removed it still holds what remains, holds them all.
LEMMA SubsetInduction ==
  ASSUME NEW S, IsFiniteSet(S), NEW Good \in SUBSET (SUBSET S), {} \in Good,
         \A U \in SUBSET S : U # {} /\ (\A x \in U : U \ {x} \in Good) => U \in Good
  PROVE  S \in Good
  <1> DEFINE Lists(q, U) == \A x \in U : \E n \in DOMAIN q : q[n] = x
             Long == {n \in Nat : \A U \in SUBSET S :
                                    (\E q \in [1..n -> S] : Lists(q, U)) => U \in Good}
  <1>1. 0 \in Long
    <2>1. ASSUME NEW U \in SUBSET S, NEW q \in [1..0 -> S], Lists(q, U) PROVE U \in Good
      <3>1. U = {}
        BY <2>1
      <3> QED BY <3>1
    <2> QED BY <2>1
  <1>2. ASSUME NEW n \in Long PROVE n + 1 \in Long
    <2>1. ASSUME NEW U \in SUBSET S, NEW q \in [1..n + 1 -> S], Lists(q, U), NEW x \in U
          PROVE  U \ {x} \in Good
      <3>1. PICK j \in 1..n + 1 : q[j] = x
        BY <2>1
      <3> DEFINE r == [k \in 1..n |-> IF k = j THEN q[n + 1] ELSE q[k]]
      <3>2. r \in [1..n -> S]
        BY <2>1
      <3>3. Lists(r, U \ {x})
        <4> SUFFICES ASSUME NEW y \in U \ {x} PROVE \E k \in 1..n : r[k] = y
          BY <3>2
        <4>1. PICK k \in 1..n + 1 : q[k] = y
          BY <2>1
        <4>2. CASE k = n + 1
          <5>1. j \in 1..n
            BY <3>1, <4>1, <4>2
          <5>2. r[j] = y
            BY <4>1, <4>2, <5>1
          <5> QED BY <5>1, <5>2
        <4>3. CASE k # n + 1
          <5>1. k \in 1..n /\ k # j
            BY <3>1, <4>1, <4>3
          <5>2. r[k] = y
            BY <4>1, <5>1
          <5> QED BY <5>1, <5>2
        <4> QED BY <4>2, <4>3
      <3>4. U \ {x} \in SUBSET S
        OBVIOUS
      <3> HIDE DEF r, Lists
      <3> QED BY <3>2, <3>3, <3>4
    <2>2. ASSUME NEW U \in SUBSET S, NEW q \in [1..n + 1 -> S], Lists(q, U) PROVE U \in Good
      <3>1. \A x \in U : U \ {x} \in Good
        BY <2>1, <2>2
      <3> QED BY <3>1, Zenon
    <2> QED BY <2>2
  <1>3. Long = Nat
    <2>1. Long \in SUBSET Nat
      OBVIOUS
    <2> HIDE DEF Long
    <2> QED BY <1>1, <1>2, <2>1, GoodNumbers
  <1>4. PICK q \in Seq(S) : \A x \in S : \E n \in 1..Len(q) : q[n] = x
    BY DEF IsFiniteSet
  <1>5. Len(q) \in Nat /\ q \in [1..Len(q) -> S] /\ Lists(q, S)
    BY <1>4
  <1> HIDE DEF Lists
  <1>6. S \in SUBSET S
    OBVIOUS
  <1> QED BY <1>3, <1>5, <1>6

\* The element the sum takes from a set.
Pick(V) == CHOOSE x \in V : TRUE

\* g sums f over the subsets of S, by the recursion of Total.
Sums(g, f, S) ==
  g = [V \in SUBSET S |-> IF V = {} THEN 0 ELSE f[Pick(V)] + g[V \ {Pick(V)}]]

\* Total is what such a function says of the whole set.
LEMMA TotalSums ==
  ASSUME NEW f, NEW S
  PROVE  Total(f, S) = (CHOOSE g : Sums(g, f, S))[S]
  BY DEF Total, MapThenSumSet, MapThenFoldSet, Sums, Pick

\* Two such functions agree where both are defined.
LEMMA SumsAgree ==
  ASSUME NEW f, NEW A, NEW B, NEW g, Sums(g, f, A), NEW h, Sums(h, f, B),
         NEW V \in SUBSET (A \cap B), IsFiniteSet(V)
  PROVE  g[V] = h[V]
  <1> DEFINE Good == {W \in SUBSET V : g[W] = h[W]}
  <1>1. \A W \in SUBSET V :
          /\ g[W] = IF W = {} THEN 0 ELSE f[Pick(W)] + g[W \ {Pick(W)}]
          /\ h[W] = IF W = {} THEN 0 ELSE f[Pick(W)] + h[W \ {Pick(W)}]
    BY Zenon DEF Sums
  <1>2. {} \in Good
    BY <1>1
  <1>3. ASSUME NEW U \in SUBSET V, U # {}, \A x \in U : U \ {x} \in Good
        PROVE  U \in Good
    <2>1. Pick(U) \in U
      BY <1>3 DEF Pick
    <2> QED BY <1>1, <1>3, <2>1, Zenon
  <1>4. Good \in SUBSET (SUBSET V)
    OBVIOUS
  <1>5. V \in Good
    <2> HIDE DEF Good
    <2> QED BY <1>2, <1>3, <1>4, SubsetInduction, Zenon
  <1> QED BY <1>5

\* Finite sets have such a function.
LEMMA SumsExist ==
  ASSUME NEW S, IsFiniteSet(S), NEW f
  PROVE  \E g : Sums(g, f, S)
  <1> DEFINE Good == {W \in SUBSET S : \E g : Sums(g, f, W)}
             Of(W) == CHOOSE g : Sums(g, f, W)
  <1>1. {} \in Good
    <2> DEFINE Z == [W \in SUBSET {} |-> 0]
    <2>1. Sums(Z, f, {})
      BY DEF Sums
    <2> HIDE DEF Z
    <2> QED BY <2>1
  <1>2. ASSUME NEW U \in SUBSET S, U # {}, \A x \in U : U \ {x} \in Good
        PROVE  U \in Good
    <2> DEFINE p == Pick(U)
               P == U \ {p}
               G == [W \in SUBSET U |->
                       IF W = U THEN f[p] + Of(P)[P]
                       ELSE IF W = {} THEN 0 ELSE Of(U \ {CHOOSE x \in U : x \notin W})[W]]
    <2>1. p \in U
      BY <1>2 DEF Pick
    <2>2. \A x \in U : Sums(Of(U \ {x}), f, U \ {x})
      BY <1>2
    <2>3. IsFiniteSet(U)
      BY FinitePart
    <2> HIDE DEF Of
    <2>4. ASSUME NEW W \in SUBSET U, W # U, NEW x \in U, x \notin W
          PROVE  G[W] = Of(U \ {x})[W]
      <3> DEFINE y == CHOOSE y \in U : y \notin W
      <3>1. y \in U /\ y \notin W
        BY <2>4
      <3>2. CASE W = {}
        <4>1. G[W] = 0
          BY <1>2, <3>2
        <4>2. Of(U \ {x})[W] = 0
          BY <2>2, <3>2, Zenon DEF Sums
        <4> QED BY <4>1, <4>2
      <3>3. CASE W # {}
        <4>1. G[W] = Of(U \ {y})[W]
          BY <2>4, <3>3
        <4> HIDE DEF y, G
        <4>2. W \in SUBSET ((U \ {y}) \cap (U \ {x})) /\ IsFiniteSet(W)
          BY <2>3, <2>4, <3>1, FinitePart
        <4>3. Sums(Of(U \ {y}), f, U \ {y}) /\ Sums(Of(U \ {x}), f, U \ {x})
          BY <2>2, <3>1
        <4>4. Of(U \ {y})[W] = Of(U \ {x})[W]
          BY <4>2, <4>3, SumsAgree
        <4> QED BY <4>1, <4>4
      <3> QED BY <3>2, <3>3
    <2>5. ASSUME NEW W \in SUBSET U
          PROVE  G[W] = IF W = {} THEN 0 ELSE f[Pick(W)] + G[W \ {Pick(W)}]
      <3>1. CASE W = U
        <4>1. G[P] = Of(P)[P]
          BY <2>1, <2>4, Zenon
        <4> QED BY <1>2, <3>1, <4>1
      <3>2. CASE W = {}
        BY <1>2, <3>2
      <3>3. CASE W # U /\ W # {}
        <4>1. PICK x \in U : x \notin W
          BY <3>3
        <4>2. Pick(W) \in W
          BY <3>3 DEF Pick
        <4> DEFINE V == W \ {Pick(W)}
        <4>3. V \in SUBSET U /\ V # U /\ x \notin V /\ W \in SUBSET (U \ {x})
          BY <4>1, <4>2
        <4>4. G[W] = Of(U \ {x})[W] /\ G[V] = Of(U \ {x})[V]
          BY <2>4, <3>3, <4>1, <4>3, Zenon
        <4> HIDE DEF G
        <4>5. Of(U \ {x})[W] = f[Pick(W)] + Of(U \ {x})[V]
          BY <2>2, <3>3, <4>3, Zenon DEF Sums
        <4> QED BY <3>3, <4>4, <4>5
      <3> QED BY <3>1, <3>2, <3>3
    <2>6. G = [W \in SUBSET U |-> G[W]]
      OBVIOUS
    <2>7. Sums(G, f, U)
      <3> HIDE DEF G
      <3> QED BY <2>5, <2>6, Zenon DEF Sums
    <2> HIDE DEF G
    <2> QED BY <2>7
  <1>3. Good \in SUBSET (SUBSET S)
    OBVIOUS
  <1>4. S \in Good
    <2> HIDE DEF Good
    <2> QED BY <1>1, <1>2, <1>3, SubsetInduction, Zenon
  <1> QED BY <1>4

\* The recursion of Total, as equations.
LEMMA TotalEmpty == \A f : Total(f, {}) = 0
  <1> SUFFICES ASSUME NEW f PROVE Total(f, {}) = 0
    OBVIOUS
  <1> DEFINE g == CHOOSE g : Sums(g, f, {})
  <1>1. Sums(g, f, {}) /\ Total(f, {}) = g[{}]
    <2>1. <<>> \in Seq({})
      OBVIOUS
    <2>2. IsFiniteSet({})
      BY <2>1, Zenon DEF IsFiniteSet
    <2> QED BY <2>2, SumsExist, TotalSums
  <1> HIDE DEF g
  <1> QED BY <1>1 DEF Sums

LEMMA TotalPicks ==
  ASSUME NEW S, IsFiniteSet(S), S # {}, NEW f
  PROVE  Pick(S) \in S /\ Total(f, S) = f[Pick(S)] + Total(f, S \ {Pick(S)})
  <1> DEFINE Of(W) == CHOOSE g : Sums(g, f, W)
             R == S \ {Pick(S)}
  <1>1. IsFiniteSet(R)
    BY FinitePart
  <1>2. /\ Sums(Of(S), f, S) /\ Total(f, S) = Of(S)[S]
        /\ Sums(Of(R), f, R) /\ Total(f, R) = Of(R)[R]
    BY <1>1, SumsExist, TotalSums, Zenon
  <1> HIDE DEF Of
  <1>3. Of(S)[S] = f[Pick(S)] + Of(S)[R]
    BY <1>2, Zenon DEF Sums
  <1>4. R \in SUBSET (S \cap R)
    OBVIOUS
  <1> HIDE DEF R
  <1>5. Of(S)[R] = Of(R)[R]
    BY <1>1, <1>2, <1>4, SumsAgree
  <1>6. Pick(S) \in S
    BY DEF Pick
  <1> QED BY <1>2, <1>3, <1>5, <1>6 DEF R

\* A sum of integers is one, and one of natural numbers is one.
LEMMA TotalType ==
  ASSUME NEW S, IsFiniteSet(S), NEW f, \A x \in S : f[x] \in Int
  PROVE  Total(f, S) \in Int /\ ((\A x \in S : f[x] >= 0) => Total(f, S) >= 0)
  <1> DEFINE Good == {W \in SUBSET S : /\ Total(f, W) \in Int
                                       /\ (\A x \in S : f[x] >= 0) => Total(f, W) >= 0}
  <1>1. {} \in Good
    BY TotalEmpty
  <1>2. ASSUME NEW U \in SUBSET S, U # {}, \A x \in U : U \ {x} \in Good
        PROVE  U \in Good
    <2>1. Pick(U) \in U /\ Total(f, U) = f[Pick(U)] + Total(f, U \ {Pick(U)})
      BY <1>2, FinitePart, TotalPicks, Zenon
    <2> QED BY <1>2, <2>1
  <1>3. Good \in SUBSET (SUBSET S)
    OBVIOUS
  <1>4. S \in Good
    <2> HIDE DEF Good
    <2> QED BY <1>1, <1>2, <1>3, SubsetInduction, Zenon
  <1> QED BY <1>4

\* The total of natural numbers is a natural number.
LEMMA TotalIsNatural ==
  ASSUME NEW S, IsFiniteSet(S), NEW f, \A x \in S : f[x] \in Nat
  PROVE  Total(f, S) \in Nat
  <1>1. \A x \in S : f[x] \in Int /\ f[x] >= 0 OBVIOUS
  <1>2. QED BY <1>1, TotalType

\* A sum depends on the summands only.
LEMMA TotalSame ==
  ASSUME NEW S, IsFiniteSet(S), NEW f, NEW g, \A x \in S : f[x] = g[x]
  PROVE  Total(f, S) = Total(g, S)
  <1> DEFINE Good == {W \in SUBSET S : Total(f, W) = Total(g, W)}
  <1>1. {} \in Good
    BY TotalEmpty
  <1>2. ASSUME NEW U \in SUBSET S, U # {}, \A x \in U : U \ {x} \in Good
        PROVE  U \in Good
    <2>1. IsFiniteSet(U)
      BY FinitePart
    <2>2. /\ Pick(U) \in U /\ Total(f, U) = f[Pick(U)] + Total(f, U \ {Pick(U)})
          /\ Total(g, U) = g[Pick(U)] + Total(g, U \ {Pick(U)})
      BY <1>2, <2>1, TotalPicks
    <2> QED BY <1>2, <2>2
  <1>3. Good \in SUBSET (SUBSET S)
    OBVIOUS
  <1>4. S \in Good
    <2> HIDE DEF Good
    <2> QED BY <1>1, <1>2, <1>3, SubsetInduction, Zenon
  <1> QED BY <1>4

\* Any element may be taken from a sum.
LEMMA TotalRemove ==
  ASSUME NEW S, IsFiniteSet(S), NEW f, \A x \in S : f[x] \in Int, NEW y \in S
  PROVE  Total(f, S) = f[y] + Total(f, S \ {y})
  <1> DEFINE Good == {W \in SUBSET S : \A x \in W : Total(f, W) = f[x] + Total(f, W \ {x})}
  <1>1. {} \in Good
    OBVIOUS
  <1>2. ASSUME NEW U \in SUBSET S, U # {}, \A x \in U : U \ {x} \in Good
        PROVE  U \in Good
    <2> SUFFICES ASSUME NEW x \in U PROVE Total(f, U) = f[x] + Total(f, U \ {x})
      OBVIOUS
    <2> DEFINE p == Pick(U)
               W == (U \ {p}) \ {x}
    <2>1. p \in U /\ Total(f, U) = f[p] + Total(f, U \ {p})
      BY <1>2, FinitePart, TotalPicks, Zenon
    <2>2. CASE p = x
      BY <2>1, <2>2
    <2>3. CASE p # x
      <3>1. W = (U \ {x}) \ {p} /\ x \in U \ {p} /\ p \in U \ {x} /\ W \subseteq S
        BY <2>1, <2>3
      <3>2. Total(f, U \ {p}) = f[x] + Total(f, W) /\ Total(f, U \ {x}) = f[p] + Total(f, W)
        BY <1>2, <2>1, <3>1
      <3>3. f[x] \in Int /\ f[p] \in Int /\ Total(f, W) \in Int
        <4>1. IsFiniteSet(W)
          BY <3>1, FinitePart
        <4> HIDE DEF W
        <4> QED BY <2>1, <3>1, <4>1, TotalType
      <3> HIDE DEF p, W
      <3> QED BY <2>1, <3>2, <3>3
    <2> QED BY <2>2, <2>3
  <1>3. Good \in SUBSET (SUBSET S)
    OBVIOUS
  <1>4. S \in Good
    <2> HIDE DEF Good
    <2> QED BY <1>1, <1>2, <1>3, SubsetInduction, Zenon
  <1> QED BY <1>4

\* The sum over two sets that share nothing.
LEMMA TotalSplit ==
  ASSUME NEW A, NEW B, IsFiniteSet(A \cup B), A \cap B = {},
         NEW f, \A x \in A \cup B : f[x] \in Int
  PROVE  Total(f, A \cup B) = Total(f, A) + Total(f, B)
  <1> DEFINE Good == {W \in SUBSET B : Total(f, A \cup W) = Total(f, A) + Total(f, W)}
  <1>1. {} \in Good
    <2>1. IsFiniteSet(A)
      BY FinitePart, Zenon
    <2>2. A \cup {} = A /\ Total(f, A) \in Int /\ Total(f, {}) = 0
      BY <2>1, TotalType, TotalEmpty
    <2>3. Total(f, A \cup {}) = Total(f, A) + Total(f, {})
      BY <2>2
    <2> QED BY <2>3
  <1>2. ASSUME NEW U \in SUBSET B, U # {}, \A x \in U : U \ {x} \in Good
        PROVE  U \in Good
    <2>1. PICK x \in U : TRUE
      BY <1>2
    <2> DEFINE R == U \ {x}
    <2>2. R \subseteq B /\ (A \cup U) \ {x} = A \cup R /\ x \in A \cup U /\ A \cup U \subseteq A \cup B
      BY <2>1
    <2>3. Total(f, A \cup R) = Total(f, A) + Total(f, R)
      BY <1>2, <2>1
    <2>4. IsFiniteSet(U) /\ IsFiniteSet(R) /\ IsFiniteSet(A) /\ IsFiniteSet(A \cup U)
      BY <2>2, FinitePart, Zenon
    <2>5. Total(f, U) = f[x] + Total(f, R)
      BY <2>1, <2>4, TotalRemove
    <2> HIDE DEF R
    <2>6. Total(f, A \cup U) = f[x] + Total(f, A \cup R)
      BY <2>2, <2>4, TotalRemove
    <2>7. f[x] \in Int /\ Total(f, A) \in Int /\ Total(f, R) \in Int
      BY <2>2, <2>4, TotalType
    <2>8. Total(f, A \cup U) = Total(f, A) + Total(f, U)
      BY <2>3, <2>5, <2>6, <2>7
    <2> QED BY <2>8
  <1>3. Good \in SUBSET (SUBSET B)
    OBVIOUS
  <1>4. B \in Good
    <2>1. IsFiniteSet(B)
      BY FinitePart, Zenon
    <2> HIDE DEF Good
    <2> QED BY <1>1, <1>2, <1>3, <2>1, SubsetInduction, Zenon
  <1> QED BY <1>4, Zenon

-----------------------------------------------------------------------------
(***************************************************************************)
(* The accounting of the reservation store: every step keeps StoreInv.     *)
(***************************************************************************)
\* The bounds of any slots sum to a natural number.
LEMMA BoundsAreNatural ==
  ASSUME NEW S \in SUBSET Slots
  PROVE  IsFiniteSet(S) /\ Total(Bound, S) \in Nat
  <1>1. IsFiniteSet(S) BY FiniteAssumption, FinitePart, Zenon
  <1>2. \A x \in S : Bound[x] \in Nat BY ConfiguredAmounts, Zenon
  <1>3. QED BY <1>1, <1>2, TotalIsNatural, Zenon

\* So do the costs of settled slots.
LEMMA CostsAreNatural ==
  ASSUME NEW S \in SUBSET Slots, NEW f, \A x \in S : f[x] \in Costs
  PROVE  IsFiniteSet(S) /\ Total(f, S) \in Nat
  <1>1. IsFiniteSet(S) BY FiniteAssumption, FinitePart, Zenon
  <1>2. \A x \in S : f[x] \in Nat BY CostIsNatural, Zenon
  <1>3. QED BY <1>1, <1>2, TotalIsNatural, Zenon

\* The invariant says everything the store validates.
LEMMA StoreImage == StoreInv => ImageIsValid
  <1> SUFFICES ASSUME StoreInv PROVE ImageIsValid
    BY Zenon
  <1>1. ASSUME NEW sc \in Scopes PROVE settled[sc] \in 0..MaxMicros /\ held[sc] \in 0..MaxMicros
    <2>1. /\ settled[sc] = OpeningSettled[sc] + Total(cost, SettledIn(sc))
          /\ held[sc] = OpeningHeld[sc] + Total(Bound, RetainedIn(sc))
      BY Zenon DEF StoreInv, Conservation, SettledIn, RetainedIn
    <2>2. SettledIn(sc) \in SUBSET Slots /\ RetainedIn(sc) \in SUBSET Slots
      BY Zenon DEF SettledIn, RetainedIn, In
    <2>3. \A x \in SettledIn(sc) : cost[x] \in Costs
      BY <2>2, Zenon DEF StoreInv, SettledHaveCosts, SettledIn
    <2>4. PICK S \in SUBSET Slots : S = SettledIn(sc)
      BY <2>2, Zenon
    <2>5. PICK R \in SUBSET Slots : R = RetainedIn(sc)
      BY <2>2, Zenon
    <2>6. Total(cost, S) \in Nat
      BY <2>3, <2>4, CostsAreNatural, Zenon
    <2>7. Total(Bound, R) \in Nat
      BY BoundsAreNatural, Zenon
    <2>8. /\ OpeningSettled[sc] \in Nat /\ OpeningHeld[sc] \in Nat /\ MaxMicros \in Nat
          /\ settled[sc] + held[sc] <= MaxMicros
      BY SpendAssumption DEF StoreInv, StoreTypes, Exposure
    <2>9. QED BY <2>1, <2>4, <2>5, <2>6, <2>7, <2>8
  <1>2. TypeOK
    BY <1>1, Zenon DEF TypeOK, StoreInv, StoreTypes, IInv, JournalTypes
  <1>3. QED BY <1>2, Zenon DEF ImageIsValid, StoreInv, IInv

\* The opening budgets are the whole account of an empty store.
LEMMA InitStore == Init => StoreInv
  <1> SUFFICES ASSUME Init PROVE StoreInv
    BY Zenon
  <1>1. IInv BY InitIInv, Zenon
  <1>2. StoreTypes
    <2>1. settled \in [Scopes -> 0..MaxMicros] /\ held \in [Scopes -> 0..MaxMicros]
      BY SpendAssumption, Zenon DEF Init
    <2>2. settled \in [Scopes -> Int] /\ held \in [Scopes -> Int]
      BY <2>1
    <2>3. \A sc \in Scopes : Exposure(sc) <= MaxMicros
      BY SpendAssumption, Zenon DEF Init, Exposure
    <2>4. 0 \in 0..LastDay
      BY SpendAssumption
    <2>5. day \in 0..LastDay /\ suspended \subseteq Deployments
      BY <2>4, Zenon DEF Init
    <2>6. failed \in BOOLEAN
      BY Zenon DEF Init
    <2>7. QED BY <2>2, <2>3, <2>5, <2>6, Zenon DEF StoreTypes
  <1>3. SettledHaveCosts /\ SuspensionIsEvidence
    BY Zenon DEF Init, SettledHaveCosts, SuspensionIsEvidence
  <1>4. Conservation
    <2> SUFFICES ASSUME NEW sc \in Scopes
                 PROVE  /\ settled[sc] = OpeningSettled[sc] + Total(cost, SettledIn(sc))
                        /\ held[sc] = OpeningHeld[sc] + Total(Bound, RetainedIn(sc))
      BY Zenon DEF Conservation, SettledIn, RetainedIn
    <2>1. SettledIn(sc) = {} /\ RetainedIn(sc) = {}
      BY Zenon DEF Init, SettledIn, RetainedIn, In, Retained
    <2>2. Total(cost, {}) = 0 /\ Total(Bound, {}) = 0
      BY TotalEmpty, Zenon
    <2>3. settled[sc] = OpeningSettled[sc] /\ held[sc] = OpeningHeld[sc]
          /\ OpeningSettled[sc] \in Int /\ OpeningHeld[sc] \in Int
      BY SpendAssumption DEF Init
    <2>4. QED BY <2>1, <2>2, <2>3
  <1>5. QED BY <1>1, <1>2, <1>3, <1>4, Zenon DEF StoreInv

\* A step that settles nothing keeps what is said of settled slots.
LEMMA NothingSettles ==
  ASSUME StoreInv, UNCHANGED <<cost, suspended>>,
         \A x \in Slots : slot'[x] = "settled" <=> slot[x] = "settled"
  PROVE  /\ SettledHaveCosts' /\ SuspensionIsEvidence'
         /\ \A sc \in Scopes : SettledIn(sc)' = SettledIn(sc)
  <1>1. SettledHaveCosts' BY Zenon DEF StoreInv, SettledHaveCosts
  <1>2. {y \in Slots : slot'[y] = "settled" /\ cost[y] > Bound[y]}
          = {y \in Slots : slot[y] = "settled" /\ cost[y] > Bound[y]}
    BY Zenon
  <1>3. SuspensionIsEvidence' BY <1>2, Zenon DEF StoreInv, SuspensionIsEvidence
  <1>4. QED BY <1>1, <1>3, Zenon DEF SettledIn, In

\* A step that leaves the budgets and the retained slots of every scope alone
\* keeps the accounts.
LEMMA NothingMoves ==
  ASSUME StoreInv, UNCHANGED <<settled, held, cost>>,
         \A x \in Slots : slot'[x] = "settled" <=> slot[x] = "settled",
         \A x \in Slots : slot'[x] \in Retained <=> slot[x] \in Retained
  PROVE  Conservation'
  <1> SUFFICES ASSUME NEW sc \in Scopes
               PROVE  /\ settled'[sc] = OpeningSettled[sc] + Total(cost', SettledIn(sc)')
                      /\ held'[sc] = OpeningHeld[sc] + Total(Bound, RetainedIn(sc)')
    BY Zenon DEF Conservation, SettledIn, RetainedIn
  <1>1. SettledIn(sc)' = SettledIn(sc) /\ RetainedIn(sc)' = RetainedIn(sc)
    BY Zenon DEF SettledIn, RetainedIn, In
  <1>2. QED BY <1>1, Zenon DEF StoreInv, Conservation, SettledIn, RetainedIn

\* reserve: the slots of a request that was absent are new to every budget
\* that applies to it.
LEMMA ReserveStore ==
  ASSUME StoreInv, NEW e \in Executions, Reserve(e), IInv'
  PROVE  StoreInv'
  <1> DEFINE amount == Total(Bound, SlotsOf(e))
  <1>1. SlotsOf(e) \in SUBSET Slots BY Zenon DEF SlotsOf
  <1>2. amount \in Nat BY <1>1, BoundsAreNatural, Zenon
  <1>3. record[e] = "absent" /\ UNCHANGED <<settled, cost, suspended, failed, day>>
    BY Zenon DEF Reserve
  <1>4. \A x \in SlotsOf(e) : slot[x] = "none"
    BY <1>3, Zenon DEF StoreInv, IInv, JournalsCohere
  <1>5. \/ UNCHANGED <<slot, held>>
        \/ /\ \A sc \in ScopesOf[e] : PermitsAllocation(sc, amount)
           /\ slot' = [x \in Slots |-> IF x \in SlotsOf(e) THEN "reserved" ELSE slot[x]]
           /\ held' = Changed(held, e, amount)
    BY Zenon DEF Reserve
  <1> HIDE DEF amount
  <1>6. CASE UNCHANGED <<slot, held>>
    <2>1. StoreTypes' BY <1>3, <1>6, Zenon DEF StoreInv, StoreTypes, Exposure
    <2>2. SettledHaveCosts' /\ SuspensionIsEvidence' BY <1>3, <1>6, NothingSettles, Zenon
    <2>3. Conservation' BY <1>3, <1>6, NothingMoves, Zenon
    <2>4. QED BY <2>1, <2>2, <2>3, Zenon DEF StoreInv
  <1>7. CASE /\ \A sc \in ScopesOf[e] : PermitsAllocation(sc, amount)
             /\ slot' = [x \in Slots |-> IF x \in SlotsOf(e) THEN "reserved" ELSE slot[x]]
             /\ held' = Changed(held, e, amount)
    <2>1. settled \in [Scopes -> Int] /\ held \in [Scopes -> Int]
      BY Zenon DEF StoreInv, StoreTypes
    <2>2. held' \in [Scopes -> Int] /\ \A sc \in Scopes :
            held'[sc] = IF sc \in ScopesOf[e] THEN held[sc] + amount ELSE held[sc]
      <3>1. /\ Changed(held, e, amount) \in [Scopes -> Int]
            /\ \A sc \in Scopes :
                 Changed(held, e, amount)[sc] = IF sc \in ScopesOf[e] THEN held[sc] + amount ELSE held[sc]
        <4>1. held \in [Scopes -> Int] BY <2>1, Zenon
        <4>2. PICK n \in Nat : n = amount BY <1>2, Zenon
        <4>3. /\ Changed(held, e, n) \in [Scopes -> Int]
              /\ \A sc \in Scopes :
                   Changed(held, e, n)[sc] = IF sc \in ScopesOf[e] THEN held[sc] + n ELSE held[sc]
          BY <4>1, Raised, Zenon
        <4>4. QED BY <4>2, <4>3, Zenon
      <3>2. QED BY <1>7, <3>1, Zenon
    <2>3. StoreTypes'
      <3>1. ASSUME NEW sc \in Scopes PROVE settled[sc] + held'[sc] <= MaxMicros
        <4>1. CASE sc \in ScopesOf[e]
          <5>1. settled[sc] + held[sc] + amount <= Ceiling[sc]
            BY <1>7, <4>1, Zenon DEF PermitsAllocation, Exposure
          <5>2. settled[sc] \in Int /\ held[sc] \in Int BY <2>1, ExposureIsInteger, Zenon
          <5>3. settled[sc] + (held[sc] + amount) <= MaxMicros
            BY <1>2, <5>1, <5>2, AdmittedBelow, Zenon
          <5>4. QED BY <2>2, <4>1, <5>3, Zenon
        <4>2. CASE sc \notin ScopesOf[e]
          BY <2>2, <4>2, Zenon DEF StoreInv, StoreTypes, Exposure
        <4>3. QED BY <4>1, <4>2, Zenon
      <3>2. QED BY <1>3, <2>2, <3>1, Zenon DEF StoreInv, StoreTypes, Exposure
    <2>4. \A x \in Slots : slot'[x] = "settled" <=> slot[x] = "settled"
      BY <1>4, <1>7, Zenon
    <2>5. /\ SettledHaveCosts' /\ SuspensionIsEvidence'
          /\ \A sc \in Scopes : SettledIn(sc)' = SettledIn(sc)
      BY <1>3, <2>4, NothingSettles, Zenon
    <2>6. Conservation'
      <3> SUFFICES ASSUME NEW sc \in Scopes
                   PROVE  /\ settled'[sc] = OpeningSettled[sc] + Total(cost', SettledIn(sc)')
                          /\ held'[sc] = OpeningHeld[sc] + Total(Bound, RetainedIn(sc)')
        BY Zenon DEF Conservation, SettledIn, RetainedIn
      <3>1. /\ settled[sc] = OpeningSettled[sc] + Total(cost, SettledIn(sc))
            /\ held[sc] = OpeningHeld[sc] + Total(Bound, RetainedIn(sc))
        BY Zenon DEF StoreInv, Conservation, SettledIn, RetainedIn
      <3>2. settled'[sc] = OpeningSettled[sc] + Total(cost', SettledIn(sc)')
        BY <1>3, <2>5, <3>1, Zenon
      <3>3. PICK R \in SUBSET Slots : R = RetainedIn(sc)
        BY Zenon DEF RetainedIn, In
      <3>4. CASE sc \in ScopesOf[e]
        <4>1. RetainedIn(sc)' = R \cup SlotsOf(e) /\ R \cap SlotsOf(e) = {}
          BY <1>4, <1>7, <3>3, <3>4, Zenon DEF RetainedIn, In, Retained, SlotsOf
        <4>2. Total(Bound, R \cup SlotsOf(e)) = Total(Bound, R) + amount
          <5>1. \A x \in Slots : Bound[x] \in Int BY ConfiguredAmounts, Zenon
          <5>2. IsFiniteSet(R \cup SlotsOf(e)) BY <1>1, BoundsAreNatural, Zenon
          <5>3. QED BY <1>1, <4>1, <5>1, <5>2, TotalSplit, Zenon DEF amount
        <4>3. Total(Bound, R) \in Int /\ OpeningHeld[sc] \in Int /\ amount \in Int
          BY <1>2, BoundsAreNatural, ConfiguredAmounts, NaturalIsInteger, Zenon
        <4>4. (OpeningHeld[sc] + Total(Bound, R)) + amount
                = OpeningHeld[sc] + (Total(Bound, R) + amount)
          BY <4>3, JoinsSum, Zenon
        <4>5. held'[sc] = held[sc] + amount BY <2>2, <3>4, Zenon
        <4>6. QED BY <3>1, <3>2, <3>3, <4>1, <4>2, <4>4, <4>5, Zenon
      <3>5. CASE sc \notin ScopesOf[e]
        <4>1. RetainedIn(sc)' = RetainedIn(sc)
          BY <1>7, <3>5, Zenon DEF RetainedIn, In, SlotsOf
        <4>2. QED BY <2>2, <3>1, <3>2, <3>5, <4>1, Zenon
      <3>6. QED BY <3>4, <3>5, Zenon
    <2>7. QED BY <2>3, <2>5, <2>6, Zenon DEF StoreInv
  <1>8. QED BY <1>5, <1>6, <1>7, Zenon

\* close: what it releases are the bounds of the slots that were never claimed.
LEMMA CloseStore ==
  ASSUME StoreInv, NEW e \in Executions, Close(e), IInv'
  PROVE  StoreInv'
  <1> DEFINE unused == {x \in SlotsOf(e) : slot[x] = "reserved"}
  <1>1. /\ slot' = [x \in Slots |-> IF x \in SlotsOf(e) THEN ClosedSlot(x) ELSE slot[x]]
        /\ held' = Changed(held, e, - Total(Bound, unused))
        /\ UNCHANGED <<settled, cost, suspended, failed, day>>
    BY Zenon DEF Close
  <1>2. PICK S \in SUBSET Slots : S = unused
    BY Zenon DEF SlotsOf
  <1>3. PICK amount \in Nat : amount = Total(Bound, S)
    BY BoundsAreNatural, Zenon
  <1>4. ASSUME NEW x \in Slots
        PROVE  /\ x \in S <=> ExecutionOf[x] = e /\ slot[x] = "reserved"
               /\ x \in S => slot'[x] = "closed_unused"
               /\ x \notin S => (slot'[x] \in Retained <=> slot[x] \in Retained)
               /\ slot'[x] = "settled" <=> slot[x] = "settled"
    <2>1. x \in S <=> ExecutionOf[x] = e /\ slot[x] = "reserved"
      BY <1>2, Zenon DEF SlotsOf
    <2>2. slot'[x] = IF ExecutionOf[x] = e THEN ClosedSlot(x) ELSE slot[x]
      BY <1>1, Zenon DEF SlotsOf
    <2>3. /\ slot[x] = "reserved" => ClosedSlot(x) = "closed_unused"
          /\ slot[x] = "may_have_executed" => ClosedSlot(x) = "unknown"
          /\ slot[x] \notin {"reserved", "may_have_executed"} => ClosedSlot(x) = slot[x]
      BY Zenon DEF ClosedSlot
    <2>4. QED BY <2>1, <2>2, <2>3, Zenon DEF Retained
  <1>5. settled \in [Scopes -> Int] /\ held \in [Scopes -> Int]
    BY Zenon DEF StoreInv, StoreTypes
  <1>6. held' \in [Scopes -> Int] /\ \A sc \in Scopes :
          held'[sc] = IF sc \in ScopesOf[e] THEN held[sc] - amount ELSE held[sc]
    <2>1. held' = Changed(held, e, - amount)
      BY <1>1, <1>2, <1>3, Zenon
    <2>2. Changed(held, e, - amount) \in [Scopes -> Int]
      BY <1>5, ReducedType, Zenon
    <2>3. \A sc \in Scopes :
            /\ sc \in ScopesOf[e] => Changed(held, e, - amount)[sc] = held[sc] - amount
            /\ sc \notin ScopesOf[e] => Changed(held, e, - amount)[sc] = held[sc]
      <3>1. held \in [Scopes -> Int] BY <1>5, Zenon
      <3>2. QED BY <3>1, Reduced, Zenon
    <2>4. QED BY <2>1, <2>2, <2>3, Zenon
  <1>7. StoreTypes'
    <2>1. ASSUME NEW sc \in Scopes PROVE settled[sc] + held'[sc] <= MaxMicros
      <3>1. settled[sc] \in Int /\ held[sc] \in Int BY <1>5, ExposureIsInteger, Zenon
      <3>2. settled[sc] + held[sc] <= MaxMicros BY Zenon DEF StoreInv, StoreTypes, Exposure
      <3>3. held'[sc] = held[sc] - amount \/ held'[sc] = held[sc] BY <1>6, Zenon
      <3>4. QED BY <3>1, <3>2, <3>3, ConfiguredAmounts, StaysBelow, Zenon
    <2>2. QED BY <1>1, <1>6, <2>1, Zenon DEF StoreInv, StoreTypes, Exposure
  <1>8. /\ SettledHaveCosts' /\ SuspensionIsEvidence'
        /\ \A sc \in Scopes : SettledIn(sc)' = SettledIn(sc)
    BY <1>1, <1>4, NothingSettles, Zenon
  <1>9. Conservation'
    <2> SUFFICES ASSUME NEW sc \in Scopes
                 PROVE  /\ settled'[sc] = OpeningSettled[sc] + Total(cost', SettledIn(sc)')
                        /\ held'[sc] = OpeningHeld[sc] + Total(Bound, RetainedIn(sc)')
      BY Zenon DEF Conservation, SettledIn, RetainedIn
    <2>1. /\ settled[sc] = OpeningSettled[sc] + Total(cost, SettledIn(sc))
          /\ held[sc] = OpeningHeld[sc] + Total(Bound, RetainedIn(sc))
      BY Zenon DEF StoreInv, Conservation, SettledIn, RetainedIn
    <2>2. settled'[sc] = OpeningSettled[sc] + Total(cost', SettledIn(sc)')
      BY <1>1, <1>8, <2>1, Zenon
    <2>3. PICK R \in SUBSET Slots : R = RetainedIn(sc)'
      BY Zenon DEF RetainedIn, In
    <2>4. CASE sc \in ScopesOf[e]
      <3>1. \A x \in Slots : x \in S => x \in In(sc)
        BY <1>4, <2>4, Zenon DEF In
      <3>2. RetainedIn(sc) = R \cup S /\ R \cap S = {}
        BY <1>4, <2>3, <3>1, Zenon DEF RetainedIn, In, Retained
      <3>3. Total(Bound, R \cup S) = Total(Bound, R) + amount
        <4>1. \A x \in Slots : Bound[x] \in Int BY ConfiguredAmounts, Zenon
        <4>2. IsFiniteSet(R \cup S) BY <1>3, BoundsAreNatural, Zenon
        <4>3. QED BY <1>3, <3>2, <4>1, <4>2, TotalSplit, Zenon
      <3>4. Total(Bound, R) \in Int /\ OpeningHeld[sc] \in Int /\ amount \in Int
        BY <1>3, BoundsAreNatural, ConfiguredAmounts, NaturalIsInteger, Zenon
      <3>5. (OpeningHeld[sc] + (Total(Bound, R) + amount)) - amount
              = OpeningHeld[sc] + Total(Bound, R)
        BY <3>4, QuitsSum, Zenon
      <3>6. held'[sc] = held[sc] - amount BY <1>6, <2>4, Zenon
      <3>7. QED BY <2>1, <2>2, <2>3, <3>2, <3>3, <3>5, <3>6, Zenon
    <2>5. CASE sc \notin ScopesOf[e]
      <3>1. \A x \in In(sc) : x \in Slots /\ x \notin S
        BY <1>4, <2>5, Zenon DEF In
      <3>2. RetainedIn(sc)' = RetainedIn(sc)
        BY <1>4, <3>1, Zenon DEF RetainedIn, In
      <3>3. QED BY <1>6, <2>1, <2>2, <2>5, <3>2, Zenon
    <2>6. QED BY <2>4, <2>5, Zenon
  <1>10. QED BY <1>7, <1>8, <1>9, Zenon DEF StoreInv

\* settle: a known cost moves the slot from what is retained to what is
\* settled, in every budget that applies; an unknown one moves nothing.
LEMMA SettleStore ==
  ASSUME StoreInv, NEW x \in Slots, NEW c \in Costs \cup {Unknown}, Settle(x, c), IInv'
  PROVE  StoreInv'
  <1> DEFINE e == ExecutionOf[x]
  <1>1. slot[x] = "may_have_executed" /\ day' = day /\ e \in Executions
    BY SpendAssumption, Zenon DEF Settle, Unsettled
  <1>2. settled \in [Scopes -> Int] /\ held \in [Scopes -> Int] /\ Bound[x] \in Nat
    BY ConfiguredAmounts, Zenon DEF StoreInv, StoreTypes
  <1>3. CASE failed' = TRUE /\ UNCHANGED <<slot, cost, held, settled, suspended>>
    <2>1. StoreTypes' BY <1>1, <1>3, Zenon DEF StoreInv, StoreTypes, Exposure
    <2>2. SettledHaveCosts' /\ SuspensionIsEvidence' BY <1>3, NothingSettles, Zenon
    <2>3. Conservation' BY <1>3, NothingMoves, Zenon
    <2>4. QED BY <2>1, <2>2, <2>3, Zenon DEF StoreInv
  <1>4. CASE c = Unknown /\ Fits(SettledHeld(x, c), SettledSettled(x, c))
    <2>1. /\ slot' = [slot EXCEPT ![x] = "unknown"] /\ cost' = [cost EXCEPT ![x] = Unknown]
          /\ held' = held /\ settled' = Changed(settled, e, 0)
          /\ UNCHANGED <<suspended, failed>>
      BY <1>4, Zenon DEF Settle, SettledHeld, SettledSettled
    <2>2. settled' = settled
      BY <1>2, <2>1, ChangedByNothing, Zenon
    <2>3. slot \in [Slots -> {"none", "reserved", "may_have_executed", "settled", "unknown",
                              "closed_unused"}]
          /\ cost \in [Slots -> Costs \cup {Unknown}]
      BY Zenon DEF StoreInv, IInv, JournalTypes
    <2>4. StoreTypes' BY <1>1, <2>1, <2>2, Zenon DEF StoreInv, StoreTypes, Exposure
    <2>5. \A y \in Slots : slot'[y] = "settled" <=> slot[y] = "settled"
      BY <1>1, <2>1, <2>3, Zenon
    <2>6. \A y \in Slots : slot'[y] \in Retained <=> slot[y] \in Retained
      BY <1>1, <2>1, <2>3, Zenon DEF Retained
    <2>7. \A y \in Slots : slot[y] = "settled" => cost'[y] = cost[y]
      BY <1>1, <2>1, <2>3, Zenon
    <2>8. SettledHaveCosts'
      BY <2>5, <2>7, Zenon DEF StoreInv, SettledHaveCosts
    <2>9. {y \in Slots : slot'[y] = "settled" /\ cost'[y] > Bound[y]}
            = {y \in Slots : slot[y] = "settled" /\ cost[y] > Bound[y]}
      BY <2>5, <2>7, Zenon
    <2>10. SuspensionIsEvidence'
      BY <2>1, <2>9, Zenon DEF StoreInv, SuspensionIsEvidence
    <2>11. Conservation'
      <3> SUFFICES ASSUME NEW sc \in Scopes
                   PROVE  /\ settled'[sc] = OpeningSettled[sc] + Total(cost', SettledIn(sc)')
                          /\ held'[sc] = OpeningHeld[sc] + Total(Bound, RetainedIn(sc)')
        BY Zenon DEF Conservation, SettledIn, RetainedIn
      <3>1. SettledIn(sc)' = SettledIn(sc) /\ RetainedIn(sc)' = RetainedIn(sc)
        BY <2>5, <2>6, Zenon DEF SettledIn, RetainedIn, In
      <3>2. PICK S \in SUBSET Slots : S = SettledIn(sc)
        BY Zenon DEF SettledIn, In
      <3>3. PICK f : f = cost
        BY Zenon
      <3>4. PICK g : g = cost'
        BY Zenon
      <3>5. Total(f, S) = Total(g, S)
        <4>1. IsFiniteSet(S) BY BoundsAreNatural, Zenon
        <4>2. \A y \in S : f[y] = g[y] BY <2>7, <3>2, <3>3, <3>4 DEF SettledIn
        <4>3. QED BY <4>1, <4>2, TotalSame, Zenon
      <3>6. QED BY <2>1, <2>2, <3>1, <3>2, <3>3, <3>4, <3>5, Zenon
                DEF StoreInv, Conservation, SettledIn, RetainedIn
    <2>12. QED BY <2>4, <2>8, <2>10, <2>11, Zenon DEF StoreInv
  <1>5. CASE c # Unknown /\ Fits(SettledHeld(x, c), SettledSettled(x, c))
    <2>1. /\ slot' = [slot EXCEPT ![x] = "settled"] /\ cost' = [cost EXCEPT ![x] = c]
          /\ held' = Changed(held, e, - Bound[x]) /\ settled' = Changed(settled, e, c)
          /\ suspended' = IF c > Bound[x] THEN suspended \cup {DeploymentOf[x]} ELSE suspended
          /\ failed' = failed /\ \A sc \in Scopes : held'[sc] + settled'[sc] <= MaxMicros
      BY <1>5, Zenon DEF Settle, SettledHeld, SettledSettled, Fits
    <2>2. c \in Costs /\ c \in Nat
      <3>1. c \in Costs BY <1>5, Zenon
      <3>2. QED BY <3>1, CostIsNatural, Zenon
    <2>3. slot \in [Slots -> {"none", "reserved", "may_have_executed", "settled", "unknown",
                              "closed_unused"}]
          /\ cost \in [Slots -> Costs \cup {Unknown}]
      BY Zenon DEF StoreInv, IInv, JournalTypes
    <2>4. /\ held' \in [Scopes -> Int] /\ settled' \in [Scopes -> Int]
          /\ \A sc \in Scopes :
               /\ held'[sc] = IF sc \in ScopesOf[e] THEN held[sc] - Bound[x] ELSE held[sc]
               /\ settled'[sc] = IF sc \in ScopesOf[e] THEN settled[sc] + c ELSE settled[sc]
      BY <1>2, <2>1, <2>2, SettlementMoves, Zenon
    <2>5. StoreTypes'
      <3>1. suspended' \subseteq Deployments
        BY <2>1, SpendAssumption, Zenon DEF StoreInv, StoreTypes
      <3>2. \A sc \in Scopes : settled'[sc] + held'[sc] <= MaxMicros
        BY <2>1, <2>4
      <3>3. QED BY <1>1, <2>1, <2>4, <3>1, <3>2, Zenon DEF StoreInv, StoreTypes, Exposure
    <2>6. \A y \in Slots :
            /\ slot'[y] = "settled" <=> slot[y] = "settled" \/ y = x
            /\ slot'[y] \in Retained <=> slot[y] \in Retained /\ y # x
            /\ y # x => cost'[y] = cost[y] /\ slot'[y] = slot[y]
            /\ y = x => cost'[y] = c
      BY <1>1, <2>1, <2>3, Zenon DEF Retained
    <2>7. SettledHaveCosts'
      BY <2>2, <2>6, Zenon DEF StoreInv, SettledHaveCosts
    <2>8. SuspensionIsEvidence'
      <3> DEFINE Over == {y \in Slots : slot[y] = "settled" /\ cost[y] > Bound[y]}
      <3>1. {y \in Slots : slot'[y] = "settled" /\ cost'[y] > Bound[y]}
              = IF c > Bound[x] THEN Over \cup {x} ELSE Over
        BY <1>1, <2>6, Zenon
      <3>2. suspended = {DeploymentOf[y] : y \in Over}
        BY Zenon DEF StoreInv, SuspensionIsEvidence
      <3> HIDE DEF Over
      <3>3. {DeploymentOf[y] : y \in Over \cup {x}} = {DeploymentOf[y] : y \in Over} \cup {DeploymentOf[x]}
        BY Zenon
      <3>4. QED BY <2>1, <3>1, <3>2, <3>3, Zenon DEF SuspensionIsEvidence
    <2>9. Conservation'
      <3> SUFFICES ASSUME NEW sc \in Scopes
                   PROVE  /\ settled'[sc] = OpeningSettled[sc] + Total(cost', SettledIn(sc)')
                          /\ held'[sc] = OpeningHeld[sc] + Total(Bound, RetainedIn(sc)')
        BY Zenon DEF Conservation, SettledIn, RetainedIn
      <3>1. /\ settled[sc] = OpeningSettled[sc] + Total(cost, SettledIn(sc))
            /\ held[sc] = OpeningHeld[sc] + Total(Bound, RetainedIn(sc))
        BY Zenon DEF StoreInv, Conservation, SettledIn, RetainedIn
      <3>2. PICK S \in SUBSET Slots : S = SettledIn(sc)
        BY Zenon DEF SettledIn, In
      <3>3. PICK R \in SUBSET Slots : R = RetainedIn(sc)
        BY Zenon DEF RetainedIn, In
      <3>4. PICK f : f = cost
        BY Zenon
      <3>5. PICK g : g = cost'
        BY Zenon
      <3>6. /\ x \notin S /\ IsFiniteSet(S) /\ IsFiniteSet(R)
            /\ \A y \in S : f[y] \in Costs /\ f[y] = g[y]
            /\ g[x] = c
        <4>1. x \notin S BY <1>1, <3>2, Zenon DEF SettledIn
        <4>2. IsFiniteSet(S) /\ IsFiniteSet(R) BY BoundsAreNatural, Zenon
        <4>3. \A y \in S : f[y] \in Costs
          BY <3>2, <3>4, Zenon DEF StoreInv, SettledHaveCosts, SettledIn
        <4>4. \A y \in S : f[y] = g[y] BY <2>6, <3>4, <3>5, <4>1, Zenon
        <4>5. QED BY <2>6, <3>5, <4>1, <4>2, <4>3, <4>4, Zenon
      <3>7. CASE sc \in ScopesOf[e]
        <4>1. x \in In(sc) BY <3>7, Zenon DEF In
        <4>2. SettledIn(sc)' = S \cup {x} /\ RetainedIn(sc)' = R \ {x} /\ x \in R
          BY <1>1, <2>6, <3>2, <3>3, <4>1, Zenon DEF SettledIn, RetainedIn, In, Retained
        <4>3. Total(Bound, R) = Bound[x] + Total(Bound, R \ {x})
          <5>1. \A y \in R : Bound[y] \in Int BY ConfiguredAmounts, Zenon
          <5>2. QED BY <3>6, <4>2, <5>1, TotalRemove, Zenon
        <4>4. Total(g, S \cup {x}) = c + Total(f, S)
          <5>1. \A y \in S \cup {x} : g[y] \in Costs
            BY <2>2, <3>6, Zenon
          <5>2. \A y \in S \cup {x} : g[y] \in Int
            BY <5>1, CostIsNatural, NaturalIsInteger, Zenon
          <5>3. IsFiniteSet(S \cup {x}) /\ (S \cup {x}) \ {x} = S
            BY <3>6, FiniteWith, Zenon
          <5>4. Total(g, S \cup {x}) = g[x] + Total(g, (S \cup {x}) \ {x})
            BY <5>2, <5>3, TotalRemove, Zenon
          <5>5. Total(f, S) = Total(g, S)
            BY <3>6, TotalSame, Zenon
          <5>6. QED BY <3>6, <5>3, <5>4, <5>5, Zenon
        <4>5. /\ Total(Bound, R \ {x}) \in Int /\ Total(f, S) \in Int
              /\ OpeningHeld[sc] \in Int /\ OpeningSettled[sc] \in Int
              /\ Bound[x] \in Int /\ c \in Int
          <5>1. R \ {x} \in SUBSET Slots BY Zenon
          <5>2. QED BY <2>2, <3>6, <5>1, BoundsAreNatural, CostsAreNatural, ConfiguredAmounts,
                       NaturalIsInteger, Zenon
        <4>6. settled'[sc] = OpeningSettled[sc] + (c + Total(f, S))
          <5>1. settled'[sc] = settled[sc] + c BY <2>4, <3>7, Zenon
          <5>2. settled[sc] = OpeningSettled[sc] + Total(f, S) BY <3>1, <3>2, <3>4, Zenon
          <5>3. OpeningSettled[sc] \in Int /\ Total(f, S) \in Int /\ c \in Int BY <4>5, Zenon
          <5>4. (OpeningSettled[sc] + Total(f, S)) + c = OpeningSettled[sc] + (c + Total(f, S))
            BY <5>3, EntersSum, Zenon
          <5>5. QED BY <5>1, <5>2, <5>4, Zenon
        <4>7. held'[sc] = OpeningHeld[sc] + Total(Bound, R \ {x})
          <5>1. held'[sc] = held[sc] - Bound[x] BY <2>4, <3>7, Zenon
          <5>2. held[sc] = OpeningHeld[sc] + (Bound[x] + Total(Bound, R \ {x}))
            BY <3>1, <3>3, <4>3, Zenon
          <5>3. OpeningHeld[sc] \in Int /\ Total(Bound, R \ {x}) \in Int /\ Bound[x] \in Int
            BY <4>5, Zenon
          <5>4. (OpeningHeld[sc] + (Bound[x] + Total(Bound, R \ {x}))) - Bound[x]
                  = OpeningHeld[sc] + Total(Bound, R \ {x})
            BY <5>3, LeavesSum, Zenon
          <5>5. QED BY <5>1, <5>2, <5>4, Zenon
        <4>8. QED BY <3>5, <4>2, <4>4, <4>6, <4>7, Zenon
      <3>8. CASE sc \notin ScopesOf[e]
        <4>1. x \notin In(sc) BY <3>8, Zenon DEF In
        <4>2. SettledIn(sc)' = S /\ RetainedIn(sc)' = R
          BY <2>6, <3>2, <3>3, <4>1, Zenon DEF SettledIn, RetainedIn, In
        <4>3. Total(f, S) = Total(g, S)
          BY <3>6, TotalSame, Zenon
        <4>4. QED BY <2>4, <3>1, <3>2, <3>3, <3>4, <3>5, <3>8, <4>2, <4>3, Zenon
      <3>9. QED BY <3>7, <3>8, Zenon
    <2>10. QED BY <2>5, <2>7, <2>8, <2>9, Zenon DEF StoreInv
  <1>6. QED BY <1>3, <1>4, <1>5, Zenon DEF Settle

\* Every step of the store keeps its image valid.
LEMMA NextStore == StoreInv /\ [Next]_vars => StoreInv'
  <1> SUFFICES ASSUME StoreInv, [Next]_vars PROVE StoreInv'
    BY Zenon
  <1>1. IInv' BY NextIInv, Zenon DEF StoreInv
  <1>2. ASSUME NEW e \in Executions, Reserve(e) PROVE StoreInv' BY <1>1, <1>2, ReserveStore, Zenon
  <1>3. ASSUME NEW e \in Executions, Close(e) PROVE StoreInv' BY <1>1, <1>3, CloseStore, Zenon
  <1>4. ASSUME NEW x \in Slots, NEW c \in Costs \cup {Unknown}, Settle(x, c) PROVE StoreInv'
    BY <1>1, <1>4, SettleStore, Zenon
  <1>5. ASSUME NEW x \in Slots, Dispatch(x) PROVE StoreInv'
    <2>1. /\ slot[x] = "reserved" /\ slot' = [slot EXCEPT ![x] = "may_have_executed"]
          /\ UNCHANGED <<settled, held, cost, suspended, failed, day>>
      BY <1>5, Zenon DEF Dispatch
    <2>2. \A y \in Slots : /\ slot'[y] = "settled" <=> slot[y] = "settled"
                           /\ slot'[y] \in Retained <=> slot[y] \in Retained
      BY <2>1, Zenon DEF StoreInv, IInv, JournalTypes, Retained
    <2>3. SettledHaveCosts' /\ SuspensionIsEvidence' BY <2>1, <2>2, NothingSettles, Zenon
    <2>4. Conservation' BY <2>1, <2>2, NothingMoves, Zenon
    <2>5. StoreTypes' BY <2>1, Zenon DEF StoreInv, StoreTypes, Exposure
    <2>6. QED BY <1>1, <2>3, <2>4, <2>5, Zenon DEF StoreInv
  <1>6. CASE Tick \/ Midnight \/ UNCHANGED vars
    <2>1. UNCHANGED <<settled, held, slot, cost, suspended, failed>>
      BY <1>6, Zenon DEF Tick, Midnight, vars
    <2>2. SettledHaveCosts' /\ SuspensionIsEvidence' BY <2>1, NothingSettles, Zenon
    <2>3. Conservation' BY <2>1, NothingMoves, Zenon
    <2>4. day' \in 0..LastDay
      BY <1>6, SpendAssumption DEF Tick, Midnight, vars, StoreInv, StoreTypes
    <2>5. StoreTypes' BY <2>1, <2>4, Zenon DEF StoreInv, StoreTypes, Exposure
    <2>6. QED BY <1>1, <2>2, <2>3, <2>5, Zenon DEF StoreInv
  <1>7. QED BY <1>2, <1>3, <1>4, <1>5, <1>6, Zenon DEF Next

\* The store never publishes an image its own validation would refuse: amounts
\* are representable and conserved, journals and suspensions are coherent.
THEOREM ImagesAreValid == Spec => []ImageIsValid
  BY InitStore, NextStore, StoreImage, PTL DEF Spec

-----------------------------------------------------------------------------
(***************************************************************************)
(* Metered settlement.  A report stays the report of its own dispatch, so  *)
(* what settles a slot is the price of its usage under the evidence its    *)
(* bound was made from; with the cost bounds above, a settlement raises    *)
(* exposure only by its excess.                                            *)
(***************************************************************************)
cvars == <<vars, metering, lvars, accounting>>

ReportTypes ==
  /\ report \in [Slots -> Usages \cup {Incomplete, NoReport}]
  /\ \A x \in Slots :
       report[x] \in Usages => /\ Complete(EvidenceOf[x], report[x])
                               /\ EstimatedMicros(EvidenceOf[x], report[x]) <= MaxMicros

MeterInv == StoreInv /\ ReportTypes /\ CeilingHolds

ExcessOf == [x \in Slots |-> Excess(x)]

\* Evidence is identified by its id, so a report is finalized under the
\* evidence its slot was allocated from, and its price is a cost.
LEMMA FinalCost ==
  ASSUME ReportTypes, NEW b \in Evidences, NEW x \in Slots, NEW r \in Slots,
         Finalized(b, x, r) # Refused
  PROVE  /\ r = x /\ b = EvidenceOf[x] /\ Finalized(b, x, r) = report[x]
         /\ report[x] \in Usages \cup {Incomplete}
         /\ report[x] # Incomplete =>
              report[x] \in Usages /\ EstimatedMicros(b, report[x]) \in Costs
  <1>1. /\ r = x /\ Correlated(b, x) /\ Finalized(b, x, r) = report[x] /\ report[x] # NoReport
    BY Zenon DEF Finalized
  <1>2. b = EvidenceOf[x]
    <2>1. b.id = EvidenceOf[x].id /\ EvidenceOf[x] \in Evidences
      BY <1>1, EvidenceAssumption, Zenon DEF Correlated
    <2>2. QED BY <2>1, EvidenceAssumption, Zenon
  <1>3. report[x] \in Usages \cup {Incomplete}
    BY <1>1, Zenon DEF ReportTypes
  <1>4. ASSUME report[x] \in Usages PROVE EstimatedMicros(b, report[x]) \in Costs
    <2>1. Complete(b, report[x]) /\ EstimatedMicros(b, report[x]) <= MaxMicros
      BY <1>2, <1>4, Zenon DEF ReportTypes
    <2>2. PICK u \in Usages : u = report[x]
      BY <1>4, Zenon
    <2>3. EstimatedMicros(b, u) \in Costs
      BY <2>1, <2>2, EvidenceAssumption, Zenon
    <2>4. QED BY <2>2, <2>3, Zenon
  <1>5. QED BY <1>1, <1>2, <1>3, <1>4, Zenon

\* A metered step is a step of the reservation store, or leaves it alone.
LEMMA MeteredStep == ReportTypes /\ [ControlNext]_cvars => [Next]_vars
  <1> SUFFICES ASSUME ReportTypes, ControlNext PROVE [Next]_vars
    BY Zenon DEF cvars
  <1>1. CASE UNCHANGED vars
    BY <1>1, Zenon
  <1>2. CASE MeteredNext
    <2>1. ASSUME NEW e \in Executions, Quote(e) \/ MeteredReserve(e) \/ Close(e)
          PROVE  [Next]_vars
      BY <2>1, Zenon DEF Quote, MeteredReserve, Next, vars
    <2>2. ASSUME NEW k \in Keys, NEW m \in Schedules, Reprice(k, m) PROVE [Next]_vars
      BY <2>2, Zenon DEF Reprice
    <2>3. ASSUME NEW x \in Slots, NEW u \in Usages \cup {Incomplete}, Register(x, u)
          PROVE  [Next]_vars
      BY <2>3, Zenon DEF Register
    <2>4. ASSUME NEW x \in Slots, Dispatch(x) \/ SettleUnknown(x) PROVE [Next]_vars
      BY <2>4, Zenon DEF SettleUnknown, Next
    <2>5. ASSUME NEW x \in Slots, NEW b \in Evidences, NEW r \in Slots, SettleFinal(b, x, r)
          PROVE  [Next]_vars
      <3>1. Finalized(b, x, r) # Refused
        BY <2>5, Zenon DEF SettleFinal
      <3>2. PICK c \in Costs \cup {Unknown} :
              c = IF Finalized(b, x, r) = Incomplete THEN Unknown
                  ELSE EstimatedMicros(b, Finalized(b, x, r))
        BY <3>1, FinalCost
      <3>3. Settle(x, c)
        BY <2>5, <3>2, Zenon DEF SettleFinal
      <3>4. QED BY <3>3, Zenon DEF Next
    <2>6. CASE Tick \/ Midnight
      BY <2>6, Zenon DEF Next
    <2>7. QED BY <1>2, <2>1, <2>2, <2>3, <2>4, <2>5, <2>6, Zenon DEF MeteredNext
  <1>3. QED BY <1>1, <1>2, Zenon DEF ControlNext

\* A report is registered once, complete and representable.
LEMMA ReportStep == ReportTypes /\ [ControlNext]_cvars =>
                      /\ ReportTypes'
                      /\ \A x \in Slots : report[x] # NoReport => report'[x] = report[x]
  <1> SUFFICES ASSUME ReportTypes, [ControlNext]_cvars
               PROVE  /\ ReportTypes'
                      /\ \A x \in Slots : report[x] # NoReport => report'[x] = report[x]
    BY Zenon
  <1>1. CASE UNCHANGED report
    BY <1>1, Zenon DEF ReportTypes
  <1>2. ASSUME NEW x \in Slots, NEW u \in Usages \cup {Incomplete}, Register(x, u)
        PROVE  /\ ReportTypes'
               /\ \A y \in Slots : report[y] # NoReport => report'[y] = report[y]
    <2>1. /\ report[x] = NoReport /\ report' = [report EXCEPT ![x] = u]
          /\ u \in Usages => /\ Complete(EvidenceOf[x], u)
                             /\ EstimatedMicros(EvidenceOf[x], u) <= MaxMicros
      BY <1>2, EvidenceAssumption, Zenon DEF Register
    <2>2. QED BY <2>1, Zenon DEF ReportTypes
  <1>3. QED
    BY <1>1, <1>2, Zenon DEF ControlNext, MeteredNext, Quote, MeteredReserve, Reprice, SettleUnknown,
                      SettleFinal, cvars, metering

\* The reservation store of a deployment behaves as SpendAdmission says, however
\* its bounds are quoted, its prices change and its usage is reported.
THEOREM StoreIsImplemented == ControlSpec => Spec
  <1>1. ControlInit => Init /\ ReportTypes
    BY EvidenceAssumption, Zenon DEF ControlInit, MeteredInit, ReportTypes
  <1>2. QED
    BY <1>1, ReportStep, MeteredStep, PTL DEF ControlSpec, Spec, cvars

\* And its ledger as SpendLedger says.
THEOREM LedgerIsImplemented == ControlSpec => LedgerSpec
  <1>1. ControlInit => LedgerInit
    BY Zenon DEF ControlInit
  <1>2. [ControlNext]_cvars => [LedgerNext]_lvars
    BY Zenon DEF ControlNext, cvars
  <1>3. QED
    BY <1>1, <1>2, PTL DEF ControlSpec, LedgerSpec, cvars

\* So everything proved of the store holds where it is used.
THEOREM DeployedImagesAreValid == ControlSpec => []ImageIsValid
  BY StoreIsImplemented, ImagesAreValid, PTL

\* Excess is a natural number, so the sum of any slots' excess is one.
LEMMA ExcessIsNatural ==
  StoreInv => \A S \in SUBSET Slots :
                /\ IsFiniteSet(S) /\ Total(ExcessOf, S) \in Nat
                /\ \A x \in S : ExcessOf[x] \in Nat
  <1> SUFFICES ASSUME StoreInv, NEW S \in SUBSET Slots
               PROVE  /\ IsFiniteSet(S) /\ Total(ExcessOf, S) \in Nat
                      /\ \A x \in S : ExcessOf[x] \in Nat
    BY Zenon
  <1>1. ASSUME NEW x \in Slots PROVE Excess(x) \in Nat
    <2>1. CASE slot[x] = "settled"
      <3>1. cost[x] \in Costs BY <2>1, Zenon DEF StoreInv, SettledHaveCosts
      <3>2. cost[x] \in Nat BY <3>1, CostIsNatural, Zenon
      <3>3. Bound[x] \in Nat BY ConfiguredAmounts, Zenon
      <3>4. MaxOf(0, cost[x] - Bound[x]) \in Nat BY <3>2, <3>3, ExceedsBound, Zenon
      <3>5. QED BY <3>4, NaturalIsInteger, Zenon DEF Excess
    <2>2. QED BY <2>1, Zenon DEF Excess
  <1>2. PICK f : f = ExcessOf
    BY Zenon
  <1>3. \A x \in S : f[x] \in Nat BY <1>1, <1>2, Zenon DEF ExcessOf
  <1>4. IsFiniteSet(S) BY BoundsAreNatural, Zenon
  <1>5. Total(f, S) \in Nat BY <1>3, <1>4, TotalIsNatural, Zenon
  <1>6. QED BY <1>2, <1>3, <1>4, <1>5, Zenon

\* A step after which settled slots, their costs and their reports are the same
\* has the same excess.
LEMMA SameExcess ==
  ASSUME \A x \in Slots : slot'[x] = "settled" <=> slot[x] = "settled",
         \A x \in Slots : slot[x] = "settled" => cost'[x] = cost[x] /\ report'[x] = report[x]
  PROVE  ExcessOf' = ExcessOf
  <1>1. \A x \in Slots : Excess(x)' = Excess(x)
    BY Zenon DEF Excess
  <1>2. QED BY <1>1, Zenon DEF ExcessOf

\* The settled slots of a valid state keep their reports.
LEMMA ReportsOfSettled ==
  ASSUME MeterInv, \A x \in Slots : report[x] # NoReport => report'[x] = report[x]
  PROVE  \A x \in Slots : slot[x] = "settled" => report[x] \in Usages /\ report'[x] = report[x]
  BY EvidenceAssumption, Zenon DEF MeterInv, CeilingHolds

\* A step that settles no slot and raises no exposure keeps the ceilings.
LEMMA QuietCeiling ==
  ASSUME MeterInv, \A x \in Slots : report[x] # NoReport => report'[x] = report[x],
         \A x \in Slots : slot'[x] = "settled" <=> slot[x] = "settled",
         \A x \in Slots : slot[x] = "settled" => cost'[x] = cost[x],
         \A sc \in Scopes : /\ Exposure(sc)' \in Int
                            /\ \/ Exposure(sc)' <= Exposure(sc)
                               \/ Exposure(sc)' <= Ceiling[sc]
  PROVE  CeilingHolds'
  <1>1. \A x \in Slots : slot[x] = "settled" => report[x] \in Usages /\ report'[x] = report[x]
    BY ReportsOfSettled, Zenon
  <1>2. ExcessOf' = ExcessOf
    BY <1>1, SameExcess, Zenon
  <1>3. \A x \in Slots :
          slot'[x] = "settled" =>
            report'[x] \in Usages /\ cost'[x] = EstimatedMicros(EvidenceOf[x], report'[x])
    BY <1>1, Zenon DEF MeterInv, CeilingHolds
  <1>4. ASSUME NEW sc \in Scopes
        PROVE  Exposure(sc)' <= Admissible(sc) + Total(ExcessOf, In(sc))
    <2>1. Exposure(sc) <= Admissible(sc) + Total(ExcessOf, In(sc))
      BY Zenon DEF MeterInv, CeilingHolds, Admissible, ExcessOf
    <2>2. In(sc) \in SUBSET Slots BY Zenon DEF In
    <2>3. Total(ExcessOf, In(sc)) \in Nat BY <2>2, ExcessIsNatural, Zenon DEF MeterInv
    <2>4. Admissible(sc) \in Nat /\ Ceiling[sc] <= Admissible(sc) /\ Ceiling[sc] \in Nat
      BY AdmissibleIsNatural, Zenon
    <2>5. Exposure(sc) \in Int
      BY ExposureIsInteger, Zenon DEF MeterInv, StoreInv, StoreTypes, Exposure
    <2>6. QED BY <2>1, <2>3, <2>4, <2>5, StaysWithin, NaturalIsInteger, Zenon
  <1>5. QED BY <1>2, <1>3, <1>4, Zenon DEF CeilingHolds, Admissible, ExcessOf, In

\* Settling with the price of the reported usage raises exposure by no more
\* than the excess it adds.
LEMMA SettledCeiling ==
  ASSUME MeterInv, StoreInv', NEW x \in Slots, NEW c \in Costs \cup {Unknown}, Settle(x, c),
         UNCHANGED report,
         c = Unknown \/ (report[x] \in Usages /\ c = EstimatedMicros(EvidenceOf[x], report[x]))
  PROVE  CeilingHolds'
  <1>1. /\ slot[x] = "may_have_executed"
        /\ \A y \in Slots \ {x} : slot'[y] = slot[y] /\ cost'[y] = cost[y]
    BY SettleEffect, Zenon DEF MeterInv
  <1>2. \A sc \in Scopes : Exposure(sc) \in Int /\ Exposure(sc)' \in Int
    BY ExposureIsInteger, Zenon DEF MeterInv, StoreInv, StoreTypes, Exposure
  <1>3. CASE slot'[x] # "settled" /\ settled' = settled /\ held' = held
    <2>1. \A sc \in Scopes : Exposure(sc)' <= Exposure(sc)
      BY <1>2, <1>3, AtMostItself, Zenon DEF Exposure
    <2>2. /\ \A y \in Slots : slot'[y] = "settled" <=> slot[y] = "settled"
          /\ \A y \in Slots : slot[y] = "settled" => cost'[y] = cost[y]
      BY <1>1, <1>3, Zenon
    <2>3. QED BY <1>2, <2>1, <2>2, QuietCeiling, Zenon
  <1>4. CASE /\ c \in Costs /\ slot'[x] = "settled" /\ cost'[x] = c
             /\ \A sc \in Scopes :
                  Exposure(sc)' = IF x \in In(sc) THEN Exposure(sc) + c - Bound[x]
                                  ELSE Exposure(sc)
    <2>1. report[x] \in Usages /\ c = EstimatedMicros(EvidenceOf[x], report[x])
      BY <1>4, SpendAssumption, Zenon
    <2>2. c \in Nat /\ Bound[x] \in Nat
      BY <1>4, CostIsNatural, ConfiguredAmounts, Zenon
    <2>3. \A y \in Slots :
            slot'[y] = "settled" =>
              report'[y] \in Usages /\ cost'[y] = EstimatedMicros(EvidenceOf[y], report'[y])
      BY <1>1, <1>4, <2>1, Zenon DEF MeterInv, CeilingHolds
    <2>4. PICK f : f = ExcessOf
      BY Zenon
    <2>5. PICK g : g = ExcessOf'
      BY Zenon
    <2>6. \A y \in Slots \ {x} : f[y] = g[y]
      BY <1>1, <2>4, <2>5, Zenon DEF ExcessOf, Excess
    <2>7. f[x] = 0
      BY <1>1, <2>4, Zenon DEF ExcessOf, Excess
    <2>8. c - Bound[x] <= g[x] /\ g[x] \in Nat
      <3>1. g[x] = IF TokenBoundExceeded(EvidenceOf[x], report[x]) THEN MaxOf(0, c - Bound[x]) ELSE 0
        BY <1>4, <2>5, Zenon DEF ExcessOf, Excess
      <3>2. CASE TokenBoundExceeded(EvidenceOf[x], report[x])
        BY <2>2, <3>1, <3>2, ExceedsBound, Zenon
      <3>3. CASE ~TokenBoundExceeded(EvidenceOf[x], report[x])
        <4>1. PICK b \in Evidences : b = EvidenceOf[x]
          BY EvidenceAssumption, Zenon
        <4>2. PICK u \in Usage : u = report[x]
          BY <2>1, EvidenceAssumption, Zenon
        <4>3. /\ b.version \in {1, 2} /\ b.inputBound \in Nat /\ b.maxOutput \in Nat
              /\ b.version = 1 => b.model \in TextModel
              /\ b.version = 2 => b.model \in CacheModel
          BY EvidenceShape, Zenon
        <4>4. Complete(b, u) /\ ~TokenBoundExceeded(b, u)
          BY <2>1, <3>3, <4>1, <4>2, Zenon DEF MeterInv, ReportTypes
        <4>5. EstimatedMicros(b, u) <= BoundMicros(b)
          BY <4>3, <4>4, EvidenceBoundsCost, Zenon
        <4>6. c <= Bound[x]
          BY <2>1, <4>1, <4>2, <4>5, EvidenceAssumption, Zenon
        <4>7. QED BY <2>2, <3>1, <3>3, <4>6, ExceedsBound, NaturalIsInteger, Zenon
      <3>4. QED BY <3>2, <3>3, Zenon
    <2>9. ASSUME NEW sc \in Scopes
          PROVE  Exposure(sc)' <= Admissible(sc) + Total(g, In(sc))
      <3>1. Exposure(sc) <= Admissible(sc) + Total(f, In(sc))
        BY <2>4, Zenon DEF MeterInv, CeilingHolds, Admissible, ExcessOf
      <3>2. Admissible(sc) \in Nat
        BY AdmissibleIsNatural, Zenon
      <3>3. PICK S \in SUBSET Slots : S = In(sc)
        BY Zenon DEF In
      <3>4. /\ IsFiniteSet(S) /\ Total(f, S) \in Nat /\ \A y \in S : f[y] \in Int
        BY <2>4, ExcessIsNatural, NaturalIsInteger, Zenon DEF MeterInv
      <3>5. CASE x \in S
        <4>1. \A y \in S : g[y] \in Int
          BY <2>6, <2>8, <3>4, NaturalIsInteger, Zenon
        <4>2. /\ Total(f, S) = f[x] + Total(f, S \ {x})
              /\ Total(g, S) = g[x] + Total(g, S \ {x})
          BY <3>4, <3>5, <4>1, TotalRemove, Zenon
        <4>3. IsFiniteSet(S \ {x})
          BY <3>4, FinitePart, Zenon
        <4>4. Total(f, S \ {x}) = Total(g, S \ {x})
          BY <2>6, <4>3, TotalSame, Zenon
        <4>5. Total(f, S \ {x}) \in Int
          BY <3>4, <4>3, TotalType, Zenon
        <4>6. Exposure(sc)' = Exposure(sc) + c - Bound[x]
          BY <1>4, <3>3, <3>5, Zenon
        <4>7. /\ Exposure(sc) \in Int /\ Admissible(sc) \in Int /\ g[x] \in Int
              /\ c \in Int /\ Bound[x] \in Int
          BY <1>2, <2>2, <2>8, <3>2, NaturalIsInteger, Zenon
        <4>8. Exposure(sc) <= Admissible(sc) + (0 + Total(f, S \ {x}))
          BY <2>7, <3>1, <3>3, <4>2, Zenon
        <4>9. Exposure(sc) + c - Bound[x] <= Admissible(sc) + (g[x] + Total(f, S \ {x}))
          BY <2>8, <4>5, <4>7, <4>8, ExcessIsCounted, Zenon
        <4>10. QED BY <3>3, <4>2, <4>4, <4>6, <4>9, Zenon
      <3>6. CASE x \notin S
        <4>1. Total(f, S) = Total(g, S)
          BY <2>6, <3>4, <3>6, TotalSame, Zenon
        <4>2. QED BY <1>4, <3>1, <3>3, <3>6, <4>1, Zenon
      <3>7. QED BY <3>5, <3>6, Zenon
    <2>10. QED BY <2>3, <2>5, <2>9, Zenon DEF CeilingHolds, Admissible, ExcessOf, In
  <1>5. QED
    BY <1>3, <1>4, SettleEffect, Zenon DEF MeterInv

\* reserve never takes a budget past its ceiling, and close only lowers one.
LEMMA AdmittedExposure ==
  ASSUME StoreInv, NEW e \in Executions, Reserve(e) \/ Close(e), NEW sc \in Scopes
  PROVE  Exposure(sc)' <= Exposure(sc) \/ Exposure(sc)' <= Ceiling[sc]
  <1>1. settled \in [Scopes -> Int] /\ held \in [Scopes -> Int]
    BY Zenon DEF StoreInv, StoreTypes
  <1>2. settled' = settled BY Zenon DEF Reserve, Close
  <1>3. settled[sc] \in Int /\ held[sc] \in Int /\ Exposure(sc) \in Int
    BY <1>1, ExposureIsInteger, Zenon DEF Exposure
  <1>4. ASSUME Close(e) PROVE Exposure(sc)' <= Exposure(sc)
    <2>1. PICK S \in SUBSET Slots : S = {x \in SlotsOf(e) : slot[x] = "reserved"}
      BY Zenon DEF SlotsOf
    <2>2. PICK amount \in Nat : amount = Total(Bound, S)
      BY BoundsAreNatural, Zenon
    <2>3. held' = Changed(held, e, - amount)
      BY <1>4, <2>1, <2>2, Zenon DEF Close
    <2>4. held'[sc] = IF sc \in ScopesOf[e] THEN held[sc] + (- amount) ELSE held[sc]
      BY <2>3, Zenon DEF Changed
    <2>5. /\ settled[sc] + (held[sc] + (- amount)) <= settled[sc] + held[sc]
          /\ settled[sc] + held[sc] <= settled[sc] + held[sc]
      BY <1>3, Lowered, AtMostItself, Zenon DEF Exposure
    <2>6. QED BY <1>2, <2>4, <2>5, Zenon DEF Exposure
  <1>5. ASSUME Reserve(e), held' # held
        PROVE  Exposure(sc)' <= Exposure(sc) \/ Exposure(sc)' <= Ceiling[sc]
    <2>1. SlotsOf(e) \in SUBSET Slots BY Zenon DEF SlotsOf
    <2>2. PICK amount \in Nat : amount = Total(Bound, SlotsOf(e))
      BY <2>1, BoundsAreNatural, Zenon
    <2>3. /\ \A s \in ScopesOf[e] : PermitsAllocation(s, amount)
          /\ held' = Changed(held, e, amount)
      BY <1>5, <2>2, Zenon DEF Reserve
    <2>4. CASE sc \in ScopesOf[e]
      <3>1. settled[sc] + held[sc] + amount <= Ceiling[sc]
        BY <2>3, <2>4, Zenon DEF PermitsAllocation, Exposure
      <3>2. held'[sc] = held[sc] + amount
        BY <2>3, <2>4, Zenon DEF Changed
      <3>3. settled[sc] + (held[sc] + amount) = settled[sc] + held[sc] + amount
        BY <1>3, Regrouped, NaturalIsInteger, Zenon
      <3>4. QED BY <1>2, <3>1, <3>2, <3>3, Zenon DEF Exposure
    <2>5. CASE sc \notin ScopesOf[e]
      <3>1. held'[sc] = held[sc] BY <2>3, <2>5, Zenon DEF Changed
      <3>2. QED BY <1>2, <1>3, <3>1, AtMostItself, Zenon DEF Exposure
    <2>6. QED BY <2>4, <2>5, Zenon
  <1>6. CASE held' = held BY <1>2, <1>3, <1>6, AtMostItself, Zenon DEF Exposure
  <1>7. QED BY <1>4, <1>5, <1>6, Zenon

\* Every step keeps the ceilings.
LEMMA NextMeter == MeterInv /\ [ControlNext]_cvars => MeterInv'
  <1> SUFFICES ASSUME MeterInv, [ControlNext]_cvars PROVE MeterInv'
    BY Zenon
  <1>1. /\ ReportTypes' /\ [Next]_vars
        /\ \A x \in Slots : report[x] # NoReport => report'[x] = report[x]
    BY ReportStep, MeteredStep, Zenon DEF MeterInv
  <1>2. StoreInv' BY <1>1, NextStore, Zenon DEF MeterInv
  <1>3. \A sc \in Scopes : Exposure(sc) \in Int /\ Exposure(sc)' \in Int
    BY <1>2, ExposureIsInteger, Zenon DEF MeterInv, StoreInv, StoreTypes, Exposure
  <1>4. slot \in [Slots -> {"none", "reserved", "may_have_executed", "settled", "unknown",
                            "closed_unused"}]
    BY Zenon DEF MeterInv, StoreInv, IInv, JournalTypes
  <1>5. CASE UNCHANGED <<slot, cost, settled, held>>
    <2>1. \A sc \in Scopes : Exposure(sc)' <= Exposure(sc)
      BY <1>3, <1>5, AtMostItself, Zenon DEF Exposure
    <2>2. CeilingHolds' BY <1>1, <1>3, <1>5, <2>1, QuietCeiling, Zenon
    <2>3. QED BY <1>1, <1>2, <2>2, Zenon DEF MeterInv
  <1>6. ASSUME NEW x \in Slots, Dispatch(x) PROVE MeterInv'
    <2>1. /\ slot[x] = "reserved" /\ slot' = [slot EXCEPT ![x] = "may_have_executed"]
          /\ UNCHANGED <<settled, held, cost>>
      BY <1>6, Zenon DEF Dispatch
    <2>2. \A y \in Slots : slot'[y] = "settled" <=> slot[y] = "settled" BY <1>4, <2>1, Zenon
    <2>3. \A sc \in Scopes : Exposure(sc)' <= Exposure(sc)
      BY <1>3, <2>1, AtMostItself, Zenon DEF Exposure
    <2>4. CeilingHolds' BY <1>1, <1>3, <2>1, <2>2, <2>3, QuietCeiling, Zenon
    <2>5. QED BY <1>1, <1>2, <2>4, Zenon DEF MeterInv
  <1>7. ASSUME NEW e \in Executions, Reserve(e) \/ Close(e) PROVE MeterInv'
    <2>1. cost' = cost BY <1>7, Zenon DEF Reserve, Close
    <2>2. \A sc \in Scopes : Exposure(sc)' <= Exposure(sc) \/ Exposure(sc)' <= Ceiling[sc]
      BY <1>7, AdmittedExposure, Zenon DEF MeterInv
    <2>3. \A x \in Slots : slot'[x] = "settled" <=> slot[x] = "settled"
      <3>1. CASE Reserve(e)
        <4>1. \A x \in SlotsOf(e) : slot[x] = "none"
          BY <3>1, Zenon DEF Reserve, MeterInv, StoreInv, IInv, JournalsCohere
        <4>2. \/ slot' = slot
              \/ slot' = [x \in Slots |-> IF x \in SlotsOf(e) THEN "reserved" ELSE slot[x]]
          BY <3>1, Zenon DEF Reserve
        <4>3. QED BY <4>1, <4>2, Zenon
      <3>2. CASE Close(e)
        <4>1. slot' = [x \in Slots |-> IF x \in SlotsOf(e) THEN ClosedSlot(x) ELSE slot[x]]
          BY <3>2, Zenon DEF Close
        <4>2. \A x \in Slots : ClosedSlot(x) = "settled" <=> slot[x] = "settled"
          BY Zenon DEF ClosedSlot
        <4>3. QED BY <4>1, <4>2, Zenon
      <3>3. QED BY <1>7, <3>1, <3>2, Zenon
    <2>4. CeilingHolds' BY <1>1, <1>3, <2>1, <2>2, <2>3, QuietCeiling, Zenon
    <2>5. QED BY <1>1, <1>2, <2>4, Zenon DEF MeterInv
  <1>8. ASSUME NEW x \in Slots, SettleUnknown(x) PROVE MeterInv'
    <2>1. Settle(x, Unknown) /\ report' = report BY <1>8, Zenon DEF SettleUnknown, metering
    <2>2. CeilingHolds' BY <1>2, <2>1, SettledCeiling, Zenon
    <2>3. QED BY <1>1, <1>2, <2>2, Zenon DEF MeterInv
  <1>9. ASSUME NEW x \in Slots, NEW b \in Evidences, NEW r \in Slots, SettleFinal(b, x, r)
        PROVE  MeterInv'
    <2>1. Finalized(b, x, r) # Refused /\ report' = report
      BY <1>9, Zenon DEF SettleFinal, metering
    <2>2. /\ b = EvidenceOf[x] /\ Finalized(b, x, r) = report[x]
          /\ report[x] # Incomplete =>
               report[x] \in Usages /\ EstimatedMicros(b, report[x]) \in Costs
      <3>1. ReportTypes BY Zenon DEF MeterInv
      <3>2. /\ r = x /\ b = EvidenceOf[x] /\ Finalized(b, x, r) = report[x]
            /\ report[x] \in Usages \cup {Incomplete}
            /\ report[x] # Incomplete =>
                 report[x] \in Usages /\ EstimatedMicros(b, report[x]) \in Costs
        BY <2>1, <3>1, FinalCost, Zenon
      <3>3. QED BY <3>2, Zenon
    <2>3. PICK c \in Costs \cup {Unknown} :
            c = IF Finalized(b, x, r) = Incomplete THEN Unknown
                ELSE EstimatedMicros(b, Finalized(b, x, r))
      BY <2>2, Zenon
    <2>4. Settle(x, c)
      BY <1>9, <2>3, Zenon DEF SettleFinal
    <2>5. c = Unknown \/ (report[x] \in Usages /\ c = EstimatedMicros(EvidenceOf[x], report[x]))
      BY <2>2, <2>3, Zenon
    <2>6. CeilingHolds' BY <1>2, <2>1, <2>4, <2>5, SettledCeiling, Zenon
    <2>7. QED BY <1>1, <1>2, <2>6, Zenon DEF MeterInv
  <1>10. QED
    BY <1>5, <1>6, <1>7, <1>8, <1>9, Zenon
       DEF ControlNext, MeteredNext, Quote, MeteredReserve, Reprice, Register, Tick, Midnight,
           cvars, vars

\* Concurrent reservations never admit more than a ceiling: a settled slot is
\* charged the price of its own usage, and exposure passes a ceiling only by
\* what was used beyond the token limits of the evidence.
THEOREM CeilingsHold == ControlSpec => []CeilingHolds
  <1>1. ControlInit => MeterInv
    <2> SUFFICES ASSUME ControlInit PROVE MeterInv
      BY Zenon
    <2>1. Init /\ ReportTypes
      BY EvidenceAssumption, Zenon DEF ControlInit, MeteredInit, ReportTypes
    <2>2. StoreInv BY <2>1, InitStore, Zenon
    <2>3. \A x \in Slots : slot[x] # "settled" BY <2>1, Zenon DEF Init
    <2>4. ASSUME NEW sc \in Scopes
          PROVE  Exposure(sc) <= Admissible(sc) + Total(ExcessOf, In(sc))
      <3>1. In(sc) \in SUBSET Slots BY Zenon DEF In
      <3>2. Total(ExcessOf, In(sc)) \in Nat BY <2>2, <3>1, ExcessIsNatural, Zenon
      <3>3. Exposure(sc) = OpeningSettled[sc] + OpeningHeld[sc]
        BY <2>1, Zenon DEF Init, Exposure
      <3>4. /\ Admissible(sc) \in Nat /\ OpeningSettled[sc] + OpeningHeld[sc] \in Int
            /\ OpeningSettled[sc] + OpeningHeld[sc] <= Admissible(sc)
        BY AdmissibleIsNatural, Zenon
      <3>5. QED BY <3>2, <3>3, <3>4, StaysWithin, Zenon
    <2>5. CeilingHolds
      BY <2>3, <2>4, Zenon DEF CeilingHolds, Admissible, ExcessOf
    <2>6. QED BY <2>1, <2>2, <2>5, Zenon DEF MeterInv
  <1>2. MeterInv => CeilingHolds BY Zenon DEF MeterInv
  <1>3. QED BY <1>1, <1>2, NextMeter, PTL DEF ControlSpec, cvars
=============================================================================
