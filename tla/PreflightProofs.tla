-------------------------- MODULE PreflightProofs --------------------------
(***************************************************************************)
(* Proofs about what a request passes before its first provider call.      *)
(*                                                                         *)
(* GovernedRouting, for any registry, scores, bindings, claims and number  *)
(* of requests: a plan and a cache scope keep what the policy and the      *)
(* caller's own claims allow.                                              *)
(*                                                                         *)
(* CredentialAvailability, for any tokens, workers, fences and lease:      *)
(* RecordIsValid and RetiredStaysRetired need to know that the owner and   *)
(* the receipt in the record were handed out, that epochs only grow, and   *)
(* that an ordinary handle is only given for an available generation.      *)
(*                                                                         *)
(* SpendLedger, for any calls, limits, amounts and dates: a bucket outlives*)
(* its window, so a budget that is spent refuses.                          *)
(***************************************************************************)
EXTENDS GovernedRouting, CredentialAvailability, SpendLedger, TLAPS

(***************************************************************************)
(* The ledger.  A bucket holds all that was added to it until its window   *)
(* is long over: its key outlives the window, since every addition renews  *)
(* an expiry that is longer than the window and a midnight.  So a check    *)
(* that spans one midnight still reads what was spent.                     *)
(***************************************************************************)
\* The first date of a window.
FirstDate(l, w) == IF Limits[l].window = "daily" THEN w ELSE w * DaysPerMonth

\* The first date on which the bucket may be gone.
Gone(l, w) == FirstDate(l, w) + RetentionDays(l)

CallRecord ==
  [pc : {"new", "reading", "refused", "unavailable", "allowed", "adding", "done"},
   due : SUBSET Scoped, today : Dates, micros : Nat, exhausted : SUBSET Scoped]

LedgerTypes ==
  /\ enabled \in BOOLEAN /\ date \in Dates
  /\ DOMAIN bucket = Scoped /\ DOMAIN spent = Scoped
  /\ \A l \in Scoped : /\ bucket[l] \in [Windows(l) -> [micros : Nat, expires : Nat]]
                       /\ spent[l] \in [Windows(l) -> Nat]
  /\ call \in [Calls -> CallRecord]

BucketsHold ==
  \A l \in Scoped : \A w \in Windows(l) :
    /\ bucket[l][w].micros = spent[l][w] \/ Gone(l, w) <= date
    /\ bucket[l][w].micros > 0 => Gone(l, w) <= bucket[l][w].expires

ChecksStand ==
  \A c \in Calls :
    /\ call[c].today <= date
    /\ call[c].pc = "reading" =>
         /\ date <= call[c].today + 1 /\ call[c].exhausted \subseteq call[c].due
         /\ \A l \in call[c].exhausted : Exhausted(l, spent[l][WindowKey(l, call[c].today)])

LedgerInv == LedgerTypes /\ BucketsHold /\ ChecksStand /\ SpentBudgetRefuses

\* A date lies in its window, and the bucket of the window is still there on
\* the day after.
LEMMA WindowFacts ==
  ASSUME NEW l \in Scoped, NEW d \in Dates
  PROVE  /\ WindowKey(l, d) \in Windows(l) /\ RetentionDays(l) \in Nat
         /\ Gone(l, WindowKey(l, d)) \in Nat
         /\ FirstDate(l, WindowKey(l, d)) <= d /\ d + 1 < Gone(l, WindowKey(l, d))
         /\ FirstDate(l, WindowKey(l, d)) \in Nat
  <1>1. d \in Nat /\ DaysPerMonth \in Nat \ {0} /\ DaysPerMonth <= 31
    BY LedgerAssumption
  <1>2. WindowKey(l, d) \in Windows(l) BY DEF Windows
  <1>3. RetentionDays(l) \in Nat BY DEF RetentionDays
  <1>4. CASE Limits[l].window = "daily"
    BY <1>1, <1>2, <1>3, <1>4 DEF Gone, FirstDate, WindowKey, RetentionDays
  <1>5. CASE Limits[l].window # "daily"
    <2>1. PICK q \in Nat : q = d \div DaysPerMonth
      BY <1>1
    <2>2. q * DaysPerMonth \in Nat /\ q * DaysPerMonth <= d /\ d < q * DaysPerMonth + DaysPerMonth
      BY <1>1, <2>1
    <2>3. QED BY <1>1, <1>2, <1>5, <2>1, <2>2 DEF Gone, FirstDate, WindowKey, RetentionDays
  <1>6. QED BY <1>4, <1>5, Zenon

\* The same of any window of a limit.
LEMMA WindowTypes ==
  ASSUME NEW l \in Scoped, NEW w \in Windows(l)
  PROVE  Gone(l, w) \in Nat /\ RetentionDays(l) \in Nat
  <1>1. PICK d \in Dates : w = WindowKey(l, d) BY DEF Windows
  <1>2. QED BY <1>1, WindowFacts

\* An empty ledger satisfies the invariant.
LEMMA InitLedger == LedgerInit => LedgerInv
  <1> SUFFICES ASSUME LedgerInit PROVE LedgerInv
    OBVIOUS
  <1>1. LedgerTypes
    BY LedgerAssumption, Zenon DEF LedgerInit, LedgerTypes, CallRecord, Empty, NewCall
  <1>2. BucketsHold
    BY DEF LedgerInit, BucketsHold, Empty
  <1>3. ChecksStand /\ SpentBudgetRefuses
    BY LedgerAssumption DEF LedgerInit, ChecksStand, SpentBudgetRefuses, NewCall
  <1>4. QED BY <1>1, <1>2, <1>3 DEF LedgerInv

\* Reading a bucket whose limit was exhausted when the check began refuses.
LEMMA ReadLedger ==
  ASSUME LedgerInv, NEW c \in Calls, NEW l \in Scoped, Read(c, l)
  PROVE  LedgerInv'
  <1> DEFINE over == Exhausted(l, bucket[l][WindowKey(l, call[c].today)].micros)
             rest == call[c].due \ {l}
  <1>1. /\ call[c].pc = "reading" /\ l \in call[c].due
        /\ call' = [call EXCEPT ![c].due = IF over THEN {} ELSE rest,
                                ![c].pc = IF over THEN "refused"
                                          ELSE IF rest = {} THEN "allowed" ELSE "reading"]
        /\ UNCHANGED <<enabled, bucket, spent, date>>
    BY DEF Read, IsFirst
  <1>2. l \in call[c].exhausted => over
    <2> SUFFICES ASSUME l \in call[c].exhausted PROVE over
      OBVIOUS
    <2> DEFINE w == WindowKey(l, call[c].today)
    <2>1. call[c].today \in Dates /\ date \in Nat /\ call[c].today \in Nat
      BY LedgerAssumption, Zenon DEF LedgerInv, LedgerTypes, CallRecord
    <2>2. w \in Windows(l) /\ call[c].today + 1 < Gone(l, w) /\ Gone(l, w) \in Nat
      BY <2>1, WindowFacts, Zenon
    <2>3. date <= call[c].today + 1 /\ Exhausted(l, spent[l][w])
      BY <1>1 DEF LedgerInv, ChecksStand
    <2> HIDE DEF w
    <2>4. ~(Gone(l, w) <= date) BY <2>1, <2>2, <2>3
    <2>5. bucket[l][w].micros = spent[l][w] BY <2>2, <2>4 DEF LedgerInv, BucketsHold
    <2>6. QED BY <2>3, <2>5 DEF w
  <1> HIDE DEF over
  <1>3. /\ rest \in SUBSET Scoped
        /\ ~over => call[c].exhausted \subseteq rest
    BY <1>1, <1>2 DEF LedgerInv, LedgerTypes, CallRecord, ChecksStand
  <1> HIDE DEF rest
  <1>4. call \in [Calls -> CallRecord] BY DEF LedgerInv, LedgerTypes
  <1>5. call' \in [Calls -> CallRecord]
    <2> DEFINE D == IF over THEN {} ELSE rest
               q == IF over THEN "refused" ELSE IF rest = {} THEN "allowed" ELSE "reading"
    <2>1. D \in SUBSET Scoped /\ q \in {"refused", "allowed", "reading"} BY <1>3
    <2>2. call' = [call EXCEPT ![c].due = D, ![c].pc = q] BY <1>1
    <2> HIDE DEF D, q
    <2>3. QED BY <1>4, <2>1, <2>2, Zenon DEF CallRecord
  <1>6. LedgerTypes' BY <1>1, <1>5 DEF LedgerInv, LedgerTypes
  <1>7. BucketsHold' BY <1>1 DEF LedgerInv, BucketsHold
  <1>8. /\ \A k \in Calls \ {c} : call'[k] = call[k]
        /\ call'[c].today = call[c].today /\ call'[c].exhausted = call[c].exhausted
        /\ call'[c].due = IF over THEN {} ELSE rest
        /\ call'[c].pc = IF over THEN "refused" ELSE IF rest = {} THEN "allowed" ELSE "reading"
    BY <1>1, <1>4 DEF CallRecord
  <1>9. ChecksStand'
    <2>1. ASSUME NEW k \in Calls
          PROVE  /\ call'[k].today <= date
                 /\ call'[k].pc = "reading" =>
                      /\ date <= call'[k].today + 1 /\ call'[k].exhausted \subseteq call'[k].due
                      /\ \A m \in call'[k].exhausted :
                           Exhausted(m, spent[m][WindowKey(m, call'[k].today)])
      <3>1. CASE k = c
        <4>1. /\ call[c].today <= date /\ date <= call[c].today + 1
              /\ \A m \in call[c].exhausted : Exhausted(m, spent[m][WindowKey(m, call[c].today)])
          BY <1>1 DEF LedgerInv, ChecksStand
        <4>2. call'[c].pc = "reading" => ~over /\ call'[c].due = rest BY <1>8, Zenon
        <4>3. QED BY <1>3, <1>8, <3>1, <4>1, <4>2, Zenon
      <3>2. CASE k # c BY <1>8, <3>2, Zenon DEF LedgerInv, ChecksStand
      <3>3. QED BY <3>1, <3>2, Zenon
    <2>2. QED BY <1>1, <2>1, Zenon DEF ChecksStand
  <1>10. SpentBudgetRefuses'
    <2>1. ASSUME NEW k \in Calls, call'[k].pc \in {"allowed", "adding", "done"}
          PROVE  call'[k].exhausted = {}
      <3>1. CASE k = c BY <1>3, <1>8, <2>1, <3>1
      <3>2. CASE k # c BY <1>8, <2>1, <3>2, Zenon DEF LedgerInv, SpentBudgetRefuses
      <3>3. QED BY <3>1, <3>2
    <2>2. QED BY <2>1 DEF SpentBudgetRefuses
  <1>11. QED BY <1>6, <1>7, <1>9, <1>10 DEF LedgerInv

\* An addition is kept until the window of its call is over.
LEMMA AddLedger ==
  ASSUME LedgerInv, NEW c \in Calls, NEW l \in Scoped, Add(c, l) \/ AddFails(c, l)
  PROVE  LedgerInv'
  <1> DEFINE w == WindowKey(l, call[c].today)
             rest == call[c].due \ {l}
  <1>1. /\ call[c].pc = "adding" /\ UNCHANGED <<enabled, date>>
        /\ call' = [call EXCEPT ![c].due = rest, ![c].pc = IF rest = {} THEN "done" ELSE "adding"]
    BY Zenon DEF Add, AddFails, Advanced
  <1>2. call[c].today \in Dates /\ date \in Nat /\ call[c].today \in Nat /\ call[c].today <= date
        /\ call[c].micros \in Nat
    BY LedgerAssumption, Zenon DEF LedgerInv, LedgerTypes, CallRecord, ChecksStand
  <1>3. /\ w \in Windows(l) /\ FirstDate(l, w) <= call[c].today /\ FirstDate(l, w) \in Nat
        /\ RetentionDays(l) \in Nat
    BY <1>2, WindowFacts, Zenon
  <1>4. \/ UNCHANGED <<bucket, spent>>
        \/ /\ bucket' = [bucket EXCEPT ![l][w] =
                           [micros |-> bucket[l][w].micros + call[c].micros,
                            expires |-> date + RetentionDays(l)]]
           /\ spent' = [spent EXCEPT ![l][w] = spent[l][w] + call[c].micros]
    BY <1>3 DEF Add, AddFails, LedgerInv, LedgerTypes
  <1> HIDE DEF w
  <1>5. \A k \in Scoped : /\ bucket[k] \in [Windows(k) -> [micros : Nat, expires : Nat]]
                          /\ spent[k] \in [Windows(k) -> Nat]
    BY DEF LedgerInv, LedgerTypes
  <1>6. /\ DOMAIN bucket' = Scoped /\ DOMAIN spent' = Scoped
        /\ \A k \in Scoped : /\ bucket'[k] \in [Windows(k) -> [micros : Nat, expires : Nat]]
                             /\ spent'[k] \in [Windows(k) -> Nat]
        /\ \A k \in Scoped : \A v \in Windows(k) :
             spent[k][v] <= spent'[k][v]
        /\ \A k \in Scoped : \A v \in Windows(k) :
             \/ bucket'[k][v] = bucket[k][v] /\ spent'[k][v] = spent[k][v]
             \/ /\ k = l /\ v = w
                /\ bucket'[k][v].micros = bucket[k][v].micros + call[c].micros
                /\ spent'[k][v] = spent[k][v] + call[c].micros
                /\ bucket'[k][v].expires = date + RetentionDays(k)
    <2>1. CASE UNCHANGED <<bucket, spent>>
      BY <2>1, <1>5 DEF LedgerInv, LedgerTypes
    <2>2. CASE /\ bucket' = [bucket EXCEPT ![l][w] =
                               [micros |-> bucket[l][w].micros + call[c].micros,
                                expires |-> date + RetentionDays(l)]]
               /\ spent' = [spent EXCEPT ![l][w] = spent[l][w] + call[c].micros]
      <3>1. DOMAIN bucket' = Scoped /\ DOMAIN spent' = Scoped
        BY <2>2 DEF LedgerInv, LedgerTypes
      <3>2. bucket[l][w].micros \in Nat /\ spent[l][w] \in Nat
        BY <1>3, <1>5, Zenon
      <3> DEFINE new == [micros |-> bucket[l][w].micros + call[c].micros,
                         expires |-> date + RetentionDays(l)]
                 sum == spent[l][w] + call[c].micros
      <3>3. /\ new \in [micros : Nat, expires : Nat] /\ sum \in Nat
            /\ new.micros = bucket[l][w].micros + call[c].micros
            /\ new.expires = date + RetentionDays(l)
        BY <1>2, <1>3, <3>2
      <3>4. bucket' = [bucket EXCEPT ![l] = [bucket[l] EXCEPT ![w] = new]]
            /\ spent' = [spent EXCEPT ![l] = [spent[l] EXCEPT ![w] = sum]]
        BY <2>2
      <3> HIDE DEF new
      <3>5. ASSUME NEW k \in Scoped
            PROVE  /\ bucket'[k] \in [Windows(k) -> [micros : Nat, expires : Nat]]
                   /\ spent'[k] \in [Windows(k) -> Nat]
        <4>1. CASE k = l
          <5>1. bucket'[k] = [bucket[k] EXCEPT ![w] = new] /\ spent'[k] = [spent[k] EXCEPT ![w] = sum]
            BY <3>4, <4>1 DEF LedgerInv, LedgerTypes
          <5> HIDE DEF sum
          <5>2. bucket[k] \in [Windows(k) -> [micros : Nat, expires : Nat]]
                /\ spent[k] \in [Windows(k) -> Nat]
            BY <1>5
          <5>3. bucket'[k] \in [Windows(k) -> [micros : Nat, expires : Nat]]
            BY <3>3, <5>1, <5>2, Zenon
          <5>4. spent'[k] \in [Windows(k) -> Nat]
            BY <3>3, <5>1, <5>2, Zenon
          <5>5. QED BY <5>3, <5>4, Zenon
        <4>2. CASE k # l BY <1>5, <3>4, <4>2 DEF LedgerInv, LedgerTypes
        <4>3. QED BY <4>1, <4>2, Zenon
      <3>6. ASSUME NEW k \in Scoped, NEW v \in Windows(k)
            PROVE  \/ bucket'[k][v] = bucket[k][v] /\ spent'[k][v] = spent[k][v]
                   \/ /\ k = l /\ v = w
                      /\ bucket'[k][v].micros = bucket[k][v].micros + call[c].micros
                      /\ spent'[k][v] = spent[k][v] + call[c].micros
                      /\ bucket'[k][v].expires = date + RetentionDays(k)
        <4>1. CASE k = l
          <5>1. bucket'[k] = [bucket[k] EXCEPT ![w] = new] /\ spent'[k] = [spent[k] EXCEPT ![w] = sum]
            BY <3>4, <4>1 DEF LedgerInv, LedgerTypes
          <5>2. bucket[k] \in [Windows(k) -> [micros : Nat, expires : Nat]]
                /\ spent[k] \in [Windows(k) -> Nat]
            BY <1>5, Zenon
          <5>3. CASE v = w BY <3>3, <4>1, <5>1, <5>2, <5>3, Zenon
          <5>4. CASE v # w BY <5>1, <5>2, <5>4, Zenon
          <5>5. QED BY <5>3, <5>4, Zenon
        <4>2. CASE k # l BY <3>4, <4>2 DEF LedgerInv, LedgerTypes
        <4>3. QED BY <4>1, <4>2, Zenon
      <3>7. ASSUME NEW k \in Scoped, NEW v \in Windows(k)
            PROVE  spent[k][v] <= spent'[k][v]
        BY <1>2, <1>5, <3>6
      <3>8. QED BY <3>1, <3>5, <3>6, <3>7, Zenon
    <2>3. QED BY <1>4, <2>1, <2>2, Zenon
  <1>7. /\ \A k \in Calls \ {c} : call'[k] = call[k]
        /\ call'[c].today = call[c].today /\ call'[c].exhausted = call[c].exhausted
        /\ call'[c].pc \in {"adding", "done"}
    BY <1>1 DEF LedgerInv, LedgerTypes, CallRecord
  <1>8. LedgerTypes'
    <2>1. call' \in [Calls -> CallRecord]
      <3>1. call \in [Calls -> CallRecord] BY Zenon DEF LedgerInv, LedgerTypes
      <3>2. rest \in SUBSET Scoped BY <3>1 DEF CallRecord
      <3> HIDE DEF rest
      <3>3. QED BY <1>1, <3>1, <3>2, Zenon DEF CallRecord
    <2>2. enabled' \in BOOLEAN /\ date' \in Dates
      BY <1>1 DEF LedgerInv, LedgerTypes
    <2>3. QED BY <1>6, <2>1, <2>2, Zenon DEF LedgerTypes
  <1>9. BucketsHold'
    <2> SUFFICES ASSUME NEW k \in Scoped, NEW v \in Windows(k)
                 PROVE  /\ bucket'[k][v].micros = spent'[k][v] \/ Gone(k, v) <= date
                        /\ bucket'[k][v].micros > 0 => Gone(k, v) <= bucket'[k][v].expires
      BY <1>1 DEF BucketsHold
    <2>1. /\ bucket[k][v].micros = spent[k][v] \/ Gone(k, v) <= date
          /\ bucket[k][v].micros > 0 => Gone(k, v) <= bucket[k][v].expires
      BY Zenon DEF LedgerInv, BucketsHold
    <2>2. k = l /\ v = w => Gone(k, v) <= date + RetentionDays(k)
      BY <1>2, <1>3 DEF Gone
    <2>3. QED BY <1>6, <2>1, <2>2
  <1>10. ChecksStand'
    <2> SUFFICES ASSUME NEW k \in Calls
                 PROVE  /\ call'[k].today <= date
                        /\ call'[k].pc = "reading" =>
                             /\ date <= call'[k].today + 1 /\ call'[k].exhausted \subseteq call'[k].due
                             /\ \A m \in call'[k].exhausted :
                                  Exhausted(m, spent'[m][WindowKey(m, call'[k].today)])
      BY <1>1, Zenon DEF ChecksStand
    <2>1. CASE k = c
      BY <1>2, <1>7, <2>1, Zenon
    <2>2. CASE k # c
      <3>1. call'[k] = call[k] BY <1>7, <2>2, Zenon
      <3>2. ASSUME call[k].pc = "reading", NEW m \in call[k].exhausted
            PROVE  Exhausted(m, spent'[m][WindowKey(m, call[k].today)])
        <4>1. m \in Scoped /\ call[k].today \in Dates
          BY Zenon DEF LedgerInv, LedgerTypes, CallRecord
        <4>2. PICK v \in Windows(m) : v = WindowKey(m, call[k].today)
          BY <4>1, WindowFacts, Zenon
        <4>3. spent[m][v] >= Limits[m].micros
          BY <3>2, <4>2, Zenon DEF LedgerInv, ChecksStand, Exhausted
        <4>4. /\ Limits[m].micros \in Nat /\ spent[m][v] \in Nat /\ spent'[m][v] \in Nat
              /\ spent[m][v] <= spent'[m][v]
          BY <1>5, <1>6, <4>1, <4>2, LedgerAssumption, Zenon DEF Scoped
        <4>5. spent'[m][v] >= Limits[m].micros
          BY <4>3, <4>4
        <4>6. QED BY <4>2, <4>5, Zenon DEF Exhausted
      <3>3. QED BY <3>1, <3>2, Zenon DEF LedgerInv, ChecksStand
    <2>3. QED BY <2>1, <2>2, Zenon
  <1>11. SpentBudgetRefuses' BY <1>1, <1>7, Zenon DEF LedgerInv, SpentBudgetRefuses
  <1>12. QED BY <1>8, <1>9, <1>10, <1>11 DEF LedgerInv

\* Every other step of the ledger, and the passing of days, keeps the invariant.
LEMMA NextLedger == LedgerInv /\ [LedgerNext]_lvars => LedgerInv'
  <1> SUFFICES ASSUME LedgerInv, [LedgerNext]_lvars PROVE LedgerInv'
    OBVIOUS
  <1>1. /\ call \in [Calls -> CallRecord] /\ date \in Dates /\ date \in Nat
        /\ \A c \in Calls : call[c] \in CallRecord /\ call[c].today \in Nat
    BY LedgerAssumption, Zenon DEF LedgerInv, LedgerTypes, CallRecord
  <1>2. ASSUME NEW c \in Calls, NEW r \in CallRecord, call' = [call EXCEPT ![c] = r],
               UNCHANGED <<enabled, bucket, spent, date>>,
               r.today <= date,
               r.pc = "reading" =>
                 /\ date <= r.today + 1 /\ r.exhausted \subseteq r.due
                 /\ \A l \in r.exhausted : Exhausted(l, spent[l][WindowKey(l, r.today)]),
               r.pc \in {"allowed", "adding", "done"} => r.exhausted = {}
        PROVE  LedgerInv'
    <2>1. /\ \A k \in Calls \ {c} : call'[k] = call[k]
          /\ call'[c] = r /\ call' \in [Calls -> CallRecord]
      BY <1>1, <1>2
    <2>2. LedgerTypes' BY <1>2, <2>1, Zenon DEF LedgerInv, LedgerTypes
    <2>3. BucketsHold' BY <1>2, Zenon DEF LedgerInv, BucketsHold
    <2>4. ChecksStand' BY <1>2, <2>1, Zenon DEF LedgerInv, ChecksStand
    <2>5. SpentBudgetRefuses' BY <1>2, <2>1, Zenon DEF LedgerInv, SpentBudgetRefuses
    <2>6. QED BY <2>2, <2>3, <2>4, <2>5 DEF LedgerInv
  <1>3. ASSUME NEW c \in Calls, Check(c) PROVE LedgerInv'
    <2> DEFINE S == {l \in LimitsFor(c) : enabled /\ Exhausted(l, spent[l][WindowKey(l, date)])}
               D == IF enabled THEN LimitsFor(c) ELSE {}
               q == IF enabled /\ LimitsFor(c) # {} THEN "reading" ELSE "allowed"
               r == [call[c] EXCEPT !.today = date, !.pc = q, !.due = D, !.exhausted = S]
    <2>1. call' = [call EXCEPT ![c] = r] /\ UNCHANGED <<enabled, bucket, spent, date>>
      BY <1>1, <1>3, Zenon DEF Check, CallRecord
    <2>2. /\ S \in SUBSET Scoped /\ D \in SUBSET Scoped /\ q \in {"reading", "allowed"}
          /\ S \subseteq D /\ (q = "allowed" => S = {})
          /\ \A l \in S : Exhausted(l, spent[l][WindowKey(l, date)])
      BY DEF LimitsFor
    <2> HIDE DEF S, D, q
    <2>3. /\ r \in CallRecord /\ r.today = date /\ r.pc = q /\ r.due = D /\ r.exhausted = S
      BY <1>1, <2>2, Zenon DEF CallRecord
    <2> HIDE DEF r
    <2>4. /\ r.today <= date /\ date <= r.today + 1 /\ r.exhausted \subseteq r.due
          /\ \A l \in r.exhausted : Exhausted(l, spent[l][WindowKey(l, r.today)])
          /\ r.pc \in {"allowed", "adding", "done"} => r.exhausted = {}
      BY <1>1, <2>2, <2>3
    <2>5. QED BY <1>2, <2>1, <2>3, <2>4, Zenon
  <1>4. ASSUME NEW c \in Calls, ReadFails(c) PROVE LedgerInv'
    <2> DEFINE r == [call[c] EXCEPT !.pc = "unavailable", !.due = {}]
    <2>1. call' = [call EXCEPT ![c] = r] /\ UNCHANGED <<enabled, bucket, spent, date>>
      BY <1>1, <1>4, Zenon DEF ReadFails, CallRecord
    <2>2. /\ r \in CallRecord /\ r.pc = "unavailable" /\ r.today = call[c].today
      BY <1>1, Zenon DEF CallRecord
    <2>3. r.today <= date BY <2>2 DEF LedgerInv, ChecksStand
    <2> HIDE DEF r
    <2>4. QED BY <1>2, <2>1, <2>2, <2>3, Zenon
  <1>5. ASSUME NEW c \in Calls, NEW a \in Amounts \cup {NoAmount}, NEW b \in BOOLEAN,
               Record(c, a, b)
        PROVE  LedgerInv'
    <2> DEFINE m == IF b \/ a = NoAmount THEN 0 ELSE ToMicros(a)
               D == IF enabled /\ m > 0 THEN LimitsFor(c) ELSE {}
               q == IF D # {} THEN "adding" ELSE "done"
               r == [call[c] EXCEPT !.today = date, !.micros = m, !.due = D, !.pc = q]
    <2>1. /\ call' = [call EXCEPT ![c] = r] /\ UNCHANGED <<enabled, bucket, spent, date>>
          /\ call[c].pc = "allowed"
      BY <1>1, <1>5 DEF Record, CallRecord
    <2>2. m \in Nat BY LedgerAssumption DEF ToMicros
    <2>3. D \in SUBSET Scoped /\ q \in {"adding", "done"} BY DEF LimitsFor
    <2> HIDE DEF m, D, q
    <2>4. /\ r \in CallRecord /\ r.today = date /\ r.pc = q /\ r.exhausted = call[c].exhausted
      BY <1>1, <2>2, <2>3, Zenon DEF CallRecord
    <2>5. call[c].exhausted = {} BY <2>1 DEF LedgerInv, SpentBudgetRefuses
    <2> HIDE DEF r
    <2>6. r.today <= date /\ r.pc # "reading" /\ r.exhausted = {}
      BY <1>1, <2>3, <2>4, <2>5
    <2>7. QED BY <1>2, <2>1, <2>4, <2>6, Zenon
  <1>6. ASSUME NEW c \in Calls, NEW l \in call[c].due,
               Read(c, l) \/ Add(c, l) \/ AddFails(c, l)
        PROVE  LedgerInv'
    <2>1. l \in Scoped BY <1>1 DEF CallRecord
    <2>2. QED BY <1>6, <2>1, ReadLedger, AddLedger, Zenon
  <1>7. ASSUME UNCHANGED <<enabled, spent, call>>,
               date' \in Dates, date <= date',
               \A c \in Calls : call[c].pc = "reading" => date' <= call[c].today + 1,
               DOMAIN bucket' = Scoped,
               \A k \in Scoped : bucket'[k] \in [Windows(k) -> [micros : Nat, expires : Nat]],
               \A k \in Scoped : \A v \in Windows(k) :
                 \/ bucket'[k][v] = bucket[k][v]
                 \/ bucket'[k][v] = Empty /\ (bucket[k][v].micros > 0 => bucket[k][v].expires <= date')
        PROVE  LedgerInv'
    <2>1. date' \in Nat BY <1>7, LedgerAssumption
    <2>2. LedgerTypes' BY <1>7, Zenon DEF LedgerInv, LedgerTypes
    <2>3. BucketsHold'
      <3> SUFFICES ASSUME NEW k \in Scoped, NEW v \in Windows(k)
                   PROVE  /\ bucket'[k][v].micros = spent[k][v] \/ Gone(k, v) <= date'
                          /\ bucket'[k][v].micros > 0 => Gone(k, v) <= bucket'[k][v].expires
        BY <1>7, Zenon DEF BucketsHold
      <3>1. Gone(k, v) \in Nat BY WindowTypes
      <3>2. /\ bucket[k][v].micros = spent[k][v] \/ Gone(k, v) <= date
            /\ bucket[k][v].micros > 0 => Gone(k, v) <= bucket[k][v].expires
            /\ bucket[k][v].micros \in Nat /\ bucket[k][v].expires \in Nat /\ spent[k][v] \in Nat
        BY Zenon DEF LedgerInv, LedgerTypes, BucketsHold
      <3>3. CASE bucket'[k][v] = bucket[k][v]
        BY <1>1, <1>7, <2>1, <3>1, <3>2, <3>3
      <3>4. CASE /\ bucket'[k][v] = Empty
                 /\ bucket[k][v].micros > 0 => bucket[k][v].expires <= date'
        <4>1. bucket'[k][v].micros = 0 BY <3>4 DEF Empty
        <4>2. QED BY <1>1, <1>7, <2>1, <3>1, <3>2, <3>4, <4>1
      <3>5. QED BY <1>7, <3>3, <3>4, Zenon
    <2>4. ChecksStand' BY <1>1, <1>7, <2>1 DEF LedgerInv, ChecksStand
    <2>5. SpentBudgetRefuses' BY <1>7, Zenon DEF LedgerInv, SpentBudgetRefuses
    <2>6. QED BY <2>2, <2>3, <2>4, <2>5 DEF LedgerInv
  <1>8. \A k \in Scoped : bucket[k] \in [Windows(k) -> [micros : Nat, expires : Nat]]
    BY Zenon DEF LedgerInv, LedgerTypes
  <1>9. Empty \in [micros : Nat, expires : Nat] BY DEF Empty
  <1>10. ASSUME NEW l \in Scoped, NEW w \in Windows(l), ExpireKey(l, w) PROVE LedgerInv'
    <2>1. /\ bucket[l][w].expires = date /\ UNCHANGED <<enabled, spent, call, date>>
          /\ bucket' = [bucket EXCEPT ![l] = [bucket[l] EXCEPT ![w] = Empty]]
      BY <1>10 DEF ExpireKey
    <2>2. \A k \in Scoped : bucket'[k] = IF k = l THEN [bucket[l] EXCEPT ![w] = Empty] ELSE bucket[k]
      BY <2>1 DEF LedgerInv, LedgerTypes
    <2>3. /\ DOMAIN bucket' = Scoped
          /\ \A k \in Scoped : bucket'[k] \in [Windows(k) -> [micros : Nat, expires : Nat]]
      BY <1>8, <1>9, <2>1, <2>2 DEF LedgerInv, LedgerTypes
    <2>4. \A k \in Scoped : \A v \in Windows(k) :
            \/ bucket'[k][v] = bucket[k][v]
            \/ bucket'[k][v] = Empty /\ bucket[k][v].expires <= date'
      BY <1>1, <1>8, <2>1, <2>2
    <2>5. \A c \in Calls : call[c].pc = "reading" => date' <= call[c].today + 1
      BY <2>1 DEF LedgerInv, ChecksStand
    <2>6. date' \in Dates /\ date <= date' BY <1>1, <2>1
    <2>7. QED BY <1>7, <2>1, <2>3, <2>4, <2>5, <2>6
  <1>11. ASSUME NEW d \in Dates, PassTo(d) PROVE LedgerInv'
    <2>1. /\ d > date /\ date' = d /\ UNCHANGED <<enabled, spent, call>>
          /\ \A c \in Calls : call[c].pc = "reading" => d = date + 1 /\ call[c].today = date
          /\ bucket' = [l \in Scoped |-> [w \in Windows(l) |->
                          IF bucket[l][w].expires < d THEN Empty ELSE bucket[l][w]]]
      BY <1>11 DEF PassTo
    <2>2. /\ DOMAIN bucket' = Scoped
          /\ \A k \in Scoped : bucket'[k] = [w \in Windows(k) |->
                                 IF bucket[k][w].expires < d THEN Empty ELSE bucket[k][w]]
      BY <2>1
    <2>3. \A k \in Scoped : bucket'[k] \in [Windows(k) -> [micros : Nat, expires : Nat]]
      BY <1>8, <1>9, <2>2
    <2>4. d \in Nat BY LedgerAssumption
    <2>5. \A k \in Scoped : \A v \in Windows(k) :
            \/ bucket'[k][v] = bucket[k][v]
            \/ bucket'[k][v] = Empty /\ bucket[k][v].expires <= date'
      BY <1>8, <2>1, <2>2, <2>4
    <2>6. \A c \in Calls : call[c].pc = "reading" => date' <= call[c].today + 1
      BY <1>1, <2>1, <2>4
    <2>7. date' \in Dates /\ date <= date' BY <1>1, <2>1, <2>4
    <2>8. QED BY <1>7, <2>1, <2>2, <2>3, <2>5, <2>6, <2>7, Zenon
  <1>12. CASE UNCHANGED lvars
    BY <1>12, Zenon DEF lvars, LedgerInv, LedgerTypes, BucketsHold, ChecksStand, SpentBudgetRefuses
  <1>13. QED
    BY <1>3, <1>4, <1>5, <1>6, <1>10, <1>11, <1>12, Zenon DEF LedgerNext

\* A budget that has been spent stays spent for its window: a call whose check
\* begins then is never let through, across expiring keys, a change of date
\* during the check and additions that fail.
THEOREM SpentBudgetsRefuse == LedgerSpec => []SpentBudgetRefuses
  <1>1. LedgerInv => SpentBudgetRefuses BY DEF LedgerInv
  <1>2. QED BY <1>1, InitLedger, NextLedger, PTL DEF LedgerSpec

-----------------------------------------------------------------------------
Fields == {"pc", "context", "unread", "healthy", "policy", "plan", "identity"}

\* The state is a record per request.
Shape ==
  /\ claim \in Scenarios
  /\ pre = [r \in Requests |-> pre[r]]
  /\ \A r \in Requests : pre[r] = [f \in Fields |-> pre[r][f]]
  /\ pdp = [r \in Requests |-> pdp[r]]
  /\ downSince = [r \in Requests |-> downSince[r]]

\* Binding b is the one the claims c were resolved with.
ResolvedBy(c, p, b) ==
  b.credential = c.key /\ c.workload \in b.workloads /\ p.context = Context(c, b)

\* The context comes from the caller's binding, and the ceilings from its
\* claims.
Trusted(c, p) ==
  /\ p.pc \in {"observing", "projecting", "asking"} =>
       \E b \in Bindings : ResolvedBy(c, p, b)
  /\ p.pc = "asking" =>
       p.policy = [cost |-> Ceiling(c.cost, Defaults.cost),
                   latency |-> Ceiling(c.latency, Defaults.latency)]

\* Deployment d may serve claims c for which the PDP decided on a group.
Authorized(c, d, group) ==
  /\ Registry[d].group = group
  /\ \E b \in Bindings :
       /\ b.credential = c.key /\ c.workload \in b.workloads
       /\ b.environment \in Registry[d].environments
       /\ b.classification <= Registry[d].classification
  /\ c.classification <= Registry[d].classification
  /\ Registry[d].enabled /\ c.needs \subseteq Registry[d].capabilities
  /\ c.cost # NoLimit => EstimatedCost(c, d) <= c.cost
  /\ c.mode = "complexity" =>
       Scores[c.workload][d].quality >= Complexity.quality[Assessed(c)]

\* The identity names the caller's client and public data.
ScopedTo(c, identity, group) ==
  /\ identity.group = group
  /\ c.classification = 0
  /\ \E b \in Bindings :
       b.credential = c.key /\ b.client = identity.client /\ b.classification = 0

\* A plan and an identity appear when the preflight ends, with a decision.
Settled(c, p, group) ==
  /\ p.plan # {} \/ p.identity # None => p.pc \in {"prepared", "explained"}
  /\ \A d \in p.plan : Authorized(c, d, group)
  /\ p.identity # None => ScopedTo(c, p.identity, group)

\* Health was read after the request arrived, when downSince was all down.
Watched(p, since, now) ==
  /\ p.healthy \cap since = {}
  /\ p.pc \notin Endings => since \subseteq now
  /\ p.pc = "prepared" => p.plan \subseteq p.healthy

IInv ==
  /\ Shape
  /\ \A r \in Requests :
       /\ Trusted(claim[r], pre[r])
       /\ Settled(claim[r], pre[r], pdp[r])
       /\ Watched(pre[r], downSince[r], down)
-----------------------------------------------------------------------------
\* Received requests with nothing known about them satisfy the invariant.
LEMMA InitIInv == Init => IInv
  <1> SUFFICES ASSUME Init PROVE IInv
    OBVIOUS
  <1>1. Shape
    BY Zenon DEF Init, Shape, Fresh, Fields
  <1>2. ASSUME NEW r \in Requests
        PROVE  pre[r] = Fresh /\ downSince[r] = down
    BY DEF Init
  <1>3. ASSUME NEW r \in Requests
        PROVE  /\ Trusted(claim[r], pre[r])
               /\ Settled(claim[r], pre[r], pdp[r])
               /\ Watched(pre[r], downSince[r], down)
    BY <1>2 DEF Fresh, Trusted, Settled, Watched
  <1>4. QED BY <1>1, <1>3 DEF IInv

\* A step of one request need only be examined for that request.
LEMMA BecomeIInv ==
  ASSUME IInv, NEW r \in Requests, NEW p, Become(r, p),
         p = [f \in Fields |-> p[f]], Trusted(claim[r], p),
         Settled(claim[r], p, pdp[r]), Watched(p, downSince[r], down)
  PROVE  IInv'
  <1>1. pre' = [pre EXCEPT ![r] = p] /\ UNCHANGED <<claim, pdp, down, downSince>>
    BY DEF Become
  <1>2. \A q \in Requests : pre'[q] = IF q = r THEN p ELSE pre[q]
    BY <1>1 DEF IInv, Shape
  <1>3. Shape'
    BY <1>1, <1>2 DEF IInv, Shape
  <1>4. ASSUME NEW q \in Requests
        PROVE  /\ Trusted(claim'[q], pre'[q])
               /\ Settled(claim'[q], pre'[q], pdp'[q])
               /\ Watched(pre'[q], downSince'[q], down')
    <2>1. CASE q = r BY <2>1, <1>1, <1>2
    <2>2. CASE q # r BY <2>2, <1>1, <1>2 DEF IInv
    <2>3. QED BY <2>1, <2>2
  <1>5. QED BY <1>3, <1>4 DEF IInv

\* What the invariant says of a request that is still on its way.
LEMMA OnItsWay ==
  ASSUME IInv, NEW r \in Requests, pre[r].pc \notin Endings
  PROVE  /\ pre[r] = [f \in Fields |-> pre[r][f]]
         /\ pre[r].plan = {} /\ pre[r].identity = None
         /\ pre[r].healthy \cap downSince[r] = {} /\ downSince[r] \subseteq down
  BY DEF IInv, Shape, Settled, Watched, Endings

\* A refusal plans nothing.
LEMMA EndIInv ==
  ASSUME IInv, NEW r \in Requests, pre[r].pc \notin Endings, NEW e \in Endings, End(r, e)
  PROVE  IInv'
  <1> DEFINE n == [pre[r] EXCEPT !.pc = e]
  <1>1. /\ n = [f \in Fields |-> n[f]]
        /\ n.pc = e /\ n.healthy = pre[r].healthy /\ n.plan = {} /\ n.identity = None
    BY OnItsWay, Zenon DEF Fields
  <1>2. Trusted(claim[r], n)
    BY <1>1 DEF Trusted, Endings
  <1>3. Settled(claim[r], n, pdp[r])
    BY <1>1 DEF Settled
  <1>4. Watched(n, downSince[r], down)
    BY <1>1, OnItsWay, Zenon DEF Watched
  <1>5. QED BY <1>1, <1>2, <1>3, <1>4, BecomeIInv, Zenon DEF End

-----------------------------------------------------------------------------
\* Both of the levels are within a bound their maximum is within.
LEMMA MaximumBounds ==
  ASSUME NEW a \in Nat, NEW b \in Nat
  PROVE  /\ \A n \in Nat : Maximum(a, b) <= n => a <= n /\ b <= n
         /\ Maximum(a, b) = 0 => a = 0 /\ b = 0
  BY DEF Maximum

\* An eligible deployment of the decided group that complexity did not rule
\* out is one the request may use.
LEMMA EligibleIsAuthorized ==
  ASSUME NEW c \in Claims, NEW p, NEW group, Trusted(c, p), p.pc = "asking",
         NEW d \in Narrowed(c, Candidates(group)), Eligible(p, c, d)
  PROVE  Authorized(c, d, group)
  <1>1. /\ d \in Deployments /\ Registry[d].group = group
        /\ c.mode = "complexity" =>
             Scores[c.workload][d].quality >= Complexity.quality[Assessed(c)]
    BY RoutingAssumption, Zenon DEF Narrowed, Candidates
  <1>2. PICK b \in Bindings : ResolvedBy(c, p, b)
    BY Zenon DEF Trusted
  <1>3. /\ p.context.environment = b.environment
        /\ p.context.classification = Maximum(c.classification, b.classification)
        /\ b.credential = c.key /\ c.workload \in b.workloads
    BY <1>2 DEF ResolvedBy, Context
  <1>4. /\ c.classification <= Registry[d].classification
        /\ b.classification <= Registry[d].classification
    <2>1. c.classification \in Nat /\ b.classification \in Nat /\ Registry[d].classification \in Nat
      BY <1>1, RoutingAssumption, BindingAssumption, Zenon DEF Claims
    <2>2. Maximum(c.classification, b.classification) <= Registry[d].classification
      BY <1>3, Zenon DEF Eligible
    <2>3. QED BY <2>1, <2>2, MaximumBounds
  <1>5. c.cost # NoLimit => EstimatedCost(c, d) <= c.cost
    <2>1. SUFFICES ASSUME c.cost # NoLimit PROVE EstimatedCost(c, d) <= c.cost
      BY Zenon
    <2>2. EstimatedCost(c, d) <= Minimum(c.cost, Defaults.cost)
      BY <2>1 DEF Eligible, Trusted, Ceiling
    <2>3. c.cost \in Int /\ Defaults.cost \in Int
      BY <2>1, RoutingAssumption DEF Claims
    <2>4. EstimatedCost(c, d) \in Int
      BY <1>1, RoutingAssumption DEF EstimatedCost, Claims
    <2>5. QED BY <2>2, <2>3, <2>4 DEF Minimum
  <1>6. Registry[d].enabled /\ c.needs \subseteq Registry[d].capabilities
    BY Zenon DEF Eligible
  <1>7. b.environment \in Registry[d].environments
    BY <1>3, Zenon DEF Eligible
  <1>8. QED BY <1>1, <1>3, <1>4, <1>5, <1>6, <1>7, Zenon DEF Authorized

\* An identity exists only for public data of the binding's client.
LEMMA IdentityIsScoped ==
  ASSUME NEW c \in Claims, NEW p, NEW group, Trusted(c, p), p.pc = "asking",
         Identity(c, p, group) # None
  PROVE  ScopedTo(c, Identity(c, p, group), group)
  <1>1. p.context.classification = 0
    BY Zenon DEF Identity, Cacheable
  <1>2. /\ Identity(c, p, group).client = p.context.client
        /\ Identity(c, p, group).group = group
    BY Zenon DEF Identity
  <1>3. PICK b \in Bindings : ResolvedBy(c, p, b)
    BY Zenon DEF Trusted
  <1>4. c.classification = 0 /\ b.classification = 0
    <2>1. c.classification \in Nat /\ b.classification \in Nat
      BY BindingAssumption, Zenon DEF Claims
    <2>2. Maximum(c.classification, b.classification) = 0
      BY <1>1, <1>3 DEF ResolvedBy, Context
    <2>3. QED BY <2>1, <2>2, MaximumBounds, Zenon
  <1>5. b.credential = c.key /\ b.client = p.context.client
    BY <1>3 DEF ResolvedBy, Context
  <1>6. QED BY <1>2, <1>4, <1>5, Zenon DEF ScopedTo

\* An accepted decision turns a trusted preflight into an authorized one.
LEMMA RoutedIInv ==
  ASSUME IInv, NEW r \in Requests, pre[r].pc = "asking",
         Become(r, Routed(claim[r], pre[r], pdp[r]))
  PROVE  IInv'
  <1> DEFINE c == claim[r]
             p == pre[r]
             group == pdp[r]
             ranked == {d \in Narrowed(c, Candidates(group)) : Eligible(p, c, d)}
             n == Routed(c, p, group)
  <1>1. /\ p = [f \in Fields |-> p[f]] /\ p.plan = {} /\ p.identity = None
        /\ p.healthy \cap downSince[r] = {} /\ downSince[r] \subseteq down
    BY OnItsWay, Zenon DEF Endings
  <1>2. c \in Claims
    BY RoutingAssumption, Zenon DEF IInv, Shape
  <1>3. Trusted(c, p)
    BY Zenon DEF IInv
  <1>4. \A d \in ranked : Authorized(c, d, group)
    BY <1>2, <1>3, EligibleIsAuthorized, Zenon
  <1>5. c.surface # "explain" => ranked \subseteq p.healthy
    BY Zenon DEF Eligible, Usable
  <1>6. Identity(c, p, group) # None => ScopedTo(c, Identity(c, p, group), group)
    BY <1>2, <1>3, IdentityIsScoped, Zenon
  <1>7. \/ \E e : n = [p EXCEPT !.pc = e]
        \/ c.surface = "explain" /\ n = [p EXCEPT !.pc = "explained", !.plan = ranked]
        \/ /\ c.surface # "explain"
           /\ \E bounded \in SUBSET ranked :
                n = [p EXCEPT !.pc = "prepared", !.plan = bounded,
                              !.identity = Identity(c, p, group)]
    <2>1. \/ \E e : Prepared(c, p, ranked, group) = [p EXCEPT !.pc = e]
          \/ \E bounded \in SUBSET ranked :
               Prepared(c, p, ranked, group) =
                 [p EXCEPT !.pc = "prepared", !.plan = bounded,
                           !.identity = Identity(c, p, group)]
      <3> DEFINE bounded == Leading(c, ranked, IF c.replayable THEN MaxFallbacks + 1 ELSE 1)
      <3>1. bounded \in SUBSET ranked
        BY Zenon DEF Leading
      <3> HIDE DEF ranked
      <3>2. QED BY <3>1, Zenon DEF Prepared
    <2>2. \/ \E e : n = [p EXCEPT !.pc = e]
          \/ c.surface = "explain" /\ n = [p EXCEPT !.pc = "explained", !.plan = ranked]
          \/ c.surface # "explain" /\ n = Prepared(c, p, ranked, group)
      BY Zenon DEF Routed
    <2> HIDE DEF n, ranked
    <2>3. QED BY <2>1, <2>2, Zenon
  <1> HIDE DEF n, ranked
  <1>8. CASE \E e : n = [p EXCEPT !.pc = e]
    <2>1. PICK e : n = [p EXCEPT !.pc = e]
      BY <1>8, Zenon
    <2>2. /\ n = [f \in Fields |-> n[f]] /\ n.pc = e /\ n.context = p.context
          /\ n.healthy = p.healthy /\ n.policy = p.policy /\ n.plan = {} /\ n.identity = None
      BY <2>1, <1>1, Zenon DEF Fields
    <2>3. Trusted(c, n) /\ Settled(c, n, group) /\ Watched(n, downSince[r], down)
      BY <2>2, <1>1, <1>3, Zenon DEF Trusted, ResolvedBy, Settled, Watched
    <2>4. QED BY <2>2, <2>3, BecomeIInv, Zenon DEF n
  <1>9. CASE c.surface = "explain" /\ n = [p EXCEPT !.pc = "explained", !.plan = ranked]
    <2>1. /\ n = [f \in Fields |-> n[f]] /\ n.pc = "explained" /\ n.healthy = p.healthy
          /\ n.plan = ranked /\ n.identity = None
      BY <1>9, <1>1, Zenon DEF Fields
    <2>2. Trusted(c, n) /\ Settled(c, n, group) /\ Watched(n, downSince[r], down)
      BY <2>1, <1>1, <1>4, Zenon DEF Trusted, Settled, Watched
    <2>3. QED BY <2>1, <2>2, BecomeIInv, Zenon DEF n
  <1>10. CASE /\ c.surface # "explain"
              /\ \E bounded \in SUBSET ranked :
                   n = [p EXCEPT !.pc = "prepared", !.plan = bounded,
                                 !.identity = Identity(c, p, group)]
    <2>1. PICK bounded \in SUBSET ranked :
            n = [p EXCEPT !.pc = "prepared", !.plan = bounded,
                          !.identity = Identity(c, p, group)]
      BY <1>10, Zenon
    <2>2. /\ n = [f \in Fields |-> n[f]] /\ n.pc = "prepared" /\ n.healthy = p.healthy
          /\ n.plan = bounded /\ n.identity = Identity(c, p, group)
      BY <2>1, <1>1, Zenon DEF Fields
    <2>3. Trusted(c, n)
      BY <2>2, Zenon DEF Trusted
    <2>4. Settled(c, n, group)
      BY <2>2, <1>4, <1>6, Zenon DEF Settled
    <2>5. Watched(n, downSince[r], down)
      BY <2>2, <1>1, <1>5, <1>10, Zenon DEF Watched, Endings
    <2>6. QED BY <2>2, <2>3, <2>4, <2>5, BecomeIInv, Zenon DEF n
  <1>11. QED BY <1>7, <1>8, <1>9, <1>10, Zenon

-----------------------------------------------------------------------------
\* The context resolved for a request is that of its binding.
LEMMA ResolveIInv == ASSUME IInv, NEW r \in Requests, Resolve(r) PROVE IInv'
  <1>1. pre[r].pc = "received" /\ pre[r].pc \notin Endings
    BY Zenon DEF Resolve, Endings
  <1>2. ASSUME NEW e \in Endings, End(r, e) PROVE IInv'
    BY <1>1, <1>2, EndIInv, Zenon
  <1>3. ASSUME NEW b \in Matches(claim[r].key), claim[r].workload \in b.workloads,
               NEW e \in {"projecting", "observing"},
               Become(r, [pre[r] EXCEPT !.context = Context(claim[r], b), !.pc = e])
        PROVE  IInv'
    <2> DEFINE n == [pre[r] EXCEPT !.context = Context(claim[r], b), !.pc = e]
    <2>1. /\ n = [f \in Fields |-> n[f]] /\ n.pc = e /\ n.context = Context(claim[r], b)
          /\ n.healthy = pre[r].healthy /\ n.plan = {} /\ n.identity = None
      BY <1>1, OnItsWay, Zenon DEF Fields
    <2>2. ResolvedBy(claim[r], n, b) /\ b \in Bindings
      BY <1>3, <2>1, Zenon DEF ResolvedBy, Matches
    <2>3. Trusted(claim[r], n)
      BY <2>1, <2>2, Zenon DEF Trusted
    <2>4. Settled(claim[r], n, pdp[r]) /\ Watched(n, downSince[r], down)
      BY <1>1, <2>1, OnItsWay, Zenon DEF Settled, Watched
    <2>5. QED BY <1>3, <2>1, <2>3, <2>4, BecomeIInv, Zenon
  <1>4. {"complexity_routing_unavailable", "invalid_gateway_credential",
         "gateway_client_not_authorized"} \subseteq Endings
    BY Zenon DEF Endings
  <1>5. \/ \E e \in Endings : End(r, e)
        \/ \E b \in Matches(claim[r].key) :
             /\ claim[r].workload \in b.workloads
             /\ \E e \in {"projecting", "observing"} :
                  Become(r, [pre[r] EXCEPT !.context = Context(claim[r], b), !.pc = e])
    BY <1>4, Zenon DEF Resolve
  <1>6. QED BY <1>2, <1>3, <1>5, Zenon

\* A deployment is believed healthy only if it is up now.
LEMMA ObserveIInv == ASSUME IInv, NEW r \in Requests, Observe(r) PROVE IInv'
  <1>1. pre[r].pc = "observing" /\ pre[r].pc \notin Endings
    BY Zenon DEF Observe, Endings
  <1>2. PICK d \in pre[r].unread :
          Become(r, [pre[r] EXCEPT
            !.unread = @ \ {d},
            !.healthy = IF d \in down THEN @ ELSE @ \cup {d},
            !.pc = IF pre[r].unread = {d} THEN "projecting" ELSE "observing"])
    BY Zenon DEF Observe
  <1> DEFINE n == [pre[r] EXCEPT
            !.unread = @ \ {d},
            !.healthy = IF d \in down THEN @ ELSE @ \cup {d},
            !.pc = IF pre[r].unread = {d} THEN "projecting" ELSE "observing"]
  <1>3. /\ n = [f \in Fields |-> n[f]] /\ n.pc \in {"projecting", "observing"}
        /\ n.context = pre[r].context /\ n.plan = {} /\ n.identity = None
        /\ n.healthy = IF d \in down THEN pre[r].healthy ELSE pre[r].healthy \cup {d}
    BY <1>1, OnItsWay, Zenon DEF Fields
  <1> HIDE DEF n
  <1>4. Trusted(claim[r], n)
    <2>1. PICK b \in Bindings : ResolvedBy(claim[r], pre[r], b)
      BY <1>1, Zenon DEF IInv, Trusted
    <2>2. ResolvedBy(claim[r], n, b)
      BY <2>1, <1>3, Zenon DEF ResolvedBy
    <2>3. QED BY <2>2, <1>3, Zenon DEF Trusted
  <1>5. Settled(claim[r], n, pdp[r])
    BY <1>3, Zenon DEF Settled
  <1>6. Watched(n, downSince[r], down)
    BY <1>1, <1>3, OnItsWay, Zenon DEF Watched
  <1>7. QED BY <1>2, <1>3, <1>4, <1>5, <1>6, BecomeIInv, Zenon DEF n

\* The ceilings sent to the PDP are those of the claims.
LEMMA ProjectIInv == ASSUME IInv, NEW r \in Requests, Project(r) PROVE IInv'
  <1> DEFINE ceilings == [cost |-> Ceiling(claim[r].cost, Defaults.cost),
                          latency |-> Ceiling(claim[r].latency, Defaults.latency)]
             n == [pre[r] EXCEPT !.policy = ceilings, !.pc = "asking"]
  <1>1. pre[r].pc = "projecting" /\ pre[r].pc \notin Endings
    BY Zenon DEF Project, Endings
  <1>2. ASSUME NEW e \in Endings, End(r, e) PROVE IInv'
    BY <1>1, <1>2, EndIInv, Zenon
  <1>3. CASE Become(r, n)
    <2>1. /\ n = [f \in Fields |-> n[f]] /\ n.pc = "asking" /\ n.policy = ceilings
          /\ n.context = pre[r].context /\ n.healthy = pre[r].healthy
          /\ n.plan = {} /\ n.identity = None
      BY <1>1, OnItsWay, Zenon DEF Fields
    <2> HIDE DEF n
    <2>2. Trusted(claim[r], n)
      <3>1. PICK b \in Bindings : ResolvedBy(claim[r], pre[r], b)
        BY <1>1, Zenon DEF IInv, Trusted
      <3>2. ResolvedBy(claim[r], n, b)
        BY <3>1, <2>1, Zenon DEF ResolvedBy
      <3>3. QED BY <3>2, <2>1, Zenon DEF Trusted
    <2>3. Settled(claim[r], n, pdp[r]) /\ Watched(n, downSince[r], down)
      BY <1>1, <2>1, OnItsWay, Zenon DEF Settled, Watched
    <2>4. QED BY <1>3, <2>1, <2>2, <2>3, BecomeIInv, Zenon
  <1>4. {"invalid_policy_projection", "invalid_generation_request",
         "policy_router_authentication_failed"} \subseteq Endings
    BY Zenon DEF Endings
  <1>5. (\E e \in Endings : End(r, e)) \/ Become(r, n)
    BY <1>4, Zenon DEF Project
  <1>6. QED BY <1>2, <1>3, <1>5, Zenon

\* Only an answer about the request itself is accepted.
LEMMA AnsweredIInv == ASSUME IInv, NEW r \in Requests, Answered(r) PROVE IInv'
  <1>1. pre[r].pc = "asking" /\ pre[r].pc \notin Endings /\ "policy_router_unavailable" \in Endings
    BY Zenon DEF Answered, Endings
  <1>2. \/ Become(r, Routed(claim[r], pre[r], pdp[r]))
        \/ End(r, "policy_router_unavailable")
    BY Zenon DEF Answered, Correlated
  <1>3. QED BY <1>1, <1>2, RoutedIInv, EndIInv, Zenon

\* The PDP decides while the request has no plan yet.
LEMMA DecideIInv == ASSUME IInv, NEW r \in Requests, Decide(r) PROVE IInv'
  <1>1. PICK decision : pdp' = [pdp EXCEPT ![r] = decision]
    BY Zenon DEF Decide
  <1>2. pre[r].pc = "asking" /\ UNCHANGED <<claim, pre, down, downSince>>
    BY Zenon DEF Decide
  <1>3. Shape'
    BY <1>1, <1>2, Zenon DEF IInv, Shape
  <1>4. ASSUME NEW q \in Requests
        PROVE  /\ Trusted(claim'[q], pre'[q])
               /\ Settled(claim'[q], pre'[q], pdp'[q])
               /\ Watched(pre'[q], downSince'[q], down')
    <2>1. CASE q = r
      <3>1. pre[r].plan = {} /\ pre[r].identity = None
        BY <1>2, OnItsWay, Zenon DEF Endings
      <3>2. Settled(claim[r], pre[r], pdp'[r])
        BY <3>1, Zenon DEF Settled
      <3>3. QED BY <3>2, <2>1, <1>2, Zenon DEF IInv
    <2>2. CASE q # r
      <3>1. pdp'[q] = pdp[q]
        BY <1>1, <2>2, Zenon DEF IInv, Shape
      <3>2. QED BY <3>1, <1>2, Zenon DEF IInv
    <2>3. QED BY <2>1, <2>2, Zenon
  <1>5. QED BY <1>3, <1>4, Zenon DEF IInv

\* A circuit that changes is not among those down all along.
LEMMA FlipIInv == ASSUME IInv, NEW d \in Volatile, Flip(d) PROVE IInv'
  <1>1. /\ UNCHANGED <<claim, pre, pdp>>
        /\ down' = IF d \in down THEN down \ {d} ELSE down \cup {d}
        /\ downSince' = [r \in Requests |->
             IF pre[r].pc \in Endings THEN downSince[r] ELSE downSince[r] \ {d}]
    BY Zenon DEF Flip
  <1>2. Shape'
    BY <1>1, Zenon DEF IInv, Shape
  <1>3. ASSUME NEW q \in Requests PROVE Watched(pre'[q], downSince'[q], down')
    <2>1. downSince'[q] = IF pre[q].pc \in Endings THEN downSince[q] ELSE downSince[q] \ {d}
      BY <1>1, Zenon
    <2>2. Watched(pre[q], downSince[q], down)
      BY Zenon DEF IInv
    <2>3. Watched(pre[q], downSince'[q], down')
      BY <1>1, <2>1, <2>2, Zenon DEF Watched
    <2>4. QED BY <1>1, <2>3, Zenon
  <1>4. ASSUME NEW q \in Requests
        PROVE  Trusted(claim'[q], pre'[q]) /\ Settled(claim'[q], pre'[q], pdp'[q])
    BY <1>1, Zenon DEF IInv
  <1>5. QED BY <1>2, <1>3, <1>4, Zenon DEF IInv

\* Every step keeps the invariant.
LEMMA NextIInv == IInv /\ [Next]_vars => IInv'
  <1> SUFFICES ASSUME IInv, [Next]_vars PROVE IInv'
    BY Zenon
  <1>1. ASSUME NEW r \in Requests, Step(r) PROVE IInv'
    <2>1. CASE ObserveFails(r)
      BY <2>1, EndIInv, Zenon DEF ObserveFails, Endings
    <2>2. CASE Refused(r)
      <3>1. pre[r].pc \notin Endings
        BY <2>2, Zenon DEF Refused, Refusals, Endings
      <3>2. \E e \in Endings : End(r, e)
        BY <2>2, Zenon DEF Refused, Refusals, Endings
      <3>3. QED BY <3>1, <3>2, EndIInv, Zenon
    <2>3. QED
      BY <1>1, <2>1, <2>2, ResolveIInv, ObserveIInv, ProjectIInv, AnsweredIInv, Zenon DEF Step
  <1>2. ASSUME NEW r \in Requests, Decide(r) PROVE IInv'
    BY <1>2, DecideIInv, Zenon
  <1>3. ASSUME NEW r \in Requests, Expire(r) PROVE IInv'
    BY <1>3, EndIInv, Zenon DEF Expire, Endings
  <1>4. ASSUME NEW d \in Volatile, Flip(d) PROVE IInv'
    BY <1>4, FlipIInv, Zenon
  <1>5. CASE UNCHANGED vars
    BY <1>5, Zenon DEF vars, IInv, Shape
  <1>6. QED BY <1>1, <1>2, <1>3, <1>4, <1>5, Zenon DEF Next

-----------------------------------------------------------------------------
\* A request is only given deployments that the PDP's decision about it, its
\* client's binding and its own claims all allow.
THEOREM PlansAreAuthorized == Spec => []PlanIsAuthorized
  <1>1. IInv => PlanIsAuthorized
    BY Zenon DEF IInv, Settled, Authorized, PlanIsAuthorized
  <1>2. QED BY <1>1, InitIInv, NextIInv, PTL DEF Spec

\* A plan never names a deployment that was down all through the preflight.
THEOREM LastingOutagesAreAvoided == Spec => []NeverPlansALastingOutage
  <1>1. IInv => NeverPlansALastingOutage
    BY Zenon DEF IInv, Watched, NeverPlansALastingOutage
  <1>2. QED BY <1>1, InitIInv, NextIInv, PTL DEF Spec

\* A cache entry is shared only within one client, public data and one group.
THEOREM CacheScopesAreAuthorized == Spec => []CacheScopeIsAuthorized
  <1>1. IInv => CacheScopeIsAuthorized
    <2> SUFFICES ASSUME IInv, NEW r \in Requests, NEW q \in Requests,
                        pre[r].identity # None, pre[r].identity = pre[q].identity
                 PROVE  /\ pdp[r] = pdp[q]
                        /\ \E b \in Bindings :
                             /\ b.credential = claim[r].key /\ b.credential = claim[q].key
                             /\ b.classification = 0
                        /\ claim[r].classification = 0
      BY Zenon DEF CacheScopeIsAuthorized
    <2>1. /\ ScopedTo(claim[r], pre[r].identity, pdp[r])
          /\ ScopedTo(claim[q], pre[r].identity, pdp[q])
      BY Zenon DEF IInv, Settled
    <2>2. QED BY <2>1, BindingAssumption, Zenon DEF ScopedTo
  <1>2. QED BY <1>1, InitIInv, NextIInv, PTL DEF Spec


-----------------------------------------------------------------------------

\* The handle of the validation owner.
OwnerHandle == [attempt |-> owner, generation |-> current, fence |-> fence]

HandedOut ==
  /\ owner # NoAttempt => OwnerHandle \in handles
  /\ receipt # NoReceipt => receipt \in receipts

EpochsGrow ==
  \A g \in published : current # NoGeneration /\ Epoch[g] <= Epoch[current]

HandlesArePublished ==
  \A h \in handles :
    /\ h.generation \in published
    /\ h.fence = NoFence /\ h.generation = current => state \in {"available", "quarantined"}

CredentialInv == TypeOK /\ RecordIsValid /\ HandedOut /\ EpochsGrow /\ HandlesArePublished

-----------------------------------------------------------------------------
\* The initial state satisfies the inductive invariant.
LEMMA InitCredentialInv == CredentialInit => CredentialInv
  BY CredentialAssumption
     DEF CredentialInit, CredentialInv, TypeOK, RecordIsValid, HandedOut, EpochsGrow, HandlesArePublished

\* publish keeps the invariant: a token with a larger epoch than every
\* published one starts without owner or receipt.
LEMMA PublishCredentialInv ==
  ASSUME CredentialInv, NEW g \in Generations, NEW e \in Generations \cup {NoGeneration}, Publish(g, e)
  PROVE  CredentialInv'
  <1> USE CredentialAssumption DEF CredentialInv, Publish, PublishedState, Advances
  <1>1. TypeOK' BY DEF TypeOK
  <1>2. RecordIsValid' BY Zenon DEF TypeOK, RecordIsValid
  <1>3. HandedOut' BY Zenon DEF HandedOut
  <1>4. EpochsGrow' BY DEF TypeOK, EpochsGrow
  <1>5. g \notin published BY DEF TypeOK, EpochsGrow
  <1>6. HandlesArePublished' BY <1>5, Zenon DEF HandlesArePublished
  <1>7. QED BY <1>1, <1>2, <1>3, <1>4, <1>6, Zenon

\* record_rejection keeps the invariant: it quarantines exactly the material.
LEMMA RejectionCredentialInv ==
  ASSUME CredentialInv, NEW g \in Generations, RecordRejection(g)
  PROVE  CredentialInv'
  <1> USE CredentialAssumption DEF CredentialInv, RecordRejection, Quarantines
  <1>1. current \in Generations BY Zenon DEF TypeOK, EpochsGrow
  <1>2. TypeOK' BY DEF TypeOK
  <1>3. RecordIsValid' BY <1>1, Zenon DEF TypeOK, RecordIsValid
  <1>4. HandedOut' BY Zenon DEF HandedOut, OwnerHandle
  <1>5. EpochsGrow' BY Zenon DEF EpochsGrow
  <1>6. HandlesArePublished' BY Zenon DEF HandlesArePublished
  <1>7. QED BY <1>2, <1>3, <1>4, <1>5, <1>6, Zenon

\* admit keeps the invariant: a handle for an available generation, or the
\* owner's handle.
LEMMA AdmitCredentialInv ==
  ASSUME CredentialInv, NEW a \in Attempts, NEW g \in Generations, NEW f \in Fences, Admit(a, g, f)
  PROVE  CredentialInv'
  <1> USE CredentialAssumption DEF CredentialInv, Admit, Admissible
  <1>1. current = g /\ g \in published BY Zenon DEF RecordIsValid
  <1>2. CASE state = "available"
    <2> USE <1>2
    <2>1. handles' = handles \cup {[attempt |-> a, generation |-> g, fence |-> NoFence]}
          /\ UNCHANGED <<current, state, owner, fence, left, receipt, published, rejected, receipts>>
      BY Zenon
    <2>2. TypeOK' BY <2>1 DEF TypeOK, Handles
    <2>3. RecordIsValid' BY <2>1, Zenon DEF RecordIsValid
    <2>4. HandedOut' BY <2>1, Zenon DEF HandedOut, OwnerHandle
    <2>5. EpochsGrow' BY <2>1, Zenon DEF EpochsGrow
    <2>6. HandlesArePublished' BY <1>1, <2>1 DEF HandlesArePublished
    <2>7. QED BY <2>2, <2>3, <2>4, <2>5, <2>6, Zenon
  <1>3. CASE state # "available"
    <2> USE <1>3
    <2>1. /\ state' = "validating" /\ owner' = a /\ left' = LeftAdmitted(a)
          /\ fence' = IF LiveOwner THEN fence ELSE f
          /\ handles' = handles \cup {[attempt |-> a, generation |-> g, fence |-> fence']}
          /\ UNCHANGED <<current, receipt, published, rejected, receipts>>
      BY Zenon
    <2>2. fence' \in Fences BY <2>1, Zenon DEF TypeOK, RecordIsValid, LiveOwner
    <2>3. left' \in 0..Lease BY <2>1 DEF TypeOK, LeftAdmitted
    <2>4. TypeOK' BY <2>1, <2>2, <2>3 DEF TypeOK, Handles
    <2>5. RecordIsValid' BY <1>1, <2>1, <2>2, Zenon DEF RecordIsValid
    <2>6. HandedOut' BY <1>1, <2>1, Zenon DEF HandedOut, OwnerHandle
    <2>7. EpochsGrow' BY <2>1, Zenon DEF EpochsGrow
    <2>8. HandlesArePublished' BY <1>1, <2>1, <2>2 DEF HandlesArePublished, RecordIsValid
    <2>9. QED BY <2>4, <2>5, <2>6, <2>7, <2>8, Zenon
  <1>4. QED BY <1>2, <1>3, Zenon

\* release keeps the invariant: only an owner is released.
LEMMA ReleaseCredentialInv ==
  ASSUME CredentialInv, NEW h \in handles, Release(h)
  PROVE  CredentialInv'
  <1> USE CredentialAssumption DEF CredentialInv, Release, MatchesOwner
  <1>1. owner # NoAttempt BY Zenon DEF TypeOK, Handles
  <1>2. TypeOK' BY DEF TypeOK
  <1>3. RecordIsValid' BY <1>1, Zenon DEF RecordIsValid
  <1>4. HandedOut' BY Zenon DEF HandedOut
  <1>5. EpochsGrow' BY Zenon DEF EpochsGrow
  <1>6. HandlesArePublished' BY <1>1, Zenon DEF HandlesArePublished, RecordIsValid
  <1>7. QED BY <1>2, <1>3, <1>4, <1>5, <1>6, Zenon

\* complete_validation keeps the invariant: the receipt is of the current
\* generation and is handed out.
LEMMA CompleteCredentialInv ==
  ASSUME CredentialInv, NEW h \in handles, NEW f \in Fences, Complete(h, f)
  PROVE  CredentialInv'
  <1> DEFINE r == [attempt |-> h.attempt, generation |-> current, fence |-> h.fence,
                   completion |-> f]
  <1> USE CredentialAssumption DEF CredentialInv, Complete, Completes, Owns, LiveOwner
  <1>1. r \in Receipts BY Zenon DEF TypeOK, Handles, Receipts
  <1>2. r # NoReceipt /\ r.generation = current BY <1>1, Zenon
  <1>3. TypeOK' BY <1>1 DEF TypeOK
  <1>4. RecordIsValid' BY <1>2, Zenon DEF RecordIsValid
  <1>5. HandedOut' BY Zenon DEF HandedOut
  <1>6. EpochsGrow' BY Zenon DEF EpochsGrow
  <1>7. HandlesArePublished' BY Zenon DEF HandlesArePublished
  <1>8. QED BY <1>3, <1>4, <1>5, <1>6, <1>7, Zenon

\* The clock keeps the invariant.
LEMMA TickCredentialInv == ASSUME CredentialInv, Tick PROVE CredentialInv'
  <1>1. /\ left > 0 /\ left' = left - 1 /\ left \in 0..Lease
        /\ UNCHANGED <<current, state, owner, fence, receipt, published, rejected, handles, receipts>>
    BY Zenon DEF CredentialInv, TypeOK, Tick
  <1>2. left' \in 0..Lease
    BY <1>1, CredentialAssumption
  <1>3. TypeOK' /\ EpochsGrow' /\ HandlesArePublished'
    BY <1>1, <1>2, Zenon DEF CredentialInv, TypeOK, EpochsGrow, HandlesArePublished
  <1>4. RecordIsValid' /\ HandedOut'
    BY <1>1, Zenon DEF CredentialInv, RecordIsValid, HandedOut, OwnerHandle
  <1>5. QED BY <1>3, <1>4, Zenon DEF CredentialInv

\* Every step keeps the inductive invariant.
LEMMA NextCredentialInv == CredentialInv /\ [CredentialNext]_credentialVars => CredentialInv'
  <1> SUFFICES ASSUME CredentialInv, [CredentialNext]_credentialVars PROVE CredentialInv'
    BY Zenon
  <1>1. CASE \E g \in Generations : \E e \in Generations \cup {NoGeneration} : Publish(g, e)
    BY <1>1, PublishCredentialInv, Zenon
  <1>2. CASE \E g \in Generations : RecordRejection(g)
    BY <1>2, RejectionCredentialInv, Zenon
  <1>3. CASE \E a \in Attempts : \E g \in Generations : \E f \in FreshFences : Admit(a, g, f)
    BY <1>3, AdmitCredentialInv, Zenon DEF FreshFences
  <1>4. CASE \E h \in handles : Release(h)
    BY <1>4, ReleaseCredentialInv, Zenon
  <1>5. CASE \E h \in handles : \E f \in FreshFences : Complete(h, f)
    BY <1>5, CompleteCredentialInv, Zenon DEF FreshFences
  <1>6. CASE Tick
    BY <1>6, TickCredentialInv, Zenon
  <1>7. CASE UNCHANGED credentialVars
    BY <1>7, Zenon DEF credentialVars, CredentialInv, TypeOK, RecordIsValid, HandedOut, OwnerHandle, EpochsGrow,
       HandlesArePublished
  <1>8. QED BY <1>1, <1>2, <1>3, <1>4, <1>5, <1>6, <1>7, Zenon DEF CredentialNext

\* The inductive invariant holds throughout.
LEMMA SpecCredentialInv == CredentialSpec => []CredentialInv
  BY InitCredentialInv, NextCredentialInv, PTL DEF CredentialSpec

-----------------------------------------------------------------------------
\* The variables of the store stay within their types.
THEOREM TypeCorrect == CredentialSpec => []TypeOK
  <1>1. CredentialInv => TypeOK BY Zenon DEF CredentialInv
  <1>2. QED BY <1>1, SpecCredentialInv, PTL

\* Whatever the workers and the controller do, the store never reaches a record
\* that _record refuses.
THEOREM RecordAlwaysValid == CredentialSpec => []RecordIsValid
  <1>1. CredentialInv => RecordIsValid BY Zenon DEF CredentialInv
  <1>2. QED BY <1>1, SpecCredentialInv, PTL

\* Rejected material is never admitted or current again, under any token.
THEOREM RejectionIsFinal == CredentialSpec => []RejectedNeverServes
  <1>1. CredentialInv => RejectedNeverServes
    <2> SUFFICES ASSUME CredentialInv PROVE RejectedNeverServes
      BY Zenon
    <2>1. ASSUME NEW h \in handles, Material[h.generation] \in rejected PROVE ~IsAdmitted(h)
      <3> SUFFICES ASSUME h.generation = current PROVE ~IsAdmitted(h)
        BY Zenon DEF IsAdmitted
      <3>1. state = "quarantined" /\ owner = NoAttempt
        BY <2>1, CredentialAssumption, Zenon DEF CredentialInv, TypeOK, Handles, RecordIsValid
      <3>2. QED BY <3>1, Zenon DEF IsAdmitted, Owns, LiveOwner
    <2>2. ASSUME NEW r \in receipts, Material[r.generation] \in rejected PROVE ~IsCompletionCurrent(r)
      BY <2>2, CredentialAssumption, Zenon DEF CredentialInv, TypeOK, Receipts, RecordIsValid, IsCompletionCurrent
    <2>3. QED BY <2>1, <2>2, Zenon DEF RejectedNeverServes
  <1>2. QED BY <1>1, SpecCredentialInv, PTL

\* Only the live owner's completion makes a generation available.
LEMMA NextPromotion == CredentialInv /\ [CredentialNext]_credentialVars => PromotionStep
  <1> SUFFICES ASSUME CredentialInv, [CredentialNext]_credentialVars, state # "available", state' = "available"
               PROVE  current' = current /\ \E h \in handles : Owns(h)
    BY Zenon DEF PromotionStep
  <1>1. PICK h \in handles : \E f \in FreshFences : Complete(h, f)
    BY Zenon DEF CredentialNext, credentialVars, Publish, PublishedState, RecordRejection, Admit, Release, Tick
  <1>2. QED BY <1>1, Zenon DEF Complete, Completes

\* In every behaviour, only the live owner promotes.
THEOREM PromotionByLiveOwner == CredentialSpec => OnlyLiveOwnerPromotes
  <1>1. QED BY SpecCredentialInv, NextPromotion, PTL DEF CredentialSpec, OnlyLiveOwnerPromotes

-----------------------------------------------------------------------------
\* A dead handle is not revived by any step of the store: a later claim has a
\* fence no handle carries, a later token an epoch no handle's token has.
LEMMA HandleStaysDead ==
  ASSUME CredentialInv, [CredentialNext]_credentialVars, NEW h \in handles, ~IsAdmitted(h)
  PROVE  ~IsAdmitted(h)'
  <1> USE CredentialAssumption DEF CredentialInv, IsAdmitted, Owns, LiveOwner, MatchesOwner
  <1>0. h \in Handles /\ h.generation \in published BY Zenon DEF TypeOK, HandlesArePublished
  <1>1. ASSUME NEW g \in Generations, NEW e \in Generations \cup {NoGeneration}, Publish(g, e)
        PROVE  ~IsAdmitted(h)'
    <2>1. owner' = NoAttempt /\ state' = PublishedState(g) BY <1>1, Zenon DEF Publish
    <2>2. state' # "available" BY <2>1, Zenon DEF PublishedState
    <2>3. QED BY <2>1, <2>2, Zenon
  <1>2. ASSUME NEW g \in Generations, RecordRejection(g) PROVE ~IsAdmitted(h)'
    BY <1>2, Zenon DEF RecordRejection
  <1>3. ASSUME NEW a \in Attempts, NEW g \in Generations, NEW f \in FreshFences, Admit(a, g, f)
        PROVE  ~IsAdmitted(h)'
    <2>1. h.fence # f BY Zenon DEF FreshFences, UsedFences
    <2>2. CASE h.fence = NoFence BY <1>3, <2>2, Zenon DEF Admit, Admissible
    <2>3. CASE h.fence # NoFence
      <3>1. CASE state = "available" BY <1>3, <2>3, <3>1, Zenon DEF Admit, RecordIsValid
      <3>2. CASE state # "available"
        BY <1>3, <2>1, <2>3, <3>2, Zenon DEF Admit, Admissible, LeftAdmitted
      <3>3. QED BY <3>1, <3>2, Zenon
    <2>4. QED BY <2>2, <2>3, Zenon
  <1>4. ASSUME NEW k \in handles, Release(k) PROVE ~IsAdmitted(h)'
    BY <1>4, <1>0, Zenon DEF Release, Handles
  <1>5. ASSUME NEW k \in handles, NEW f \in FreshFences, Complete(k, f) PROVE ~IsAdmitted(h)'
    <2>1. state = "validating" BY <1>5, Zenon DEF Complete, Completes, RecordIsValid
    <2>2. ~(h.fence = NoFence /\ h.generation = current) BY <2>1, Zenon DEF HandlesArePublished
    <2>3. QED BY <1>5, <2>2, Zenon DEF Complete
  <1>6. CASE Tick BY <1>6, Zenon DEF Tick, TypeOK
  <1>7. CASE UNCHANGED credentialVars BY <1>7, Zenon DEF credentialVars
  <1>8. QED BY <1>1, <1>2, <1>3, <1>4, <1>5, <1>6, <1>7, Zenon DEF CredentialNext

\* Nor is a receipt: a later completion has a fence no receipt carries.
LEMMA ReceiptStaysDead ==
  ASSUME CredentialInv, [CredentialNext]_credentialVars, NEW r \in receipts, ~IsCompletionCurrent(r)
  PROVE  ~IsCompletionCurrent(r)'
  <1> USE CredentialAssumption DEF CredentialInv, IsCompletionCurrent
  <1>0. r \in Receipts /\ r # NoReceipt BY Zenon DEF TypeOK
  <1>1. CASE \E h \in handles : \E f \in FreshFences : Complete(h, f)
    <2>1. PICK h \in handles, f \in FreshFences : Complete(h, f) BY <1>1, Zenon
    <2>2. r.completion # f BY Zenon DEF FreshFences, UsedFences
    <2>3. receipt'.completion = f BY <2>1, Zenon DEF Complete
    <2>4. QED BY <2>2, <2>3, Zenon
  <1>2. CASE ~\E h \in handles : \E f \in FreshFences : Complete(h, f)
    <2>1. receipt' \in {receipt, NoReceipt} /\ (receipt' = receipt /\ state' = "available" => state = "available")
      BY <1>2, Zenon DEF CredentialNext, credentialVars, Publish, PublishedState, RecordRejection, Admit, Release, Tick
    <2>2. QED BY <1>0, <2>1, Zenon
  <1>3. QED BY <1>1, <1>2, Zenon

\* Handles and receipts that lost their force never regain it.
THEOREM DeadStaysDead == CredentialSpec => RetiredStaysRetired
  <1>1. CredentialInv /\ [CredentialNext]_credentialVars => RetirementStep
    BY HandleStaysDead, ReceiptStaysDead, Zenon DEF RetirementStep
  <1>2. QED BY <1>1, SpecCredentialInv, PTL DEF CredentialSpec, RetiredStaysRetired
=============================================================================
