---------------------------- MODULE SpendLedger ----------------------------
(***************************************************************************)
(* The spend guard and its shared ledger (application/spend.py,            *)
(* domain/spend.py, adapters/spend_redis.py).  Before a call is made the   *)
(* guard reads the bucket of every limit that governs it, one await each,  *)
(* and refuses when one has reached its limit or cannot be read.  After    *)
(* the call it adds the estimated cost to every bucket, best effort.  A    *)
(* bucket belongs to one limit and one window, and its key expires some    *)
(* days after the last addition.                                           *)
(*                                                                         *)
(* Amounts of the estimate are in tenths of a micro-USD, so that its       *)
(* rounding to whole micros shows.                                         *)
(***************************************************************************)
EXTENDS Integers, Sequences

CONSTANTS Calls,        \* the calls that consult the guard
          Client, Workload, \* the attribution of each call
          AnyWorkload,  \* a limit that names no workload
          Limits,       \* the limits in the order of their scopes
          Amounts,      \* estimated costs in tenths of a micro-USD
          NoAmount,     \* amount_usd is None
          DaysPerMonth, \* the longest month
          Dates         \* bound: the dates on which anything happens

ASSUME LedgerAssumption ==
  /\ DaysPerMonth \in 1..31 /\ Dates \subseteq Nat /\ 0 \in Dates
  /\ Amounts \subseteq Nat /\ NoAmount \notin Amounts
  /\ \A l \in 1..Len(Limits) : Limits[l].micros \in Nat

VARIABLES enabled,  \* the policy is enabled and has a ledger
          bucket,   \* bucket[l][w]: what limit l's key for window w holds
          spent,    \* history: what was ever added to it
          call,     \* the progress of each call
          date

lvars == <<enabled, bucket, spent, call, date>>

Scoped == 1..Len(Limits)

\* Dates are grouped by the window of a limit: key_for.
WindowKey(l, d) == IF Limits[l].window = "daily" THEN d ELSE d \div DaysPerMonth

Windows(l) == {WindowKey(l, d) : d \in Dates}

\* Seeded fault: every bucket is retained like a daily one.
RetainedAsDaily(l) == 2

\* retention_seconds, in days.
RetentionDays(l) == IF Limits[l].window = "daily" THEN 2 ELSE 48

\* SpendLimit.applies_to.
AppliesTo(l, c) ==
  Limits[l].client = Client[c] /\ Limits[l].workload \in {AnyWorkload, Workload[c]}

\* limits_for.
LimitsFor(c) == {l \in Scoped : AppliesTo(l, c)}

\* Limit l comes first of those in S, in the order of the scopes.
IsFirst(l, S) == l \in S /\ \A k \in S : l <= k

\* to_micro_usd: half up at the sixth decimal.
ToMicros(tenths) == (tenths + 5) \div 10

Empty == [micros |-> 0, expires |-> 0]

NewCall == [pc |-> "new", due |-> {}, today |-> 0, micros |-> 0, exhausted |-> {}]

LedgerInit ==
  /\ enabled \in BOOLEAN /\ date = 0
  /\ bucket = [l \in Scoped |-> [w \in Windows(l) |-> Empty]]
  /\ spent = [l \in Scoped |-> [w \in Windows(l) |-> 0]]
  /\ call = [c \in Calls |-> NewCall]

-----------------------------------------------------------------------------
\* evaluate_limit: a limit is exhausted once spend has reached it.
Exhausted(l, micros) == micros >= Limits[l].micros

\* check: an inactive guard, and a call no limit governs, is let through.
Check(c) ==
  /\ call[c].pc = "new"
  /\ call' = [call EXCEPT ![c].today = date,
       ![c].pc = IF enabled /\ LimitsFor(c) # {} THEN "reading" ELSE "allowed",
       ![c].due = IF enabled THEN LimitsFor(c) ELSE {},
       ![c].exhausted = {l \in LimitsFor(c) : enabled
                                               /\ Exhausted(l, spent[l][WindowKey(l, date)])}]
  /\ UNCHANGED <<enabled, bucket, spent, date>>

\* One bucket is read; the first exhausted limit refuses.
Read(c, l) ==
  LET over == Exhausted(l, bucket[l][WindowKey(l, call[c].today)].micros)
      rest == call[c].due \ {l}
  IN  /\ call[c].pc = "reading" /\ IsFirst(l, call[c].due)
      /\ call' = [call EXCEPT ![c].due = IF over THEN {} ELSE rest,
                              ![c].pc = IF over THEN "refused"
                                        ELSE IF rest = {} THEN "allowed" ELSE "reading"]
      /\ UNCHANGED <<enabled, bucket, spent, date>>

\* A bucket that cannot be read, or is no integer, fails the check closed.
ReadFails(c) ==
  /\ call[c].pc = "reading"
  /\ call' = [call EXCEPT ![c].pc = "unavailable", ![c].due = {}]
  /\ UNCHANGED <<enabled, bucket, spent, date>>

\* record: a cached answer, an unknown estimate and one that rounds to nothing
\* leave no trace.
Record(c, amount, cached) ==
  LET micros == IF cached \/ amount = NoAmount THEN 0 ELSE ToMicros(amount)
      added == IF enabled /\ micros > 0 THEN LimitsFor(c) ELSE {}
  IN  /\ call[c].pc = "allowed"
      /\ call' = [call EXCEPT ![c].today = date, ![c].micros = micros, ![c].due = added,
                              ![c].pc = IF added # {} THEN "adding" ELSE "done"]
      /\ UNCHANGED <<enabled, bucket, spent, date>>

\* The call goes on with the limit after l, or is done.
Advanced(c, l) ==
  LET rest == call[c].due \ {l}
  IN  [call EXCEPT ![c].due = rest, ![c].pc = IF rest = {} THEN "done" ELSE "adding"]

\* add_micros: the script adds and renews the expiry in one step.
Add(c, l) ==
  LET w == WindowKey(l, call[c].today)
  IN  /\ call[c].pc = "adding" /\ IsFirst(l, call[c].due)
      /\ bucket' = [bucket EXCEPT ![l][w] =
                      [micros |-> @.micros + call[c].micros, expires |-> date + RetentionDays(l)]]
      /\ spent' = [spent EXCEPT ![l][w] = @ + call[c].micros]
      /\ call' = Advanced(c, l)
      /\ UNCHANGED <<enabled, date>>

\* An addition that fails is swallowed: the caller has its answer.
AddFails(c, l) ==
  /\ call[c].pc = "adding" /\ IsFirst(l, call[c].due)
  /\ call' = Advanced(c, l)
  /\ UNCHANGED <<enabled, bucket, spent, date>>

\* The key of a bucket expires in the course of its last day.
ExpireKey(l, w) ==
  /\ bucket[l][w].micros > 0 /\ bucket[l][w].expires = date
  /\ bucket' = [bucket EXCEPT ![l][w] = Empty]
  /\ UNCHANGED <<enabled, spent, call, date>>

\* Days pass; keys past their last day are gone.  A check spans one midnight
\* at most.
PassTo(d) ==
  /\ d > date
  /\ \A c \in Calls : call[c].pc = "reading" => d = date + 1 /\ call[c].today = date
  /\ date' = d
  /\ bucket' = [l \in Scoped |-> [w \in Windows(l) |->
                  IF bucket[l][w].expires < d THEN Empty ELSE bucket[l][w]]]
  /\ UNCHANGED <<enabled, spent, call>>

LedgerNext ==
  \/ \E c \in Calls :
       \/ Check(c) \/ ReadFails(c)
       \/ \E l \in call[c].due : Read(c, l) \/ Add(c, l) \/ AddFails(c, l)
       \/ \E a \in Amounts \cup {NoAmount}, cached \in BOOLEAN : Record(c, a, cached)
  \/ \E l \in Scoped : \E w \in Windows(l) : ExpireKey(l, w)
  \/ \E d \in Dates : PassTo(d)

LedgerSpec == LedgerInit /\ [][LedgerNext]_lvars

-----------------------------------------------------------------------------
(* Correctness.                                                            *)

\* A budget that has been spent stays spent for its window: a call whose check
\* begins when the recorded spend of a governing limit has reached it is never
\* let through, by whichever replica, across an expiring key, a change of date
\* during the check, or additions that fail.
SpentBudgetRefuses ==
  \A c \in Calls :
    call[c].pc \in {"allowed", "adding", "done"} => call[c].exhausted = {}
=============================================================================
