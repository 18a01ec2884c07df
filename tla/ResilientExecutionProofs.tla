----------------------- MODULE ResilientExecutionProofs -----------------------
(***************************************************************************)
(* Proofs about ResilientExecution, for any deployments, executions,       *)
(* generations, breaker policy and settings.                               *)
(*                                                                         *)
(* A step of the model changes one execution (or, for a tick, what is left *)
(* of every budget).  So the argument first says what a step may make of   *)
(* one execution (Move), and then what each such move preserves.  The      *)
(* settings are a parameter st of these definitions, x and y are           *)
(* executions before and after.                                            *)
(***************************************************************************)
EXTENDS ResilientExecution, TLAPS

Resting == {"idle"} \cup Outcomes
Busy == {"head"} \cup Waiting

\* The types of an execution's fields, without the bounds of Executions.
RawExecution ==
  [pc : Resting \cup Busy, plan : Seq(Deployments), i : Nat, n : Nat,
   tried : Seq(Deployments), calls : [Deployments -> Nat], transient : BOOLEAN,
   after : {"none", "retry", "next"} \cup Outcomes, left : Nat, unaccounted : BOOLEAN]

Current(x) == x.plan[x.i]
Spent(st, x) == st.timeout # 0 /\ x.left = 0

\* The candidates of a plan differ, are authorized and are bounded.
SoundPlan(st, p) ==
  /\ p \in Seq(st.served) /\ Len(p) <= st.fallbacks + 1
  /\ \A j \in 1..Len(p) : p[j] \in st.authorized
  /\ \A j, k \in 1..Len(p) : p[j] = p[k] => j = k

\* The attempt is not over, or the execution goes on after it.
GoesOn(x) == x.pc = "releasing" => x.after \in {"retry", "next"}

\* The current candidate has been called.
Reached(x) ==
  \/ x.pc \in {"head", "admitting"} /\ x.n > 1
  \/ x.pc \in InTry \cup {"reporting", "deciding", "sleeping"}
  \/ x.pc = "releasing" /\ x.after \in {"retry", "next"}

\* tried lists the deployments called, each once.
ListsCalled(tried, calls) ==
  /\ \A j \in 1..Len(tried) : calls[tried[j]] > 0
  /\ \A d \in Deployments : calls[d] > 0 => \E j \in 1..Len(tried) : tried[j] = d
  /\ \A j, k \in 1..Len(tried) : tried[j] = tried[k] => j = k

\* Only candidates up to the current one were called, each within the bound,
\* and the current one not yet in an attempt that was not admitted.
CallsInv(st, x) ==
  /\ \A d \in Deployments : x.calls[d] > 0 => \E j \in 1..x.i : x.plan[j] = d
  /\ \A d \in Deployments : x.calls[d] <= st.attempts
  /\ x.calls[Current(x)] <= IF x.pc \in {"head", "admitting"} THEN x.n - 1 ELSE x.n

\* What the execution has listed agrees with its calls.
ListInv(x) ==
  /\ GoesOn(x) => ListsCalled(x.tried, x.calls)
  /\ Reached(x) => /\ x.calls[Current(x)] > 0 /\ x.tried # <<>>
                   /\ x.tried[Len(x.tried)] = Current(x)

\* Where a running execution stands.
PlaceInv(st, x) ==
  /\ SoundPlan(st, x.plan) /\ x.i \in 1..Len(x.plan) /\ x.n \in 1..st.attempts
  /\ x.after = "none" <=> x.pc # "releasing"
  /\ x.pc \in {"deciding", "sleeping"} \/ x.after = "retry" => x.n < st.attempts
  /\ x.pc = "deciding" => x.transient

\* An execution that is not running has nothing left of the last one but the
\* way it ended.
RestingInv(x) == x = [Idle EXCEPT !.pc = x.pc, !.unaccounted = x.unaccounted]

\* The inductive invariant of one execution.
ExecutionInv(st, x) ==
  /\ x \in RawExecution /\ x.left <= st.timeout
  /\ x.pc \in Busy => PlaceInv(st, x) /\ CallsInv(st, x) /\ ListInv(x)
  /\ x.pc \in Resting => RestingInv(x)
  /\ st.timeout = 0 /\ x.unaccounted => x.pc \in InTry

-----------------------------------------------------------------------------
(* Moves.                                                                  *)

\* Start.
Begins(st, x, y) ==
  /\ x.pc \in Resting
  /\ \E p \in Seq(st.served) :
       /\ SoundPlan(st, p) /\ p # <<>>
       /\ y = [Idle EXCEPT !.pc = "head", !.plan = p, !.i = 1, !.n = 1, !.left = st.timeout]

Declines(x, y) == x.pc \in Resting /\ y = [Idle EXCEPT !.pc = "failed"]

\* Finished.
Ends(st, x, y) ==
  /\ x.pc \in Busy \ InTry
  /\ \E o \in Outcomes :
       /\ y = [Idle EXCEPT !.pc = o, !.unaccounted = x.unaccounted]
       /\ o = "succeeded" => x.pc = "releasing" /\ x.after = "succeeded" /\ ~Spent(st, x)

\* Resolve.
Proceeds(x, y) == x.pc = "head" /\ y = [x EXCEPT !.pc = "admitting"]

\* Advanced.
FallsBack(x, y) ==
  /\ x.pc = "admitting" \/ (x.pc = "releasing" /\ x.after = "next")
  /\ x.i < Len(x.plan)
  /\ y = [x EXCEPT !.pc = "head", !.i = x.i + 1, !.n = 1, !.after = "none"]

\* Admit, when admitted in time.
Calls(x, y) ==
  /\ x.pc = "admitting"
  /\ y = [x EXCEPT !.pc = "calling", !.unaccounted = TRUE,
                   !.calls = [x.calls EXCEPT ![Current(x)] = @ + 1],
                   !.tried = IF x.n = 1 THEN Append(x.tried, Current(x)) ELSE x.tried]

\* Leaving.
Leaves(st, x, y) ==
  /\ x.pc \in InTry \cup {"admitting", "reporting", "deciding"}
  /\ \E w \in {"retry", "next"} \cup Outcomes, t \in Seq(Deployments), u \in BOOLEAN :
       /\ y = [x EXCEPT !.pc = "releasing", !.after = w, !.transient = FALSE,
                        !.tried = t, !.unaccounted = u]
       /\ x.pc # "admitting" => t = x.tried
       /\ w = "retry" => x.pc = "deciding"
       /\ w = "next" => x.pc \in {"reporting", "deciding"}
       /\ w = "succeeded" => x.pc = "recording"
       /\ st.timeout = 0 => ~u

\* Respond.
Answers(x, y) == x.pc = "calling" /\ y = [x EXCEPT !.pc = "recording"]

\* Handled.
Handles(x, y) ==
  /\ x.pc \in InTry
  /\ \E t \in BOOLEAN : y = [x EXCEPT !.pc = "reporting", !.unaccounted = FALSE, !.transient = t]

\* RecordFailure, when the attempt may be repeated.
Considers(st, x, y) ==
  x.pc = "reporting" /\ x.n < st.attempts /\ x.transient /\ y = [x EXCEPT !.pc = "deciding"]

\* Left, and Wake.
Sleeps(x, y) ==
  x.pc = "releasing" /\ x.after = "retry" /\ y = [x EXCEPT !.pc = "sleeping", !.after = "none"]

Wakes(x, y) == x.pc = "sleeping" /\ y = [x EXCEPT !.pc = "head", !.n = x.n + 1]

Move(st, x, y) ==
  \/ Begins(st, x, y) \/ Declines(x, y) \/ Ends(st, x, y) \/ Proceeds(x, y) \/ FallsBack(x, y)
  \/ Calls(x, y) \/ Leaves(st, x, y) \/ Answers(x, y) \/ Handles(x, y)
  \/ Considers(st, x, y) \/ Sleeps(x, y) \/ Wakes(x, y)

\* Tick.
Ages(x, y) == y = [x EXCEPT !.left = IF x.left = 0 THEN 0 ELSE x.left - 1]

-----------------------------------------------------------------------------
(* What a move preserves.                                                  *)

LEMMA SettingsType ==
  ASSUME NEW st \in Settings
  PROVE  /\ st.attempts \in Nat /\ st.attempts # 0 /\ st.fallbacks \in Nat /\ st.timeout \in Nat
         /\ st.shared \in BOOLEAN /\ st.clients \subseteq Attempts
         /\ st.served \subseteq Deployments /\ st.authorized \subseteq Deployments
  BY ExecutionAssumption, Zenon

LEMMA IdleType ==
  /\ Idle \in RawExecution /\ DOMAIN Idle = {"pc", "plan", "i", "n", "tried", "calls",
       "transient", "after", "left", "unaccounted"}
  /\ Idle.left = 0 /\ Idle.pc = "idle" /\ ~Idle.unaccounted
  BY DEF Idle, RawExecution, Resting, Outcomes

\* An execution that rests stays sound whatever its outcome.
LEMMA RestingKeeps ==
  ASSUME NEW st \in Settings, NEW o \in Resting, NEW u \in BOOLEAN, st.timeout = 0 => ~u
  PROVE  ExecutionInv(st, [Idle EXCEPT !.pc = o, !.unaccounted = u])
  <1> DEFINE y == [Idle EXCEPT !.pc = o, !.unaccounted = u]
  <1>1. y.pc = o /\ y.unaccounted = u /\ y.left = 0
    BY Zenon DEF Idle
  <1>2. y \in RawExecution
    BY IdleType, Zenon DEF RawExecution
  <1>3. y = [Idle EXCEPT !.pc = y.pc, !.unaccounted = y.unaccounted]
    BY <1>1, Zenon
  <1>4. o \notin Busy
    BY Zenon DEF Resting, Busy, Waiting, InScope, InTry, Outcomes
  <1>5. st.timeout \in Nat
    BY SettingsType, Zenon
  <1> HIDE DEF y
  <1> QED BY <1>1, <1>2, <1>3, <1>4, <1>5 DEF ExecutionInv, RestingInv, y

LEMMA BeginsKeeps ==
  ASSUME NEW st \in Settings, NEW x, NEW y, Begins(st, x, y)
  PROVE  ExecutionInv(st, y)
  <1>1. PICK p \in Seq(st.served) :
          /\ SoundPlan(st, p) /\ p # <<>>
          /\ y = [Idle EXCEPT !.pc = "head", !.plan = p, !.i = 1, !.n = 1, !.left = st.timeout]
    BY Zenon DEF Begins
  <1>2. st.served \subseteq Deployments /\ st.timeout \in Nat /\ st.attempts \in Nat \ {0}
    BY SettingsType, Zenon
  <1>3. p \in Seq(Deployments)
    BY <1>2
  <1>4. y \in RawExecution
    BY <1>1, <1>2, <1>3, IdleType, Zenon DEF RawExecution, Busy
  <1>5. /\ y.pc = "head" /\ y.plan = p /\ y.i = 1 /\ y.n = 1 /\ y.left = st.timeout
        /\ y.calls = [d \in Deployments |-> 0] /\ y.tried = <<>> /\ y.after = "none"
        /\ ~y.unaccounted
    BY <1>1, Zenon DEF Idle
  <1>6. Len(p) \in Nat /\ Len(p) >= 1 /\ p[1] \in Deployments
    BY <1>1, <1>3
  <1>7. PlaceInv(st, y)
    BY <1>1, <1>2, <1>5, <1>6 DEF PlaceInv
  <1>8. CallsInv(st, y)
    BY <1>2, <1>5, <1>6 DEF CallsInv, Current
  <1>9. ListInv(y)
    BY <1>5 DEF ListInv, GoesOn, Reached, ListsCalled, InTry
  <1> QED BY <1>2, <1>4, <1>5, <1>7, <1>8, <1>9 DEF ExecutionInv, Resting, Outcomes

\* A move within an attempt: it changes where the execution is and what comes
\* next, and may change what it has listed only on its way out.
LEMMA PhaseKeeps ==
  ASSUME NEW st \in Settings, NEW x, NEW y, ExecutionInv(st, x), x.pc \in Busy,
         y \in RawExecution, y.pc \in Busy, y.plan = x.plan, y.i = x.i, y.n = x.n,
         y.calls = x.calls, y.left = x.left, y.tried = x.tried \/ ~GoesOn(y),
         y.pc \in {"head", "admitting"} => x.pc \in {"head", "admitting"},
         y.after = "none" <=> y.pc # "releasing",
         y.pc \in {"deciding", "sleeping"} \/ y.after = "retry" => x.n < st.attempts,
         y.pc = "deciding" => y.transient,
         GoesOn(y) => GoesOn(x), Reached(y) => Reached(x),
         st.timeout = 0 /\ y.unaccounted => y.pc \in InTry
  PROVE  ExecutionInv(st, y)
  <1>1. /\ x \in RawExecution /\ x.left <= st.timeout
        /\ PlaceInv(st, x) /\ CallsInv(st, x) /\ ListInv(x)
    BY Zenon DEF ExecutionInv
  <1>2. PlaceInv(st, y)
    BY <1>1, Zenon DEF PlaceInv
  <1>3. x.n \in Nat /\ x.i \in 1..Len(x.plan) /\ x.plan \in Seq(Deployments)
    BY <1>1, Zenon DEF PlaceInv, RawExecution
  <1>4. Current(x) \in Deployments /\ x.calls[Current(x)] \in Nat
    BY <1>1, <1>3 DEF Current, RawExecution
  <1>5. CallsInv(st, y)
    BY <1>1, <1>3, <1>4 DEF CallsInv, Current
  <1>6. Reached(y) => GoesOn(y)
    BY Zenon DEF Reached, GoesOn, InTry
  <1>7. ListInv(y)
    BY <1>1, <1>6, Zenon DEF ListInv, Current
  <1>8. y.pc \notin Resting
    BY Zenon DEF Resting, Busy, Waiting, InScope, InTry, Outcomes
  <1> QED BY <1>1, <1>2, <1>5, <1>7, <1>8, Zenon DEF ExecutionInv

\* The moves of this kind.
LEMMA PhasesKeep ==
  ASSUME NEW st \in Settings, NEW x, NEW y, ExecutionInv(st, x),
         \/ Proceeds(x, y) \/ Leaves(st, x, y) \/ Answers(x, y) \/ Handles(x, y)
         \/ Considers(st, x, y) \/ Sleeps(x, y)
  PROVE  ExecutionInv(st, y)
  <1> USE DEF Busy, Waiting, InScope, InTry
  <1>1. x.pc \in Busy
    BY Zenon DEF Proceeds, Leaves, Answers, Handles, Considers, Sleeps
  <1>2. x \in RawExecution /\ PlaceInv(st, x)
    BY <1>1, Zenon DEF ExecutionInv
  <1>3. x.n \in Nat /\ st.attempts \in Nat /\ x.unaccounted \in BOOLEAN
    BY <1>2, SettingsType, Zenon DEF RawExecution
  <1>4. st.timeout = 0 /\ x.unaccounted => x.pc \in InTry
    BY Zenon DEF ExecutionInv
  <1>5. CASE Proceeds(x, y)
    <2>1. y \in RawExecution
      BY <1>2, <1>5, Zenon DEF Proceeds, RawExecution
    <2>2. /\ y.pc = "admitting" /\ y.after = x.after /\ y.unaccounted = x.unaccounted /\ y.tried = x.tried
          /\ y.plan = x.plan /\ y.i = x.i /\ y.n = x.n /\ y.calls = x.calls /\ y.left = x.left
      BY <1>2, <1>5, Zenon DEF Proceeds, RawExecution
    <2>3. (y.after = "none" <=> y.pc # "releasing") /\ (GoesOn(y) => GoesOn(x)) /\ (Reached(y) => Reached(x))
      BY <1>2, <1>5, <2>2, Zenon DEF Proceeds, PlaceInv, GoesOn, Reached
    <2>4. y.pc \in {"deciding", "sleeping"} \/ y.after = "retry" => x.n < st.attempts
      BY <1>2, <1>5, <2>2, Zenon DEF Proceeds, PlaceInv
    <2>5. y.pc \in {"head", "admitting"} => x.pc \in {"head", "admitting"}
      BY <1>5, <2>2, Zenon DEF Proceeds
    <2> QED BY <1>1, <1>4, <1>5, <2>1, <2>2, <2>3, <2>4, <2>5, PhaseKeeps, Zenon DEF Proceeds
  <1>6. CASE Leaves(st, x, y)
    <2>1. PICK w \in {"retry", "next"} \cup Outcomes, t \in Seq(Deployments), u \in BOOLEAN :
            /\ y = [x EXCEPT !.pc = "releasing", !.after = w, !.transient = FALSE,
                             !.tried = t, !.unaccounted = u]
            /\ x.pc # "admitting" => t = x.tried
            /\ w = "retry" => x.pc = "deciding"
            /\ w = "next" => x.pc \in {"reporting", "deciding"}
            /\ w = "succeeded" => x.pc = "recording"
            /\ st.timeout = 0 => ~u
      BY <1>6, Zenon DEF Leaves
    <2>2. y \in RawExecution
      BY <1>2, <2>1, Zenon DEF RawExecution
    <2>3. w # "none"
      BY Zenon DEF Outcomes
    <2>4. /\ y.pc = "releasing" /\ y.after = w /\ y.tried = t /\ y.unaccounted = u
          /\ y.plan = x.plan /\ y.i = x.i /\ y.n = x.n /\ y.calls = x.calls /\ y.left = x.left
      BY <1>2, <2>1, Zenon DEF RawExecution
    <2>5. w \in {"retry", "next"} => x.pc \in {"reporting", "deciding"}
      BY <2>1, Zenon
    <2>6. GoesOn(y) => GoesOn(x)
      BY <2>4, <2>5, Zenon DEF GoesOn
    <2>7. Reached(y) => Reached(x)
      BY <2>4, <2>5, Zenon DEF Reached
    <2>8. t = x.tried \/ ~GoesOn(y)
      BY <2>1, <2>4, <2>5, Zenon DEF GoesOn
    <2>9. w = "retry" => x.n < st.attempts
      BY <1>2, <2>1, Zenon DEF PlaceInv
    <2>10. st.timeout = 0 /\ y.unaccounted => y.pc \in InTry
      BY <2>1, <2>4, Zenon
    <2> QED BY <1>1, <2>2, <2>3, <2>4, <2>6, <2>7, <2>8, <2>9, <2>10, PhaseKeeps, Zenon
  <1>7. CASE Answers(x, y)
    <2>1. y \in RawExecution
      BY <1>2, <1>7, Zenon DEF Answers, RawExecution
    <2>2. /\ y.pc = "recording" /\ y.after = x.after /\ y.unaccounted = x.unaccounted /\ y.tried = x.tried
          /\ y.plan = x.plan /\ y.i = x.i /\ y.n = x.n /\ y.calls = x.calls /\ y.left = x.left
      BY <1>2, <1>7, Zenon DEF Answers, RawExecution
    <2>3. (y.after = "none" <=> y.pc # "releasing") /\ (GoesOn(y) => GoesOn(x)) /\ (Reached(y) => Reached(x))
      BY <1>2, <1>7, <2>2, Zenon DEF Answers, PlaceInv, GoesOn, Reached
    <2>4. y.pc \in {"deciding", "sleeping"} \/ y.after = "retry" => x.n < st.attempts
      BY <1>2, <1>7, <2>2, Zenon DEF Answers, PlaceInv
    <2>5. y.pc \in {"head", "admitting"} => x.pc \in {"head", "admitting"}
      BY <1>7, <2>2, Zenon DEF Answers
    <2> QED BY <1>1, <1>4, <1>7, <2>1, <2>2, <2>3, <2>4, <2>5, PhaseKeeps, Zenon DEF Answers
  <1>8. CASE Handles(x, y)
    <2>1. PICK t \in BOOLEAN :
            y = [x EXCEPT !.pc = "reporting", !.unaccounted = FALSE, !.transient = t]
      BY <1>8, Zenon DEF Handles
    <2>2. y \in RawExecution
      BY <1>2, <2>1, Zenon DEF RawExecution
    <2>3. /\ y.pc = "reporting" /\ ~y.unaccounted /\ y.after = x.after /\ y.tried = x.tried
          /\ y.plan = x.plan /\ y.i = x.i /\ y.n = x.n /\ y.calls = x.calls /\ y.left = x.left
      BY <1>2, <2>1, Zenon DEF RawExecution
    <2>4. (y.after = "none" <=> y.pc # "releasing") /\ (GoesOn(y) => GoesOn(x)) /\ (Reached(y) => Reached(x))
      BY <1>2, <1>8, <2>3, Zenon DEF Handles, PlaceInv, GoesOn, Reached
    <2>5. y.after # "retry"
      BY <2>3, <2>4, Zenon
    <2> QED BY <1>1, <2>2, <2>3, <2>4, <2>5, PhaseKeeps, Zenon
  <1>9. CASE Considers(st, x, y)
    <2>1. y \in RawExecution
      BY <1>2, <1>9, Zenon DEF Considers, RawExecution
    <2>2. /\ y.pc = "deciding" /\ y.after = x.after /\ y.transient /\ y.unaccounted = x.unaccounted /\ y.tried = x.tried
          /\ y.plan = x.plan /\ y.i = x.i /\ y.n = x.n /\ y.calls = x.calls /\ y.left = x.left
      BY <1>2, <1>9, Zenon DEF Considers, RawExecution
    <2>3. (y.after = "none" <=> y.pc # "releasing") /\ (GoesOn(y) => GoesOn(x)) /\ (Reached(y) => Reached(x))
      BY <1>2, <1>9, <2>2, Zenon DEF Considers, PlaceInv, GoesOn, Reached
    <2>4. y.pc \in {"deciding", "sleeping"} \/ y.after = "retry" => x.n < st.attempts
      BY <1>2, <1>9, <2>2, Zenon DEF Considers, PlaceInv
    <2>5. y.pc \in {"head", "admitting"} => x.pc \in {"head", "admitting"}
      BY <1>9, <2>2, Zenon DEF Considers
    <2> QED BY <1>1, <1>4, <1>9, <2>1, <2>2, <2>3, <2>4, <2>5, PhaseKeeps, Zenon DEF Considers
  <1>10. CASE Sleeps(x, y)
    <2>1. y \in RawExecution
      BY <1>2, <1>10, Zenon DEF Sleeps, RawExecution
    <2>2. /\ y.pc = "sleeping" /\ y.after = "none" /\ y.unaccounted = x.unaccounted /\ y.tried = x.tried
          /\ y.plan = x.plan /\ y.i = x.i /\ y.n = x.n /\ y.calls = x.calls /\ y.left = x.left
      BY <1>2, <1>10, Zenon DEF Sleeps, RawExecution
    <2>3. (y.after = "none" <=> y.pc # "releasing") /\ (GoesOn(y) => GoesOn(x)) /\ (Reached(y) => Reached(x))
      BY <1>2, <1>10, <2>2, Zenon DEF Sleeps, PlaceInv, GoesOn, Reached
    <2>4. y.pc \in {"deciding", "sleeping"} \/ y.after = "retry" => x.n < st.attempts
      BY <1>2, <1>10, <2>2, Zenon DEF Sleeps, PlaceInv
    <2>5. y.pc \in {"head", "admitting"} => x.pc \in {"head", "admitting"}
      BY <1>10, <2>2, Zenon DEF Sleeps
    <2> QED BY <1>1, <1>4, <1>10, <2>1, <2>2, <2>3, <2>4, <2>5, PhaseKeeps, Zenon DEF Sleeps
  <1> QED BY <1>5, <1>6, <1>7, <1>8, <1>9, <1>10, Zenon

\* A fallback reaches a candidate that was not called yet.
LEMMA FallsBackKeeps ==
  ASSUME NEW st \in Settings, NEW x, NEW y, ExecutionInv(st, x), FallsBack(x, y)
  PROVE  ExecutionInv(st, y)
  <1>1. /\ x \in RawExecution /\ x.left <= st.timeout
        /\ PlaceInv(st, x) /\ CallsInv(st, x) /\ ListInv(x)
        /\ st.timeout = 0 => ~x.unaccounted
    BY Zenon DEF FallsBack, ExecutionInv, Busy, Waiting, InScope, InTry
  <1>2. /\ y.pc = "head" /\ y.i = x.i + 1 /\ y.n = 1 /\ y.after = "none" /\ y.plan = x.plan
        /\ y.tried = x.tried /\ y.calls = x.calls /\ y.left = x.left
        /\ y.unaccounted = x.unaccounted
    BY <1>1, Zenon DEF FallsBack, RawExecution
  <1>3. /\ x.i \in 1..Len(x.plan) /\ x.i < Len(x.plan) /\ x.plan \in Seq(Deployments)
        /\ Len(x.plan) \in Nat /\ x.calls \in [Deployments -> Nat]
    BY <1>1 DEF PlaceInv, FallsBack, RawExecution
  <1>4. y \in RawExecution
    <2>1. "head" \in Resting \cup Busy /\ x.i + 1 \in Nat /\ 1 \in Nat
      BY <1>3 DEF Busy
    <2>2. y = [x EXCEPT !.pc = "head", !.i = x.i + 1, !.n = 1, !.after = "none"]
      BY Zenon DEF FallsBack
    <2> QED BY <1>1, <2>1, <2>2, Zenon DEF RawExecution
  <1>5. st.attempts \in Nat /\ st.attempts # 0 /\ st.timeout \in Nat
    BY SettingsType, Zenon
  <1>6. PlaceInv(st, y)
    <2>1. y.i \in 1..Len(y.plan) /\ y.n \in 1..st.attempts
      BY <1>2, <1>3, <1>5
    <2> QED BY <1>1, <1>2, <2>1, Zenon DEF PlaceInv
  <1>7. CallsInv(st, y)
    <2>1. \A d \in Deployments : x.calls[d] > 0 => \E j \in 1..x.i : x.plan[j] = d
      BY <1>1, Zenon DEF CallsInv
    <2>2. Current(y) \in Deployments /\ Current(y) = x.plan[x.i + 1] /\ x.i + 1 \in 1..Len(x.plan)
      BY <1>2, <1>3 DEF Current
    <2>3. \A j \in 1..x.i : x.plan[j] # Current(y)
      BY <1>1, <1>3, <2>2 DEF PlaceInv, SoundPlan
    <2>4. x.calls[Current(y)] = 0
      BY <1>3, <2>1, <2>2, <2>3
    <2>5. \A j \in 1..x.i : j \in 1..y.i
      BY <1>2, <1>3
    <2> QED BY <1>1, <1>2, <1>3, <2>1, <2>2, <2>4, <2>5 DEF CallsInv
  <1>8. ListInv(y)
    <2>1. GoesOn(x)
      BY Zenon DEF FallsBack, GoesOn
    <2>2. ~Reached(y)
      BY <1>2 DEF Reached, InTry
    <2> QED BY <1>1, <1>2, <2>1, <2>2, Zenon DEF ListInv
  <1> QED BY <1>1, <1>2, <1>4, <1>6, <1>7, <1>8, Zenon DEF ExecutionInv, Resting, Outcomes

LEMMA WakesKeeps ==
  ASSUME NEW st \in Settings, NEW x, NEW y, ExecutionInv(st, x), Wakes(x, y)
  PROVE  ExecutionInv(st, y)
  <1>1. /\ x \in RawExecution /\ x.left <= st.timeout
        /\ PlaceInv(st, x) /\ CallsInv(st, x) /\ ListInv(x)
        /\ st.timeout = 0 => ~x.unaccounted
    BY Zenon DEF Wakes, ExecutionInv, Busy, Waiting, InScope, InTry
  <1>2. /\ y.pc = "head" /\ y.n = x.n + 1 /\ y.i = x.i /\ y.after = x.after /\ y.plan = x.plan
        /\ y.tried = x.tried /\ y.calls = x.calls /\ y.left = x.left
        /\ y.unaccounted = x.unaccounted /\ x.pc = "sleeping" /\ x.n \in Nat
    BY <1>1, Zenon DEF Wakes, RawExecution
  <1>3. y \in RawExecution
    <2>1. "head" \in Resting \cup Busy /\ x.n + 1 \in Nat
      BY <1>2 DEF Busy
    <2> QED BY <1>1, <2>1, Zenon DEF Wakes, RawExecution
  <1>4. x.n < st.attempts /\ st.attempts \in Nat
    BY <1>1, <1>2, SettingsType, Zenon DEF PlaceInv
  <1>5. PlaceInv(st, y)
    BY <1>1, <1>2, <1>4 DEF PlaceInv
  <1>6. CallsInv(st, y)
    BY <1>1, <1>2 DEF CallsInv, Current
  <1>7. ListInv(y)
    BY <1>1, <1>2, Zenon DEF ListInv, GoesOn, Reached, Current
  <1> QED BY <1>1, <1>2, <1>3, <1>5, <1>6, <1>7, Zenon DEF ExecutionInv, Resting, Outcomes

\* A call is listed once, however often its candidate is retried.
LEMMA CallsKeeps ==
  ASSUME NEW st \in Settings, NEW x, NEW y, ExecutionInv(st, x), Calls(x, y)
  PROVE  ExecutionInv(st, y)
  <1> DEFINE c == Current(x)
             calls == [x.calls EXCEPT ![c] = @ + 1]
             tried == IF x.n = 1 THEN Append(x.tried, c) ELSE x.tried
  <1>1. /\ x \in RawExecution /\ x.left <= st.timeout /\ x.pc = "admitting"
        /\ PlaceInv(st, x) /\ CallsInv(st, x) /\ ListInv(x)
    BY Zenon DEF Calls, ExecutionInv, Busy, Waiting
  <1>2. /\ x.i \in 1..Len(x.plan) /\ x.plan \in Seq(Deployments) /\ x.after = "none"
        /\ Len(x.plan) \in Nat /\ x.calls \in [Deployments -> Nat] /\ x.tried \in Seq(Deployments)
        /\ x.n \in 1..st.attempts /\ st.attempts \in Nat
    BY <1>1, SettingsType DEF PlaceInv, RawExecution
  <1>3. c \in Deployments
    BY <1>2 DEF Current
  <1>4. calls \in [Deployments -> Nat] /\ tried \in Seq(Deployments)
    BY <1>2, <1>3
  <1>5. /\ y.pc = "calling" /\ y.n = x.n /\ y.i = x.i /\ y.after = "none" /\ y.plan = x.plan
        /\ y.tried = tried /\ y.calls = calls /\ y.left = x.left /\ Current(y) = c
    BY <1>1, <1>2, Zenon DEF Calls, RawExecution, Current
  <1>6. y \in RawExecution
    BY <1>1, <1>4, Zenon DEF Calls, RawExecution, Busy, Waiting, InScope, InTry
  <1>7. PlaceInv(st, y)
    BY <1>1, <1>5, Zenon DEF PlaceInv
  <1>8. /\ calls[c] = x.calls[c] + 1 /\ x.calls[c] <= x.n - 1
        /\ \A d \in Deployments \ {c} : calls[d] = x.calls[d]
    BY <1>1, <1>2, <1>3, Zenon DEF CallsInv
  <1>9. ListsCalled(x.tried, x.calls)
    BY <1>1, Zenon DEF ListInv, GoesOn
  <1>10. ListsCalled(tried, calls) /\ tried # <<>> /\ tried[Len(tried)] = c
    <2>1. CASE x.n = 1
      <3>1. x.calls[c] = 0 /\ x.calls[c] \in Nat
        BY <1>2, <1>3, <1>8, <2>1
      <3>2. \A j \in 1..Len(x.tried) : x.tried[j] \in Deployments /\ x.tried[j] # c
        BY <1>2, <1>9, <3>1 DEF ListsCalled
      <3>3. /\ Len(tried) = Len(x.tried) + 1 /\ tried[Len(x.tried) + 1] = c /\ Len(x.tried) \in Nat
            /\ \A j \in 1..Len(x.tried) : tried[j] = x.tried[j]
        BY <1>2, <1>3, <2>1
      <3>4. \A j \in 1..Len(tried) : j \in 1..Len(x.tried) \/ j = Len(x.tried) + 1
        BY <3>3
      <3> HIDE DEF tried, calls
      <3>5. \A j \in 1..Len(tried) : calls[tried[j]] > 0
        <4> SUFFICES ASSUME NEW j \in 1..Len(tried) PROVE calls[tried[j]] > 0
          BY Zenon
        <4>1. CASE j \in 1..Len(x.tried)
          <5>1. tried[j] = x.tried[j] /\ x.tried[j] \in Deployments \ {c}
            BY <3>2, <3>3, <4>1, Zenon
          <5>2. x.calls[x.tried[j]] > 0
            BY <1>9, <4>1, Zenon DEF ListsCalled
          <5> QED BY <1>8, <5>1, <5>2, Zenon
        <4>2. CASE j = Len(x.tried) + 1
          BY <1>8, <3>1, <3>3, <4>2
        <4> QED BY <3>4, <4>1, <4>2, Zenon
      <3>6. \A d \in Deployments : calls[d] > 0 => \E j \in 1..Len(tried) : tried[j] = d
        <4> SUFFICES ASSUME NEW d \in Deployments, calls[d] > 0
                     PROVE  \E j \in 1..Len(tried) : tried[j] = d
          BY Zenon
        <4>1. CASE d = c
          <5>1. Len(x.tried) + 1 \in 1..Len(tried)
            BY <3>3
          <5> QED BY <3>3, <4>1, <5>1, Zenon
        <4>2. CASE d # c
          <5>1. PICK j \in 1..Len(x.tried) : x.tried[j] = d
            BY <1>8, <1>9, <4>2, Zenon DEF ListsCalled
          <5> QED BY <3>3, <5>1
        <4> QED BY <4>1, <4>2, Zenon
      <3>7. \A j, k \in 1..Len(tried) : tried[j] = tried[k] => j = k
        BY <1>9, <3>2, <3>3, <3>4 DEF ListsCalled
      <3>8. tried # <<>>
        BY <1>4, <3>3
      <3> QED BY <3>3, <3>5, <3>6, <3>7, <3>8, Zenon DEF ListsCalled
    <2>2. CASE x.n # 1
      <3>1. x.calls[c] > 0 /\ x.tried # <<>> /\ x.tried[Len(x.tried)] = c /\ tried = x.tried
        BY <1>1, <1>2, <2>2 DEF ListInv, Reached
      <3>2. \A d \in Deployments : (calls[d] > 0) = (x.calls[d] > 0)
        BY <1>2, <1>3, <1>8, <3>1
      <3>3. \A j \in 1..Len(x.tried) : x.tried[j] \in Deployments
        BY <1>2
      <3> HIDE DEF tried, calls
      <3> QED BY <1>9, <3>1, <3>2, <3>3, Zenon DEF ListsCalled
    <2> QED BY <2>1, <2>2, Zenon
  <1> HIDE DEF tried, calls
  <1>11. CallsInv(st, y)
    <2>1. \A d \in Deployments : x.calls[d] > 0 => \E j \in 1..x.i : x.plan[j] = d
      BY <1>1, Zenon DEF CallsInv
    <2>2. \E j \in 1..x.i : x.plan[j] = c
      BY <1>2 DEF Current
    <2>3. \A d \in Deployments : calls[d] > 0 => \E j \in 1..x.i : x.plan[j] = d
      BY <1>8, <2>1, <2>2, Zenon
    <2>4. \A d \in Deployments : x.calls[d] <= st.attempts
      BY <1>1, Zenon DEF CallsInv
    <2>5. x.calls[c] \in Nat /\ calls[c] <= x.n /\ calls[c] <= st.attempts
      BY <1>2, <1>3, <1>8
    <2>6. \A d \in Deployments : calls[d] <= st.attempts
      BY <1>8, <2>4, <2>5, Zenon
    <2> QED BY <1>5, <2>3, <2>5, <2>6, Zenon DEF CallsInv
  <1>12. calls[c] > 0
    BY <1>2, <1>3, <1>8
  <1>13. ListInv(y)
    BY <1>5, <1>10, <1>12, Zenon DEF ListInv
  <1> QED BY <1>1, <1>5, <1>6, <1>7, <1>11, <1>13, Zenon
          DEF ExecutionInv, Resting, Outcomes, InTry

LEMMA AgesKeeps ==
  ASSUME NEW st \in Settings, NEW x, NEW y, ExecutionInv(st, x), Ages(x, y)
  PROVE  ExecutionInv(st, y)
  <1> DEFINE l == IF x.left = 0 THEN 0 ELSE x.left - 1
  <1>1. x \in RawExecution /\ x.left \in Nat /\ x.left <= st.timeout /\ st.timeout \in Nat
    BY SettingsType, Zenon DEF ExecutionInv, RawExecution
  <1>2. l \in Nat /\ l <= st.timeout
    BY <1>1
  <1>3. y \in RawExecution
    BY <1>1, <1>2, Zenon DEF Ages, RawExecution
  <1>4. /\ y.pc = x.pc /\ y.n = x.n /\ y.i = x.i /\ y.after = x.after /\ y.plan = x.plan
        /\ y.tried = x.tried /\ y.calls = x.calls /\ y.left = l
        /\ y.unaccounted = x.unaccounted /\ y.transient = x.transient
    BY <1>1, Zenon DEF Ages, RawExecution
  <1>5. CASE x.pc \in Resting
    <2>1. x.left = 0
      BY <1>5, Zenon DEF ExecutionInv, RestingInv, Idle
    <2>2. y = x
      BY <1>1, <2>1, Zenon DEF Ages, RawExecution
    <2> QED BY <2>2, Zenon
  <1>6. CASE x.pc \notin Resting
    <2>1. x.pc \in Busy
      BY <1>1, <1>6, Zenon DEF RawExecution
    <2>2. PlaceInv(st, x) /\ CallsInv(st, x) /\ ListInv(x)
      BY <2>1, Zenon DEF ExecutionInv
    <2> HIDE DEF l
    <2>3. PlaceInv(st, y) /\ CallsInv(st, y) /\ ListInv(y)
      BY <1>4, <2>2 DEF PlaceInv, CallsInv, ListInv, Current, GoesOn, Reached
    <2> QED BY <1>2, <1>3, <1>4, <1>6, <2>3, Zenon DEF ExecutionInv
  <1> QED BY <1>5, <1>6, Zenon

\* Every move preserves the invariant of the execution.
LEMMA MoveKeeps ==
  ASSUME NEW st \in Settings, NEW x, NEW y, ExecutionInv(st, x), Move(st, x, y)
  PROVE  ExecutionInv(st, y)
  <1>1. CASE Declines(x, y)
    <2>1. y = [Idle EXCEPT !.pc = "failed", !.unaccounted = Idle.unaccounted]
      BY <1>1, IdleType, Zenon DEF Declines
    <2>2. Idle.unaccounted = FALSE
      BY Zenon DEF Idle
    <2> QED BY <2>1, <2>2, RestingKeeps, Zenon DEF Resting, Outcomes
  <1>2. CASE Ends(st, x, y)
    <2>1. PICK o \in Outcomes : y = [Idle EXCEPT !.pc = o, !.unaccounted = x.unaccounted]
      BY <1>2, Zenon DEF Ends
    <2>2. x.unaccounted \in BOOLEAN /\ (st.timeout = 0 => ~x.unaccounted)
      BY <1>2, Zenon DEF ExecutionInv, RawExecution, Ends
    <2> QED BY <2>1, <2>2, RestingKeeps, Zenon DEF Resting
  <1> QED BY <1>1, <1>2, BeginsKeeps, PhasesKeep, FallsBackKeeps, CallsKeeps, WakesKeeps, Zenon DEF Move

-----------------------------------------------------------------------------
(* The tracker, as its executor uses it.                                   *)

\* In circuit t nobody owns the probe slot who did not own it in s under the
\* same generation.
OwnerKept(s, t) ==
  t.owner # NoAttempt /\ t.lease # 0 =>
    /\ s.owner = t.owner /\ s.lease # 0 /\ s.generation = t.generation
    /\ s.circuit = "half_open" => t.circuit = "half_open"

LEMMA RefreshedKeeps ==
  ASSUME NEW s \in Breaker!Health, NEW g \in Generations
  PROVE  /\ Breaker!Refreshed(s, g) \in Breaker!Health /\ OwnerKept(s, Breaker!Refreshed(s, g))
         /\ Breaker!Refreshed(s, g).owner = NoAttempt \/ Breaker!Refreshed(s, g).lease # 0
  <1>1. 0 \in 0..ProbeLease /\ s.lease \in Nat
    BY TrackerAssumption DEF Breaker!Health
  <1>2. Breaker!Cooled(s) \in Breaker!Health
    BY Zenon DEF Breaker!Cooled, Breaker!Health
  <1>3. Breaker!Retired(Breaker!Cooled(s), g) \in Breaker!Health
    BY <1>1, <1>2, Zenon DEF Breaker!Retired, Breaker!Health
  <1>4. Breaker!Refreshed(s, g) \in Breaker!Health
    BY <1>2, <1>3, Zenon DEF Breaker!Refreshed
  <1>5. Breaker!Cooled(s).owner = s.owner /\ Breaker!Cooled(s).lease = s.lease
        /\ Breaker!Cooled(s).generation = s.generation
        /\ (s.circuit = "half_open" => Breaker!Cooled(s).circuit = "half_open")
    BY Zenon DEF Breaker!Cooled, Breaker!Health
  <1>6. Breaker!Retired(Breaker!Cooled(s), g).owner = NoAttempt
    BY <1>2, Zenon DEF Breaker!Retired, Breaker!Health
  <1> QED BY <1>4, <1>5, <1>6, Zenon DEF Breaker!Refreshed, OwnerKept

\* Each report refreshes first; s is the refreshed circuit.
LEMMA ReportsKeep ==
  ASSUME NEW s \in Breaker!Health, NEW g \in Generations, NEW a \in Attempts,
         NEW m \in Breaker!Admission,
         NEW t \in {Breaker!Succeeded(s, a, m, g), Breaker!FailedPermanently(s, a, m, g),
                    Breaker!FailedTransiently(s, a, m, g), Released(a, s, g)},
         t = Released(a, s, g) => m = held[a]
  PROVE  t \in Breaker!Health /\ OwnerKept(s, t)
  <1>1. /\ 0 \in 0..ProbeLease /\ 0 \in 0..Cooldown /\ 0 \in 0..FailureThreshold
        /\ Cooldown \in 0..Cooldown /\ FailureThreshold \in Nat
    BY TrackerAssumption
  <1>2. m # NoAdmission
    BY TrackerAssumption, Zenon DEF Breaker!Admission
  <1>3. \A u \in Breaker!Health : /\ Breaker!Retired(u, g) \in Breaker!Health
                                  /\ Breaker!Retired(u, g).owner = NoAttempt
    BY <1>1, Zenon DEF Breaker!Retired, Breaker!Health
  <1>4. \A u : u.owner = NoAttempt => OwnerKept(s, u)
    BY Zenon DEF OwnerKept
  <1>5. OwnerKept(s, s)
    BY Zenon DEF OwnerKept
  <1>6. CASE t = Breaker!Succeeded(s, a, m, g)
    <2> DEFINE closed == [s EXCEPT !.failures = 0, !.circuit = "closed", !.cooldown = 0]
    <2>1. closed \in Breaker!Health
      BY <1>1, Zenon DEF Breaker!Health
    <2>2. /\ closed.owner = s.owner /\ closed.lease = s.lease /\ closed.generation = s.generation
      BY Zenon DEF Breaker!Health
    <2>3. CASE ~Breaker!Controls(s, a, m)
      BY <1>5, <1>6, <2>3, Zenon DEF Breaker!Succeeded
    <2>4. CASE Breaker!Controls(s, a, m) /\ Breaker!IsProbe(m)
      BY <1>3, <1>4, <1>6, <2>1, <2>4, Zenon DEF Breaker!Succeeded
    <2>5. CASE Breaker!Controls(s, a, m) /\ ~Breaker!IsProbe(m)
      <3>1. s.circuit = "closed" /\ t = closed
        BY <1>2, <1>6, <2>5, Zenon DEF Breaker!Succeeded, Breaker!Controls, Breaker!Matches, Breaker!IsProbe
      <3> QED BY <2>1, <2>2, <3>1, Zenon DEF OwnerKept
    <2> QED BY <2>3, <2>4, <2>5, Zenon
  <1>7. CASE t = Breaker!FailedPermanently(s, a, m, g)
    <2> DEFINE reset == [s EXCEPT !.failures = 0]
    <2>1. reset \in Breaker!Health
      BY <1>1, Zenon DEF Breaker!Health
    <2>2. /\ reset.owner = s.owner /\ reset.lease = s.lease /\ reset.generation = s.generation
          /\ reset.circuit = s.circuit
      BY Zenon DEF Breaker!Health
    <2>3. OwnerKept(s, reset)
      BY <2>2, Zenon DEF OwnerKept
    <2> QED BY <1>3, <1>4, <1>5, <1>7, <2>1, <2>3, Zenon DEF Breaker!FailedPermanently
  <1>8. CASE t = Breaker!FailedTransiently(s, a, m, g)
    <2> DEFINE n       == IF s.failures < FailureThreshold THEN s.failures + 1 ELSE FailureThreshold
               counted == [s EXCEPT !.failures = n]
               opened  == [counted EXCEPT !.circuit = "open", !.cooldown = Cooldown]
    <2>1. n \in 0..FailureThreshold
      BY <1>1 DEF Breaker!Health
    <2>2. counted \in Breaker!Health
      BY <2>1, Zenon DEF Breaker!Health
    <2>3. opened \in Breaker!Health
      BY <1>1, <2>2, Zenon DEF Breaker!Health
    <2>4. /\ counted.owner = s.owner /\ counted.lease = s.lease /\ counted.generation = s.generation
          /\ counted.circuit = s.circuit
      BY Zenon DEF Breaker!Health
    <2>5. OwnerKept(s, counted)
      BY <2>4, Zenon DEF OwnerKept
    <2>6. t \in {s, Breaker!Retired(opened, g), counted}
      BY <1>8, Zenon DEF Breaker!FailedTransiently
    <2> QED BY <1>3, <1>4, <1>5, <2>2, <2>3, <2>5, <2>6, Zenon
  <1>9. CASE t = Released(a, s, g)
    BY <1>3, <1>4, <1>5, <1>9, Zenon DEF Released
  <1> QED BY <1>6, <1>7, <1>8, <1>9, Zenon

\* The probe slot is granted only to the caller.
LEMMA AdmittedGrants ==
  ASSUME NEW s \in Breaker!Health, NEW g \in Generations, NEW a \in Attempts
  PROVE  LET t == Breaker!Admitted(s, a, g)
         IN  /\ t \in Breaker!Health
             /\ OwnerKept(s, t) \/ (t.owner = a /\ t.circuit = "half_open" /\ t.generation = g /\ ~Refused(s))
             /\ t.circuit = s.circuit
             /\ Refused(s) => t = s
  <1>1. ProbeLease \in 0..ProbeLease
    BY TrackerAssumption
  <1>2. Breaker!Granted(s, a, g) \in Breaker!Health
    BY <1>1, Zenon DEF Breaker!Granted, Breaker!Health
  <1>3. /\ Breaker!Granted(s, a, g).owner = a /\ Breaker!Granted(s, a, g).circuit = s.circuit
        /\ Breaker!Granted(s, a, g).generation = g
    BY Zenon DEF Breaker!Granted, Breaker!Health
  <1>4. OwnerKept(s, s)
    BY Zenon DEF OwnerKept
  <1> QED BY <1>2, <1>3, <1>4, Zenon DEF Breaker!Admitted, Refused

LEMMA OwnerKeptTransitive ==
  ASSUME NEW s, NEW t, NEW u, OwnerKept(s, t), OwnerKept(t, u)
  PROVE  OwnerKept(s, u)
  BY Zenon DEF OwnerKept

-----------------------------------------------------------------------------
(* The inductive invariant of the executor.                                *)

\* An execution holds an admission to its candidate inside the scope, and only
\* there.
HoldsInv(x, h) ==
  IF x.pc \in InScope THEN h \in Breaker!Admission /\ h.deployment = Current(x)
  ELSE h = NoAdmission

\* If a owns circuit s of deployment d, then a is inside the scope that frees
\* it, and holds the probe that s was granted under.
OwnerInv(s, d, a, x, h) ==
  s.owner = a /\ s.lease # 0 =>
    /\ s.circuit = "half_open" /\ x.pc \in InScope
    /\ h.deployment = d /\ h.probe /\ h.generation = s.generation

ExecutorInv ==
  /\ settings \in Settings
  /\ health \in [Deployments -> Breaker!Health]
  /\ held \in [Attempts -> Breaker!Admission \cup {NoAdmission}]
  /\ ex \in [Attempts -> RawExecution]
  /\ \A a \in Attempts : ExecutionInv(settings, ex[a]) /\ HoldsInv(ex[a], held[a])
  /\ ~settings.shared =>
       \A d \in Deployments, a \in Attempts : OwnerInv(health[d], d, a, ex[a], held[a])

\* A step of execution a: it moves, and on an in-process tracker it takes no
\* probe slot from another execution and keeps none that it cannot return; a
\* probe's success is published only while the probe is live.
MovesOn(a) ==
  /\ Move(settings, ex[a], ex'[a])
  /\ ex' = [ex EXCEPT ![a] = ex'[a]]
  /\ held' = [held EXCEPT ![a] = held'[a]]
  /\ HoldsInv(ex'[a], held'[a])
  /\ health' \in [Deployments -> Breaker!Health]
  /\ ~settings.shared =>
       \A d \in Deployments :
         /\ OwnerKept(health[d], health'[d]) \/ health'[d].owner = a
         /\ OwnerInv(health'[d], d, a, ex'[a], held'[a])
  /\ ex'[a].after = "succeeded" /\ ex[a].after # "succeeded" /\ held[a].probe => Breaker!Live(a)

LEMMA MovesOnKeeps ==
  ASSUME ExecutorInv, settings' = settings, NEW a \in Attempts, MovesOn(a)
  PROVE  ExecutorInv'
  <1>1. /\ settings' \in Settings /\ health' \in [Deployments -> Breaker!Health]
        /\ settings \in Settings
    BY Zenon DEF ExecutorInv, MovesOn
  <1>2. ExecutionInv(settings, ex'[a])
    BY <1>1, MoveKeeps, Zenon DEF ExecutorInv, MovesOn
  <1>3. ex' \in [Attempts -> RawExecution]
    BY <1>2, Zenon DEF ExecutionInv, ExecutorInv, MovesOn
  <1>4. held'[a] \in Breaker!Admission \cup {NoAdmission}
    BY Zenon DEF MovesOn, HoldsInv
  <1>5. held' \in [Attempts -> Breaker!Admission \cup {NoAdmission}]
    BY <1>4, Zenon DEF ExecutorInv, MovesOn
  <1>6. \A b \in Attempts \ {a} : ex'[b] = ex[b] /\ held'[b] = held[b]
    BY Zenon DEF ExecutorInv, MovesOn
  <1>7. \A b \in Attempts : ExecutionInv(settings', ex'[b]) /\ HoldsInv(ex'[b], held'[b])
    <2> TAKE b \in Attempts
    <2>1. CASE b = a
      BY <1>2, <2>1 DEF MovesOn
    <2>2. CASE b # a
      BY <1>6, <2>2, Zenon DEF ExecutorInv
    <2> QED BY <2>1, <2>2, Zenon
  <1>8. ~settings'.shared =>
          \A d \in Deployments, b \in Attempts : OwnerInv(health'[d], d, b, ex'[b], held'[b])
    <2> SUFFICES ASSUME ~settings.shared, NEW d \in Deployments, NEW b \in Attempts
                 PROVE  OwnerInv(health'[d], d, b, ex'[b], held'[b])
      BY Zenon
    <2>1. CASE b = a
      BY <2>1, Zenon DEF MovesOn
    <2>2. CASE b # a
      <3>1. OwnerInv(health[d], d, b, ex[b], held[b])
        BY Zenon DEF ExecutorInv
      <3>2. b # NoAttempt
        BY TrackerAssumption, Zenon
      <3>3. OwnerKept(health[d], health'[d]) \/ health'[d].owner = a
        BY Zenon DEF MovesOn
      <3> QED BY <1>6, <2>2, <3>1, <3>2, <3>3, Zenon DEF OwnerInv, OwnerKept
    <2> QED BY <2>1, <2>2, Zenon
  <1> QED BY <1>1, <1>3, <1>5, <1>7, <1>8, Zenon DEF ExecutorInv

-----------------------------------------------------------------------------
(* Every action is a move.                                                 *)

\* The execution calls nobody, publishes nothing and does not go on.
Discreet(y) ==
  /\ y.pc \notin {"calling", "succeeded"}
  /\ y.pc = "releasing" => y.after \notin {"succeeded", "next", "retry"}

LEMMA FinishedEnds ==
  ASSUME ExecutorInv, NEW a \in Attempts, NEW o \in Outcomes, ex[a].pc \in Busy \ InTry,
         o = "succeeded" => ex[a].pc = "releasing" /\ ex[a].after = "succeeded"
  PROVE  Ends(settings, ex[a], Finished(a, o)) /\ Finished(a, o).pc \in Outcomes
         /\ Finished(a, o).after = "none" /\ (o # "succeeded" => Discreet(Finished(a, o)))
  <1> DEFINE q == IF Expired(a) /\ o # "cancelled" THEN "deadline" ELSE o
  <1>1. q \in Outcomes /\ (q = "succeeded" => o = "succeeded" /\ ~Spent(settings, ex[a]))
    BY Zenon DEF Outcomes, Expired, Spent, Timeout
  <1>2. Finished(a, o) = [Idle EXCEPT !.pc = q, !.unaccounted = ex[a].unaccounted]
    BY Zenon DEF Finished
  <1>3. Finished(a, o).pc = q /\ Finished(a, o).after = "none"
    BY <1>2, Zenon DEF Idle
  <1> QED BY <1>1, <1>2, <1>3, Zenon DEF Ends, Discreet, Outcomes

\* A step outside the tracker that is not at the end of a scope.
LEMMA QuietMove ==
  ASSUME ExecutorInv, NEW a \in Attempts, NEW y, Move(settings, ex[a], y),
         ex' = [ex EXCEPT ![a] = y], health' = health, held' = held,
         ex[a].pc \in InScope <=> y.pc \in InScope, y.pc \in InScope => Current(y) = Current(ex[a]),
         y.after = "succeeded" => ex[a].after = "succeeded"
  PROVE  MovesOn(a) /\ ex'[a] = y
  <1>1. ex'[a] = y
    BY Zenon DEF ExecutorInv
  <1>2. held' = [held EXCEPT ![a] = held'[a]]
    BY Zenon DEF ExecutorInv
  <1>3. HoldsInv(y, held[a])
    BY Zenon DEF ExecutorInv, HoldsInv
  <1>4. ~settings.shared =>
          \A d \in Deployments : OwnerKept(health[d], health[d]) /\ OwnerInv(health[d], d, a, y, held[a])
    BY Zenon DEF ExecutorInv, OwnerKept, OwnerInv
  <1> QED BY <1>1, <1>2, <1>3, <1>4, Zenon DEF MovesOn, ExecutorInv

\* A circuit operation that grants nothing, inside the scope.
LEMMA ReportMove ==
  ASSUME ExecutorInv, NEW a \in Attempts, NEW y, Move(settings, ex[a], y),
         NEW d \in Deployments, NEW t \in Breaker!Health, OwnerKept(health[d], t),
         ex' = [ex EXCEPT ![a] = y], health' = [health EXCEPT ![d] = t], held' = held,
         ex[a].pc \in InScope, y.pc \in InScope, Current(y) = Current(ex[a]),
         y.after = "succeeded" /\ ex[a].after # "succeeded" /\ held[a].probe => Breaker!Live(a)
  PROVE  MovesOn(a) /\ ex'[a] = y
  <1>1. ex'[a] = y
    BY Zenon DEF ExecutorInv
  <1>2. held' = [held EXCEPT ![a] = held'[a]]
    BY Zenon DEF ExecutorInv
  <1>3. HoldsInv(y, held[a])
    BY Zenon DEF ExecutorInv, HoldsInv
  <1>4. health' \in [Deployments -> Breaker!Health]
    BY Zenon DEF ExecutorInv
  <1>5. \A e \in Deployments : OwnerKept(health[e], health'[e])
    BY Zenon DEF ExecutorInv, OwnerKept
  <1>6. a # NoAttempt
    BY TrackerAssumption, Zenon
  <1>7. ~settings.shared => \A e \in Deployments : OwnerInv(health'[e], e, a, y, held[a])
    BY <1>5, <1>6 DEF ExecutorInv, OwnerKept, OwnerInv
  <1> QED BY <1>1, <1>2, <1>3, <1>4, <1>5, <1>7, Zenon DEF MovesOn

\* Facts about finite sets.
INSTANCE FiniteSetTheorems

\* Bounding a ranking keeps its best candidates.
LEMMA BoundedIsSound ==
  ASSUME settings \in Settings, NEW p \in Plans
  PROVE  /\ Bounded(p) \in Seq(settings.served)
         /\ p # <<>> => Bounded(p) # <<>>
         /\ (\A j \in DOMAIN Bounded(p) : Bounded(p)[j] \in Authorized) => SoundPlan(settings, Bounded(p))
  <1> DEFINE S == settings.served
             m == IF Len(p) <= MaxFallbacks + 1 THEN Len(p) ELSE MaxFallbacks + 1
  <1>1. S \subseteq Deployments /\ MaxFallbacks \in Nat /\ IsFiniteSet(Deployments)
    BY SettingsType, ExecutionAssumption, Zenon DEF MaxFallbacks
  <1>2. IsFiniteSet(S) /\ Cardinality(S) \in Nat
    BY <1>1, FS_Subset, FS_CardinalityType, Zenon
  <1>3. PICK k \in 0..Cardinality(S) : p \in [1..k -> S]
    BY Zenon DEF Plans
  <1>4. \A i, j \in DOMAIN p : p[i] = p[j] => i = j
    BY Zenon DEF Plans
  <1> HIDE DEF S
  <1>5. p \in Seq(S) /\ Len(p) = k /\ k \in Nat
    BY <1>2, <1>3
  <1>6. m \in 0..Len(p) /\ m \in Nat /\ m <= MaxFallbacks + 1
    BY <1>1, <1>5
  <1>7. Bounded(p) = SubSeq(p, 1, m)
    BY Zenon DEF Bounded
  <1> HIDE DEF m
  <1>8. Bounded(p) \in Seq(S) /\ Len(Bounded(p)) = m /\ \A j \in 1..m : Bounded(p)[j] = p[j]
    BY <1>5, <1>6, <1>7
  <1>9. \A i, j \in 1..m : Bounded(p)[i] = Bounded(p)[j] => i = j
    BY <1>4, <1>5, <1>6, <1>8
  <1>10. ASSUME p # <<>> PROVE Bounded(p) # <<>>
    <2>1. Len(p) # 0
      BY <1>5, <1>10
    <2>2. m # 0
      BY <1>1, <1>5, <2>1 DEF m
    <2> QED BY <1>8, <2>2
  <1>11. DOMAIN Bounded(p) = 1..m
    BY <1>8
  <1> QED BY <1>6, <1>8, <1>9, <1>10, <1>11, Zenon DEF SoundPlan, S, Authorized, MaxFallbacks

LEMMA StartMoves ==
  ASSUME ExecutorInv, NEW a \in Attempts, NEW p \in Plans, NEW replayable \in BOOLEAN,
         Start(a, p, replayable)
  PROVE  MovesOn(a) /\ ex'[a].pc \in {"head", "failed"}
  <1> DEFINE bad == p = <<>> \/ ~replayable \/ \E j \in DOMAIN Bounded(p) : Bounded(p)[j] \notin Authorized
             y == IF bad THEN [Idle EXCEPT !.pc = "failed"]
                  ELSE [Idle EXCEPT !.pc = "head", !.plan = Bounded(p), !.i = 1, !.n = 1,
                                    !.left = Timeout]
  <1>1. /\ ex[a].pc \in Resting /\ ex' = [ex EXCEPT ![a] = y] /\ health' = health /\ held' = held
    BY Zenon DEF Start, Resting
  <1>2. Move(settings, ex[a], y)
    <2>1. CASE bad
      BY <1>1, <2>1, Zenon DEF Move, Declines
    <2>2. CASE ~bad
      <3>1. Bounded(p) \in Seq(settings.served) /\ SoundPlan(settings, Bounded(p)) /\ Bounded(p) # <<>>
        BY <2>2, BoundedIsSound, Zenon DEF ExecutorInv
      <3> QED BY <1>1, <2>2, <3>1, Zenon DEF Move, Begins, Timeout
    <2> QED BY <2>1, <2>2, Zenon
  <1>3. y.pc \in {"head", "failed"} /\ y.after = "none"
    BY Zenon DEF Idle
  <1>4. ex[a].pc \notin InScope /\ y.pc \notin InScope
    BY <1>1, <1>3, Zenon DEF Resting, Outcomes, InScope, InTry
  <1>5. ex'[a] = y
    BY <1>1, Zenon DEF ExecutorInv
  <1> HIDE DEF y
  <1> QED BY <1>1, <1>2, <1>3, <1>4, <1>5, QuietMove, Zenon

LEMMA AdvancedMoves ==
  ASSUME ExecutorInv, NEW a \in Attempts,
         ex[a].pc = "admitting" \/ (ex[a].pc = "releasing" /\ ex[a].after = "next")
  PROVE  /\ Move(settings, ex[a], Advanced(a)) /\ Advanced(a).after = "none"
         /\ Advanced(a).pc \in {"head"} \cup Outcomes
  <1>1. ex[a] \in RawExecution
    BY Zenon DEF ExecutorInv
  <1>2. CASE ex[a].i < Len(ex[a].plan)
    <2>1. Advanced(a) = [ex[a] EXCEPT !.pc = "head", !.i = ex[a].i + 1, !.n = 1, !.after = "none"]
      BY <1>2, Zenon DEF Advanced
    <2>2. Advanced(a).after = "none" /\ Advanced(a).pc = "head"
      BY <1>1, <2>1, Zenon DEF RawExecution
    <2> QED BY <1>2, <2>1, <2>2, Zenon DEF Move, FallsBack
  <1>3. CASE ~(ex[a].i < Len(ex[a].plan))
    <2>1. Advanced(a) = Finished(a, "failed")
      BY <1>3, Zenon DEF Advanced
    <2>2. ex[a].pc \in Busy \ InTry
      BY Zenon DEF Busy, Waiting, InScope, InTry
    <2> QED BY <2>1, <2>2, FinishedEnds DEF Move, Outcomes
  <1> QED BY <1>2, <1>3, Zenon

LEMMA AdvanceMoves ==
  ASSUME ExecutorInv, NEW a \in Attempts, Advance(a)
  PROVE  MovesOn(a)
  <1>1. ex[a] \in RawExecution
    BY Zenon DEF ExecutorInv
  <1>2. ASSUME NEW resolved \in BOOLEAN, Resolve(a, resolved) PROVE MovesOn(a)
    <2> DEFINE y == IF Expired(a) THEN Finished(a, "deadline")
                    ELSE IF ~resolved THEN Finished(a, "failed")
                    ELSE [ex[a] EXCEPT !.pc = "admitting"]
    <2>1. ex[a].pc = "head" /\ ex' = [ex EXCEPT ![a] = y] /\ health' = health /\ held' = held
      BY <1>2, Zenon DEF Resolve
    <2>2. ex[a].pc \in Busy \ InTry /\ "deadline" \in Outcomes /\ "failed" \in Outcomes
      BY <2>1, Zenon DEF Busy, InTry, Outcomes
    <2>3. ExecutionInv(settings, ex[a])
      BY Zenon DEF ExecutorInv
    <2>4. ex[a].after = "none"
      BY <2>1, <2>2, <2>3, Zenon DEF ExecutionInv, PlaceInv
    <2>5. Move(settings, ex[a], y) /\ y.after = "none" /\ y.pc \in {"admitting"} \cup Outcomes
      BY <1>1, <2>1, <2>2, <2>4, FinishedEnds, Zenon DEF Move, Proceeds, RawExecution
    <2>6. ex[a].pc \notin InScope /\ y.pc \notin InScope
      BY <2>1, <2>5, Zenon DEF InScope, InTry, Outcomes
    <2> HIDE DEF y
    <2> QED BY <2>1, <2>5, <2>6, QuietMove, Zenon
  <1>3. ASSUME Wake(a) PROVE MovesOn(a)
    <2> DEFINE y == [ex[a] EXCEPT !.pc = "head", !.n = ex[a].n + 1]
    <2>1. ex[a].pc = "sleeping" /\ ex' = [ex EXCEPT ![a] = y] /\ health' = health /\ held' = held
      BY <1>1, <1>3, Zenon DEF Wake, RawExecution, ExecutorInv
    <2>2. Move(settings, ex[a], y)
      BY <2>1, Zenon DEF Move, Wakes
    <2>3. y.pc = "head" /\ y.after = ex[a].after
      BY <1>1, Zenon DEF RawExecution
    <2>4. ex[a].pc \notin InScope /\ y.pc \notin InScope
      BY <2>1, <2>3, Zenon DEF InScope, InTry
    <2> HIDE DEF y
    <2> QED BY <2>1, <2>2, <2>3, <2>4, QuietMove, Zenon
  <1> QED BY <1>2, <1>3, Zenon DEF Advance

\* Leaving the scope: only an attempt that is called late may leave it without
\* evidence.
LEMMA LeavingMoves ==
  ASSUME ExecutorInv, NEW a \in Attempts, ex[a].pc \in InTry \cup {"reporting", "deciding"},
         NEW z \in {ex[a], Invalidated(ex[a])},
         NEW w \in {"retry", "next"} \cup Outcomes,
         ex[a].pc \in InTry => Expired(a) \/ z = Invalidated(ex[a]),
         w = "retry" => ex[a].pc = "deciding",
         w = "next" => ex[a].pc \in {"reporting", "deciding"},
         w = "succeeded" => ex[a].pc = "recording"
  PROVE  /\ Move(settings, ex[a], Leaving(z, w)) /\ Leaving(z, w).pc = "releasing"
         /\ Leaving(z, w).after = w /\ Current(Leaving(z, w)) = Current(ex[a])
  <1>1. ex[a] \in RawExecution /\ ExecutionInv(settings, ex[a])
    BY Zenon DEF ExecutorInv
  <1>2. PICK u \in BOOLEAN : u = z.unaccounted
    BY <1>1, Zenon DEF RawExecution, Invalidated
  <1>3. Leaving(z, w) = [ex[a] EXCEPT !.pc = "releasing", !.after = w, !.transient = FALSE,
                                      !.tried = ex[a].tried, !.unaccounted = u]
    BY <1>1, <1>2, Zenon DEF Leaving, Invalidated, RawExecution
  <1>4. settings.timeout = 0 => ~u
    BY <1>1, <1>2, Zenon DEF ExecutionInv, Expired, Timeout, Invalidated, RawExecution
  <1>5. ex[a].tried \in Seq(Deployments)
    BY <1>1, Zenon DEF RawExecution
  <1>6. Leaves(settings, ex[a], Leaving(z, w))
    BY <1>3, <1>4, <1>5, Zenon DEF Leaves, InTry
  <1>7. /\ Leaving(z, w).pc = "releasing" /\ Leaving(z, w).after = w
        /\ Leaving(z, w).plan = ex[a].plan /\ Leaving(z, w).i = ex[a].i
    BY <1>1, <1>3, Zenon DEF RawExecution
  <1> QED BY <1>6, <1>7, Zenon DEF Move, Current

\* Entering the handler of a provider error.
LEMMA HandledMoves ==
  ASSUME ExecutorInv, NEW a \in Attempts, ex[a].pc \in InTry, NEW transient \in BOOLEAN
  PROVE  /\ Move(settings, ex[a], Handled(a, transient))
         /\ \/ Handled(a, transient).pc = "releasing" /\ Handled(a, transient).after = "deadline"
            \/ Handled(a, transient).pc = "reporting" /\ Handled(a, transient).after = "none"
         /\ Current(Handled(a, transient)) = Current(ex[a])
  <1>1. ex[a] \in RawExecution /\ ExecutionInv(settings, ex[a])
    BY Zenon DEF ExecutorInv
  <1>2. ex[a].after = "none"
    BY <1>1, Zenon DEF ExecutionInv, PlaceInv, Busy, Waiting, InScope, InTry
  <1>3. CASE Expired(a)
    BY <1>3, LeavingMoves DEF Handled, Outcomes
  <1>4. CASE ~Expired(a)
    <2>1. Handled(a, transient) =
            [ex[a] EXCEPT !.pc = "reporting", !.unaccounted = FALSE, !.transient = transient]
      BY <1>1, <1>4, Zenon DEF Handled, Sampled, RawExecution
    <2>2. Handles(ex[a], Handled(a, transient))
      BY <2>1, Zenon DEF Handles
    <2>3. /\ Handled(a, transient).pc = "reporting" /\ Handled(a, transient).after = ex[a].after
          /\ Handled(a, transient).plan = ex[a].plan /\ Handled(a, transient).i = ex[a].i
      BY <1>1, <2>1, Zenon DEF RawExecution
    <2> QED BY <1>2, <2>2, <2>3, Zenon DEF Move, Current
  <1> QED BY <1>3, <1>4, Zenon

LEMMA ProviderMoves ==
  ASSUME ExecutorInv, NEW a \in Attempts, Provider(a)
  PROVE  MovesOn(a)
  <1>1. ex[a] \in RawExecution /\ ExecutionInv(settings, ex[a])
    BY Zenon DEF ExecutorInv
  <1>2. ex[a].pc = "calling" /\ health' = health /\ held' = held
    BY Zenon DEF Provider, Respond, Fail, Raise
  <1>3. ex[a].pc \in InTry /\ ex[a].pc \in InScope
    BY <1>2, Zenon DEF InTry, InScope
  <1>4. PICK y : ex' = [ex EXCEPT ![a] = y] /\ Move(settings, ex[a], y) /\ y.pc \in InScope
                 /\ Current(y) = Current(ex[a]) /\ y.after # "succeeded"
    <2>1. CASE Respond(a)
      <3> DEFINE y == IF Expired(a) THEN Leaving(Invalidated(ex[a]), "deadline")
                      ELSE [ex[a] EXCEPT !.pc = "recording"]
      <3>1. ex' = [ex EXCEPT ![a] = y]
        BY <2>1, Zenon DEF Respond
      <3>2. CASE Expired(a)
        <4>1. y = Leaving(Invalidated(ex[a]), "deadline") /\ "deadline" \in Outcomes
          BY <3>2, Zenon DEF Outcomes
        <4> HIDE DEF y
        <4>2. Move(settings, ex[a], y) /\ y.pc = "releasing" /\ y.after = "deadline" /\ Current(y) = Current(ex[a])
          BY <1>3, <4>1, LeavingMoves, Zenon DEF Outcomes
        <4> QED BY <3>1, <4>2, Zenon DEF InScope
      <3>3. CASE ~Expired(a)
        <4>1. y = [ex[a] EXCEPT !.pc = "recording"]
          BY <3>3, Zenon
        <4>2. y.pc = "recording" /\ y.after = ex[a].after /\ y.plan = ex[a].plan /\ y.i = ex[a].i
          BY <1>1, <4>1, Zenon DEF RawExecution
        <4>3. ex[a].after = "none"
          BY <1>1, <1>2, Zenon DEF ExecutionInv, PlaceInv, Busy, Waiting, InScope, InTry
        <4> HIDE DEF y
        <4> QED BY <1>2, <3>1, <4>1, <4>2, <4>3, Zenon DEF Move, Answers, Current, InScope, InTry
      <3> QED BY <3>2, <3>3, Zenon
    <2>2. ASSUME NEW transient \in BOOLEAN, Fail(a, transient)
          PROVE  \E y : ex' = [ex EXCEPT ![a] = y] /\ Move(settings, ex[a], y) /\ y.pc \in InScope
                        /\ Current(y) = Current(ex[a]) /\ y.after # "succeeded"
      <3>1. ex' = [ex EXCEPT ![a] = Handled(a, transient)]
        BY <2>2, Zenon DEF Fail
      <3> QED BY <1>3, <3>1, HandledMoves, Zenon DEF InScope
    <2>3. CASE Raise(a)
      <3>1. ex' = [ex EXCEPT ![a] = Leaving(Invalidated(ex[a]), "failed")]
        BY <2>3, Zenon DEF Raise, UnexpectedError
      <3>2. PICK y : y = Leaving(Invalidated(ex[a]), "failed")
        BY Zenon
      <3>3. Move(settings, ex[a], y) /\ y.pc = "releasing" /\ y.after = "failed" /\ Current(y) = Current(ex[a])
        BY <1>3, <3>2, LeavingMoves, Zenon DEF Outcomes
      <3> QED BY <3>1, <3>2, <3>3, Zenon DEF InScope
    <2> QED BY <2>1, <2>2, <2>3, Zenon DEF Provider
  <1> QED BY <1>2, <1>3, <1>4, QuietMove, Zenon

\* The end of a scope, or an end before it was entered.
LEMMA ScopeEnds ==
  ASSUME ExecutorInv, NEW a \in Attempts, NEW y, Move(settings, ex[a], y),
         ex' = [ex EXCEPT ![a] = y], held' = [held EXCEPT ![a] = NoAdmission],
         y.pc \notin InScope, y.after = "none", health' \in [Deployments -> Breaker!Health],
         ~settings.shared =>
           \A d \in Deployments : /\ OwnerKept(health[d], health'[d])
                                  /\ health'[d].owner = a => health'[d].lease = 0
  PROVE  MovesOn(a) /\ ex'[a] = y
  <1>1. ex'[a] = y /\ held'[a] = NoAdmission
    BY Zenon DEF ExecutorInv
  <1> QED BY <1>1, Zenon DEF MovesOn, HoldsInv, OwnerInv

LEMMA OutcomesOutside == \A o \in Outcomes : o \notin InScope
  BY Zenon DEF Outcomes, InScope, InTry

LEMMA TrackerFailsMoves ==
  ASSUME ExecutorInv, NEW a \in Attempts, TrackerFails(a)
  PROVE  MovesOn(a) /\ Discreet(ex'[a])
  <1>1. ex[a] \in RawExecution /\ ExecutionInv(settings, ex[a]) /\ HoldsInv(ex[a], held[a])
        /\ health \in [Deployments -> Breaker!Health] /\ held = [held EXCEPT ![a] = held[a]]
    BY Zenon DEF ExecutorInv
  <1>2. settings.shared /\ health' = health
    BY Zenon DEF TrackerFails, SharedTracker
  <1>3. CASE ex[a].pc = "admitting"
    <2>1. held[a] = NoAdmission
      BY <1>1, <1>3, Zenon DEF HoldsInv, InScope, InTry
    <2>2. ex' = [ex EXCEPT ![a] = Finished(a, "failed")] /\ held' = held
      BY <1>3, Zenon DEF TrackerFails
    <2>3. Ends(settings, ex[a], Finished(a, "failed")) /\ Finished(a, "failed").pc \in Outcomes
          /\ Finished(a, "failed").after = "none" /\ Discreet(Finished(a, "failed"))
      BY <1>3, FinishedEnds, Zenon DEF Outcomes, Busy, Waiting, InTry
    <2> QED BY <1>1, <1>2, <2>1, <2>2, <2>3, ScopeEnds, OutcomesOutside, Zenon DEF Move
  <1>4. CASE ex[a].pc = "recording"
    <2>1. ex' = [ex EXCEPT ![a] = Leaving(Invalidated(ex[a]), "failed")] /\ held' = held
      BY <1>4, Zenon DEF TrackerFails, UnexpectedError
    <2>2. PICK y : y = Leaving(Invalidated(ex[a]), "failed")
      BY Zenon
    <2>3. Move(settings, ex[a], y) /\ y.pc = "releasing" /\ y.after = "failed" /\ Current(y) = Current(ex[a])
      BY <1>4, <2>2, LeavingMoves DEF Outcomes, InTry
    <2> QED BY <1>2, <1>4, <2>1, <2>2, <2>3, QuietMove, Zenon DEF InScope, InTry, Discreet
  <1>5. CASE ex[a].pc \in {"reporting", "deciding"}
    <2>1. ex' = [ex EXCEPT ![a] = Leaving(ex[a], "failed")] /\ held' = held
      BY <1>5, Zenon DEF TrackerFails
    <2>2. PICK y : y = Leaving(ex[a], "failed")
      BY Zenon
    <2>3. Move(settings, ex[a], y) /\ y.pc = "releasing" /\ y.after = "failed" /\ Current(y) = Current(ex[a])
      BY <1>5, <2>2, LeavingMoves DEF Outcomes, InTry
    <2> QED BY <1>2, <1>5, <2>1, <2>2, <2>3, QuietMove, Zenon DEF InScope, InTry, Discreet
  <1>6. CASE ex[a].pc = "releasing"
    <2>1. PICK o \in Outcomes \ {"succeeded"} :
            ex' = [ex EXCEPT ![a] = Finished(a, o)] /\ held' = [held EXCEPT ![a] = NoAdmission]
      <3> DEFINE o == IF ex[a].after \in {"cancelled", "deadline"} THEN ex[a].after ELSE "failed"
      <3>1. o \in Outcomes \ {"succeeded"}
        BY Zenon DEF Outcomes
      <3>2. ex' = [ex EXCEPT ![a] = Finished(a, o)] /\ held' = [held EXCEPT ![a] = NoAdmission]
        BY <1>6, Zenon DEF TrackerFails
      <3> HIDE DEF o
      <3> QED BY <3>1, <3>2, Zenon
    <2>2. Ends(settings, ex[a], Finished(a, o)) /\ Finished(a, o).pc \in Outcomes
          /\ Finished(a, o).after = "none" /\ Discreet(Finished(a, o))
      BY <1>6, <2>1, FinishedEnds, Zenon DEF Busy, Waiting, InScope, InTry
    <2>3. PICK y : y = Finished(a, o)
      BY Zenon
    <2>4. Move(settings, ex[a], y) /\ y.pc \notin InScope /\ y.after = "none" /\ Discreet(y)
      BY <2>2, <2>3, OutcomesOutside, Zenon DEF Move
    <2>5. MovesOn(a) /\ ex'[a] = y
      BY <1>1, <1>2, <2>1, <2>3, <2>4, ScopeEnds, Zenon
    <2> QED BY <2>4, <2>5, Zenon
  <1> QED BY <1>3, <1>4, <1>5, <1>6, Zenon DEF TrackerFails

LEMMA InterruptMoves ==
  ASSUME ExecutorInv, NEW a \in Attempts, NEW why \in {"cancelled", "deadline"}, Interrupt(a, why)
  PROVE  MovesOn(a) /\ Discreet(ex'[a])
  <1>1. ex[a] \in RawExecution /\ ExecutionInv(settings, ex[a]) /\ HoldsInv(ex[a], held[a])
        /\ health \in [Deployments -> Breaker!Health] /\ held = [held EXCEPT ![a] = held[a]]
    BY Zenon DEF ExecutorInv
  <1>2. /\ health' = health /\ ex' = [ex EXCEPT ![a] = Interrupted(a, why)]
        /\ ex[a].pc \in Waiting /\ (ex[a].pc = "releasing" => settings.shared)
        /\ held' = IF ex[a].pc = "releasing" THEN [held EXCEPT ![a] = NoAdmission] ELSE held
    BY Zenon DEF Interrupt, SharedTracker, Waiting, InScope, InTry
  <1>3. why \in Outcomes /\ why # "succeeded" /\ why \in {"retry", "next"} \cup Outcomes
        /\ why \notin {"retry", "next"}
    BY Zenon DEF Outcomes
  <1>4. CASE ex[a].pc \in InTry
    <2>1. Interrupted(a, why) = Leaving(Invalidated(ex[a]), why)
      <3>1. ex[a].pc \notin {"reporting", "deciding"}
        BY <1>4, Zenon DEF InTry
      <3> QED BY <1>4, <3>1, Zenon DEF Interrupted
    <2>2. PICK y : y = Leaving(Invalidated(ex[a]), why)
      BY Zenon
    <2>3. Move(settings, ex[a], y) /\ y.pc = "releasing" /\ y.after = why /\ Current(y) = Current(ex[a])
      BY <1>3, <1>4, <2>2, LeavingMoves, Zenon
    <2>4. held' = held
      BY <1>2, <1>4, Zenon DEF InTry
    <2>5. ex[a].pc \in InScope /\ "releasing" \in InScope
      BY <1>4, Zenon DEF InScope
    <2> QED BY <1>2, <1>3, <2>1, <2>2, <2>3, <2>4, <2>5, QuietMove, Zenon DEF Discreet
  <1>5. CASE ex[a].pc \in {"reporting", "deciding"}
    <2>1. Interrupted(a, why) = Leaving(ex[a], why)
      <3>1. ex[a].pc \notin InTry
        BY <1>5, Zenon DEF InTry
      <3> QED BY <1>5, <3>1, Zenon DEF Interrupted
    <2>2. PICK y : y = Leaving(ex[a], why)
      BY Zenon
    <2>3. Move(settings, ex[a], y) /\ y.pc = "releasing" /\ y.after = why /\ Current(y) = Current(ex[a])
      BY <1>3, <1>5, <2>2, LeavingMoves, Zenon DEF InTry
    <2>4. held' = held
      BY <1>2, <1>5, Zenon
    <2>5. ex[a].pc \in InScope /\ "releasing" \in InScope
      BY <1>5, Zenon DEF InScope
    <2> QED BY <1>2, <1>3, <2>1, <2>2, <2>3, <2>4, <2>5, QuietMove, Zenon DEF Discreet
  <1>6. CASE ex[a].pc \in {"releasing", "admitting", "sleeping"}
    <2>1. Interrupted(a, why) = Finished(a, why)
      <3>1. ex[a].pc \notin InTry /\ ex[a].pc \notin {"reporting", "deciding"}
        BY <1>6, Zenon DEF InTry
      <3> QED BY <3>1, Zenon DEF Interrupted
    <2>2. Ends(settings, ex[a], Finished(a, why)) /\ Finished(a, why).pc \in Outcomes
          /\ Finished(a, why).after = "none" /\ Discreet(Finished(a, why))
      BY <1>3, <1>6, FinishedEnds, Zenon DEF Busy, Waiting, InScope, InTry
    <2>3. ex[a].pc # "releasing" => ex[a].pc \notin InScope
      BY <1>6, Zenon DEF InScope, InTry
    <2> QED BY <1>1, <1>2, <2>1, <2>2, <2>3, ScopeEnds, QuietMove, OutcomesOutside, Zenon DEF Move
  <1> QED BY <1>2, <1>4, <1>5, <1>6, Zenon DEF Waiting, InScope

LEMMA InterruptAdmittedMoves ==
  ASSUME ExecutorInv, NEW a \in Attempts, NEW why \in {"cancelled", "deadline"},
         NEW g \in Generations, InterruptAdmitted(a, why, g)
  PROVE  MovesOn(a) /\ Discreet(ex'[a])
  <1> DEFINE d == Candidate(a)
             s == Breaker!Refreshed(health[d], g)
             t == IF Refused(s) THEN s ELSE Breaker!Admitted(s, a, g)
  <1>1. ex[a] \in RawExecution /\ ExecutionInv(settings, ex[a]) /\ HoldsInv(ex[a], held[a])
        /\ health \in [Deployments -> Breaker!Health] /\ held = [held EXCEPT ![a] = held[a]]
    BY Zenon DEF ExecutorInv
  <1>2. /\ settings.shared /\ ex[a].pc = "admitting" /\ held' = held
        /\ ex' = [ex EXCEPT ![a] = Finished(a, why)] /\ health' = [health EXCEPT ![d] = t]
    BY Zenon DEF InterruptAdmitted, SharedTracker
  <1>3. held[a] = NoAdmission
    BY <1>1, <1>2, Zenon DEF HoldsInv, InScope, InTry
  <1>4. d \in Deployments
    BY <1>1, <1>2 DEF ExecutionInv, PlaceInv, RawExecution, Candidate, Busy, Waiting
  <1>5. health' \in [Deployments -> Breaker!Health]
    <2> HIDE DEF d
    <2>1. s \in Breaker!Health
      BY <1>1, <1>4, RefreshedKeeps, Zenon
    <2> HIDE DEF s
    <2>2. t \in Breaker!Health
      BY <2>1, AdmittedGrants, Zenon
    <2> QED BY <1>1, <1>2, <1>4, <2>2, Zenon
  <1>6. Ends(settings, ex[a], Finished(a, why)) /\ Finished(a, why).pc \in Outcomes
        /\ Finished(a, why).after = "none" /\ Discreet(Finished(a, why))
    BY <1>2, FinishedEnds DEF Busy, Waiting, InTry, Outcomes
  <1> QED BY <1>1, <1>2, <1>3, <1>5, <1>6, ScopeEnds, OutcomesOutside, Zenon DEF Move

LEMMA FreshIsGeneration == \A g \in Breaker!Fresh : g \in Generations
  BY Zenon DEF Breaker!Fresh

\* What an execution that waits for the tracker refers to.
LEMMA ScopeFacts ==
  ASSUME ExecutorInv, NEW a \in Attempts, ex[a].pc \in InScope
  PROVE  /\ held[a] \in Breaker!Admission /\ held[a].deployment \in Deployments
         /\ held[a].deployment = Candidate(a) /\ Candidate(a) = Current(ex[a])
         /\ health[held[a].deployment] \in Breaker!Health /\ held[a] # NoAdmission
  BY TrackerAssumption, Zenon DEF ExecutorInv, HoldsInv, Breaker!Admission, Candidate, Current

LEMMA RecordSuccessMoves ==
  ASSUME ExecutorInv, NEW a \in Attempts, NEW g \in Generations, RecordSuccess(a, g)
  PROVE  /\ MovesOn(a) /\ ex[a].pc = "recording" /\ Current(ex'[a]) = Current(ex[a])
         /\ \/ ex'[a].pc = "reporting" /\ ex'[a].after = "none"
            \/ ex'[a].pc = "releasing" /\ ex'[a].after \in {"succeeded", "deadline"}
  <1> DEFINE d == held[a].deployment
             s == Breaker!Refreshed(health[d], g)
             t == Breaker!Succeeded(s, a, held[a], g)
  <1>1. /\ ex[a].pc = "recording" /\ held' = held
        /\ ex' = [ex EXCEPT ![a] = Published(a, s)] /\ health' = [health EXCEPT ![d] = t]
    BY Zenon DEF RecordSuccess
  <1>2. ex[a].pc \in InTry /\ ex[a].pc \in InScope
    BY <1>1, Zenon DEF InTry, InScope
  <1>3. held[a] \in Breaker!Admission /\ d \in Deployments /\ health[d] \in Breaker!Health
        /\ held[a] # NoAdmission
    BY <1>2, ScopeFacts, Zenon
  <1> HIDE DEF d
  <1>4. s \in Breaker!Health /\ OwnerKept(health[d], s)
    BY <1>3, RefreshedKeeps, Zenon
  <1>5. ASSUME held[a].probe, Breaker!Controls(s, a, held[a]) PROVE Breaker!Live(a)
    <2>1. s.generation = held[a].generation /\ s.circuit = "half_open" /\ s.owner = a /\ a # NoAttempt
      BY <1>3, <1>5, TrackerAssumption, Zenon DEF Breaker!Controls, Breaker!Matches
    <2>2. s = Breaker!Cooled(health[d]) /\ (health[d].owner # NoAttempt => health[d].lease # 0)
      BY <1>3, <2>1, Zenon DEF Breaker!Refreshed, Breaker!Retired, Breaker!Cooled, Breaker!Health
    <2>3. health[d].owner = s.owner
      BY <1>3, <2>2, Zenon DEF Breaker!Cooled, Breaker!Health
    <2>4. Breaker!Owner(d) = a
      BY <2>1, <2>2, <2>3, Zenon DEF Breaker!Owner
    <2>5. Breaker!Seen(d) = s
      BY <1>4, <2>1, <2>2, <2>4, Zenon DEF Breaker!Seen, Breaker!Health
    <2> QED BY <1>3, <1>5, <2>1, <2>5, Zenon DEF Breaker!Live, Breaker!Matches, d
  <1> HIDE DEF s
  <1>6. t \in Breaker!Health /\ OwnerKept(s, t)
    BY <1>3, <1>4, ReportsKeep, Zenon
  <1> HIDE DEF t
  <1>7. OwnerKept(health[d], t)
    BY <1>4, <1>6, OwnerKeptTransitive, Zenon
  <1>8. PICK y : y = Published(a, s)
    BY Zenon
  <1>9. /\ Move(settings, ex[a], y) /\ Current(y) = Current(ex[a])
        /\ \/ y.pc = "reporting" /\ y.after = "none"
           \/ y.pc = "releasing" /\ y.after \in {"succeeded", "deadline"}
        /\ y.after = "succeeded" /\ held[a].probe => Breaker!Live(a)
    <2>1. CASE held[a].probe /\ ~Breaker!Controls(s, a, held[a])
      <3>1. y = Handled(a, TRUE)
        BY <1>8, <2>1, Zenon DEF Published
      <3> QED BY <1>2, <3>1, HandledMoves, Zenon
    <2>2. CASE ~(held[a].probe /\ ~Breaker!Controls(s, a, held[a]))
      <3>1. y = Leaving(Invalidated(ex[a]), "succeeded")
        BY <1>8, <2>2, Zenon DEF Published, Sampled, Invalidated
      <3>2. Move(settings, ex[a], y) /\ y.pc = "releasing" /\ y.after = "succeeded" /\ Current(y) = Current(ex[a])
        BY <1>1, <1>2, <3>1, LeavingMoves DEF Outcomes
      <3> QED BY <1>5, <2>2, <3>2, Zenon
    <2> QED BY <2>1, <2>2, Zenon
  <1>10. y.pc \in InScope
    BY <1>9, Zenon DEF InScope
  <1> QED BY <1>1, <1>2, <1>3, <1>6, <1>7, <1>8, <1>9, <1>10, ReportMove, Zenon

LEMMA RecordFailureMoves ==
  ASSUME ExecutorInv, NEW a \in Attempts, NEW g \in Generations, RecordFailure(a, g)
  PROVE  /\ MovesOn(a) /\ ex[a].pc = "reporting" /\ Current(ex'[a]) = Current(ex[a])
         /\ \/ ex'[a].pc = "deciding" /\ ex'[a].after = "none"
            \/ ex'[a].pc = "releasing" /\ ex'[a].after = "failed"
            \/ ex'[a].pc = "releasing" /\ ex'[a].after = "next" /\ ex[a].transient
  <1> DEFINE d == held[a].deployment
             s == Breaker!Refreshed(health[d], g)
             t == IF ex[a].transient THEN Breaker!FailedTransiently(s, a, held[a], g)
                  ELSE Breaker!FailedPermanently(s, a, held[a], g)
             y == CASE ~ex[a].transient -> Leaving(ex[a], "failed")
                    [] ex[a].transient /\ ~MayRetry(a) -> Leaving(ex[a], "next")
                    [] OTHER -> [ex[a] EXCEPT !.pc = "deciding"]
  <1>1. /\ ex[a].pc = "reporting" /\ held' = held
        /\ ex' = [ex EXCEPT ![a] = y] /\ health' = [health EXCEPT ![d] = t]
    BY Zenon DEF RecordFailure
  <1>2. ex[a].pc \notin InTry /\ ex[a].pc \in InScope /\ ex[a].pc \in Busy
    BY <1>1, Zenon DEF InTry, InScope, Waiting, Busy
  <1>3. held[a] \in Breaker!Admission /\ d \in Deployments /\ health[d] \in Breaker!Health
    BY <1>2, ScopeFacts, Zenon
  <1> HIDE DEF d
  <1>4. s \in Breaker!Health /\ OwnerKept(health[d], s)
    BY <1>3, RefreshedKeeps, Zenon
  <1> HIDE DEF s
  <1>5. t \in Breaker!Health /\ OwnerKept(s, t)
    BY <1>3, <1>4, ReportsKeep, Zenon
  <1> HIDE DEF t
  <1>6. OwnerKept(health[d], t)
    BY <1>4, <1>5, OwnerKeptTransitive, Zenon
  <1>7. ex[a] \in RawExecution /\ ExecutionInv(settings, ex[a])
    BY Zenon DEF ExecutorInv
  <1>8. ex[a].after = "none"
    BY <1>1, <1>2, <1>7, Zenon DEF ExecutionInv, PlaceInv
  <1>9. Move(settings, ex[a], y) /\ y.pc \in InScope /\ Current(y) = Current(ex[a]) /\ y.after # "succeeded"
        /\ \/ y.pc = "deciding" /\ y.after = "none"
           \/ y.pc = "releasing" /\ y.after = "failed"
           \/ y.pc = "releasing" /\ y.after = "next" /\ ex[a].transient
    <2>1. CASE ~ex[a].transient
      <3>1. y = Leaving(ex[a], "failed")
        BY <2>1, Zenon
      <3> HIDE DEF y
      <3> QED BY <1>1, <1>2, <2>1, <3>1, LeavingMoves DEF Outcomes, InScope
    <2>2. CASE ex[a].transient /\ ~MayRetry(a)
      <3>1. y = Leaving(ex[a], "next")
        BY <2>2, Zenon
      <3> HIDE DEF y
      <3> QED BY <1>1, <1>2, <2>2, <3>1, LeavingMoves DEF Outcomes, InScope
    <2>3. CASE ex[a].transient /\ MayRetry(a)
      <3>1. y = [ex[a] EXCEPT !.pc = "deciding"]
        BY <2>3, Zenon
      <3> HIDE DEF y
      <3>2. y.pc = "deciding" /\ y.after = ex[a].after /\ y.plan = ex[a].plan /\ y.i = ex[a].i
        BY <1>7, <3>1, Zenon DEF RawExecution
      <3>3. Considers(settings, ex[a], y)
        BY <1>1, <2>3, <3>1, Zenon DEF Considers, MayRetry, MaxAttempts
      <3> QED BY <1>8, <3>2, <3>3, Zenon DEF Move, Current, InScope
    <2> QED BY <2>1, <2>2, <2>3, Zenon
  <1> HIDE DEF y
  <1> QED BY <1>1, <1>2, <1>3, <1>5, <1>6, <1>9, ReportMove, Zenon

LEMMA DecideMoves ==
  ASSUME ExecutorInv, NEW a \in Attempts, NEW g \in Generations, Decide(a, g)
  PROVE  /\ MovesOn(a) /\ ex[a].pc = "deciding" /\ Current(ex'[a]) = Current(ex[a])
         /\ ex'[a].pc = "releasing" /\ ex'[a].after \in {"next", "retry"}
  <1> DEFINE d == held[a].deployment
             s == Breaker!Refreshed(health[d], g)
             w == IF s.circuit = "open" THEN "next" ELSE "retry"
  <1>1. /\ ex[a].pc = "deciding" /\ held' = held
        /\ ex' = [ex EXCEPT ![a] = Leaving(ex[a], w)] /\ health' = [health EXCEPT ![d] = s]
    BY Zenon DEF Decide
  <1>2. ex[a].pc \notin InTry /\ ex[a].pc \in InScope
    BY <1>1, Zenon DEF InTry, InScope
  <1>3. d \in Deployments /\ health[d] \in Breaker!Health
    BY <1>2, ScopeFacts, Zenon
  <1> HIDE DEF d
  <1>4. s \in Breaker!Health /\ OwnerKept(health[d], s)
    BY <1>3, RefreshedKeeps, Zenon
  <1> HIDE DEF s
  <1>5. w \in {"retry", "next"}
    BY Zenon
  <1> HIDE DEF w
  <1>6. PICK y : y = Leaving(ex[a], w)
    BY Zenon
  <1>7. Move(settings, ex[a], y) /\ y.pc = "releasing" /\ Current(y) = Current(ex[a]) /\ y.after = w
    BY <1>1, <1>2, <1>5, <1>6, LeavingMoves
  <1>8. y.pc \in InScope /\ y.after # "succeeded"
    BY <1>5, <1>7, Zenon DEF InScope
  <1> QED BY <1>1, <1>2, <1>3, <1>4, <1>5, <1>6, <1>7, <1>8, ReportMove, Zenon

LEMMA LeftMoves ==
  ASSUME ExecutorInv, NEW a \in Attempts, ex[a].pc = "releasing"
  PROVE  /\ Move(settings, ex[a], Left(a)) /\ Left(a).after = "none"
         /\ Left(a).pc \in {"head", "sleeping"} \cup Outcomes
  <1>1. ex[a] \in RawExecution /\ ExecutionInv(settings, ex[a])
    BY Zenon DEF ExecutorInv
  <1>2. ex[a].pc \in Busy \ InTry
    BY Zenon DEF Busy, Waiting, InScope, InTry
  <1>3. ex[a].after \in {"retry", "next"} \cup Outcomes
    BY <1>1, <1>2, Zenon DEF ExecutionInv, PlaceInv, RawExecution
  <1>4. CASE ex[a].after = "next"
    <2>1. Left(a) = Advanced(a)
      <3>1. ex[a].after # "retry"
        BY <1>4, Zenon
      <3> QED BY <1>4, <3>1, Zenon DEF Left
    <2> QED BY <1>4, <2>1, AdvancedMoves, Zenon
  <1>5. CASE ex[a].after = "retry"
    <2>1. Left(a) = IF Expired(a) THEN Finished(a, "deadline")
                    ELSE [ex[a] EXCEPT !.pc = "sleeping", !.after = "none"]
      <3>1. ex[a].after # "next"
        BY <1>5, Zenon
      <3> QED BY <1>5, <3>1, Zenon DEF Left
    <2>2. CASE Expired(a)
      BY <1>2, <2>1, <2>2, FinishedEnds, Zenon DEF Move, Outcomes
    <2>3. CASE ~Expired(a)
      <3>1. Left(a) = [ex[a] EXCEPT !.pc = "sleeping", !.after = "none"]
        BY <2>1, <2>3, Zenon
      <3>2. Left(a).pc = "sleeping" /\ Left(a).after = "none"
        BY <1>1, <3>1, Zenon DEF RawExecution
      <3> QED BY <1>5, <3>1, <3>2, Zenon DEF Move, Sleeps
    <2> QED BY <2>2, <2>3, Zenon
  <1>6. CASE ex[a].after \in Outcomes
    <2>1. Left(a) = Finished(a, ex[a].after)
      <3>1. ex[a].after # "next" /\ ex[a].after # "retry"
        BY <1>6, Zenon DEF Outcomes
      <3> QED BY <3>1, Zenon DEF Left
    <2> QED BY <1>2, <1>6, <2>1, FinishedEnds, Zenon DEF Move
  <1> QED BY <1>3, <1>4, <1>5, <1>6, Zenon

\* Leaving the scope gives the probe slot back.
LEMMA ReleaseMoves ==
  ASSUME ExecutorInv, NEW a \in Attempts, NEW g \in Generations, Release(a, g)
  PROVE  MovesOn(a) /\ ex[a].pc = "releasing" /\ ex'[a] = Left(a)
  <1> DEFINE d == held[a].deployment
             s == Breaker!Refreshed(health[d], g)
             t == Released(a, s, g)
  <1>1. /\ ex[a].pc = "releasing" /\ held' = [held EXCEPT ![a] = NoAdmission]
        /\ ex' = [ex EXCEPT ![a] = Left(a)] /\ health' = [health EXCEPT ![d] = t]
    BY Zenon DEF Release
  <1>2. ex[a].pc \in InScope
    BY <1>1, Zenon DEF InScope
  <1>3. held[a] \in Breaker!Admission /\ d \in Deployments /\ health[d] \in Breaker!Health
    BY <1>2, ScopeFacts, Zenon
  <1>4. s \in Breaker!Health /\ OwnerKept(health[d], s)
    BY <1>3, RefreshedKeeps, Zenon
  <1>5. t \in Breaker!Health /\ OwnerKept(s, t)
    <2> HIDE DEF s
    <2> QED BY <1>3, <1>4, ReportsKeep, Zenon
  <1>6. OwnerKept(health[d], t)
    <2> HIDE DEF s, t
    <2> QED BY <1>4, <1>5, OwnerKeptTransitive, Zenon
  <1>7. \A e \in Deployments : OwnerKept(health[e], health'[e])
    <2> HIDE DEF t
    <2> QED BY <1>1, <1>3, <1>6, Zenon DEF ExecutorInv, OwnerKept
  <1>8. health' \in [Deployments -> Breaker!Health]
    <2> HIDE DEF t, d
    <2> QED BY <1>1, <1>3, <1>5, Zenon DEF ExecutorInv
  <1>9. a # NoAttempt
    BY TrackerAssumption, Zenon
  <1>10. ~settings.shared => \A e \in Deployments : health'[e].owner = a => health'[e].lease = 0
    <2> SUFFICES ASSUME ~settings.shared, NEW e \in Deployments, health'[e].owner = a, health'[e].lease # 0
                 PROVE  FALSE
      BY Zenon
    <2>1. OwnerInv(health[e], e, a, ex[a], held[a])
      BY Zenon DEF ExecutorInv
    <2>2. health[e].owner = a /\ health[e].lease # 0
      BY <1>7, <1>9, Zenon DEF OwnerKept
    <2>3. /\ health[e].circuit = "half_open" /\ e = d /\ held[a].probe
          /\ held[a].generation = health[e].generation
      BY <2>1, <2>2, Zenon DEF OwnerInv
    <2>4. s = health[d]
      BY <2>2, <2>3, Zenon DEF Breaker!Refreshed, Breaker!Cooled
    <2>5. t = Breaker!Retired(s, g)
      BY <2>2, <2>3, <2>4, Zenon DEF Released, Breaker!Matches
    <2>6. Breaker!Retired(s, g).owner = NoAttempt
      BY <1>4, Zenon DEF Breaker!Retired, Breaker!Health
    <2>7. health'[e] = t
      <3> HIDE DEF t
      <3> QED BY <1>1, <1>3, <2>3, Zenon DEF ExecutorInv
    <2> QED BY <1>9, <2>5, <2>6, <2>7, Zenon
  <1> HIDE DEF d, s, t
  <1>11. PICK y : y = Left(a)
    BY Zenon
  <1>12. Move(settings, ex[a], y) /\ y.after = "none" /\ y.pc \in {"head", "sleeping"} \cup Outcomes
    BY <1>1, <1>11, LeftMoves, Zenon
  <1>13. y.pc \notin InScope
    BY <1>12, Zenon DEF InScope, InTry, Outcomes
  <1> QED BY <1>1, <1>7, <1>8, <1>10, <1>11, <1>12, <1>13, ScopeEnds, Zenon

\* A candidate that is refused is passed over; one that is admitted is called,
\* unless the budget is spent.
LEMMA AdmitMoves ==
  ASSUME ExecutorInv, NEW a \in Attempts, NEW g \in Generations, Admit(a, g)
  PROVE  /\ MovesOn(a) /\ ex[a].pc = "admitting"
         /\ \/ held'[a] = NoAdmission /\ ex'[a] = Advanced(a)
            \/ held'[a] # NoAdmission /\ ex'[a].pc = "releasing" /\ ex'[a].after = "deadline"
            \/ held'[a] # NoAdmission /\ ex'[a].pc = "calling"
  <1> DEFINE d == Candidate(a)
             s == Breaker!Refreshed(health[d], g)
             t == Breaker!Admitted(s, a, g)
             h == [deployment |-> d, generation |-> t.generation, probe |-> t.circuit = "half_open"]
             z == [ex[a] EXCEPT !.tried = Listed(a, d)]
             called == [ex[a] EXCEPT !.pc = "calling", !.unaccounted = TRUE,
                                     !.calls[d] = IF @ <= MaxAttempts THEN @ + 1 ELSE @]
             y == IF Expired(a) THEN Leaving(z, "deadline") ELSE [called EXCEPT !.tried = Listed(a, d)]
  <1>1. /\ ex[a].pc = "admitting" /\ health' = [health EXCEPT ![d] = t]
        /\ Refused(s) => held' = held /\ ex' = [ex EXCEPT ![a] = Advanced(a)]
        /\ ~Refused(s) => held' = [held EXCEPT ![a] = h] /\ ex' = [ex EXCEPT ![a] = y]
    BY Zenon DEF Admit
  <1>2. ex[a] \in RawExecution /\ ExecutionInv(settings, ex[a]) /\ HoldsInv(ex[a], held[a])
        /\ health \in [Deployments -> Breaker!Health] /\ held = [held EXCEPT ![a] = held[a]]
        /\ settings \in Settings
    BY Zenon DEF ExecutorInv
  <1>3. held[a] = NoAdmission /\ ex[a].pc \notin InScope /\ ex[a].pc \in Busy
    BY <1>1, <1>2, Zenon DEF HoldsInv, InScope, InTry, Busy, Waiting
  <1>4. /\ PlaceInv(settings, ex[a]) /\ CallsInv(settings, ex[a])
        /\ d \in Deployments /\ d = Current(ex[a])
    BY <1>2, <1>3 DEF ExecutionInv, PlaceInv, RawExecution, Candidate, Current
  <1>5. health[d] \in Breaker!Health
    BY <1>2, <1>4, Zenon
  <1>6. /\ s \in Breaker!Health /\ OwnerKept(health[d], s)
        /\ s.owner = NoAttempt \/ s.lease # 0
    BY <1>5, RefreshedKeeps, Zenon
  <1>7. /\ t \in Breaker!Health /\ t.circuit = s.circuit /\ (Refused(s) => t = s)
        /\ OwnerKept(s, t) \/ (t.owner = a /\ t.circuit = "half_open" /\ t.generation = g /\ ~Refused(s))
    <2> HIDE DEF s, d
    <2> QED BY <1>6, AdmittedGrants, Zenon
  <1>8. OwnerKept(health[d], t) \/ t.owner = a
    <2> HIDE DEF s, d, t
    <2> QED BY <1>6, <1>7, OwnerKeptTransitive, Zenon
  <1>9. a # NoAttempt /\ settings.attempts \in Nat
    BY <1>2, TrackerAssumption, SettingsType, Zenon
  <1> HIDE DEF s, d, t, y
  <1>10. health' \in [Deployments -> Breaker!Health] /\ health'[d] = t
         /\ \A e \in Deployments \ {d} : health'[e] = health[e]
    BY <1>1, <1>2, <1>4, <1>7, Zenon
  <1>11. ~settings.shared =>
           \A e \in Deployments : health[e].owner = a => health[e].lease = 0
    BY <1>3, Zenon DEF ExecutorInv, OwnerInv
  <1>12. \A e \in Deployments : OwnerKept(health[e], health'[e]) \/ health'[e].owner = a
    BY <1>8, <1>10, Zenon DEF OwnerKept
  <1>13. CASE Refused(s)
    <2>1. OwnerKept(health[d], t)
      BY <1>6, <1>7, <1>13, Zenon
    <2>2. \A e \in Deployments : OwnerKept(health[e], health'[e])
      BY <1>10, <2>1, Zenon DEF OwnerKept
    <2>3. PICK v : v = Advanced(a)
      BY Zenon
    <2>4. Move(settings, ex[a], v) /\ v.after = "none" /\ v.pc \in {"head"} \cup Outcomes
      BY <1>1, <2>3, AdvancedMoves, Zenon
    <2>5. v.pc \notin InScope
      BY <2>4, Zenon DEF InScope, InTry, Outcomes
    <2>6. ex' = [ex EXCEPT ![a] = v] /\ held' = [held EXCEPT ![a] = NoAdmission]
      BY <1>1, <1>2, <1>3, <1>13, <2>3, Zenon
    <2>7. ~settings.shared => \A e \in Deployments : health'[e].owner = a => health'[e].lease = 0
      BY <1>9, <1>11, <2>2, Zenon DEF OwnerKept
    <2>8. MovesOn(a)
      BY <1>10, <2>2, <2>4, <2>5, <2>6, <2>7, ScopeEnds, Zenon
    <2>9. held'[a] = NoAdmission /\ ex'[a] = v
      BY <2>6, Zenon DEF ExecutorInv
    <2> QED BY <1>1, <2>3, <2>8, <2>9, Zenon
  <1>14. CASE ~Refused(s)
    <2>1. h \in Breaker!Admission /\ h # NoAdmission /\ h.deployment = d
      <3>1. h \in Breaker!Admission
        BY <1>4, <1>7, Zenon DEF Breaker!Admission, Breaker!Health
      <3> QED BY <3>1, TrackerAssumption, Zenon DEF Breaker!Admission
    <2>2. h.generation = t.generation /\ (h.probe <=> t.circuit = "half_open")
      BY Zenon
    <2> HIDE DEF h
    <2>3. ex[a].calls[d] \in Nat /\ ex[a].n \in 1..settings.attempts /\ ex[a].calls[d] <= ex[a].n - 1
      BY <1>1, <1>2, <1>4, Zenon DEF CallsInv, PlaceInv, RawExecution
    <2>4. Listed(a, d) \in Seq(Deployments)
      BY <1>2, <1>4 DEF Listed, RawExecution
    <2>5. ex[a].after = "none" /\ (settings.timeout = 0 => ~ex[a].unaccounted)
      BY <1>1, <1>2, <1>4, Zenon DEF ExecutionInv, PlaceInv, InTry
    <2>6. /\ Move(settings, ex[a], y) /\ y.after \in {"none", "deadline"} /\ Current(y) = d
          /\ y.pc = "calling" \/ (y.pc = "releasing" /\ y.after = "deadline")
      <3>1. CASE Expired(a)
        <4>1. PICK u \in BOOLEAN, l \in Seq(Deployments) : u = ex[a].unaccounted /\ l = Listed(a, d)
          BY <1>2, <2>4, Zenon DEF RawExecution
        <4>2. y = [ex[a] EXCEPT !.pc = "releasing", !.after = "deadline", !.transient = FALSE,
                                !.tried = l, !.unaccounted = u]
          BY <1>2, <3>1, <4>1, Zenon DEF y, Leaving, RawExecution
        <4>3. Leaves(settings, ex[a], y)
          <5>1. "deadline" \in {"retry", "next"} \cup Outcomes /\ settings.timeout # 0
            BY <3>1, Zenon DEF Outcomes, Expired, Timeout
          <5>2. /\ ex[a].pc \in InTry \cup {"admitting", "reporting", "deciding"}
                /\ ex[a].pc = "admitting" /\ "deadline" # "retry" /\ "deadline" # "next"
                /\ "deadline" # "succeeded"
            BY <1>1, Zenon
          <5> HIDE DEF z, called
          <5> QED BY <4>2, <5>1, <5>2, Zenon DEF Leaves
        <4>4. y.pc = "releasing" /\ y.after = "deadline" /\ y.plan = ex[a].plan /\ y.i = ex[a].i
          BY <1>2, <4>2, Zenon DEF RawExecution
        <4> QED BY <1>4, <4>3, <4>4, Zenon DEF Move, Current
      <3>2. CASE ~Expired(a)
        <4>1. ex[a].calls[d] <= MaxAttempts
          BY <1>9, <2>3 DEF MaxAttempts
        <4>2. called = [ex[a] EXCEPT !.pc = "calling", !.unaccounted = TRUE,
                                     !.calls = [ex[a].calls EXCEPT ![d] = @ + 1]]
          BY <1>2, <1>4, <4>1, Zenon DEF RawExecution
        <4>3. Listed(a, d) = IF ex[a].n = 1 THEN Append(ex[a].tried, Current(ex[a])) ELSE ex[a].tried
          BY <1>4, Zenon DEF Listed
        <4>4. y = [called EXCEPT !.tried = Listed(a, d)]
          BY <3>2, Zenon DEF y
        <4> HIDE DEF called
        <4>5. y = [ex[a] EXCEPT !.pc = "calling", !.unaccounted = TRUE,
                                !.calls = [ex[a].calls EXCEPT ![Current(ex[a])] = @ + 1],
                                !.tried = IF ex[a].n = 1 THEN Append(ex[a].tried, Current(ex[a]))
                                          ELSE ex[a].tried]
          BY <1>2, <1>4, <4>2, <4>3, <4>4, Zenon DEF RawExecution
        <4>6. Calls(ex[a], y)
          BY <1>1, <4>5, Zenon DEF Calls
        <4>7. y.pc = "calling" /\ y.after = "none" /\ y.plan = ex[a].plan /\ y.i = ex[a].i
          BY <1>2, <2>5, <4>5, Zenon DEF RawExecution
        <4> QED BY <1>4, <4>6, <4>7, Zenon DEF Move, Current
      <3> QED BY <3>1, <3>2, Zenon
    <2>7. ex' = [ex EXCEPT ![a] = y] /\ ex'[a] = y /\ held' = [held EXCEPT ![a] = h] /\ held'[a] = h
      BY <1>1, <1>14, Zenon DEF ExecutorInv
    <2>8. y.pc \in InScope
      BY <2>6, Zenon DEF InScope, InTry
    <2>9. HoldsInv(y, h)
      BY <2>1, <2>6, <2>8, Zenon DEF HoldsInv
    <2>10. ~settings.shared => \A e \in Deployments : OwnerInv(health'[e], e, a, y, h)
      <3> SUFFICES ASSUME ~settings.shared, NEW e \in Deployments, health'[e].owner = a, health'[e].lease # 0
                   PROVE  OwnerInv(health'[e], e, a, y, h)
        BY Zenon DEF OwnerInv
      <3>1. e = d
        BY <1>10, <1>11, Zenon
      <3>2. t.circuit = "half_open"
        <4>1. ~OwnerKept(health[d], t)
          BY <1>4, <1>9, <1>10, <1>11, <3>1, Zenon DEF OwnerKept
        <4> QED BY <1>6, <1>7, <4>1, OwnerKeptTransitive, Zenon
      <3> QED BY <1>10, <2>1, <2>2, <2>8, <3>1, <3>2, Zenon DEF OwnerInv
    <2>11. MovesOn(a)
      BY <1>10, <1>12, <2>6, <2>7, <2>9, <2>10, Zenon DEF MovesOn
    <2> QED BY <1>1, <2>1, <2>6, <2>7, <2>11, Zenon
  <1> QED BY <1>13, <1>14, Zenon

-----------------------------------------------------------------------------
(* The executor.                                                           *)

LEMMA InitExecutor ==
  ASSUME Init
  PROVE  ExecutorInv
  <1>1. /\ settings \in Settings /\ ex = [a \in Attempts |-> Idle] /\ held = [a \in Attempts |-> NoAdmission]
        /\ \A d \in Deployments : health[d].owner = NoAttempt
    BY Zenon DEF Init, Breaker!Init
  <1>2. health \in [Deployments -> Breaker!Health]
    <2>1. /\ 0 \in 0..ProbeLease /\ 0 \in 0..Cooldown /\ 0 \in 0..FailureThreshold
          /\ FirstGeneration \in [Deployments -> Generations]
      BY TrackerAssumption
    <2> QED BY <2>1, Zenon DEF Init, Breaker!Init, Breaker!Health
  <1>3. ExecutionInv(settings, Idle)
    <2>1. Idle = [Idle EXCEPT !.pc = Idle.pc, !.unaccounted = Idle.unaccounted]
      BY Zenon DEF Idle
    <2>2. Idle.pc \in Resting /\ Idle.unaccounted = FALSE
      BY Zenon DEF Idle, Resting
    <2> QED BY <1>1, <2>1, <2>2, RestingKeeps, Zenon
  <1>4. HoldsInv(Idle, NoAdmission)
    BY IdleType, Zenon DEF HoldsInv, InScope, InTry
  <1>5. \A d \in Deployments, a \in Attempts : OwnerInv(health[d], d, a, ex[a], held[a])
    BY <1>1, TrackerAssumption, Zenon DEF OwnerInv
  <1> QED BY <1>1, <1>2, <1>3, <1>4, <1>5, IdleType, Zenon DEF ExecutorInv

LEMMA TickKeeps ==
  ASSUME ExecutorInv, Tick, settings' = settings
  PROVE  ExecutorInv'
  <1>1. \A a \in Attempts : Ages(ex[a], ex'[a])
    BY Zenon DEF Tick, Ages, ExecutorInv
  <1>2. \A a \in Attempts : ExecutionInv(settings', ex'[a])
    BY <1>1, AgesKeeps, Zenon DEF ExecutorInv
  <1>3. \A a \in Attempts : /\ ex'[a].pc = ex[a].pc /\ ex'[a].plan = ex[a].plan
                            /\ ex'[a].i = ex[a].i
    <2> TAKE a \in Attempts
    <2>1. ex[a] \in RawExecution /\ Ages(ex[a], ex'[a])
      BY <1>1, Zenon DEF ExecutorInv
    <2> QED BY <2>1, Zenon DEF RawExecution, Ages
  <1>4. ex' \in [Attempts -> RawExecution]
    <2>1. ex' = [a \in Attempts |-> ex'[a]]
      BY Zenon DEF Tick
    <2> QED BY <1>2, <2>1, Zenon DEF ExecutionInv
  <1>5. held' = held /\ settings \in Settings
    BY Zenon DEF Tick, Breaker!Tick, ExecutorInv
  <1>6. \A a \in Attempts : HoldsInv(ex'[a], held'[a])
    BY <1>3, <1>5, Zenon DEF ExecutorInv, HoldsInv, Current
  <1>7. health' \in [Deployments -> Breaker!Health]
        /\ \A d \in Deployments :
             /\ health'[d].owner = health[d].owner /\ health'[d].circuit = health[d].circuit
             /\ health'[d].generation = health[d].generation
             /\ health'[d].lease # 0 => health[d].lease # 0
    <2>1. health' = [d \in Deployments |->
                       [health[d] EXCEPT !.cooldown = IF @ = 0 THEN 0 ELSE @ - 1,
                                         !.lease    = IF @ = 0 THEN 0 ELSE @ - 1]]
      BY Zenon DEF Tick, Breaker!Tick
    <2>2. ASSUME NEW s \in Breaker!Health,
                 NEW t, t = [s EXCEPT !.cooldown = IF @ = 0 THEN 0 ELSE @ - 1,
                                      !.lease    = IF @ = 0 THEN 0 ELSE @ - 1]
          PROVE  /\ t \in Breaker!Health /\ t.owner = s.owner /\ t.circuit = s.circuit
                 /\ t.generation = s.generation /\ (t.lease # 0 => s.lease # 0)
      <3>1. s.cooldown \in 0..Cooldown /\ s.lease \in 0..ProbeLease /\ Cooldown \in Nat /\ ProbeLease \in Nat
        BY TrackerAssumption, Zenon DEF Breaker!Health
      <3> DEFINE c == IF s.cooldown = 0 THEN 0 ELSE s.cooldown - 1
                 l == IF s.lease = 0 THEN 0 ELSE s.lease - 1
      <3>2. c \in 0..Cooldown /\ l \in 0..ProbeLease /\ (l # 0 => s.lease # 0)
        BY <3>1
      <3>3. t = [s EXCEPT !.cooldown = c, !.lease = l]
        BY <2>2, Zenon DEF Breaker!Health
      <3> HIDE DEF c, l
      <3> QED BY <3>2, <3>3, Zenon DEF Breaker!Health
    <2> QED BY <2>1, <2>2, Zenon DEF ExecutorInv
  <1>8. ~settings'.shared =>
          \A d \in Deployments, a \in Attempts : OwnerInv(health'[d], d, a, ex'[a], held'[a])
    BY <1>3, <1>5, <1>7 DEF ExecutorInv, OwnerInv
  <1> QED BY <1>2, <1>4, <1>5, <1>6, <1>7, <1>8, Zenon DEF ExecutorInv

LEMMA StepMoves ==
  ASSUME ExecutorInv, Next
  PROVE  Tick \/ \E a \in Attempts : MovesOn(a)
  <1>1. settings.clients \subseteq Attempts
    BY SettingsType, Zenon DEF ExecutorInv
  <1>2. ASSUME NEW a \in Attempts, NEW g \in Breaker!Fresh, Work(a, g) PROVE MovesOn(a)
    BY <1>2, FreshIsGeneration, AdmitMoves, RecordSuccessMoves, RecordFailureMoves, DecideMoves,
       ReleaseMoves, Zenon DEF Work
  <1>3. ASSUME NEW a \in Attempts, NEW why \in {"cancelled", "deadline"},
               Interrupt(a, why) \/ \E g \in Breaker!Fresh : InterruptAdmitted(a, why, g)
        PROVE  MovesOn(a)
    BY <1>3, FreshIsGeneration, InterruptMoves, InterruptAdmittedMoves, Zenon
  <1> QED BY <1>1, <1>2, <1>3, StartMoves, ProviderMoves, AdvanceMoves, TrackerFailsMoves, Zenon DEF Next, Step

LEMMA NextKeeps ==
  ASSUME ExecutorInv, [Next]_vars
  PROVE  ExecutorInv'
  <1>1. CASE Next
    <2>1. settings' = settings
      BY <1>1, Zenon DEF Next
    <2> QED BY <1>1, <2>1, StepMoves, TickKeeps, MovesOnKeeps, Zenon
  <1>2. CASE UNCHANGED vars
    BY <1>2, Zenon DEF vars, ExecutorInv
  <1> QED BY <1>1, <1>2, Zenon

\* The inductive invariant holds of every execution of the executor.
THEOREM ExecutorIsSound == Spec => []ExecutorInv
  BY InitExecutor, NextKeeps, PTL DEF Spec

-----------------------------------------------------------------------------
(* What the executor promises.                                             *)

\* A sequence without repetitions is as long as the set of its elements.
LEMMA DistinctCount ==
  ASSUME NEW S, NEW q \in Seq(S), NEW T, \A j \in 1..Len(q) : q[j] \in T,
         \A d \in T : \E j \in 1..Len(q) : q[j] = d
  PROVE  /\ IsFiniteSet(T) /\ Cardinality(T) \in Nat /\ Cardinality(T) <= Len(q)
         /\ (\A j, k \in 1..Len(q) : q[j] = q[k] => j = k) => Cardinality(T) = Len(q)
  <1> DEFINE n == Len(q)
  <1>1. n \in Nat /\ DOMAIN q = 1..n
    OBVIOUS
  <1>2. IsFiniteSet(1..n) /\ Cardinality(1..n) = n
    BY <1>1, FS_Interval
  <1>3. q = [j \in 1..n |-> q[j]]
    BY <1>1
  <1>4. q \in [1..n -> T]
    BY <1>3, Zenon
  <1>5. q \in Surjection(1..n, T)
    BY <1>4, Zenon DEF Surjection
  <1>6. ASSUME \A j, k \in 1..n : q[j] = q[k] => j = k PROVE q \in Injection(1..n, T)
    BY <1>4, <1>6, Zenon DEF Injection, IsInjective
  <1>7. IsFiniteSet(T) /\ Cardinality(T) <= n /\ (Cardinality(T) = n <=> q \in Injection(1..n, T))
    <2> HIDE DEF n
    <2> QED BY <1>2, <1>5, FS_Surjection
  <1>8. Cardinality(T) \in Nat
    BY <1>7, FS_CardinalityType, Zenon
  <1> QED BY <1>6, <1>7, <1>8, Zenon

\* A plan without repetitions is no longer than the deployments it ranks.
LEMMA DistinctFits ==
  ASSUME NEW S, IsFiniteSet(S), NEW q \in Seq(S), \A j, k \in 1..Len(q) : q[j] = q[k] => j = k
  PROVE  Len(q) <= Cardinality(S) /\ Cardinality(S) \in Nat /\ q \in [1..Len(q) -> S]
  <1> DEFINE n == Len(q)
  <1>1. n \in Nat /\ q \in [1..n -> S]
    OBVIOUS
  <1>2. IsFiniteSet(1..n) /\ Cardinality(1..n) = n
    BY <1>1, FS_Interval
  <1>3. q \in Injection(1..n, S)
    BY <1>1, Zenon DEF Injection, IsInjective
  <1>4. Cardinality(1..n) <= Cardinality(S)
    <2> HIDE DEF n
    <2> QED BY <1>3, FS_Injection, Zenon
  <1> QED BY <1>1, <1>2, <1>4, FS_CardinalityType, Zenon

LEMMA ExecutionType ==
  ASSUME settings \in Settings, NEW x, ExecutionInv(settings, x)
  PROVE  x \in Executions
  <1>1. /\ settings.served \subseteq Deployments /\ settings.attempts \in Nat /\ settings.timeout \in Nat
        /\ IsFiniteSet(Deployments)
    BY SettingsType, ExecutionAssumption, Zenon
  <1>2. IsFiniteSet(settings.served) /\ Cardinality(settings.served) \in Nat
        /\ Cardinality(Deployments) \in Nat /\ Cardinality(settings.served) <= Cardinality(Deployments)
    BY <1>1, FS_Subset, FS_CardinalityType, Zenon
  <1>3. x \in RawExecution /\ x.left \in 0..Timeout
    BY <1>1 DEF ExecutionInv, RawExecution, Timeout
  <1>4. /\ x.plan \in Plans /\ x.i \in 0..Cardinality(Deployments) /\ x.n \in 0..MaxAttempts
        /\ x.calls \in [Deployments -> 0..MaxAttempts + 1]
    <2>1. CASE x.pc \in Busy
      <3>1. /\ SoundPlan(settings, x.plan) /\ x.i \in 1..Len(x.plan) /\ x.n \in 1..settings.attempts
            /\ \A d \in Deployments : x.calls[d] <= settings.attempts
        BY <2>1, Zenon DEF ExecutionInv, PlaceInv, CallsInv
      <3>2. /\ Len(x.plan) <= Cardinality(settings.served)
            /\ x.plan \in [1..Len(x.plan) -> settings.served] /\ Len(x.plan) \in Nat
        BY <1>2, <3>1, DistinctFits DEF SoundPlan
      <3>3. x.plan \in Plans
        <4>1. Len(x.plan) \in 0..Cardinality(settings.served)
          BY <1>2, <3>2
        <4>2. \A j, k \in DOMAIN x.plan : x.plan[j] = x.plan[k] => j = k
          BY <3>1, <3>2, Zenon DEF SoundPlan
        <4> QED BY <3>2, <4>1, <4>2, Zenon DEF Plans
      <3>4. x.i \in 0..Cardinality(Deployments) /\ x.n \in 0..MaxAttempts
        BY <1>1, <1>2, <3>1, <3>2 DEF MaxAttempts
      <3>5. x.calls \in [Deployments -> 0..MaxAttempts + 1]
        BY <1>1, <1>3, <3>1 DEF RawExecution, MaxAttempts
      <3> QED BY <3>3, <3>4, <3>5, Zenon
    <2>2. CASE x.pc \in Resting
      <3>1. x.plan = <<>> /\ x.i = 0 /\ x.n = 0 /\ x.calls = [d \in Deployments |-> 0]
        BY <2>2, Zenon DEF ExecutionInv, RestingInv, Idle
      <3>2. <<>> \in Plans
        <4>1. <<>> \in [1..0 -> settings.served] /\ 0 \in 0..Cardinality(settings.served)
          BY <1>2
        <4>2. \A j, k \in DOMAIN << >> : <<>>[j] = <<>>[k] => j = k
          OBVIOUS
        <4> QED BY <4>1, <4>2, Zenon DEF Plans
      <3>3. 0 \in 0..Cardinality(Deployments) /\ 0 \in 0..MaxAttempts /\ 0 \in 0..MaxAttempts + 1
        BY <1>1, <1>2 DEF MaxAttempts
      <3> QED BY <3>1, <3>2, <3>3, Zenon
    <2> QED BY <1>3, <2>1, <2>2, Zenon DEF RawExecution
  <1>5. x.pc \in {"idle", "head"} \cup Waiting \cup Outcomes
    BY <1>3, Zenon DEF RawExecution, Resting, Busy
  <1> QED BY <1>3, <1>4, <1>5, Zenon DEF Executions, RawExecution

LEMMA BoundsFollow ==
  ASSUME ExecutorInv
  PROVE  CallsBounded
  <1>1. TypeOK
    <2>1. \A a \in Attempts : ex[a] \in Executions
      BY ExecutionType, Zenon DEF ExecutorInv
    <2> QED BY <2>1, Zenon DEF TypeOK, ExecutorInv, Breaker!TypeOK
  <1>2. ASSUME NEW a \in Attempts,
               NEW called, called = {d \in Deployments : ex[a].calls[d] > 0}
        PROVE  /\ called \subseteq Authorized
               /\ Cardinality(called) <= MaxFallbacks + 1
               /\ \A d \in called : ex[a].calls[d] <= MaxAttempts
               /\ ex[a].pc \in InTry \cup {"reporting", "deciding"} =>
                    /\ Len(ex[a].tried) = Cardinality(called)
                    /\ {ex[a].tried[j] : j \in DOMAIN ex[a].tried} = called
                    /\ ex[a].tried[Len(ex[a].tried)] = Candidate(a)
    <2>1. PICK x : x = ex[a]
      BY Zenon
    <2>2. x \in RawExecution /\ ExecutionInv(settings, x)
          /\ settings.fallbacks \in Nat /\ settings.attempts \in Nat
      BY <2>1, SettingsType, Zenon DEF ExecutorInv
    <2>3. CASE x.pc \in Resting
      <3>1. \A d \in Deployments : x.calls[d] = 0
        <4>1. x.calls = [d \in Deployments |-> 0]
          BY <2>2, <2>3, Zenon DEF ExecutionInv, RestingInv, Idle
        <4> QED BY <4>1, Zenon
      <3>2. called = {}
        BY <1>2, <2>1, <3>1
      <3>3. ex[a].pc \notin InTry \cup {"reporting", "deciding"}
        BY <2>1, <2>3, Zenon DEF Resting, Outcomes, InTry
      <3> QED BY <2>2, <3>2, <3>3, FS_EmptySet DEF MaxFallbacks
    <2>4. CASE x.pc \in Busy
      <3>1. PlaceInv(settings, x) /\ CallsInv(settings, x) /\ ListInv(x)
        BY <2>2, <2>4, Zenon DEF ExecutionInv
      <3>2. /\ SoundPlan(settings, x.plan) /\ x.i \in 1..Len(x.plan) /\ x.plan \in Seq(Deployments)
            /\ Len(x.plan) \in Nat /\ Len(x.plan) <= settings.fallbacks + 1
        BY <2>2, <3>1 DEF PlaceInv, SoundPlan, RawExecution
      <3>3. \A d \in called : \E j \in 1..Len(x.plan) : x.plan[j] = d
        BY <1>2, <2>1, <3>1, <3>2 DEF CallsInv
      <3>4. called \subseteq Authorized
        BY <3>2, <3>3 DEF SoundPlan, Authorized
      <3>5. \A d \in called : ex[a].calls[d] <= MaxAttempts
        BY <1>2, <2>1, <3>1, Zenon DEF CallsInv, MaxAttempts
      <3>6. Cardinality(called) <= Len(x.plan) /\ Cardinality(called) \in Nat
        <4> DEFINE T == {x.plan[j] : j \in 1..Len(x.plan)}
        <4>1. (\A j \in 1..Len(x.plan) : x.plan[j] \in T) /\ \A d \in T : \E j \in 1..Len(x.plan) : x.plan[j] = d
          BY Zenon
        <4>2. called \in SUBSET T
          BY <3>3, Zenon
        <4> HIDE DEF T
        <4>3. IsFiniteSet(T) /\ Cardinality(T) \in Nat /\ Cardinality(T) <= Len(x.plan)
          BY <3>2, <4>1, DistinctCount, Zenon
        <4>4. IsFiniteSet(called) /\ Cardinality(called) <= Cardinality(T)
          BY <4>2, <4>3, FS_Subset, Zenon
        <4> QED BY <3>2, <4>3, <4>4, FS_CardinalityType
      <3>7. Cardinality(called) <= MaxFallbacks + 1
        BY <2>2, <3>2, <3>6 DEF MaxFallbacks
      <3>8. ASSUME x.pc \in InTry \cup {"reporting", "deciding"}
            PROVE  /\ Len(x.tried) = Cardinality(called)
                   /\ {x.tried[j] : j \in DOMAIN x.tried} = called
                   /\ x.tried[Len(x.tried)] = Candidate(a)
        <4>1. GoesOn(x) /\ Reached(x)
          BY <3>8, Zenon DEF GoesOn, Reached, InTry
        <4>2. ListsCalled(x.tried, x.calls) /\ x.tried[Len(x.tried)] = Current(x)
              /\ x.tried \in Seq(Deployments) /\ Len(x.tried) \in Nat /\ DOMAIN x.tried = 1..Len(x.tried)
          BY <2>2, <3>1, <4>1 DEF ListInv, RawExecution
        <4>3. /\ \A j \in 1..Len(x.tried) : x.tried[j] \in called
              /\ \A d \in called : \E j \in 1..Len(x.tried) : x.tried[j] = d
              /\ \A j, k \in 1..Len(x.tried) : x.tried[j] = x.tried[k] => j = k
          BY <1>2, <2>1, <4>2 DEF ListsCalled
        <4>4. Cardinality(called) = Len(x.tried)
          BY <4>2, <4>3, DistinctCount, Zenon
        <4>5. {x.tried[j] : j \in DOMAIN x.tried} = called
          BY <4>2, <4>3
        <4> QED BY <2>1, <4>2, <4>4, <4>5, Zenon DEF Candidate, Current
      <3> QED BY <2>1, <3>4, <3>5, <3>7, <3>8, Zenon
    <2> QED BY <2>2, <2>3, <2>4, Zenon DEF RawExecution
  <1> QED BY <1>1, <1>2, Zenon DEF CallsBounded

\* Retry and fallback are bounded for any settings, plans and interleaving.
THEOREM CallsAreBounded == Spec => []CallsBounded
  BY ExecutorIsSound, BoundsFollow, PTL

\* On an in-process tracker no exit of an attempt keeps its probe slot.
THEOREM ProbesAreReturned == Spec => []ProbeIsReturned
  <1>1. ExecutorInv => ProbeIsReturned
    <2> SUFFICES ASSUME ExecutorInv, NEW a \in Attempts, NEW d \in Deployments,
                        ~SharedTracker, Breaker!Owner(d) = a
                 PROVE  ex[a].pc \in InScope
      BY Zenon DEF ProbeIsReturned
    <2>1. a # NoAttempt
      BY TrackerAssumption, Zenon
    <2>2. health[d].owner = a /\ health[d].lease # 0
      BY <2>1, Zenon DEF Breaker!Owner
    <2> QED BY <2>2, Zenon DEF ExecutorInv, OwnerInv, SharedTracker
  <1> QED BY <1>1, ExecutorIsSound, PTL

\* Without a deadline every provider attempt is accounted for.
THEOREM AttemptsAreAccounted == Spec => []AccountedWithoutDeadline
  <1>1. ExecutorInv => AccountedWithoutDeadline
    BY Zenon DEF ExecutorInv, ExecutionInv, AccountedWithoutDeadline, EveryAttemptAccounted, Timeout
  <1> QED BY <1>1, ExecutorIsSound, PTL

\* A move to success is the end of an attempt that was published in time.
LEMMA SuccessEnds ==
  ASSUME NEW st, NEW x \in RawExecution, NEW y, Move(st, x, y), y.pc = "succeeded", x.pc # "succeeded"
  PROVE  ~Spent(st, x)
  <1>1. ~Begins(st, x, y) /\ ~Declines(x, y)
    BY Zenon DEF Begins, Declines, Idle
  <1>2. ~Proceeds(x, y) /\ ~FallsBack(x, y) /\ ~Calls(x, y) /\ ~Leaves(st, x, y) /\ ~Answers(x, y)
    BY Zenon DEF Proceeds, FallsBack, Calls, Leaves, Answers, RawExecution
  <1>3. ~Handles(x, y) /\ ~Considers(st, x, y) /\ ~Sleeps(x, y) /\ ~Wakes(x, y)
    BY Zenon DEF Handles, Considers, Sleeps, Wakes, RawExecution
  <1>4. Ends(st, x, y)
    BY <1>1, <1>2, <1>3, Zenon DEF Move
  <1>5. PICK o \in Outcomes :
          /\ y = [Idle EXCEPT !.pc = o, !.unaccounted = x.unaccounted]
          /\ o = "succeeded" => ~Spent(st, x)
    BY <1>4, Zenon DEF Ends
  <1>6. y.pc = o
    BY <1>5, Zenon DEF Idle
  <1> QED BY <1>5, <1>6, Zenon

\* A success is published by a live probe only, and returned in time only.
THEOREM SuccessesAreEarned == Spec => SuccessIsEarned
  <1>1. ASSUME ExecutorInv, Next PROVE SuccessStep
    <2> SUFFICES ASSUME NEW b \in Attempts
                 PROVE  /\ ex'[b].after = "succeeded" /\ ex[b].after # "succeeded" /\ held[b].probe =>
                             Breaker!Live(b)
                        /\ ex'[b].pc = "succeeded" /\ ex[b].pc # "succeeded" => ~Expired(b)
      BY Zenon DEF SuccessStep
    <2>1. CASE Tick
      <3>1. ex[b] \in RawExecution /\ Ages(ex[b], ex'[b])
        BY <1>1, <2>1, Zenon DEF Tick, Ages, ExecutorInv
      <3>2. ex'[b].pc = ex[b].pc /\ ex'[b].after = ex[b].after
        BY <3>1, Zenon DEF Ages, RawExecution
      <3> QED BY <3>2, Zenon
    <2>2. ASSUME NEW a \in Attempts, MovesOn(a)
          PROVE  /\ ex'[b].after = "succeeded" /\ ex[b].after # "succeeded" /\ held[b].probe =>
                      Breaker!Live(b)
                 /\ ex'[b].pc = "succeeded" /\ ex[b].pc # "succeeded" => ~Expired(b)
      <3>1. CASE b # a
        BY <1>1, <2>2, <3>1, Zenon DEF MovesOn, ExecutorInv
      <3>2. CASE b = a
        <4>1. ex[a] \in RawExecution /\ Move(settings, ex[a], ex'[a])
          BY <1>1, <2>2, Zenon DEF MovesOn, ExecutorInv
        <4>2. ex'[a].pc = "succeeded" /\ ex[a].pc # "succeeded" => ~Spent(settings, ex[a])
          BY <4>1, SuccessEnds, Zenon
        <4> QED BY <2>2, <3>2, <4>2, Zenon DEF MovesOn, Expired, Spent, Timeout
      <3> QED BY <3>1, <3>2, Zenon
    <2> QED BY <1>1, <2>1, <2>2, StepMoves, Zenon
  <1> QED BY <1>1, ExecutorIsSound, PTL DEF Spec, SuccessIsEarned

\* Remaining, of an execution.
PhaseOf(pc) == CHOOSE k \in DOMAIN PhaseOrder : PhaseOrder[k] = pc

Weight(st, x) ==
  IF x.pc \notin Busy THEN 0
  ELSE ((Len(x.plan) - x.i) * st.attempts + (st.attempts - x.n)) * Len(PhaseOrder) + PhaseOf(x.pc)

LEMMA Phases ==
  /\ Len(PhaseOrder) = 8
  /\ PhaseOf("sleeping") = 1 /\ PhaseOf("releasing") = 2 /\ PhaseOf("deciding") = 3
  /\ PhaseOf("reporting") = 4 /\ PhaseOf("recording") = 5 /\ PhaseOf("calling") = 6
  /\ PhaseOf("admitting") = 7 /\ PhaseOf("head") = 8
  <1>1. DOMAIN PhaseOrder = 1..8 /\ Len(PhaseOrder) = 8
    BY DEF PhaseOrder
  <1>2. /\ PhaseOrder[1] = "sleeping" /\ PhaseOrder[2] = "releasing" /\ PhaseOrder[3] = "deciding"
        /\ PhaseOrder[4] = "reporting" /\ PhaseOrder[5] = "recording" /\ PhaseOrder[6] = "calling"
        /\ PhaseOrder[7] = "admitting" /\ PhaseOrder[8] = "head"
    BY Zenon DEF PhaseOrder
  <1>3. \A k \in 1..8 : k = 1 \/ k = 2 \/ k = 3 \/ k = 4 \/ k = 5 \/ k = 6 \/ k = 7 \/ k = 8
    OBVIOUS
  <1>4. \A j, k \in 1..8 : PhaseOrder[j] = PhaseOrder[k] => j = k
    BY <1>2, <1>3, Zenon
  <1>5. ASSUME NEW k \in 1..8 PROVE PhaseOf(PhaseOrder[k]) = k
    BY <1>1, <1>4, Zenon DEF PhaseOf
  <1> QED BY <1>1, <1>2, <1>5

\* A fallback gives up a candidate for its attempts.
LEMMA Borrow ==
  ASSUME NEW v \in Nat, NEW A \in Nat
  PROVE  v * A \in Nat /\ (v + 1) * A = v * A + A
  OBVIOUS

LEMMA MoveAdvances ==
  ASSUME NEW st \in Settings, NEW x, NEW y, ExecutionInv(st, x), x.pc \in Busy, Move(st, x, y)
  PROVE  Weight(st, y) < Weight(st, x)
  <1>1. /\ x \in RawExecution /\ PlaceInv(st, x) /\ st.attempts \in Nat /\ st.attempts # 0
    BY SettingsType, Zenon DEF ExecutionInv
  <1>2. PICK A \in Nat \ {0} : A = st.attempts
    BY <1>1, Zenon
  <1>3. PICK v \in Nat : v = Len(x.plan) - x.i
    BY <1>1 DEF PlaceInv, RawExecution
  <1>4. PICK m \in Nat : m = A - x.n
    BY <1>1, <1>2 DEF PlaceInv
  <1>5. PICK u \in Nat : u = v * A
    BY <1>2, <1>3
  <1>6. Weight(st, x) = (u + m) * 8 + PhaseOf(x.pc)
    BY <1>2, <1>3, <1>4, <1>5, Phases, Zenon DEF Weight
  <1>7. PhaseOf(x.pc) \in 1..8
    BY Phases DEF Busy, Waiting, InScope, InTry
  <1>8. x.pc \notin Resting
    BY Zenon DEF Busy, Waiting, InScope, InTry, Resting, Outcomes
  <1>9. CASE Ends(st, x, y)
    <2>1. y.pc \notin Busy
      BY <1>9, Zenon DEF Ends, Outcomes, Busy, Waiting, InScope, InTry, Idle
    <2>2. Weight(st, y) = 0
      BY <2>1, Zenon DEF Weight
    <2> QED BY <1>6, <1>7, <2>2
  <1>10. CASE FallsBack(x, y)
    <2>1. x.i \in Nat /\ x.i < Len(x.plan) /\ Len(x.plan) \in Nat
      BY <1>1, <1>10 DEF FallsBack, RawExecution
    <2>2. y.pc = "head" /\ y.plan = x.plan /\ y.i = x.i + 1 /\ y.n = 1
      BY <1>1, <1>10, Zenon DEF FallsBack, RawExecution
    <2>3. PICK w \in Nat : w = v - 1 /\ v = w + 1
      BY <1>3, <2>1
    <2>4. Len(y.plan) - y.i = w
      BY <1>3, <2>1, <2>2, <2>3
    <2>5. PICK z \in Nat : z = w * A /\ u = z + A
      BY <1>2, <1>5, <2>3, Borrow
    <2>6. Weight(st, y) = (z + (A - 1)) * 8 + 8
      BY <1>2, <2>2, <2>4, <2>5, Phases, Zenon DEF Weight, Busy
    <2> QED BY <1>2, <1>6, <1>7, <2>5, <2>6
  <1>11. CASE Wakes(x, y)
    <2>1. x.n \in Nat /\ x.pc = "sleeping" /\ y.pc = "head" /\ y.plan = x.plan /\ y.i = x.i /\ y.n = x.n + 1
      BY <1>1, <1>11, Zenon DEF Wakes, RawExecution
    <2>2. st.attempts - y.n = m - 1
      BY <1>2, <1>4, <2>1
    <2>3. Weight(st, y) = (u + (m - 1)) * 8 + 8
      BY <1>2, <1>3, <1>5, <2>1, <2>2, Phases, Zenon DEF Weight, Busy
    <2>4. PhaseOf(x.pc) = 1
      BY <2>1, Phases, Zenon
    <2> QED BY <1>6, <2>3, <2>4
  <1>12. CASE \/ Proceeds(x, y) \/ Calls(x, y) \/ Leaves(st, x, y) \/ Answers(x, y) \/ Handles(x, y)
              \/ Considers(st, x, y) \/ Sleeps(x, y)
    <2>1. y.plan = x.plan /\ y.i = x.i /\ y.n = x.n
      BY <1>1, <1>12, Zenon DEF Proceeds, Calls, Leaves, Answers, Handles, Considers, Sleeps, RawExecution
    <2>2. \/ x.pc = "head" /\ y.pc = "admitting"
          \/ x.pc = "admitting" /\ y.pc = "calling"
          \/ x.pc \in InTry \cup {"admitting", "reporting", "deciding"} /\ y.pc = "releasing"
          \/ x.pc = "calling" /\ y.pc = "recording"
          \/ x.pc \in InTry /\ y.pc = "reporting"
          \/ x.pc = "reporting" /\ y.pc = "deciding"
          \/ x.pc = "releasing" /\ y.pc = "sleeping"
      BY <1>1, <1>12, Zenon DEF Proceeds, Calls, Leaves, Answers, Handles, Considers, Sleeps, RawExecution
    <2>3. y.pc \in Busy /\ PhaseOf(y.pc) \in 1..8 /\ PhaseOf(y.pc) < PhaseOf(x.pc)
      BY <2>2, Phases DEF Busy, Waiting, InScope, InTry
    <2>4. Weight(st, y) = (u + m) * 8 + PhaseOf(y.pc)
      BY <1>2, <1>3, <1>4, <1>5, <2>1, <2>3, Phases, Zenon DEF Weight
    <2> QED BY <1>6, <1>7, <2>3, <2>4
  <1>13. ~Begins(st, x, y) /\ ~Declines(x, y)
    BY <1>8, Zenon DEF Begins, Declines
  <1> QED BY <1>9, <1>10, <1>11, <1>12, <1>13, Zenon DEF Move

\* Every step of an execution brings it closer to its end.
THEOREM ExecutionsAdvance == Spec => AlwaysAdvances
  <1>1. ASSUME ExecutorInv, Next PROVE AdvanceStep
    <2> SUFFICES ASSUME NEW b \in Attempts, Running(b), ex'[b] # [ex[b] EXCEPT !.left = ex'[b].left]
                 PROVE  Remaining(b)' < Remaining(b)
      BY Zenon DEF AdvanceStep
    <2>1. ex[b] \in RawExecution /\ ExecutionInv(settings, ex[b]) /\ ex[b].pc \in Busy
          /\ settings' = settings /\ settings \in Settings
      BY <1>1, Zenon DEF ExecutorInv, Running, Busy, Next
    <2>2. ~Tick
      <3> SUFFICES ASSUME Tick PROVE FALSE
        BY Zenon
      <3>1. PICK l : ex'[b] = [ex[b] EXCEPT !.left = l]
        BY <1>1, Zenon DEF Tick, ExecutorInv
      <3>2. ex'[b].left = l
        BY <2>1, <3>1, Zenon DEF RawExecution
      <3> QED BY <3>1, <3>2, Zenon
    <2>3. PICK a \in Attempts : MovesOn(a)
      BY <1>1, <2>2, StepMoves, Zenon
    <2>4. b = a
      <3> SUFFICES ASSUME b # a PROVE FALSE
        BY Zenon
      <3>1. ex'[b] = ex[b]
        BY <1>1, <2>3, Zenon DEF MovesOn, ExecutorInv
      <3> QED BY <2>1, <3>1, Zenon DEF RawExecution
    <2>5. Weight(settings, ex'[b]) < Weight(settings, ex[b])
      BY <2>1, <2>3, <2>4, MoveAdvances, Zenon DEF MovesOn
    <2>6. Remaining(b) = Weight(settings, ex[b])
      BY Zenon DEF Remaining, Weight, PhaseOf, Running, Busy, MaxAttempts
    <2>7. Remaining(b)' = Weight(settings', ex'[b])
      BY Zenon DEF Remaining, Weight, PhaseOf, Running, Busy, MaxAttempts
    <2> QED BY <2>1, <2>5, <2>6, <2>7, Zenon
  <1> QED BY <1>1, ExecutorIsSound, PTL DEF Spec, AlwaysAdvances

=============================================================================
