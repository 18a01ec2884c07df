----------------------- MODULE CredentialAvailability -----------------------
(***************************************************************************)
(* The availability of one provider credential binding                     *)
(* (adapters/credential_availability_memory.py): a controller publishes    *)
(* generations by compare-and-set, one worker at a time validates a new    *)
(* generation under a lease, success makes it available to everyone, and a *)
(* rejection quarantines its material for good.                            *)
(*                                                                         *)
(* Every operation runs under one lock, so it is one step.  Workers keep   *)
(* every handle and receipt they were given and may present any of them at *)
(* any later time.  A fence is a uuid: a value never minted before.        *)
(* Bindings share no state, so one is enough.                              *)
(***************************************************************************)
EXTENDS Naturals

CONSTANTS Generations,  \* credential tokens of the binding
          Materials,
          Epoch,        \* Epoch[g]: activation epoch of token g
          Material,     \* Material[g]: the material token g presents
          Attempts,     \* worker attempt ids
          Fences,
          Lease,        \* validation_lease_seconds in ticks
          NoGeneration, NoAttempt, NoFence, NoReceipt

Handles == [attempt : Attempts, generation : Generations, fence : Fences \cup {NoFence}]

Receipts ==
  [attempt : Attempts, generation : Generations, fence : Fences, completion : Fences]

ASSUME CredentialAssumption ==
  /\ Epoch \in [Generations -> Nat] /\ Material \in [Generations -> Materials]
  /\ Lease \in Nat \ {0}
  /\ NoGeneration \notin Generations /\ NoAttempt \notin Attempts
  /\ NoFence \notin Fences /\ NoReceipt \notin Receipts

VARIABLES current,    \* the published generation
          state,      \* CredentialAvailabilityState of its record
          owner,      \* attempt and fence of the validation owner
          fence,
          left,       \* what is left of the owner's lease
          receipt,    \* the completion receipt
          published,  \* every generation ever published
          rejected,   \* rejected materials
          handles,    \* every CredentialAdmission ever given to a worker
          receipts    \* every CredentialCompletionReceipt ever given to one

credentialVars == <<current, state, owner, fence, left, receipt, published, rejected, handles, receipts>>

TypeOK ==
  /\ current \in Generations \cup {NoGeneration}
  /\ state \in {"unknown", "pending_validation", "validating", "available", "quarantined"}
  /\ owner \in Attempts \cup {NoAttempt} /\ fence \in Fences \cup {NoFence} /\ left \in 0..Lease
  /\ receipt \in Receipts \cup {NoReceipt}
  /\ published \subseteq Generations /\ rejected \subseteq Materials
  /\ handles \subseteq Handles /\ receipts \subseteq Receipts

CredentialInit ==
  /\ current = NoGeneration /\ state = "unknown"
  /\ owner = NoAttempt /\ fence = NoFence /\ left = 0 /\ receipt = NoReceipt
  /\ published = {} /\ rejected = {} /\ handles = {} /\ receipts = {}

-----------------------------------------------------------------------------
\* _used_fences: each one was handed out with a handle or a receipt.
UsedFences == {h.fence : h \in handles} \cup {r.completion : r \in receipts}

\* _new_fence.
FreshFences == Fences \ UsedFences

\* _live_owner.
LiveOwner == owner # NoAttempt /\ left > 0

\* Seeded fault: ownership is recognised by attempt id alone.
MatchesAttempt(h) == owner = h.attempt /\ h.fence # NoFence /\ h.generation = current

\* _matches_owner.
MatchesOwner(h) ==
  owner = h.attempt /\ h.fence # NoFence /\ fence = h.fence /\ h.generation = current

\* _owns.
Owns(h) == LiveOwner /\ MatchesOwner(h)

\* is_admitted: what a worker learns before it uses the credential.
IsAdmitted(h) ==
  /\ h.generation = current
  /\ IF h.fence = NoFence THEN state = "available" ELSE Owns(h)

\* is_completion_current.
IsCompletionCurrent(r) == state = "available" /\ receipt = r

\* snapshot: what candidate selection reads.
Projected == IF state = "validating" /\ ~LiveOwner THEN "pending_validation" ELSE state

\* CredentialAvailabilitySnapshot.is_candidate_eligible.
IsCandidateEligible(g) == current = g /\ Projected \in {"pending_validation", "available"}

\* Whom admit gives a handle.
Admissible(a, g) ==
  /\ g = current /\ state # "quarantined"
  /\ state # "available" /\ LiveOwner => owner = a

\* Seeded fault: an owner that asks again starts its lease afresh.
LeftRenewed(a) == Lease

\* The lease of attempt a once it is admitted for validation.
LeftAdmitted(a) == IF LiveOwner THEN left ELSE Lease

\* admit: an available generation for anyone; otherwise the one validation
\* owner, who may ask again.
Admit(a, g, f) ==
  /\ Admissible(a, g)
  /\ \/ /\ state = "available"
        /\ handles' = handles \cup {[attempt |-> a, generation |-> g, fence |-> NoFence]}
        /\ UNCHANGED <<state, owner, fence, left>>
     \/ /\ state # "available"
        /\ state' = "validating" /\ owner' = a /\ left' = LeftAdmitted(a)
        /\ fence' = IF LiveOwner THEN fence ELSE f
        /\ handles' = handles \cup {[attempt |-> a, generation |-> g, fence |-> fence']}
  /\ UNCHANGED <<current, receipt, published, rejected, receipts>>

\* release: the matching owner only, expired or not.
Release(h) ==
  /\ MatchesOwner(h)
  /\ state' = "pending_validation" /\ owner' = NoAttempt /\ fence' = NoFence /\ left' = 0
  /\ UNCHANGED <<current, receipt, published, rejected, handles, receipts>>

\* Seeded fault: an owner completes although its lease has run out.
CompletesLate(h) == MatchesOwner(h)

\* Whose validation counts.
Completes(h) == Owns(h)

\* complete_validation.  A handle that already has the current receipt gets
\* it again, which changes nothing.
Complete(h, f) ==
  LET r == [attempt |-> h.attempt, generation |-> current, fence |-> h.fence, completion |-> f]
  IN  /\ h.generation = current /\ h.fence # NoFence /\ Completes(h)
      /\ state' = "available" /\ owner' = NoAttempt /\ fence' = NoFence /\ left' = 0
      /\ receipt' = r /\ receipts' = receipts \cup {r}
      /\ UNCHANGED <<current, published, rejected, handles>>

\* Seeded fault: only a rejection of the current token quarantines it.
QuarantinesToken(g) == current = g

\* Whether a rejection of token g is about the material in use.
Quarantines(g) == Material[current] = Material[g]

\* record_rejection: of any token that was ever published, also a retired one.
RecordRejection(g) ==
  /\ g \in published
  /\ rejected' = rejected \cup {Material[g]}
  /\ IF Quarantines(g)
     THEN /\ state' = "quarantined" /\ owner' = NoAttempt /\ fence' = NoFence /\ left' = 0
          /\ receipt' = NoReceipt
     ELSE UNCHANGED <<state, owner, fence, left, receipt>>
  /\ UNCHANGED <<current, published, handles, receipts>>

\* The state a newly published token starts in.
PublishedState(g) ==
  IF Material[g] \in rejected THEN "quarantined" ELSE "pending_validation"

\* CredentialGenerationPublication.__post_init__.
Advances(g, expected) == expected # NoGeneration => Epoch[g] > Epoch[expected]

\* publish: a compare-and-set on the whole token.
Publish(g, expected) ==
  /\ Advances(g, expected) /\ expected = current
  /\ current' = g /\ state' = PublishedState(g)
  /\ owner' = NoAttempt /\ fence' = NoFence /\ left' = 0 /\ receipt' = NoReceipt
  /\ published' = published \cup {g}
  /\ UNCHANGED <<rejected, handles, receipts>>

\* The monotonic clock advances.
Tick ==
  /\ left > 0
  /\ left' = left - 1
  /\ UNCHANGED <<current, state, owner, fence, receipt, published, rejected, handles, receipts>>

CredentialNext ==
  \/ \E g \in Generations : \E e \in Generations \cup {NoGeneration} : Publish(g, e)
  \/ \E g \in Generations : RecordRejection(g)
  \/ \E a \in Attempts : \E g \in Generations : \E f \in FreshFences : Admit(a, g, f)
  \/ \E h \in handles : Release(h)
  \/ \E h \in handles : \E f \in FreshFences : Complete(h, f)
  \/ Tick

CredentialSpec == CredentialInit /\ [][CredentialNext]_credentialVars

-----------------------------------------------------------------------------
(* Correctness.                                                            *)

\* Whatever is called in whatever order, the store never holds a record its
\* own validation (_record) would refuse: quarantine is exactly the rejection
\* of the material in use, ownership exactly validation, and a receipt exactly
\* availability.
RecordIsValid ==
  /\ current = NoGeneration <=> state = "unknown"
  /\ current # NoGeneration =>
       /\ current \in published
       /\ state = "quarantined" <=> Material[current] \in rejected
  /\ state = "validating" <=> owner # NoAttempt
  /\ owner # NoAttempt <=> fence # NoFence
  /\ state = "available" <=> receipt # NoReceipt
  /\ receipt # NoReceipt => receipt.generation = current

\* Rejected material is never used again, under whichever token, handle or
\* receipt it is presented.
RejectedNeverServes ==
  /\ \A h \in handles : Material[h.generation] \in rejected => ~IsAdmitted(h)
  /\ \A r \in receipts : Material[r.generation] \in rejected => ~IsCompletionCurrent(r)

\* A generation becomes available only by the live owner's own validation of
\* that generation; no publication, release or late completion promotes one.
PromotionStep ==
  state # "available" /\ state' = "available" =>
    current' = current /\ \E h \in handles : Owns(h)

OnlyLiveOwnerPromotes == [][PromotionStep]_credentialVars

\* A handle or a receipt that has lost its force never regains it: not by
\* rotation and rollback, a lease taken over, or another validation.
RetirementStep ==
  /\ \A h \in handles : ~IsAdmitted(h) => ~IsAdmitted(h)'
  /\ \A r \in receipts : ~IsCompletionCurrent(r) => ~IsCompletionCurrent(r)'

RetiredStaysRetired == [][RetirementStep]_credentialVars

(***************************************************************************)
(* Liveness.  Time advances; workers and the controller owe nothing.       *)
(***************************************************************************)
CredentialFairSpec == CredentialSpec /\ WF_credentialVars(Tick)

\* A validation lease ends, however often its owner asks again, and leaves its
\* generation a candidate unless it was replaced or rejected: a dead or stuck
\* owner cannot keep a generation from being selected and validated.
LeaseEnds ==
  \A f \in Fences, g \in Generations :
    (LiveOwner /\ fence = f /\ current = g) ~>
      /\ ~(LiveOwner /\ fence = f)
      /\ current # g \/ state = "quarantined" \/ IsCandidateEligible(g)
=============================================================================
