---------------------- MODULE GovernanceAuthorization ----------------------
(***************************************************************************)
(* Signed governance authorizations: verification of an envelope           *)
(* (adapters/governance_authorization.py) and its enforcement on a request *)
(* (domain/governance.py).                                                 *)
(*                                                                         *)
(* An envelope is a record: form says whether it is the strict JSON of the *)
(* v1 schema with well-formed values, algorithm, key and signature what    *)
(* its header and signature say, issued, from and until its window,        *)
(* audience a set, killable its kill switch, facts what it binds the       *)
(* request to, class the data classification, and models the reviewed      *)
(* models, each with its id, its routing group and its data classes.       *)
(* Times are instants of the envelope's own clock.                         *)
(***************************************************************************)
EXTENDS Naturals, Sequences, Functions

CONSTANTS TrustedKeys,      \* the keys of StaticGovernanceKeyResolver
          Self,             \* expected_audience
          MaxLifetime       \* _MAX_AUTHORIZATION_LIFETIME_SECONDS

\* The facts a request must share with its authorization, in the order in
\* which enforce_governance_authorization compares them.
FactOrder ==
  <<"workload", "risk_level", "data_classification", "context_tokens", "output_tokens",
    "structured_output", "latency_ceiling", "cost_ceiling">>

Facts == Range(FactOrder)

\* The reasons of a GovernanceAuthorizationViolation.
DenialReasons ==
  {"audience_mismatch", "not_active", "expired", "selected_model_group_mismatch"} \cup Facts

\* verify_governance_authorization_envelope: strict JSON, exact fields, the
\* one media type and algorithm, a key of the allowlist, a signature over
\* exactly these claims.
Authentic(e) ==
  /\ e.form = "strict"
  /\ e.algorithm = "Ed25519"
  /\ e.key \in TrustedKeys
  /\ e.signature = "matches"

\* The window of _project_verified_authorization and __post_init__.
WindowHolds(e) ==
  /\ e.issued <= e.from
  /\ e.from < e.until
  /\ e.until - e.issued <= MaxLifetime

\* Seeded fault: every reviewed model counts, whatever data it may see.
GroupsOfEveryModel(e) == {e.models[k].group : k \in DOMAIN e.models}

\* _parse_models: the groups of the models that may see this class of data.
AuthorizedGroups(e) ==
  {e.models[k].group : k \in {j \in DOMAIN e.models : e.class \in e.models[j].classes}}

\* The refusals of _parse_models.
ModelsHold(e) ==
  /\ \A j, k \in DOMAIN e.models : e.models[j].id = e.models[k].id => j = k
  /\ \A k \in DOMAIN e.models : e.models[k].classes # {}
  /\ AuthorizedGroups(e) # {}

\* An envelope that becomes a VerifiedGovernanceAuthorization.
Verified(e) ==
  /\ Authentic(e)
  /\ WindowHolds(e)
  /\ e.audience # {}
  /\ e.killable
  /\ ModelsHold(e)

\* enforce_governance_authorization, then enforce_governance_selected_group:
\* the reason of the first check that fails, or "none".  The request's facts
\* are those of the envelope except for differs; wait and left are the time
\* until its window opens and closes.
DenialReason(e, differs, wait, left, group) ==
  LET mismatches == {k \in DOMAIN FactOrder : FactOrder[k] \in differs}
  IN  CASE Self \notin e.audience -> "audience_mismatch"
        [] Self \in e.audience /\ wait > 0 -> "not_active"
        [] Self \in e.audience /\ wait = 0 /\ left = 0 -> "expired"
        [] Self \in e.audience /\ wait = 0 /\ left > 0 /\ mismatches # {} ->
             FactOrder[CHOOSE k \in mismatches : \A j \in mismatches : k <= j]
        [] OTHER -> IF group \in AuthorizedGroups(e) THEN "none" ELSE "selected_model_group_mismatch"

=============================================================================
