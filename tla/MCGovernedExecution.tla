------------------------- MODULE MCGovernedExecution -------------------------
(* GovernedExecution, and the executor alone, on a few executions.         *)
EXTENDS GovernedExecution, TLC

CONSTANTS a1, a2, d1, d2

MCFirstGeneration ==
  CHOOSE f \in [Deployments -> Generations] : \A d, e \in Deployments : f[d] = f[e] => d = e

Symmetry == Permutations(Generations) \cup Permutations(Attempts)

\* Two executions race on two in-process circuits, with fallback.
Racing ==
  [attempts |-> 1, fallbacks |-> 1, timeout |-> 0, shared |-> FALSE,
   clients |-> {a1, a2}, served |-> {d1, d2}, authorized |-> {d1, d2},
   groups |-> [d \in Deployments |-> "strong"], journal |-> "off"]

\* One execution retries and falls back.
Ranked == [Racing EXCEPT !.attempts = 2, !.clients = {a1}]

\* The ranking also holds a deployment of another model group, and there is
\* no fallback.
Narrowed ==
  [Ranked EXCEPT !.fallbacks = 0, !.authorized = {d1},
                 !.groups = [d \in Deployments |-> IF d = d1 THEN "strong" ELSE "fast"]]

\* Two executions retry on one in-process circuit.
Retrying == [Racing EXCEPT !.attempts = 2, !.fallbacks = 0, !.served = {d1}]

\* The same with a remote tracker and a deadline.
Remote == [Retrying EXCEPT !.timeout = 3, !.shared = TRUE]

\* One governed execution: with fallback and a sink, across model groups, and
\* with a deadline on a remote tracker.
GovernedRanked(journal) == [Ranked EXCEPT !.journal = journal]
GovernedNarrowed == [Narrowed EXCEPT !.fallbacks = 1, !.journal = "local"]
GovernedRemote == [Remote EXCEPT !.clients = {a1}, !.timeout = 2, !.journal = "required"]

MCSettings ==
  {Racing, Ranked, [Ranked EXCEPT !.fallbacks = 0], [Ranked EXCEPT !.shared = TRUE], Narrowed,
   Remote, GovernedNarrowed, GovernedRemote}
  \cup {GovernedRanked(j) : j \in {"best_effort", "required"}}

MCDeadline == {[Retrying EXCEPT !.timeout = 2, !.clients = {a1}]}

\* Reviewed models and envelopes: a sound one, and one for each thing that can
\* be wrong with it.
Model(id, group, classes) == [id |-> id, group |-> group, classes |-> classes]

Sound ==
  [form |-> "strict", algorithm |-> "Ed25519", key |-> "k1", signature |-> "matches",
   issued |-> 0, from |-> 0, until |-> 2, audience |-> {"gateway"}, killable |-> TRUE, class |-> "internal",
   models |-> <<Model(1, "strong", {"internal"}), Model(2, "fast", {"public"})>>]

MCEnvelopes ==
  {Sound, [Sound EXCEPT !.from = 1], [Sound EXCEPT !.audience = {"other"}],
   [Sound EXCEPT !.class = "public"], [Sound EXCEPT !.class = "secret"],
   [Sound EXCEPT !.form = "duplicate_key"], [Sound EXCEPT !.algorithm = "none"],
   [Sound EXCEPT !.key = "k2"], [Sound EXCEPT !.signature = "differs"], [Sound EXCEPT !.from = 2],
   [Sound EXCEPT !.until = 9], [Sound EXCEPT !.audience = {}], [Sound EXCEPT !.killable = FALSE],
   [Sound EXCEPT !.models[2].id = 1], [Sound EXCEPT !.models[2].classes = {}]}

MCMismatches == {{}, {"workload"}, {"risk_level", "cost_ceiling"}}
=============================================================================
