-------------------------- MODULE MCGovernedRouting --------------------------
(* GovernedRouting on a registry in which every check has a deployment that *)
(* fails it.                                                                *)
EXTENDS GovernedRouting

CONSTANTS r1, r2, k1, k2, k3, k4, m1

\* 1 serves everything; 2 ties with it but is for public data; 3 is dear; 4 is
\* for staging; 5 and 6 form another group, whose fallback has no adapter and
\* no score in the second workload.
Entry ==
  [group |-> "g1", enabled |-> TRUE, environments |-> {"prod"}, classification |-> 3,
   capabilities |-> {"text", "streaming", "vision"}, context |-> 8, priced |-> TRUE,
   inputPrice |-> 1, outputPrice |-> 1]

MCRegistry ==
  [d \in 1..6 |->
     CASE d = 1 -> Entry
       [] d = 2 -> [Entry EXCEPT !.classification = 0, !.capabilities = {"text", "streaming"}]
       [] d = 3 -> [Entry EXCEPT !.outputPrice = 6]
       [] d = 4 -> [Entry EXCEPT !.environments = {"staging"}]
       [] OTHER -> [Entry EXCEPT !.group = "g2"]]

Score(total, quality) == [total |-> total, quality |-> quality, latency |-> 1]

MCScores ==
  [w \in {"w1", "w2"} |->
     IF w = "w1"
     THEN [d \in 1..6 |-> CASE d = 3 -> Score(9, 3) [] d = 2 -> Score(5, 2)
                            [] d = 6 -> Score(4, 1) [] OTHER -> Score(5, 3)]
     ELSE [d \in 1..5 |-> Score(5, 3)]]

MCAdapters == [d \in 1..6 |-> IF d = 6 THEN "provider_adapter_unavailable" ELSE "ready"]

MCBindings ==
  {[client |-> "c1", credential |-> k1, environment |-> "prod", risk |-> 0,
    classification |-> 0, workloads |-> {"w1", "w2", "w3"}],
   [client |-> "c2", credential |-> k2, environment |-> "prod", risk |-> 1,
    classification |-> 1, workloads |-> {"w1"}],
   [client |-> "c3", credential |-> k3, environment |-> "prod", risk |-> 0,
    classification |-> 0, workloads |-> {"w1"}]}

MCDefaults == [cost |-> 8, latency |-> 2]

MCComplexity ==
  [context |-> <<3, 5>>, output |-> <<3, 5>>, floors |-> [n \in {"vision"} |-> 2],
   workloads |-> [w \in {"w2"} |-> 1], quality |-> [l \in 0..2 |-> l + 1]]

Base ==
  [surface |-> "generate", mode |-> "operational", key |-> k1, workload |-> "w1", risk |-> 0,
   classification |-> 0, needs |-> {"text", "streaming"}, tokens |-> 1, output |-> 1,
   minContext |-> 0, cost |-> NoLimit, latency |-> NoLimit, bounded |-> FALSE,
   replayable |-> TRUE, plain |-> TRUE, messages |-> m1]

\* The other client, whose data is never public.
Other == [Base EXCEPT !.key = k2, !.bounded = TRUE]

\* An unknown credential.
Stranger == [Base EXCEPT !.key = k4]

\* Beside an ordinary request of the first client: the same request, the other
\* client's, and stricter ones of the same client.
Accompanied ==
  {Base, Other,
   [Base EXCEPT !.cost = 6, !.classification = 1, !.replayable = FALSE],
   [Base EXCEPT !.surface = "explain", !.needs = {"text"}]}

\* Almost alone.
Alone ==
  {[Other EXCEPT !.workload = "w2"],
   [Base EXCEPT !.key = k3],
   [Base EXCEPT !.workload = "w3"],
   [Base EXCEPT !.cost = 0],
   [Base EXCEPT !.cost = 0, !.surface = "explain"],
   [Base EXCEPT !.mode = "complexity", !.output = 3, !.bounded = TRUE],
   [Base EXCEPT !.mode = "complexity", !.needs = {"text", "streaming", "vision"}],
   [Base EXCEPT !.mode = "complexity", !.workload = "w2", !.surface = "explain"]}

Pair(v, w) == [r \in {r1, r2} |-> IF r = r1 THEN v ELSE w]

MCScenarios == {Pair(v, Base) : v \in Accompanied} \cup {Pair(v, Stranger) : v \in Alone}
=============================================================================
