--------------------------- MODULE MCAgentGateway --------------------------
(* Instances of AgentGateway for TLC.  The catalogue follows the default   *)
(* one: a balanced model at every provider, each of its own; the flagship  *)
(* is served by all, as by a mirror.                                       *)
EXTENDS AgentGateway

CONSTANTS p1, p2, p3, r1, r2, r3, big, mini, haiku, reasoner, nano

ThreeProviders == {p1, p2, p3}

ThreeRanks ==
  [p \in ThreeProviders |-> IF p = p1 THEN 1 ELSE IF p = p2 THEN 2 ELSE 3]

Spec1(m, t, in, out) == [model |-> m, tier |-> t, input |-> in, output |-> out]

Catalogue ==
  [p \in ThreeProviders |->
     CASE p = p1 -> {Spec1(big, "flagship", 50, 150),
                     Spec1(mini, "balanced", 2, 6),
                     Spec1(nano, "economy", 1, 4)}
       [] p = p2 -> {Spec1(big, "flagship", 60, 160),
                     Spec1(reasoner, "balanced", 5, 21)}
       [] p = p3 -> {Spec1(big, "flagship", 70, 170),
                     Spec1(haiku, "balanced", 8, 40)}]

Balanced == [p \in ThreeProviders |-> "balanced"]

Tasks == [sql |-> "economy", etl |-> "balanced", insight |-> "flagship"]

ByName == [model |-> big, tier |-> Unnamed, task |-> Unnamed]
ByTask == [model |-> Unnamed, tier |-> Unnamed, task |-> "etl"]

Asked ==
  [r \in Requests |-> IF r = r1 THEN ByTask ELSE ByName]
=============================================================================
