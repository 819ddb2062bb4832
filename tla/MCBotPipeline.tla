--------------------------- MODULE MCBotPipeline ---------------------------
(* BotPipeline with small sets of events, replicas and launches. *)
EXTENDS BotPipeline, TLC

CONSTANTS e1, e2, e3, r1, r2

Two == {e1, e2}
Three == {e1, e2, e3}
OneReplica == {r1}
TwoReplicas == {r1, r2}

\* Nothing tells the two messages apart where both wait for the debounce.
Symmetry == Permutations(Events)

NoStops == [i \in Instances |-> 0]
FirstStops == [i \in Instances |-> IF i = r1 THEN 1 ELSE 0]
=============================================================================
