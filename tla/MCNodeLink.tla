----------------------------- MODULE MCNodeLink -----------------------------
(* Instances of the link for model checking. *)
EXTENDS NodeLink

OneEach == \A n \in Nodes : sent[n] <= 1

\* Either faults and crashes, with two messages when there is only one of them, or
\* Stop and moves: the bounds of all at once would be out of reach.
FaultScenario ==
    /\ netAddr = [n \in Nodes |-> 0]
    /\ \A n \in Nodes : stop[n] \in {"run", "down"}
    /\ faults + restarts <= 1 \/ OneEach

StopScenario == faults = 0 /\ OneEach

Scenario == FaultScenario \/ StopScenario
=============================================================================
