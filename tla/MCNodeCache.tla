---------------------------- MODULE MCNodeCache ----------------------------
(* The node cache of a harbor, for model checking. *)
EXTENDS NodeCache

CONSTANT e1

Own == [cluster |-> 1, type |-> 255, server |-> 1]
Near == [cluster |-> 1, type |-> 1, server |-> 1]
Foreign == [cluster |-> 2, type |-> 1, server |-> 1]
Far == [cluster |-> 2, type |-> 255, server |-> 1]
Farther == [cluster |-> 2, type |-> 255, server |-> 2]

Secret == [cluster |-> 2, type |-> 1, server |-> 2]

\* A harbor, a node of its cluster, an exported one of the same type in another
\* cluster and one that is not exported, and two harbors of that cluster.
All == {Own, Near, Foreign, Secret, Far, Farther}
Exports == {Foreign}
\* These are visible whether they are exported or not.
MayFlip == {Far}

Member(a) == feed[a] # NoNode

\* Only the nearest changes its network address, when it is the only other one. Two
\* of the others at a time are members: the node that is not visible with the
\* nearest only, and the exported one and the farther harbor not both.
Scenario ==
    /\ \A a \in All \ {Own, Near} : Member(a) => feed[a].net = e1
    /\ Member(Near) /\ feed[Near].net # e1 => \A a \in All \ {Own, Near} : ~Member(a)
    /\ Cardinality({a \in All \ {Own} : Member(a)}) <= 2
    /\ Member(Secret) => feed[Secret].available /\ ~(Member(Foreign) \/ Member(Far) \/ Member(Farther))
    /\ ~(Member(Foreign) /\ Member(Farther))
=============================================================================
