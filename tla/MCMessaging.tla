---------------------------- MODULE MCMessaging ----------------------------
(* Instances of the messaging model: two clusters, a node and its harbor in *)
(* the first, and a node with one or two harbors in the second.             *)
EXTENDS Messaging, SequencesExt

CONSTANTS a, b, h1, h2, g2

MCAddr ==
    [n \in Nodes |-> CASE n = a  -> [cluster |-> 1, type |-> 1, server |-> 1]
                       [] n = h1 -> [cluster |-> 1, type |-> HarborType, server |-> 1]
                       [] n = b  -> [cluster |-> 2, type |-> 1, server |-> 1]
                       [] n = h2 -> [cluster |-> 2, type |-> HarborType, server |-> 1]
                       [] n = g2 -> [cluster |-> 2, type |-> HarborType, server |-> 2]]

\* A node knows its cluster, a harbor the other harbors too.
MCSees ==
    [n \in Nodes |-> {m \in Nodes : \/ Addr[m].cluster = Addr[n].cluster
                                    \/ IsHarbor(n) /\ IsHarbor(m)}]

\* Harbors by server number.
MCTold ==
    [n \in Nodes |-> [c \in Clusters |->
        SetToSortSeq(HarborsOf(c) \intersect Sees[n], LAMBDA g, h : Addr[g].server < Addr[h].server)]]

Msg(k, f, t) == [kind |-> k, from |-> f, to |-> t]
Mixed == <<Msg("call", a, b), Msg("call", h2, h2), Msg("post", a, b), Msg("send", b, a)>>
OneCall == <<Msg("call", a, b)>>
=============================================================================
