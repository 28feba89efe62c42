----------------------------- MODULE NodeCache -----------------------------
(***************************************************************************)
(* The view of the cluster that a node keeps (nodeCache in node.go): all   *)
(* visible nodes by logical address, and the available ones grouped by     *)
(* type and, for harbors, by cluster.  Changes come as MemberInfo          *)
(* callbacks from the membership; routing reads the groups.                *)
(*                                                                         *)
(* A callback holds the write lock from its first entry to its last; its   *)
(* entries are steps here, and readers wait until `work' is empty.         *)
(***************************************************************************)
EXTENDS Naturals, Sequences, FiniteSets

CONSTANTS
    Addrs,          \* logical addresses: records with a cluster, a type and a server
    Local,          \* the address of this node
    HarborType,     \* addr.HarbarType
    Nets,           \* network addresses
    Exported,       \* addresses that are configured with Export at first
    Flips,          \* addresses of which an update may change Export
    MaxBatch,       \* bound: entries in one MemberInfo
    MaxCallbacks,   \* bound: callbacks
    NoNode          \* absent

Types == {a.type : a \in Addrs}
Clusters == {a.cluster : a \in Addrs}
Infos == [net : Nets, export : BOOLEAN, available : BOOLEAN]
Entries == [op : {"add", "remove", "update"}, addr : Addrs, info : Infos]
\* A *node: its address and which one of that address it is.
Objects == [addr : Addrs, gen : 1..MaxCallbacks]
\* What allnodes has of a node.
Records == [obj : Objects, net : Nets, available : BOOLEAN]

ASSUME CacheAssumption ==
    /\ Local \in Addrs /\ Exported \subseteq Addrs /\ Flips \subseteq Addrs
    /\ MaxBatch \in Nat /\ MaxCallbacks \in Nat
    /\ NoNode \notin Infos /\ NoNode \notin Records

VARIABLES
    feed,           \* what the membership has told of each address
    allnodes,       \* nodeCache.allnodes: the object, its network address and availability
    nodes,          \* nodeCache.nodes, by type
    harbors,        \* nodeCache.harbors, by cluster
    work,           \* entries of the current callback still to be processed
    stopped,        \* self.Stop was called
    crashed,        \* a nil node was dereferenced
    callbacks

vars == <<feed, allnodes, nodes, harbors, work, stopped, crashed, callbacks>>

IsHarbor(a) == a.type = HarborType

\* The condition in front of every entry.
Visible(a, export) ==
    \/ export
    \/ a.cluster = Local.cluster
    \/ IsHarbor(Local) /\ IsHarbor(a)

TypeOK ==
    /\ feed \in [Addrs -> Infos \union {NoNode}]
    /\ allnodes \in [Addrs -> Records \union {NoNode}]
    /\ nodes \in [Types -> Seq(Objects)]
    /\ harbors \in [Clusters -> Seq(Objects)]
    /\ work \in Seq(Entries)
    /\ stopped \in BOOLEAN /\ crashed \in BOOLEAN
    /\ callbacks \in 0..MaxCallbacks

Init ==
    /\ feed = [a \in Addrs |-> NoNode]
    /\ allnodes = [a \in Addrs |-> NoNode]
    /\ nodes = [t \in Types |-> <<>>]
    /\ harbors = [c \in Clusters |-> <<>>]
    /\ work = <<>>
    /\ stopped = FALSE /\ crashed = FALSE
    /\ callbacks = 0

-----------------------------------------------------------------------------
(* The groups *)

\* Mutant: the last element is cut off.
SwapRemove_Last(s, x) ==
    IF \A i \in DOMAIN s : s[i] # x THEN s ELSE SubSeq(s, 1, Len(s) - 1)

\* The last element takes the place of the one that is removed.
SwapRemove(s, x) ==
    IF \A i \in DOMAIN s : s[i] # x
    THEN s
    ELSE LET k == CHOOSE i \in DOMAIN s : s[i] = x /\ \A j \in 1..(i - 1) : s[j] # x
         IN [i \in 1..(Len(s) - 1) |-> IF i = k THEN s[Len(s)] ELSE s[i]]

\* addNode or addHarbor.
AddToGroup(o) ==
    IF IsHarbor(o.addr)
    THEN /\ harbors' = [harbors EXCEPT ![o.addr.cluster] = Append(@, o)]
         /\ UNCHANGED nodes
    ELSE /\ nodes' = [nodes EXCEPT ![o.addr.type] = Append(@, o)]
         /\ UNCHANGED harbors

\* Mutant: a harbor is looked for among the nodes.
RemoveFromGroup_Nodes(o) ==
    /\ nodes' = [nodes EXCEPT ![o.addr.type] = SwapRemove(@, o)]
    /\ UNCHANGED harbors

\* removeNode or removeHarbor.
RemoveFromGroup(o) ==
    IF IsHarbor(o.addr)
    THEN /\ harbors' = [harbors EXCEPT ![o.addr.cluster] = SwapRemove(@, o)]
         /\ UNCHANGED nodes
    ELSE /\ nodes' = [nodes EXCEPT ![o.addr.type] = SwapRemove(@, o)]
         /\ UNCHANGED harbors

-----------------------------------------------------------------------------
(* onNodeInfoUpdate *)

Idle == work = <<>> /\ ~crashed

\* What the membership may tell next of an address: it adds what it has not told
\* of, and removes or updates what it has.
Told(a) ==
    LET export == IF feed[a] = NoNode THEN a \in Exported ELSE feed[a].export
        infos == {i \in Infos : a \in Flips \/ i.export = export}
    IN IF feed[a] = NoNode
       THEN {[op |-> "add", addr |-> a, info |-> i] : i \in infos}
       ELSE {[op |-> "update", addr |-> a, info |-> i] : i \in infos}
            \union {[op |-> "remove", addr |-> a, info |-> feed[a]]}

\* Mutant: removals come first.
Rank_RemoveFirst(e) == IF e.op = "remove" THEN 1 ELSE IF e.op = "add" THEN 2 ELSE 3

Rank(e) == IF e.op = "add" THEN 1 ELSE IF e.op = "remove" THEN 2 ELSE 3

\* The loops go through Add, then Remove, then Update.
Batches ==
    {b \in UNION {[1..k -> UNION {Told(a) : a \in Addrs}] : k \in 1..MaxBatch} :
        \A i, j \in DOMAIN b : i < j => b[i].addr # b[j].addr /\ Rank(b[i]) <= Rank(b[j])}

Callback(b) ==
    /\ Idle
    /\ callbacks < MaxCallbacks
    /\ work' = b
    /\ feed' = [a \in Addrs |->
                  LET mine == {i \in DOMAIN b : b[i].addr = a}
                  IN IF mine = {} THEN feed[a]
                     ELSE LET e == b[CHOOSE i \in mine : TRUE]
                          IN IF e.op = "remove" THEN NoNode ELSE e.info]
    /\ callbacks' = callbacks + 1
    /\ UNCHANGED <<allnodes, nodes, harbors, stopped, crashed>>

Processing(op) == work # <<>> /\ Head(work).op = op /\ ~crashed

Hidden ==
    /\ work # <<>> /\ ~crashed
    /\ ~Visible(Head(work).addr, Head(work).info.export)
    /\ work' = Tail(work)
    /\ UNCHANGED <<feed, allnodes, nodes, harbors, stopped, crashed, callbacks>>

Add ==
    /\ Processing("add")
    /\ LET e == Head(work)
           o == [addr |-> e.addr, gen |-> callbacks]
       IN /\ Visible(e.addr, e.info.export)
          /\ allnodes' = [allnodes EXCEPT
               ![e.addr] = [obj |-> o, net |-> e.info.net, available |-> e.info.available]]
          /\ IF e.info.available THEN AddToGroup(o) ELSE UNCHANGED <<nodes, harbors>>
    /\ work' = Tail(work)
    /\ UNCHANGED <<feed, stopped, crashed, callbacks>>

\* The node itself is removed, or moved: stop, and leave the rest.
StopSelf ==
    /\ work # <<>> /\ ~crashed
    /\ LET e == Head(work)
       IN /\ e.addr = Local
          /\ Visible(e.addr, e.info.export)
          /\ \/ e.op = "remove"
             \/ /\ e.op = "update" /\ allnodes[Local] # NoNode
                /\ e.info.net # allnodes[Local].net
    /\ stopped' = TRUE
    /\ work' = <<>>
    /\ UNCHANGED <<feed, allnodes, nodes, harbors, crashed, callbacks>>

\* A record that the cache does not have is used: the process ends.
NilNode == crashed' = TRUE /\ UNCHANGED <<allnodes, nodes, harbors, work>>

Remove ==
    /\ Processing("remove")
    /\ LET e == Head(work)
           n == allnodes[e.addr]
       IN /\ Visible(e.addr, e.info.export) /\ e.addr # Local
          /\ IF n = NoNode THEN NilNode
             ELSE /\ allnodes' = [allnodes EXCEPT ![e.addr] = NoNode]
                  /\ IF n.available THEN RemoveFromGroup(n.obj) ELSE UNCHANGED <<nodes, harbors>>
                  /\ work' = Tail(work) /\ UNCHANGED crashed
    /\ UNCHANGED <<feed, stopped, callbacks>>

\* Mutant: only a change of the network address is taken over.
Replace_NetOnly(n, info) ==
    /\ allnodes' = [allnodes EXCEPT ![n.obj.addr].net = info.net]
    /\ UNCHANGED <<nodes, harbors>>

\* The rest of the loop over Update.
Replace(n, info) ==
    /\ allnodes' = [allnodes EXCEPT ![n.obj.addr].net = info.net,
                                    ![n.obj.addr].available = info.available]
    /\ IF info.available = n.available THEN UNCHANGED <<nodes, harbors>>
       ELSE IF info.available THEN AddToGroup(n.obj) ELSE RemoveFromGroup(n.obj)

Update ==
    /\ Processing("update")
    /\ LET e == Head(work)
           n == allnodes[e.addr]
       IN /\ Visible(e.addr, e.info.export)
          /\ IF n = NoNode THEN NilNode
             ELSE /\ e.addr = Local => e.info.net = n.net
                  /\ Replace(n, e.info)
                  /\ work' = Tail(work) /\ UNCHANGED crashed
    /\ UNCHANGED <<feed, stopped, callbacks>>

Next ==
    \/ Idle /\ \E b \in Batches : Callback(b)
    \/ Hidden \/ Add \/ StopSelf \/ Remove \/ Update

Spec == Init /\ [][Next]_vars

-----------------------------------------------------------------------------
(* Properties *)

Elements(s) == {s[i] : i \in DOMAIN s}
NoRepeats(s) == \A i, j \in DOMAIN s : i # j => s[i] # s[j]

Available == {a \in Addrs : allnodes[a] # NoNode /\ allnodes[a].available}

GroupExact(group, members) ==
    /\ NoRepeats(group)
    /\ Elements(group) = {allnodes[a].obj : a \in members}

\* Until the node is told to stop, the group of a type holds each available node
\* once and no other, through any sequence of additions, removals and changes of
\* availability: swap-removal takes out the right one, and GetAddrByType never
\* gives a node that left.
NodesExact ==
    ~stopped => \A t \in Types :
        GroupExact(nodes[t], {a \in Available : ~IsHarbor(a) /\ a.type = t})

\* The same of the harbors of each cluster.  Harbors always see each other, so
\* among them it also holds when Export changes.
HarborsExact ==
    ~stopped => \A c \in Clusters :
        GroupExact(harbors[c], {a \in Available : IsHarbor(a) /\ a.cluster = c})

\* Between callbacks the cache has exactly the nodes that the membership told of
\* and that are visible from here, as they were last told.
AgreesWithFeed ==
    Idle /\ ~stopped =>
        \A a \in Addrs :
            IF feed[a] # NoNode /\ Visible(a, feed[a].export)
            THEN /\ allnodes[a] # NoNode
                 /\ allnodes[a].net = feed[a].net
                 /\ allnodes[a].available = feed[a].available
            ELSE allnodes[a] = NoNode

\* Every removal and every update that is not skipped finds its node in
\* allnodes: n is never nil in onNodeInfoUpdate, not even after an early return
\* left a part of an earlier callback out.
NeverNil == ~crashed
=============================================================================
