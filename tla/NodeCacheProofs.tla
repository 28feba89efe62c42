-------------------------- MODULE NodeCacheProofs --------------------------
(***************************************************************************)
(* Proofs about NodeCache, for any addresses, any local node, any network  *)
(* addresses and any number and size of callbacks.  The only hypothesis is *)
(* FlipsVisible: Export changes only for nodes that are visible anyway.    *)
(*                                                                         *)
(* The four properties are inductive together, with what the entries of a  *)
(* callback that are still to be processed will find (EntryOK), with what  *)
(* the cache has of the addresses they do not concern (Cached) and with    *)
(* the order of the loops (Ordered).                                       *)
(***************************************************************************)
EXTENDS NodeCache, TLAPS

-----------------------------------------------------------------------------
(* The groups *)

\* SwapRemove returns a sequence of the same kind.
LEMMA SwapRemoveType ==
    ASSUME NEW S, NEW s \in Seq(S), NEW x
    PROVE  SwapRemove(s, x) \in Seq(S)
<1>0. DOMAIN s = 1..Len(s) /\ Len(s) \in Nat
  OBVIOUS
<1>1. CASE \A i \in DOMAIN s : s[i] # x
  BY <1>1, Zenon DEF SwapRemove
<1>2. CASE ~ \A i \in DOMAIN s : s[i] # x
  <2> DEFINE k == CHOOSE i \in DOMAIN s : s[i] = x /\ \A j \in 1..(i - 1) : s[j] # x
             r == [i \in 1..(Len(s) - 1) |-> IF i = k THEN s[Len(s)] ELSE s[i]]
  <2>1. Len(s) \in DOMAIN s /\ Len(s) - 1 \in Nat
    BY <1>0, <1>2
  <2>2. SwapRemove(s, x) = r
    BY <1>2, Zenon DEF SwapRemove
  <2> HIDE DEF k
  <2>3. \A i \in 1..(Len(s) - 1) : r[i] \in S
    BY <1>0, <2>1
  <2>4. r \in Seq(S)
    BY <2>1, <2>3
  <2> QED
    BY <2>2, <2>4, Zenon
<1> QED
  BY <1>1, <1>2, Zenon

\* What SwapRemove returns: the same elements but one, and still none twice.
LEMMA SwapRemoveFact ==
    ASSUME NEW S, NEW s \in Seq(S), NoRepeats(s), NEW x
    PROVE  /\ NoRepeats(SwapRemove(s, x))
           /\ Elements(SwapRemove(s, x)) = Elements(s) \ {x}
<1>0. DOMAIN s = 1..Len(s) /\ Len(s) \in Nat
  OBVIOUS
<1>1. CASE \A i \in DOMAIN s : s[i] # x
  BY <1>1, Zenon DEF SwapRemove, Elements
<1>2. CASE ~ \A i \in DOMAIN s : s[i] # x
  <2> DEFINE first(i) == s[i] = x /\ \A j \in 1..(i - 1) : s[j] # x
             k == CHOOSE i \in DOMAIN s : first(i)
             r == [i \in 1..(Len(s) - 1) |-> IF i = k THEN s[Len(s)] ELSE s[i]]
  <2>1. PICK i \in DOMAIN s : s[i] = x
    BY <1>2, Zenon
  <2>2. \A j \in DOMAIN s : s[j] = x => j = i
    BY <2>1, Zenon DEF NoRepeats
  <2>3. first(i)
    BY <1>0, <2>1, <2>2
  <2>4. k \in DOMAIN s /\ s[k] = x
    BY <2>3, Zenon
  <2>5. SwapRemove(s, x) = r
    BY <1>2, Zenon DEF SwapRemove
  <2> HIDE DEF k, first
  <2>6. Len(s) \in DOMAIN s /\ Len(s) - 1 \in Nat
    BY <1>0, <2>4
  <2>7. DOMAIN r = 1..(Len(s) - 1)
    BY Zenon
  <2>8. NoRepeats(r)
    BY <1>0, <2>4, <2>6, <2>7 DEF NoRepeats
  <2>9. Elements(r) \subseteq Elements(s) \ {x}
    BY <1>0, <2>2, <2>4, <2>6, <2>7 DEF Elements, NoRepeats
  <2>10. Elements(s) \ {x} \subseteq Elements(r)
    <3> SUFFICES ASSUME NEW j \in DOMAIN s, s[j] # x
                 PROVE  \E m \in DOMAIN r : r[m] = s[j]
      BY DEF Elements
    <3>1. CASE j = Len(s)
      BY <1>0, <2>4, <2>6, <2>7, <3>1
    <3>2. CASE j # Len(s)
      BY <1>0, <2>4, <2>6, <2>7, <3>2
    <3> QED
      BY <3>1, <3>2, Zenon
  <2> QED
    BY <2>5, <2>8, <2>9, <2>10, Zenon
<1> QED
  BY <1>1, <1>2, Zenon

\* What Append adds to a group.
LEMMA AppendFact ==
    ASSUME NEW S, NEW s \in Seq(S), NEW x \in S
    PROVE  /\ Append(s, x) \in Seq(S)
           /\ NoRepeats(s) /\ x \notin Elements(s) => NoRepeats(Append(s, x))
           /\ Elements(Append(s, x)) = Elements(s) \union {x}
<1>0. /\ DOMAIN s = 1..Len(s) /\ Len(s) \in Nat
      /\ DOMAIN Append(s, x) = 1..(Len(s) + 1)
      /\ \A i \in 1..Len(s) : Append(s, x)[i] = s[i]
      /\ Append(s, x)[Len(s) + 1] = x
  OBVIOUS
<1>1. Append(s, x) \in Seq(S)
  OBVIOUS
<1> DEFINE r == Append(s, x)
<1> HIDE DEF r
<1>2. NoRepeats(s) /\ x \notin Elements(s) => NoRepeats(r)
  BY <1>0 DEF NoRepeats, Elements, r
<1>3. Elements(r) = Elements(s) \union {x}
  BY <1>0 DEF Elements, r
<1> QED
  BY <1>1, <1>2, <1>3, Zenon DEF r

-----------------------------------------------------------------------------
(* The groups *)

\* The addresses whose nodes belong to a group.
NodeMembers(t) == {a \in Available : ~IsHarbor(a) /\ a.type = t}
HarborMembers(c) == {a \in Available : IsHarbor(a) /\ a.cluster = c}

\* Their records.
Objs(members) == {allnodes[a].obj : a \in members}

\* NodesExact and HarborsExact, as long as the node has not stopped itself.
Grouped ==
    /\ \A t \in Types : GroupExact(nodes[t], NodeMembers(t))
    /\ \A c \in Clusters : GroupExact(harbors[c], HarborMembers(c))

\* A record is kept under the address of its node.
Placed == \A a \in Addrs : allnodes[a] # NoNode => allnodes[a].obj.addr = a

\* A record that is not available before the step, nor after it, or that stays
\* available, leaves the groups exact.
LEMMA KeepGroups ==
    ASSUME Grouped, UNCHANGED <<nodes, harbors>>, Available' = Available,
           \A a \in Available : allnodes'[a].obj = allnodes[a].obj
    PROVE  Grouped'
<1>1. \A m : m \subseteq Available => Objs(m)' = Objs(m)
  BY Zenon DEF Objs
<1>2. ASSUME NEW t \in Types
      PROVE  GroupExact(nodes[t], NodeMembers(t))'
  <2>1. NodeMembers(t)' = NodeMembers(t) /\ NodeMembers(t) \subseteq Available
    BY Zenon DEF NodeMembers
  <2> QED
    BY <1>1, <2>1, Zenon DEF Grouped, GroupExact, Objs
<1>3. ASSUME NEW c \in Clusters
      PROVE  GroupExact(harbors[c], HarborMembers(c))'
  <2>1. HarborMembers(c)' = HarborMembers(c) /\ HarborMembers(c) \subseteq Available
    BY Zenon DEF HarborMembers
  <2> QED
    BY <1>1, <2>1, Zenon DEF Grouped, GroupExact, Objs
<1> QED
  BY <1>2, <1>3, Zenon DEF Grouped

\* The object of a node that becomes available is added to its group.
LEMMA JoinGroups ==
    ASSUME TypeOK, Placed, Grouped, NEW a \in Addrs, a \notin Available,
           NEW r, r # NoNode, r.available, r.obj \in Objects, r.obj.addr = a,
           allnodes' = [allnodes EXCEPT ![a] = r],
           AddToGroup(r.obj)
    PROVE  Grouped'
<1> DEFINE o == r.obj
<1>0. /\ nodes \in [Types -> Seq(Objects)] /\ harbors \in [Clusters -> Seq(Objects)]
      /\ a.type \in Types /\ a.cluster \in Clusters
  BY Zenon DEF TypeOK, Types, Clusters
<1>1. allnodes'[a] = r /\ \A b \in Addrs : b # a => allnodes'[b] = allnodes[b]
  BY Zenon DEF TypeOK
<1>2. Available' = Available \union {a} /\ Available \subseteq Addrs
  BY <1>1 DEF Available
<1>3. \A m \in SUBSET Available : Objs(m)' = Objs(m) /\ Objs(m \union {a})' = Objs(m) \union {o}
  BY <1>1, <1>2 DEF Objs
<1>4. \A m \in SUBSET Available : o \notin Objs(m)
  BY <1>2 DEF Objs, Placed, Available
<1>5. CASE IsHarbor(a)
  <2>1. UNCHANGED nodes /\ harbors' = [harbors EXCEPT ![a.cluster] = Append(@, o)]
    BY <1>5, Zenon DEF AddToGroup
  <2>2. ASSUME NEW t \in Types
        PROVE  GroupExact(nodes[t], NodeMembers(t))'
    <3>1. NodeMembers(t)' = NodeMembers(t) /\ NodeMembers(t) \in SUBSET Available
      BY <1>2, <1>5, Zenon DEF NodeMembers
    <3> QED
      BY <1>3, <2>1, <3>1, SMTT(30) DEF Grouped, GroupExact, Objs
  <2>3. ASSUME NEW c \in Clusters
        PROVE  GroupExact(harbors[c], HarborMembers(c))'
    <3>0. HarborMembers(c) \in SUBSET Available /\ GroupExact(harbors[c], HarborMembers(c))
      BY Zenon DEF HarborMembers, Grouped
    <3>1. CASE c = a.cluster
      <4>1. HarborMembers(c)' = HarborMembers(c) \union {a}
        BY <1>2, <1>5, <3>1, Zenon DEF HarborMembers
      <4>2. harbors'[c] = Append(harbors[c], o) /\ harbors[c] \in Seq(Objects)
        BY <1>0, <2>1, <3>1, Zenon
      <4>3. o \notin Elements(harbors[c]) /\ NoRepeats(harbors[c])
        BY <1>4, <3>0, Zenon DEF GroupExact, Objs
      <4>4. NoRepeats(harbors'[c]) /\ Elements(harbors'[c]) = Elements(harbors[c]) \union {o}
        BY <4>2, <4>3, AppendFact
      <4> QED
        BY <1>3, <3>0, <4>1, <4>4, Zenon DEF GroupExact, Objs
    <3>2. CASE c # a.cluster
      <4>1. HarborMembers(c)' = HarborMembers(c)
        BY <1>2, <3>2, Zenon DEF HarborMembers
      <4>2. harbors'[c] = harbors[c]
        BY <1>0, <2>1, <3>2, Zenon
      <4> QED
        BY <1>3, <3>0, <4>1, <4>2, Zenon DEF GroupExact, Objs
    <3> QED
      BY <3>1, <3>2, Zenon
  <2> QED
    BY <2>2, <2>3, Zenon DEF Grouped
<1>6. CASE ~IsHarbor(a)
  <2>1. UNCHANGED harbors /\ nodes' = [nodes EXCEPT ![a.type] = Append(@, o)]
    BY <1>6, Zenon DEF AddToGroup
  <2>2. ASSUME NEW c \in Clusters
        PROVE  GroupExact(harbors[c], HarborMembers(c))'
    <3>1. HarborMembers(c)' = HarborMembers(c) /\ HarborMembers(c) \in SUBSET Available
      BY <1>2, <1>6, Zenon DEF HarborMembers
    <3> QED
      BY <1>3, <2>1, <3>1, Zenon DEF Grouped, GroupExact, Objs
  <2>3. ASSUME NEW t \in Types
        PROVE  GroupExact(nodes[t], NodeMembers(t))'
    <3>0. NodeMembers(t) \in SUBSET Available /\ GroupExact(nodes[t], NodeMembers(t))
      BY Zenon DEF NodeMembers, Grouped
    <3>1. CASE t = a.type
      <4>1. NodeMembers(t)' = NodeMembers(t) \union {a}
        BY <1>2, <1>6, <3>1, Zenon DEF NodeMembers
      <4>2. nodes'[t] = Append(nodes[t], o) /\ nodes[t] \in Seq(Objects)
        BY <1>0, <2>1, <3>1, Zenon
      <4>3. o \notin Elements(nodes[t]) /\ NoRepeats(nodes[t])
        BY <1>4, <3>0, Zenon DEF GroupExact, Objs
      <4>4. NoRepeats(nodes'[t]) /\ Elements(nodes'[t]) = Elements(nodes[t]) \union {o}
        BY <4>2, <4>3, AppendFact
      <4> QED
        BY <1>3, <3>0, <4>1, <4>4, Zenon DEF GroupExact, Objs
    <3>2. CASE t # a.type
      <4>1. NodeMembers(t)' = NodeMembers(t)
        BY <1>2, <3>2, Zenon DEF NodeMembers
      <4>2. nodes'[t] = nodes[t]
        BY <1>0, <2>1, <3>2, Zenon
      <4> QED
        BY <1>3, <3>0, <4>1, <4>2, Zenon DEF GroupExact, Objs
    <3> QED
      BY <3>1, <3>2, Zenon
  <2> QED
    BY <2>2, <2>3, Zenon DEF Grouped
<1> QED
  BY <1>5, <1>6, Zenon

\* The object of a node that is removed or becomes unavailable leaves its group.
LEMMA LeaveGroups ==
    ASSUME TypeOK, Placed, Grouped, NEW a \in Addrs, a \in Available,
           NEW r, r = NoNode \/ ~r.available,
           allnodes' = [allnodes EXCEPT ![a] = r],
           RemoveFromGroup(allnodes[a].obj)
    PROVE  Grouped'
<1> DEFINE o == allnodes[a].obj
<1>0. /\ nodes \in [Types -> Seq(Objects)] /\ harbors \in [Clusters -> Seq(Objects)]
      /\ a.type \in Types /\ a.cluster \in Clusters
  BY Zenon DEF TypeOK, Types, Clusters
<1>1. allnodes'[a] = r /\ \A b \in Addrs : b # a => allnodes'[b] = allnodes[b]
  BY Zenon DEF TypeOK
<1>2. Available' = Available \ {a} /\ Available \subseteq Addrs
  BY <1>1 DEF Available
<1>3. o.addr = a /\ \A b \in Available : allnodes[b].obj.addr = b
  BY Zenon DEF Placed, Available
<1> HIDE DEF o
<1>4. \A m \in SUBSET Available : /\ a \notin m => Objs(m)' = Objs(m)
                                  /\ Objs(m \ {a})' = Objs(m) \ {o}
  BY <1>1, <1>2, <1>3 DEF Objs, o
<1>5. CASE IsHarbor(a)
  <2>1. UNCHANGED nodes /\ harbors' = [harbors EXCEPT ![a.cluster] = SwapRemove(@, o)]
    BY <1>3, <1>5, Zenon DEF RemoveFromGroup, o
  <2>2. ASSUME NEW t \in Types
        PROVE  GroupExact(nodes[t], NodeMembers(t))'
    <3>1. NodeMembers(t)' = NodeMembers(t) /\ NodeMembers(t) \in SUBSET (Available \ {a})
      BY <1>2, <1>5, Zenon DEF NodeMembers
    <3> QED
      BY <1>4, <2>1, <3>1, Zenon DEF Grouped, GroupExact, Objs
  <2>3. ASSUME NEW c \in Clusters
        PROVE  GroupExact(harbors[c], HarborMembers(c))'
    <3>0. HarborMembers(c) \in SUBSET Available /\ GroupExact(harbors[c], HarborMembers(c))
      BY Zenon DEF HarborMembers, Grouped
    <3>1. CASE c = a.cluster
      <4>1. HarborMembers(c)' = HarborMembers(c) \ {a}
        BY <1>2, <1>5, <3>1, Zenon DEF HarborMembers
      <4>2. harbors'[c] = SwapRemove(harbors[c], o) /\ harbors[c] \in Seq(Objects)
        BY <1>0, <2>1, <3>1, Zenon
      <4>3. NoRepeats(harbors[c])
        BY <3>0, Zenon DEF GroupExact
      <4>4. NoRepeats(harbors'[c]) /\ Elements(harbors'[c]) = Elements(harbors[c]) \ {o}
        BY <4>2, <4>3, SwapRemoveFact
      <4> QED
        BY <1>4, <3>0, <4>1, <4>4, Zenon DEF GroupExact, Objs
    <3>2. CASE c # a.cluster
      <4>1. HarborMembers(c)' = HarborMembers(c) /\ a \notin HarborMembers(c)
        BY <1>2, <3>2, Zenon DEF HarborMembers
      <4>2. harbors'[c] = harbors[c]
        BY <1>0, <2>1, <3>2, Zenon
      <4> QED
        BY <1>4, <3>0, <4>1, <4>2, Zenon DEF GroupExact, Objs
    <3> QED
      BY <3>1, <3>2, Zenon
  <2> QED
    BY <2>2, <2>3, Zenon DEF Grouped
<1>6. CASE ~IsHarbor(a)
  <2>1. UNCHANGED harbors /\ nodes' = [nodes EXCEPT ![a.type] = SwapRemove(@, o)]
    BY <1>3, <1>6, Zenon DEF RemoveFromGroup, o
  <2>2. ASSUME NEW c \in Clusters
        PROVE  GroupExact(harbors[c], HarborMembers(c))'
    <3>1. HarborMembers(c)' = HarborMembers(c) /\ HarborMembers(c) \in SUBSET (Available \ {a})
      BY <1>2, <1>6, Zenon DEF HarborMembers
    <3> QED
      BY <1>4, <2>1, <3>1, Zenon DEF Grouped, GroupExact, Objs
  <2>3. ASSUME NEW t \in Types
        PROVE  GroupExact(nodes[t], NodeMembers(t))'
    <3>0. NodeMembers(t) \in SUBSET Available /\ GroupExact(nodes[t], NodeMembers(t))
      BY SMTT(30) DEF NodeMembers, Grouped
    <3>1. CASE t = a.type
      <4>1. NodeMembers(t)' = NodeMembers(t) \ {a}
        BY <1>2, <1>6, <3>1, Zenon DEF NodeMembers
      <4>2. nodes'[t] = SwapRemove(nodes[t], o) /\ nodes[t] \in Seq(Objects)
        BY <1>0, <2>1, <3>1, Zenon
      <4>3. NoRepeats(nodes[t])
        BY <3>0, Zenon DEF GroupExact
      <4>4. NoRepeats(nodes'[t]) /\ Elements(nodes'[t]) = Elements(nodes[t]) \ {o}
        BY <4>2, <4>3, SwapRemoveFact
      <4> QED
        BY <1>4, <3>0, <4>1, <4>4, Zenon DEF GroupExact, Objs
    <3>2. CASE t # a.type
      <4>1. NodeMembers(t)' = NodeMembers(t) /\ a \notin NodeMembers(t)
        BY <1>2, <3>2, Zenon DEF NodeMembers
      <4>2. nodes'[t] = nodes[t]
        BY <1>0, <2>1, <3>2, Zenon
      <4> QED
        BY <1>4, <3>0, <4>1, <4>2, Zenon DEF GroupExact, Objs
    <3> QED
      BY <3>1, <3>2, Zenon
  <2> QED
    BY <2>2, <2>3, Zenon DEF Grouped
<1> QED
  BY <1>5, <1>6, Zenon

\* A change of the groups keeps their types.
LEMMA GroupTypes ==
    ASSUME nodes \in [Types -> Seq(Objects)], harbors \in [Clusters -> Seq(Objects)],
           NEW o \in Objects,
           \/ AddToGroup(o)
           \/ RemoveFromGroup(o)
           \/ UNCHANGED <<nodes, harbors>>
    PROVE  nodes' \in [Types -> Seq(Objects)] /\ harbors' \in [Clusters -> Seq(Objects)]
<1>1. o.addr.type \in Types /\ o.addr.cluster \in Clusters
  BY Zenon DEF Objects, Types, Clusters
<1>2. \A s \in Seq(Objects) : Append(s, o) \in Seq(Objects) /\ SwapRemove(s, o) \in Seq(Objects)
  BY SwapRemoveType
<1>3. CASE AddToGroup(o)
  BY <1>1, <1>2, <1>3, ZenonT(30) DEF AddToGroup
<1>4. CASE RemoveFromGroup(o)
  BY <1>1, <1>2, <1>4, ZenonT(30) DEF RemoveFromGroup
<1> QED
  BY <1>3, <1>4, Zenon

-----------------------------------------------------------------------------
(* The callbacks *)

\* Only addresses that are visible in any case change Export.  Another node that
\* starts to be exported is updated, not added, and update does not find it.
FlipsVisible == \A a \in Flips : Visible(a, FALSE)

\* The membership told of a node that is visible from here.
Sees(a) == feed[a] # NoNode /\ Visible(a, feed[a].export)

\* What an entry still to be processed finds.
EntryOK(e) ==
    LET shown == Visible(e.addr, e.info.export) IN
    /\ feed[e.addr] = IF e.op = "remove" THEN NoNode ELSE e.info
    /\ shown /\ e.op # "add" => allnodes[e.addr] # NoNode
    /\ ~stopped /\ (~shown \/ e.op = "add") => allnodes[e.addr] = NoNode

\* What the cache has of an address that no entry is left for.  After StopSelf only
\* the first conjunct holds.
Cached(a) ==
    /\ Sees(a) => allnodes[a] # NoNode
    /\ ~stopped => IF Sees(a) THEN /\ allnodes[a].net = feed[a].net
                                   /\ allnodes[a].available = feed[a].available
                              ELSE allnodes[a] = NoNode

\* A callback names an address once; additions come first, updates last.
Ordered(w) ==
    \A i, j \in DOMAIN w : i < j => w[i].addr # w[j].addr /\ Rank(w[i]) <= Rank(w[j])

Concerns(w, a) == \E i \in DOMAIN w : w[i].addr = a

\* The inductive invariant.
CacheInv ==
    /\ TypeOK
    /\ Placed
    /\ ~stopped => Grouped
    /\ work # <<>> => callbacks > 0
    /\ Ordered(work)
    /\ \A i \in DOMAIN work : EntryOK(work[i])
    /\ \A a \in Addrs : ~Concerns(work, a) => Cached(a)
    /\ ~crashed

\* The first entry and the rest of the work.
LEMMA TailFact ==
    ASSUME NEW w \in Seq(Entries), w # <<>>, Ordered(w)
    PROVE  /\ Head(w) \in Entries /\ Tail(w) \in Seq(Entries)
           /\ 1 \in DOMAIN w /\ Head(w) = w[1]
           /\ Ordered(Tail(w))
           /\ \A i \in DOMAIN Tail(w) : /\ i + 1 \in DOMAIN w /\ Tail(w)[i] = w[i + 1]
                                        /\ Tail(w)[i].addr # Head(w).addr
                                        /\ Rank(Head(w)) <= Rank(Tail(w)[i])
           /\ \A a : Concerns(w, a) <=> a = Head(w).addr \/ Concerns(Tail(w), a)
<1>1. /\ Len(w) \in Nat \ {0} /\ DOMAIN w = 1..Len(w)
      /\ Tail(w) \in Seq(Entries) /\ Len(Tail(w)) = Len(w) - 1 /\ DOMAIN Tail(w) = 1..(Len(w) - 1)
      /\ Head(w) = w[1] /\ Head(w) \in Entries
      /\ \A i \in 1..(Len(w) - 1) : Tail(w)[i] = w[i + 1]
  OBVIOUS
<1> DEFINE r == Tail(w)
<1> HIDE DEF r
<1>2. Ordered(r)
  BY <1>1 DEF Ordered, r
<1>3. \A i \in DOMAIN r : /\ i + 1 \in DOMAIN w /\ r[i] = w[i + 1]
                          /\ r[i].addr # w[1].addr
                          /\ Rank(w[1]) <= Rank(r[i])
  BY <1>1 DEF Ordered, r
<1>4. \A a : Concerns(w, a) <=> a = w[1].addr \/ Concerns(r, a)
  <2>1. \A j \in DOMAIN w : j = 1 \/ (j - 1 \in DOMAIN r /\ r[j - 1] = w[j])
    BY <1>1 DEF r
  <2> QED
    BY <1>1, <1>3, <2>1 DEF Concerns
<1> QED
  BY <1>1, <1>2, <1>3, <1>4 DEF r
\* The first entry is one the membership told of, and it finds what it needs.
LEMMA HeadFact ==
    ASSUME CacheInv, work # <<>>
    PROVE  \E e \in Entries :
             /\ e = Head(work) /\ EntryOK(e)
             /\ e.addr \in Addrs /\ e.info \in Infos
             /\ Tail(work) \in Seq(Entries)
             /\ callbacks \in 1..MaxCallbacks
<1>1. work \in Seq(Entries) /\ Ordered(work)
  BY Zenon DEF CacheInv, TypeOK
<1>2. Head(work) \in Entries /\ Tail(work) \in Seq(Entries) /\ EntryOK(Head(work))
  BY <1>1, TailFact DEF CacheInv
<1>3. callbacks \in 1..MaxCallbacks
  BY CacheAssumption DEF CacheInv, TypeOK
<1> QED
  BY <1>2, <1>3, Zenon DEF Entries

\* An entry that is done leaves what the others rely on alone.
LEMMA EntryDone ==
    ASSUME CacheInv, work # <<>>, NEW e, e = Head(work), work' = Tail(work),
           UNCHANGED <<feed, stopped, crashed, callbacks>>,
           \A a \in Addrs : a # e.addr => allnodes'[a] = allnodes[a],
           TypeOK', Placed', ~stopped => Grouped', Cached(e.addr)'
    PROVE  CacheInv'
<1>0. work \in Seq(Entries) /\ Ordered(work) /\ \A i \in DOMAIN work : EntryOK(work[i])
  BY Zenon DEF CacheInv, TypeOK
<1>1. /\ Ordered(work')
      /\ \A i \in DOMAIN work' : /\ i + 1 \in DOMAIN work /\ work'[i] = work[i + 1]
                                 /\ work'[i].addr # e.addr
      /\ \A a : Concerns(work, a) <=> a = e.addr \/ Concerns(work', a)
      /\ work' \in Seq(Entries)
  BY <1>0, TailFact
<1>2. \A x \in Entries : EntryOK(x) /\ x.addr # e.addr => EntryOK(x)'
  <2> SUFFICES ASSUME NEW x \in Entries, EntryOK(x), x.addr # e.addr
               PROVE  EntryOK(x)'
    BY Zenon
  <2>1. allnodes'[x.addr] = allnodes[x.addr]
    BY Zenon DEF Entries
  <2> QED
    BY <2>1, Zenon DEF EntryOK
<1>3. \A i \in DOMAIN work' : EntryOK(work[i])'
  <2> SUFFICES ASSUME NEW i \in DOMAIN work'
               PROVE  EntryOK(work[i])'
    BY Zenon
  <2>1. PICK x \in Entries : x = work'[i]
    BY <1>1
  <2>2. EntryOK(x) /\ x.addr # e.addr
    BY <1>0, <1>1, <2>1, Zenon
  <2>3. EntryOK(x)'
    BY <1>2, <2>2, Zenon
  <2> QED
    BY <2>1, <2>3, Zenon DEF EntryOK
<1>4. ASSUME NEW a \in Addrs, ~Concerns(work', a)
      PROVE  Cached(a)'
  <2>1. CASE a = e.addr
    BY <2>1, Zenon
  <2>2. CASE a # e.addr
    <3>1. Cached(a) /\ allnodes'[a] = allnodes[a]
      BY <1>1, <1>4, <2>2, Zenon DEF CacheInv
    <3> QED
      BY <3>1 DEF Cached, Sees
  <2> QED
    BY <2>1, <2>2, Zenon
<1>5. (\A a \in Addrs : ~Concerns(work, a) => Cached(a))'
  BY <1>4, Zenon
<1>6. Ordered(work)' /\ (work # <<>> => callbacks > 0)' /\ (~crashed)'
  BY <1>1, Zenon DEF CacheInv, Ordered
<1> QED
  BY <1>3, <1>5, <1>6, Zenon DEF CacheInv

\* The entry of a node that is not visible.
LEMMA HiddenStep ==
    ASSUME CacheInv, Hidden
    PROVE  CacheInv'
<1>0. work # <<>>
  BY Zenon DEF Hidden
<1>1. PICK e \in Entries : /\ e = Head(work) /\ EntryOK(e) /\ e.addr \in Addrs
                           /\ Tail(work) \in Seq(Entries)
  BY <1>0, HeadFact, Zenon
<1>2. /\ ~Visible(e.addr, e.info.export) /\ work' = Tail(work)
      /\ UNCHANGED <<feed, allnodes, nodes, harbors, stopped, crashed, callbacks>>
  BY <1>1, Zenon DEF Hidden
<1>3. TypeOK'
  BY <1>1, <1>2, Zenon DEF CacheInv, TypeOK
<1>4. Placed'
  BY <1>2, Zenon DEF CacheInv, Placed
<1>5. ~stopped => Grouped'
  BY <1>2, KeepGroups, Zenon DEF CacheInv, Available
<1>6. Cached(e.addr)'
  BY <1>1, <1>2, Zenon DEF EntryOK, Cached, Sees
<1> QED
  BY <1>0, <1>1, <1>2, <1>3, <1>4, <1>5, <1>6, EntryDone, Zenon

\* A node is added.
LEMMA AddStep ==
    ASSUME CacheInv, Add
    PROVE  CacheInv'
<1>0. work # <<>>
  BY Zenon DEF Add, Processing
<1>a. PICK e \in Entries : /\ e = Head(work) /\ EntryOK(e) /\ e.addr \in Addrs /\ e.info \in Infos
                           /\ Tail(work) \in Seq(Entries) /\ callbacks \in 1..MaxCallbacks
  BY <1>0, HeadFact, Zenon
<1>b. PICK o \in Objects : o = [addr |-> e.addr, gen |-> callbacks]
  BY <1>a, Zenon DEF Objects
<1>c. PICK r \in Records : r = [obj |-> o, net |-> e.info.net, available |-> e.info.available]
  BY <1>a, Zenon DEF Records, Infos
<1>1. /\ e.op = "add" /\ Visible(e.addr, e.info.export) /\ work' = Tail(work)
      /\ allnodes' = [allnodes EXCEPT ![e.addr] = r]
      /\ IF e.info.available THEN AddToGroup(o) ELSE UNCHANGED <<nodes, harbors>>
      /\ UNCHANGED <<feed, stopped, crashed, callbacks>>
  BY <1>a, <1>b, <1>c, Zenon DEF Add, Processing
<1>3. o.addr = e.addr
  BY <1>b, Zenon
<1>4. r # NoNode /\ r.obj = o /\ r.net = e.info.net /\ r.available = e.info.available
  BY <1>c, CacheAssumption, Zenon
<1>5. allnodes'[e.addr] = r /\ \A a \in Addrs : a # e.addr => allnodes'[a] = allnodes[a]
  BY <1>a, <1>1, Zenon DEF CacheInv, TypeOK
<1>6. Placed'
  BY <1>3, <1>4, <1>5 DEF CacheInv, Placed
<1>7. Cached(e.addr)'
  <2>1. feed'[e.addr] = e.info /\ e.info # NoNode
    BY <1>a, <1>1, CacheAssumption, Zenon DEF EntryOK
  <2> QED
    BY <1>1, <1>4, <1>5, <2>1, Zenon DEF Cached, Sees
<1>8. /\ ~stopped => Grouped'
      /\ nodes' \in [Types -> Seq(Objects)] /\ harbors' \in [Clusters -> Seq(Objects)]
  <2>0. nodes \in [Types -> Seq(Objects)] /\ harbors \in [Clusters -> Seq(Objects)]
    BY SMTT(30) DEF CacheInv, TypeOK
  <2>1. nodes' \in [Types -> Seq(Objects)] /\ harbors' \in [Clusters -> Seq(Objects)]
    BY <1>a, <1>1, <1>3, <2>0, GroupTypes, Zenon
  <2>2. ASSUME ~stopped
        PROVE  Grouped'
    <3>1. TypeOK /\ Placed /\ Grouped /\ allnodes[e.addr] = NoNode
      BY <1>a, <1>1, <2>2, Zenon DEF CacheInv, EntryOK
    <3>2. e.addr \notin Available
      BY <3>1, Zenon DEF Available
    <3>3. CASE e.info.available
      BY <1>a, <1>1, <1>3, <1>4, <3>1, <3>2, <3>3, JoinGroups, Zenon
    <3>4. CASE ~e.info.available
      <4>1. Available' = Available
        BY <1>4, <1>5, <3>2, <3>4, Zenon DEF Available
      <4>2. \A a \in Available : allnodes'[a].obj = allnodes[a].obj
        BY <1>5, <3>2, Zenon DEF Available
      <4> QED
        BY <1>1, <3>1, <3>4, <4>1, <4>2, KeepGroups, Zenon
    <3> QED
      BY <3>3, <3>4, Zenon
  <2> QED
    BY <2>1, <2>2, Zenon
<1>9. TypeOK'
  <2>1. allnodes' \in [Addrs -> Records \union {NoNode}]
    BY <1>a, <1>1, Zenon DEF CacheInv, TypeOK
  <2> QED
    BY <1>a, <1>1, <1>8, <2>1, Zenon DEF CacheInv, TypeOK
<1> QED
  BY <1>0, <1>a, <1>1, <1>5, <1>6, <1>7, <1>8, <1>9, EntryDone
\* A node is removed.
LEMMA RemoveStep ==
    ASSUME CacheInv, Remove
    PROVE  CacheInv'
<1>0. work # <<>>
  BY Zenon DEF Remove, Processing
<1>a. PICK e \in Entries : /\ e = Head(work) /\ EntryOK(e) /\ e.addr \in Addrs
                           /\ Tail(work) \in Seq(Entries)
  BY <1>0, HeadFact, Zenon
<1> DEFINE n == allnodes[e.addr]
<1>1. e.op = "remove" /\ Visible(e.addr, e.info.export)
  BY <1>a, Zenon DEF Remove, Processing
<1>2. n # NoNode
  BY <1>a, <1>1, Zenon DEF EntryOK
<1>3. /\ allnodes' = [allnodes EXCEPT ![e.addr] = NoNode]
      /\ IF n.available THEN RemoveFromGroup(n.obj) ELSE UNCHANGED <<nodes, harbors>>
      /\ work' = Tail(work)
      /\ UNCHANGED <<feed, stopped, crashed, callbacks>>
  BY <1>a, <1>2, Zenon DEF Remove
<1>4. n \in Records /\ n.obj \in Objects
  BY <1>a, <1>2, Zenon DEF CacheInv, TypeOK, Records
<1>5. allnodes'[e.addr] = NoNode /\ \A a \in Addrs : a # e.addr => allnodes'[a] = allnodes[a]
  BY <1>a, <1>3, Zenon DEF CacheInv, TypeOK
<1>6. Placed'
  BY <1>5, Zenon DEF CacheInv, Placed
<1>7. Cached(e.addr)'
  <2>1. feed'[e.addr] = NoNode
    BY <1>a, <1>1, <1>3, Zenon DEF EntryOK
  <2> QED
    BY <1>5, <2>1, Zenon DEF Cached, Sees
<1>8. nodes' \in [Types -> Seq(Objects)] /\ harbors' \in [Clusters -> Seq(Objects)]
  <2>1. nodes \in [Types -> Seq(Objects)] /\ harbors \in [Clusters -> Seq(Objects)]
    BY Zenon DEF CacheInv, TypeOK
  <2> QED
    BY <1>3, <1>4, <2>1, GroupTypes, Zenon
<1>9. ~stopped => Grouped'
  <2> SUFFICES ASSUME ~stopped
               PROVE  Grouped'
    BY Zenon
  <2>1. TypeOK /\ Placed /\ Grouped
    BY Zenon DEF CacheInv
  <2>2. CASE n.available
    <3>1. e.addr \in Available
      BY <1>a, <1>2, <2>2, Zenon DEF Available
    <3> QED
      BY <1>a, <1>3, <2>1, <2>2, <3>1, LeaveGroups, Zenon
  <2>3. CASE ~n.available
    <3>1. e.addr \notin Available
      BY <2>3, Zenon DEF Available
    <3>2. Available' = Available /\ \A a \in Available : allnodes'[a].obj = allnodes[a].obj
      BY <1>5, <3>1, Zenon DEF Available
    <3> QED
      BY <1>3, <2>1, <2>3, <3>2, KeepGroups, Zenon
  <2> QED
    BY <2>2, <2>3, Zenon
<1>10. TypeOK'
  <2>1. allnodes' \in [Addrs -> Records \union {NoNode}]
    BY <1>a, <1>3, Zenon DEF CacheInv, TypeOK
  <2> QED
    BY <1>a, <1>3, <1>8, <2>1, Zenon DEF CacheInv, TypeOK
<1> QED
  BY <1>0, <1>a, <1>3, <1>5, <1>6, <1>7, <1>9, <1>10, EntryDone

\* A node changes its network address or its availability.
LEMMA UpdateStep ==
    ASSUME CacheInv, Update
    PROVE  CacheInv'
<1>0. work # <<>>
  BY Zenon DEF Update, Processing
<1>a. PICK e \in Entries : /\ e = Head(work) /\ EntryOK(e) /\ e.addr \in Addrs /\ e.info \in Infos
                           /\ Tail(work) \in Seq(Entries)
  BY <1>0, HeadFact, Zenon
<1> DEFINE n == allnodes[e.addr]
<1>1. e.op = "update" /\ Visible(e.addr, e.info.export)
  BY <1>a, Zenon DEF Update, Processing
<1>2. n # NoNode
  BY <1>a, <1>1, Zenon DEF EntryOK
<1>3. Replace(n, e.info) /\ work' = Tail(work) /\ UNCHANGED <<feed, stopped, crashed, callbacks>>
  BY <1>a, <1>2, Zenon DEF Update
<1>4. n \in Records /\ n.obj \in Objects /\ n.obj.addr = e.addr
  BY <1>a, <1>2 DEF CacheInv, TypeOK, Records, Placed
<1>b. PICK r \in Records : r = [n EXCEPT !.net = e.info.net, !.available = e.info.available]
  BY <1>a, <1>4, Zenon DEF Records, Infos
<1>c. r # NoNode /\ r.obj = n.obj /\ r.net = e.info.net /\ r.available = e.info.available
  BY <1>4, <1>b, CacheAssumption, Zenon DEF Records
<1>5. allnodes' = [allnodes EXCEPT ![e.addr] = r]
  <2>1. allnodes \in [Addrs -> Records \union {NoNode}]
    BY Zenon DEF CacheInv, TypeOK
  <2>2. allnodes' = [allnodes EXCEPT ![e.addr].net = e.info.net,
                                     ![e.addr].available = e.info.available]
    BY <1>3, <1>4, Zenon DEF Replace
  <2> DEFINE f == [allnodes EXCEPT ![e.addr].net = e.info.net]
             g == [f EXCEPT ![e.addr].available = e.info.available]
  <2>3. /\ DOMAIN f = Addrs /\ f[e.addr] = [n EXCEPT !.net = e.info.net]
        /\ \A a \in Addrs : a # e.addr => f[a] = allnodes[a]
    BY <1>a, <2>1, Zenon
  <2>4. allnodes' = g
    BY <2>2, Zenon
  <2> HIDE DEF f
  <2>5. /\ g = [a \in Addrs |-> g[a]] /\ g[e.addr] = [f[e.addr] EXCEPT !.available = e.info.available]
        /\ \A a \in Addrs : a # e.addr => g[a] = f[a]
    BY <1>a, <2>3, Zenon
  <2> HIDE DEF g
  <2>6. g[e.addr] = r /\ \A a \in Addrs : a # e.addr => g[a] = allnodes[a]
    BY <1>b, <2>3, <2>5
  <2> QED
    BY <1>a, <2>1, <2>4, <2>5, <2>6, Zenon
<1>6. allnodes'[e.addr] = r /\ \A a \in Addrs : a # e.addr => allnodes'[a] = allnodes[a]
  BY <1>a, <1>5, Zenon DEF CacheInv, TypeOK
<1>7. Placed'
  BY <1>4, <1>6, <1>c DEF CacheInv, Placed
<1>8. Cached(e.addr)'
  <2>1. feed'[e.addr] = e.info /\ e.info # NoNode
    BY <1>a, <1>1, <1>3, CacheAssumption, Zenon DEF EntryOK
  <2> QED
    BY <1>1, <1>6, <1>c, <2>1, Zenon DEF Cached, Sees
<1>9. nodes' \in [Types -> Seq(Objects)] /\ harbors' \in [Clusters -> Seq(Objects)]
  <2>1. nodes \in [Types -> Seq(Objects)] /\ harbors \in [Clusters -> Seq(Objects)]
    BY Zenon DEF CacheInv, TypeOK
  <2> QED
    BY <1>3, <1>4, <2>1, GroupTypes, Zenon DEF Replace
<1>10. ~stopped => Grouped'
  <2> SUFFICES ASSUME ~stopped
               PROVE  Grouped'
    BY Zenon
  <2>1. TypeOK /\ Placed /\ Grouped
    BY DEF CacheInv
  <2>2. n.available \in BOOLEAN /\ e.info.available \in BOOLEAN
    BY <1>a, <1>4, SMTT(30) DEF Records, Infos
  <2>3. CASE e.info.available = n.available
    <3>1. Available' = Available /\ \A a \in Available : allnodes'[a].obj = allnodes[a].obj
      BY <1>2, <1>6, <1>c, <2>3 DEF Available
    <3> QED
      BY <1>3, <2>1, <2>3, <3>1, KeepGroups, Zenon DEF Replace
  <2>4. CASE e.info.available /\ ~n.available
    <3>1. e.addr \notin Available /\ AddToGroup(r.obj) /\ r.available
      BY <1>3, <1>c, <2>4, Zenon DEF Available, Replace
    <3> QED
      BY <1>a, <1>4, <1>5, <1>c, <2>1, <3>1, JoinGroups, Zenon
  <2>5. CASE ~e.info.available /\ n.available
    <3>1. e.addr \in Available /\ RemoveFromGroup(n.obj) /\ ~r.available
      BY <1>a, <1>2, <1>3, <1>c, <2>5, Zenon DEF Available, Replace
    <3> QED
      BY <1>a, <1>5, <2>1, <3>1, LeaveGroups, Zenon
  <2> QED
    BY <2>2, <2>3, <2>4, <2>5, Zenon
<1>11. TypeOK'
  <2>1. allnodes' \in [Addrs -> Records \union {NoNode}]
    BY <1>a, <1>5, Zenon DEF CacheInv, TypeOK
  <2> QED
    BY <1>a, <1>3, <1>9, <2>1 DEF CacheInv, TypeOK
<1> QED
  BY <1>0, <1>a, <1>3, <1>6, <1>7, <1>8, <1>10, <1>11, EntryDone, Zenon

\* The node itself is removed or moved: no addition is left out, because the
\* loop over Add comes first.
LEMMA StopSelfStep ==
    ASSUME CacheInv, StopSelf
    PROVE  CacheInv'
<1>0. /\ work # <<>> /\ Head(work).op # "add"
      /\ stopped' = TRUE /\ work' = <<>>
      /\ UNCHANGED <<feed, allnodes, nodes, harbors, crashed, callbacks>>
  BY Zenon DEF StopSelf
<1>1. /\ work \in Seq(Entries) /\ Ordered(work)
      /\ \A i \in DOMAIN work : EntryOK(work[i])
  BY Zenon DEF CacheInv, TypeOK
<1>2. ASSUME NEW i \in DOMAIN work
      PROVE  work[i].op # "add"
  <2>1. Head(work) = work[1] /\ DOMAIN work = 1..Len(work) /\ 1 \in DOMAIN work
    BY <1>0, <1>1
  <2>2. CASE i = 1
    BY <1>0, <2>1, <2>2, Zenon
  <2>3. CASE i # 1
    <3>1. Rank(work[1]) <= Rank(work[i])
      BY <1>1, <2>1, <2>3 DEF Ordered
    <3> QED
      BY <1>0, <2>1, <3>1 DEF Rank
  <2> QED
    BY <2>2, <2>3, Zenon
<1>3. ASSUME NEW a \in Addrs, Sees(a)
      PROVE  allnodes[a] # NoNode
  <2>1. CASE ~Concerns(work, a)
    BY <1>3, <2>1, Zenon DEF CacheInv, Cached
  <2>2. CASE Concerns(work, a)
    <3>1. PICK i \in DOMAIN work : work[i].addr = a
      BY <2>2, Zenon DEF Concerns
    <3>2. EntryOK(work[i]) /\ work[i].op # "add"
      BY <1>1, <1>2, Zenon
    <3> QED
      BY <1>3, <3>1, <3>2, Zenon DEF EntryOK, Sees
  <2> QED
    BY <2>1, <2>2, Zenon
<1>4. \A a \in Addrs : Cached(a)'
  BY <1>0, <1>3, Zenon DEF Cached, Sees
<1>5. TypeOK' /\ Placed'
  BY <1>0 DEF CacheInv, TypeOK, Placed
<1>6. Ordered(work)' /\ (\A i \in DOMAIN work : EntryOK(work[i]))'
  BY <1>0 DEF Ordered
<1> QED
  BY <1>0, <1>4, <1>5, <1>6, SMTT(30) DEF CacheInv
\* An update says the same of a node's visibility as what was told before.
LEMMA SameVisibility ==
    ASSUME FlipsVisible, NEW a \in Addrs, NEW x \in BOOLEAN, NEW y \in BOOLEAN, a \in Flips \/ x = y
    PROVE  Visible(a, x) = Visible(a, y)
BY Zenon DEF FlipsVisible, Visible

\* What the membership tells of an address it may tell.
LEMMA ToldFact ==
    ASSUME TypeOK, NEW a \in Addrs, NEW e \in Told(a)
    PROVE  /\ e \in Entries /\ e.addr = a
           /\ e.op = "add" => feed[a] = NoNode
           /\ e.op # "add" => /\ feed[a] \in Infos
                              /\ a \in Flips \/ e.info.export = feed[a].export
<1>1. feed[a] \in Infos \union {NoNode}
  BY Zenon DEF TypeOK
<1>2. CASE feed[a] = NoNode
  <2>1. PICK i \in Infos : e = [op |-> "add", addr |-> a, info |-> i]
    BY <1>2, Zenon DEF Told
  <2> QED
    BY <1>2, <2>1, Zenon DEF Entries
<1>3. CASE feed[a] # NoNode
  <2>1. PICK i \in Infos : \/ /\ e = [op |-> "update", addr |-> a, info |-> i]
                              /\ a \in Flips \/ i.export = feed[a].export
                           \/ e = [op |-> "remove", addr |-> a, info |-> i] /\ i = feed[a]
    BY <1>1, <1>3, Zenon DEF Told
  <2> QED
    BY <1>1, <1>3, <2>1 DEF Entries
<1> QED
  BY <1>2, <1>3, Zenon

\* A callback of the membership starts.
LEMMA CallbackStep ==
    ASSUME FlipsVisible, CacheInv, NEW b \in Batches, Callback(b)
    PROVE  CacheInv'
<1>0. /\ work = <<>> /\ callbacks < MaxCallbacks /\ work' = b
      /\ callbacks' = callbacks + 1
      /\ UNCHANGED <<allnodes, nodes, harbors, stopped, crashed>>
  BY Zenon DEF Callback, Idle
<1>1. TypeOK /\ Placed /\ (~stopped => Grouped) /\ ~crashed /\ \A a \in Addrs : Cached(a)
  BY <1>0 DEF CacheInv, Concerns
<1>2. PICK k \in 1..MaxBatch : b \in [1..k -> UNION {Told(a) : a \in Addrs}]
  BY Zenon DEF Batches
<1>3. ASSUME NEW i \in DOMAIN b
      PROVE  b[i] \in Entries /\ b[i] \in Told(b[i].addr) /\ b[i].addr \in Addrs
  <2>1. PICK a \in Addrs : b[i] \in Told(a)
    BY <1>2
  <2> QED
    BY <1>1, <2>1, ToldFact, Zenon
<1>4. Ordered(b)
  BY Zenon DEF Batches, Ordered
<1>5. b \in Seq(Entries) /\ DOMAIN b = 1..k
  BY <1>2, <1>3, CacheAssumption
<1> DEFINE mine(a) == {i \in DOMAIN b : b[i].addr = a}
           told(a) == IF mine(a) = {} THEN feed[a]
                      ELSE LET e == b[CHOOSE i \in mine(a) : TRUE]
                           IN IF e.op = "remove" THEN NoNode ELSE e.info
<1>6. feed' = [a \in Addrs |-> told(a)]
  BY Zenon DEF Callback
<1>7. ASSUME NEW i \in DOMAIN b
      PROVE  feed'[b[i].addr] = IF b[i].op = "remove" THEN NoNode ELSE b[i].info
  <2>1. \A j \in mine(b[i].addr) : j = i
    BY <1>4, <1>5 DEF Ordered
  <2>2. (CHOOSE j \in mine(b[i].addr) : TRUE) = i /\ mine(b[i].addr) # {}
    BY <2>1, Zenon
  <2>3. b[i].addr \in Addrs
    BY <1>3, Zenon
  <2> QED
    BY <1>6, <2>2, <2>3
<1>8. ASSUME NEW a \in Addrs, ~Concerns(b, a)
      PROVE  feed'[a] = feed[a]
  <2>1. mine(a) = {}
    BY <1>8, Zenon DEF Concerns
  <2> QED
    BY <1>6, <2>1, Zenon
<1> HIDE DEF told, mine
<1>9. ASSUME NEW i \in DOMAIN b
      PROVE  EntryOK(b[i])'
  <2>1. PICK e \in Entries : e = b[i]
    BY <1>3, Zenon
  <2>2. /\ e.addr \in Addrs /\ e \in Told(e.addr) /\ e.info \in Infos
        /\ feed'[e.addr] = IF e.op = "remove" THEN NoNode ELSE e.info
        /\ Cached(e.addr)
    BY <1>1, <1>3, <1>7, <2>1, Zenon DEF Entries
  <2>3. CASE e.op = "add"
    <3>1. ~Sees(e.addr)
      BY <1>1, <2>2, <2>3, ToldFact, SMTT(30) DEF Sees
    <3> QED
      BY <1>0, <2>1, <2>2, <2>3, <3>1 DEF EntryOK, Cached
  <2>4. CASE e.op # "add"
    <3>1. feed[e.addr] \in Infos /\ (e.addr \in Flips \/ e.info.export = feed[e.addr].export)
      BY <1>1, <2>2, <2>4, ToldFact
    <3>2. Visible(e.addr, e.info.export) = Visible(e.addr, feed[e.addr].export)
      BY <2>2, <3>1, SameVisibility, Zenon DEF Infos
    <3>3. Sees(e.addr) <=> Visible(e.addr, e.info.export)
      BY <3>1, <3>2, CacheAssumption, Zenon DEF Sees
    <3> QED
      BY <1>0, <2>1, <2>2, <2>4, <3>3, Zenon DEF EntryOK, Cached
  <2> QED
    BY <2>3, <2>4, Zenon
<1>10. ASSUME NEW a \in Addrs, ~Concerns(b, a)
       PROVE  Cached(a)'
  BY <1>0, <1>1, <1>8, <1>10 DEF Cached, Sees
<1>11. feed' \in [Addrs -> Infos \union {NoNode}]
  <2>1. ASSUME NEW a \in Addrs
        PROVE  feed'[a] \in Infos \union {NoNode}
    <3>1. CASE Concerns(b, a)
      BY <1>3, <1>7, <3>1, Zenon DEF Concerns, Entries
    <3>2. CASE ~Concerns(b, a)
      BY <1>1, <1>8, <3>2, Zenon DEF TypeOK
    <3> QED
      BY <3>1, <3>2, Zenon
  <2> QED
    BY <1>6, <2>1, Zenon
<1>12. TypeOK' /\ callbacks' > 0
  BY <1>0, <1>1, <1>5, <1>11, CacheAssumption DEF TypeOK
<1>13. Placed' /\ (~stopped => Grouped)'
  BY <1>0, <1>1, KeepGroups, Zenon DEF Placed, Available
<1>14. /\ Ordered(work)' /\ (\A i \in DOMAIN work : EntryOK(work[i]))'
       /\ (\A a \in Addrs : ~Concerns(work, a) => Cached(a))'
  <2>1. Ordered(work')
    BY <1>0, <1>4, Zenon
  <2> QED
    BY <1>0, <1>9, <1>10, <2>1, Zenon DEF Ordered, Concerns
<1> QED
  BY <1>0, <1>1, <1>12, <1>13, <1>14 DEF CacheInv

-----------------------------------------------------------------------------
(* The theorems *)

\* The empty cache agrees with a membership that has told nothing.
LEMMA CacheInit == Init => CacheInv
<1> SUFFICES ASSUME Init
             PROVE  CacheInv
  BY Zenon
<1>1. TypeOK
  <2>1. <<>> \in Seq(Objects) /\ <<>> \in Seq(Entries) /\ 0 \in 0..MaxCallbacks
    BY CacheAssumption
  <2> QED
    BY <2>1, Zenon DEF Init, TypeOK
<1>2. Available = {} /\ Placed
  BY Zenon DEF Init, Available, Placed
<1>3. Grouped
  <2>1. NoRepeats(<<>>) /\ Elements(<<>>) = {}
    BY DEF NoRepeats, Elements
  <2> QED
    BY <1>2, <2>1, Zenon DEF Init, Grouped, GroupExact, NodeMembers, HarborMembers
<1>4. \A a \in Addrs : Cached(a)
  BY Zenon DEF Init, Cached, Sees
<1> QED
  BY <1>1, <1>2, <1>3, <1>4 DEF Init, CacheInv, Ordered

\* The invariant holds through every sequence of callbacks.
THEOREM CacheCorrect ==
    ASSUME FlipsVisible
    PROVE  Spec => []CacheInv
<1>1. Init => CacheInv
  BY CacheInit, Zenon
<1>2. CacheInv /\ [Next]_vars => CacheInv'
  <2> SUFFICES ASSUME CacheInv, [Next]_vars
               PROVE  CacheInv'
    BY SMTT(30)
  <2>1. CASE UNCHANGED vars
    <3>1. UNCHANGED <<feed, allnodes, nodes, harbors, work, stopped, crashed, callbacks>>
      BY <2>1, Zenon DEF vars
    <3>2. TypeOK' /\ Placed'
      BY <3>1, Zenon DEF CacheInv, TypeOK, Placed
    <3>3. (~stopped => Grouped)'
      BY <3>1, KeepGroups, Zenon DEF CacheInv, Available
    <3>4. /\ (work # <<>> => callbacks > 0)'
          /\ Ordered(work)'
          /\ ~crashed'
      BY <3>1, Zenon DEF CacheInv, Ordered
    <3>5. (\A i \in DOMAIN work : EntryOK(work[i]))'
      BY <3>1, Zenon DEF CacheInv, EntryOK
    <3>6. (\A a \in Addrs : ~Concerns(work, a) => Cached(a))'
      BY <3>1, Zenon DEF CacheInv, Concerns, Cached, Sees
    <3> QED
      BY <3>2, <3>3, <3>4, <3>5, <3>6 DEF CacheInv
  <2>2. CASE Next
    BY <2>2, CallbackStep, HiddenStep, AddStep, StopSelfStep, RemoveStep, UpdateStep DEF Next
  <2> QED
    BY <2>1, <2>2, Zenon
<1> QED
  BY <1>1, <1>2, PTL DEF Spec

\* Between callbacks the cache says exactly what the membership told.
THEOREM CacheAgrees ==
    ASSUME FlipsVisible
    PROVE  Spec => []AgreesWithFeed
<1>1. CacheInv => AgreesWithFeed
  BY DEF CacheInv, AgreesWithFeed, Idle, Concerns, Cached, Sees
<1> QED
  BY <1>1, CacheCorrect, PTL

\* No removal and no update meets a node that is not there, not even in the
\* callbacks after the one that made the node stop.
THEOREM CacheNeverNil ==
    ASSUME FlipsVisible
    PROVE  Spec => []NeverNil
<1>1. CacheInv => NeverNil
  BY SMTT(30) DEF CacheInv, NeverNil
<1> QED
  BY <1>1, CacheCorrect, PTL

\* The group of a type has exactly the nodes that are available, each once: swap-
\* removal takes out the right one.
THEOREM NodeGroupsExact ==
    ASSUME FlipsVisible
    PROVE  Spec => []NodesExact
<1>1. CacheInv => NodesExact
  BY Zenon DEF CacheInv, NodesExact, Grouped, NodeMembers
<1> QED
  BY <1>1, CacheCorrect, PTL

\* The group of a cluster has exactly the harbors that are available, each once.
THEOREM HarborGroupsExact ==
    ASSUME FlipsVisible
    PROVE  Spec => []HarborsExact
<1>1. CacheInv => HarborsExact
  BY Zenon DEF CacheInv, HarborsExact, Grouped, HarborMembers
<1> QED
  BY <1>1, CacheCorrect, PTL
=============================================================================
