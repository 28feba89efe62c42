-------------------------- MODULE MessagingProofs --------------------------
(***************************************************************************)
(* Proofs about Messaging, for any nodes, addresses, messages, task queues *)
(* and caches, whatever is lost, stopped or changed while a message is on  *)
(* its way: no message takes more than three hops (Inv), every message is  *)
(* handled and every call answered at most once (OnceInv: a message is in  *)
(* one place, and says what has become of it so far), and the state is     *)
(* well typed.                                                             *)
(***************************************************************************)
EXTENDS Messaging, TLAPS

-----------------------------------------------------------------------------
(* The inductive invariant *)

\* A packet that is not at its destination is at a harbor, and has made at most
\* one hop outside the destination's cluster, and at most two within it.
OnWay(n, id, kind, h) ==
    /\ n \in Nodes /\ id \in Ids /\ kind \in Kinds /\ h \in Nat
    /\ h <= IF n = To(id, kind) THEN 3
            ELSE IF Addr[n].cluster = Addr[To(id, kind)].cluster THEN 2 ELSE 1
    /\ n # To(id, kind) => IsHarbor(n)

\* A request comes from its sender or from a harbor: the reply, which goes back
\* over the same link, finds its sender or a harbor.
Brought(v, id) == v \in Nodes /\ (v = Msgs[id].from \/ IsHarbor(v))

PacketOK(x) ==
    /\ OnWay(x.at, x.id, x.kind, x.hops)
    /\ x.via \in Nodes
    /\ ~Answer(x.kind) => Brought(x.via, x.id)

TaskOK(n, t) ==
    /\ OnWay(n, t.id, t.kind, t.hops)
    /\ ~Answer(t.kind) /\ n = To(t.id, t.kind) => Brought(n, t.id)

ServingOK(s) ==
    /\ s.at \in Nodes /\ s.id \in Ids /\ s.kind \in {"ok", "error"}
    /\ Brought(s.chan, s.id)

HarborsOK ==
    /\ harbors \in [Nodes -> [Clusters -> Seq(Nodes)]]
    /\ \A n \in Nodes : \A c \in Clusters : harbors[n][c] \in Seq(HarborsOf(c))

WireOK == \A x \in wire : PacketOK(x)

TasksOf(n) == {t \in [id : Ids, kind : Kinds, hops : Nat] : TaskOK(n, t)}

TasksOK ==
    /\ DOMAIN tasks = Nodes /\ tasks = [n \in Nodes |-> tasks[n]]
    /\ \A n \in Nodes : tasks[n] \in Seq(TasksOf(n))

AllServingOK == \A s \in serving : ServingOK(s)

Inv == HarborsOK /\ WireOK /\ TasksOK /\ AllServingOK

-----------------------------------------------------------------------------
(* Lemmas *)

\* The sender and the destination of a message are nodes.
LEMMA MsgFact ==
    ASSUME NEW id \in Ids
    PROVE  Msgs[id].from \in Nodes /\ Msgs[id].to \in Nodes
           /\ Msgs[id].kind \in {"send", "call", "post"}
<1> DEFINE M == [kind : {"send", "call", "post"}, from : Nodes, to : Nodes]
<1>1. Msgs \in Seq(M)
  BY MessagingAssumption, Zenon
<1>2. id \in 1..Len(Msgs)
  <2> HIDE DEF M
  <2> QED
    BY <1>1 DEF Ids
<1>3. Msgs[id] \in M
  <2> HIDE DEF M
  <2> QED
    BY <1>1, <1>2
<1> QED
  BY <1>3, Zenon

LEMMA ToFact ==
    ASSUME NEW id \in Ids, NEW kind
    PROVE  To(id, kind) \in Nodes
BY MsgFact, Zenon DEF To

\* Addresses are numbers.
LEMMA AddrFact ==
    ASSUME NEW n \in Nodes
    PROVE  Addr[n].cluster \in Clusters /\ LogicAddr(n) \in Nat
<1>1. Addr[n] \in [cluster : Nat, type : Nat, server : Nat]
  BY MessagingAssumption, Zenon
<1> QED
  BY <1>1 DEF Clusters, LogicAddr

\* getHarbor chooses a harbor of the cluster that it is asked about.
LEMMA HarborFact ==
    ASSUME HarborsOK, NEW n \in Nodes, NEW c \in Clusters, NEW m \in Nodes,
           getHarbor(n, c, m) # NoNode
    PROVE  getHarbor(n, c, m) \in HarborsOf(c)
<1> DEFINE hs == harbors[n][c]
           k == LogicAddr(m) % Len(hs)
<1>1. hs \in Seq(HarborsOf(c))
  BY Zenon DEF HarborsOK
<1>2. hs # <<>> /\ getHarbor(n, c, m) = hs[k + 1]
  BY Zenon DEF getHarbor
<1>3. Len(hs) \in Nat /\ Len(hs) > 0
  BY <1>1, <1>2
<1>4. k + 1 \in 1..Len(hs)
  <2> HIDE DEF hs
  <2>1. LogicAddr(m) \in Nat
    BY AddrFact, Zenon
  <2> QED
    BY <1>3, <2>1
<1> QED
  BY <1>1, <1>2, <1>4

\* Every hop leads to the destination itself, to a harbor of its cluster, or, from
\* a node that is no harbor, to a harbor of the node's own cluster.
LEMMA RouteFact ==
    ASSUME HarborsOK, NEW n \in Nodes, NEW to \in Nodes, Route(n, to) # NoNode
    PROVE  /\ Route(n, to) \in Nodes
           /\ \/ Route(n, to) = to
              \/ IsHarbor(Route(n, to)) /\ Addr[n].cluster # Addr[to].cluster
           /\ IsHarbor(n) => Addr[Route(n, to)].cluster = Addr[to].cluster
<1>1. CASE Addr[to].cluster = Addr[n].cluster
  BY <1>1, Zenon DEF Route
<1>2. CASE Addr[to].cluster # Addr[n].cluster
  <2> DEFINE c == Addr[IF IsHarbor(n) THEN to ELSE n].cluster
  <2>1. c \in Clusters
    BY AddrFact, Zenon
  <2>2. Route(n, to) = getHarbor(n, c, to)
    BY <1>2, Zenon DEF Route
  <2>3. Route(n, to) \in HarborsOf(c)
    BY <2>1, <2>2, HarborFact, Zenon
  <2> QED
    BY <1>2, <2>3, Zenon DEF HarborsOf
<1> QED
  BY <1>1, <1>2, Zenon

\* The first hop of a message.
LEMMA FirstHop ==
    ASSUME HarborsOK, NEW n \in Nodes, NEW id \in Ids, NEW kind \in Kinds,
           Route(n, To(id, kind)) # NoNode
    PROVE  OnWay(Route(n, To(id, kind)), id, kind, 1)
BY ToFact, RouteFact DEF OnWay

\* A harbor's hop brings a packet into the cluster of its destination, or there.
LEMMA NextHop ==
    ASSUME HarborsOK, NEW n \in Nodes, NEW id \in Ids, NEW kind \in Kinds, NEW h \in Nat,
           OnWay(n, id, kind, h), n # To(id, kind), Route(n, To(id, kind)) # NoNode
    PROVE  OnWay(Route(n, To(id, kind)), id, kind, h + 1)
<1> DEFINE to == To(id, kind)
           next == Route(n, to)
<1>1. to \in Nodes
  BY ToFact, Zenon
<1>2. /\ IsHarbor(n)
      /\ h <= IF Addr[n].cluster = Addr[to].cluster THEN 2 ELSE 1
  BY Zenon DEF OnWay
<1>3. /\ next \in Nodes /\ Addr[next].cluster = Addr[to].cluster
      /\ \/ next = to
         \/ IsHarbor(next) /\ Addr[n].cluster # Addr[to].cluster
  BY <1>1, <1>2, RouteFact, Zenon
<1> HIDE DEF to, next
<1>4. /\ next \in Nodes /\ id \in Ids /\ kind \in Kinds /\ h + 1 \in Nat
      /\ h + 1 <= IF next = to THEN 3
                  ELSE IF Addr[next].cluster = Addr[to].cluster THEN 2 ELSE 1
      /\ next # to => IsHarbor(next)
  BY <1>2, <1>3
<1> QED
  BY <1>4, Zenon DEF OnWay, next, to

\* What onRelayMessage sends on, or answers, at a harbor.
LEMMA RelayFact ==
    ASSUME HarborsOK, NEW n \in Nodes, NEW id \in Ids, NEW kind \in Kinds, NEW h \in Nat,
           OnWay(n, id, kind, h), n # To(id, kind), NEW x \in Relayed(n, id, kind, h)
    PROVE  PacketOK(x)
<1> DEFINE next == Route(n, To(id, kind))
           back == Route(n, Msgs[id].from)
<1>1. IsHarbor(n)
  BY Zenon DEF OnWay
<1>2. CASE next # NoNode
  <2>1. OnWay(next, id, kind, h + 1)
    BY <1>2, NextHop, Zenon
  <2>2. x = Packet(n, next, id, kind, h + 1)
    BY <1>2, Zenon DEF Relayed
  <2> QED
    BY <1>1, <2>1, <2>2, Zenon DEF Packet, PacketOK, Brought
<1>3. CASE next = NoNode
  <2>1. back # NoNode /\ x = Packet(n, back, id, "error", 1)
    BY <1>3, Zenon DEF Relayed
  <2>2. To(id, "error") = Msgs[id].from /\ Answer("error") /\ "error" \in Kinds
    BY Zenon DEF To, Answer, Kinds
  <2>3. OnWay(back, id, "error", 1)
    BY <2>1, <2>2, FirstHop, Zenon
  <2> QED
    BY <2>1, <2>2, <2>3, Zenon DEF Packet, PacketOK
<1> QED
  BY <1>2, <1>3, Zenon

\* sendMessage puts on the wire what it is given, or nothing.
LEMMA TransmitFact ==
    ASSUME WireOK, NEW n, NEW rest \in SUBSET wire, NEW out, Transmit(n, rest, out),
           \A x \in out : PacketOK(x)
    PROVE  WireOK'
<1>1. \A x \in wire' : x \in wire \/ x \in out
  BY Zenon DEF Transmit
<1> QED
  BY <1>1, Zenon DEF WireOK

\* A task that is queued is as good as those before it.
LEMMA GoFact ==
    ASSUME TasksOK, NEW n \in Nodes, NEW id \in Ids, NEW kind \in Kinds, NEW h \in Nat,
           OnWay(n, id, kind, h),
           ~Answer(kind) /\ n = To(id, kind) => Brought(n, id),
           Go(n, id, kind, h)
    PROVE  TasksOK'
<1> DEFINE t == [id |-> id, kind |-> kind, hops |-> h]
<1>1. t \in TasksOf(n)
  BY Zenon DEF TasksOf, TaskOK
<1>2. tasks' = [tasks EXCEPT ![n] = Append(tasks[n], t)]
  BY Zenon DEF Go
<1> HIDE DEF t
<1>3. Append(tasks[n], t) \in Seq(TasksOf(n))
  BY <1>1 DEF TasksOK
<1>4. \A m \in Nodes : tasks'[m] = IF m = n THEN Append(tasks[n], t) ELSE tasks[m]
  BY <1>2, Zenon DEF TasksOK
<1>5. DOMAIN tasks' = Nodes /\ tasks' = [m \in Nodes |-> tasks'[m]]
  BY Zenon, <1>2 DEF TasksOK
<1> QED
  BY Zenon, <1>3, <1>4, <1>5 DEF TasksOK

\* A worker takes the first task.
LEMMA TakeFact ==
    ASSUME TasksOK, NEW n \in Nodes, tasks[n] # <<>>,
           tasks' = [tasks EXCEPT ![n] = Tail(@)]
    PROVE  TasksOK' /\ Head(tasks[n]) \in TasksOf(n)
<1>1. tasks[n] \in Seq(TasksOf(n))
  BY Zenon DEF TasksOK
<1>2. Head(tasks[n]) \in TasksOf(n) /\ Tail(tasks[n]) \in Seq(TasksOf(n))
  BY <1>1
<1>4. \A m \in Nodes : tasks'[m] = IF m = n THEN Tail(tasks[n]) ELSE tasks[m]
  BY Zenon DEF TasksOK
<1>5. DOMAIN tasks' = Nodes /\ tasks' = [m \in Nodes |-> tasks'[m]]
  BY Zenon DEF TasksOK
<1> QED
  BY <1>2, <1>4, <1>5, Zenon DEF TasksOK

\* The channel of a request that is served leads to its sender or to a harbor.
LEMMA DispatchFact ==
    ASSUME AllServingOK, NEW n \in Nodes, NEW chan, NEW id \in Ids, NEW kind \in Kinds,
           ~Answer(kind) => Brought(chan, id), Dispatch(n, chan, id, kind)
    PROVE  AllServingOK'
<1>1. CASE Answer(kind)
  BY <1>1, Zenon DEF Dispatch, AllServingOK
<1>2. CASE ~Answer(kind)
  <2> DEFINE s == [at |-> n, chan |-> chan, id |-> id,
                   kind |-> IF Served(n, id, kind) THEN "ok" ELSE "error"]
  <2>1. serving' = serving \/ serving' = serving \union {s}
    BY <1>2, Zenon DEF Dispatch
  <2>2. ServingOK(s)
    BY <1>2, Zenon DEF ServingOK
  <2> QED
    BY <2>1, <2>2, Zenon DEF AllServingOK
<1> QED
  BY <1>1, <1>2, Zenon

LEMMA FunctionIsSeq ==
    ASSUME NEW E, NEW k \in Nat, NEW q \in [1..k -> E]
    PROVE  q \in Seq(E)
OBVIOUS

\* removeHarbor leaves a list of the same harbors.
LEMMA WithoutFact ==
    ASSUME NEW H, NEW hs \in Seq(H), NEW m
    PROVE  Without(hs, m) \in Seq(H)
<1>1. CASE m \notin Range(hs)
  BY <1>1, Zenon DEF Without
<1>2. CASE m \in Range(hs)
  <2>1. Len(hs) \in Nat /\ Len(hs) > 0
    BY <1>2 DEF Range
  <2>2. hs[Len(hs)] \in H
    BY <2>1
  <2>3. [i \in 1..(Len(hs) - 1) |-> IF hs[i] = m THEN hs[Len(hs)] ELSE hs[i]]
           \in [1..(Len(hs) - 1) -> H]
    BY <2>1, <2>2
  <2>4. Len(hs) - 1 \in Nat
    BY <2>1
  <2> QED
    BY <1>2, <2>3, <2>4, FunctionIsSeq, Zenon DEF Without
<1> QED
  BY <1>1, <1>2, Zenon

\* A change of one list of harbors.
LEMMA HarborsFact ==
    ASSUME HarborsOK, NEW n \in Nodes, NEW c \in Clusters, NEW hs \in Seq(HarborsOf(c)),
           harbors' = [harbors EXCEPT ![n][c] = hs]
    PROVE  HarborsOK'
<1>1. hs \in Seq(Nodes)
  BY DEF HarborsOf
<1>2. harbors' \in [Nodes -> [Clusters -> Seq(Nodes)]]
  BY <1>1, Zenon DEF HarborsOK
<1>3. \A m \in Nodes : \A d \in Clusters :
         harbors'[m][d] = IF m = n /\ d = c THEN hs ELSE harbors[m][d]
  BY Zenon DEF HarborsOK
<1> QED
  BY <1>2, <1>3, Zenon DEF HarborsOK

-----------------------------------------------------------------------------
(* The invariant *)

LEMMA InitInv == Init => Inv
<1> SUFFICES ASSUME Init PROVE Inv
  BY Zenon
<1>1. HarborsOK
  <2>1. harbors = Told /\ Told \in [Nodes -> [Clusters -> Seq(Nodes)]]
    BY MessagingAssumption, Zenon DEF Init
  <2>2. ASSUME NEW n \in Nodes, NEW c \in Clusters
        PROVE  Told[n][c] \in Seq(HarborsOf(c))
    <3> DEFINE q == Told[n][c]
    <3>1. q \in Seq(Nodes) /\ Range(q) = HarborsOf(c) \intersect Sees[n]
      BY <2>1, MessagingAssumption
    <3> HIDE DEF q
    <3>2. Len(q) \in Nat /\ q = [i \in 1..Len(q) |-> q[i]]
      BY <3>1
    <3>3. \A i \in 1..Len(q) : q[i] \in Range(q)
      BY <3>1 DEF Range
    <3>4. q \in [1..Len(q) -> HarborsOf(c)]
      BY <3>1, <3>2, <3>3, Zenon
    <3> QED
      BY <3>2, <3>4, FunctionIsSeq, Zenon DEF q
  <2> QED
    BY <2>1, <2>2, Zenon DEF HarborsOK
<1>2. TasksOK
  BY DEF Init, TasksOK
<1> QED
  BY <1>1, <1>2, Zenon DEF Init, Inv, WireOK, AllServingOK

LEMMA NextInv == Inv /\ [Next]_vars => Inv'
<1> SUFFICES ASSUME Inv, [Next]_vars PROVE Inv'
  BY Zenon
<1> USE DEF Inv
<1>a. ASSUME UNCHANGED harbors PROVE HarborsOK'
  BY <1>a, Zenon DEF HarborsOK
<1>b. ASSUME wire' \subseteq wire PROVE WireOK'
  BY <1>b, Zenon DEF WireOK
<1>c. ASSUME UNCHANGED tasks PROVE TasksOK'
  BY <1>c, Zenon DEF TasksOK
<1>d. ASSUME serving' \subseteq serving PROVE AllServingOK'
  BY <1>d, Zenon DEF AllServingOK
<1>1. ASSUME NEW id \in Ids, SendMessage(id)
      PROVE  Inv'
  <2> DEFINE n == Msgs[id].from
             to == Msgs[id].to
             kind == IF Msgs[id].kind = "call" THEN "req" ELSE Msgs[id].kind
  <2>1. UNCHANGED <<harbors, serving>>
    BY <1>1, Zenon DEF SendMessage, routeVars
  <2>2. /\ n \in Nodes /\ to \in Nodes /\ kind \in Kinds /\ ~Answer(kind)
        /\ To(id, kind) = to
    BY MsgFact, Zenon DEF Kinds, Answer, To
  <2>3. \/ UNCHANGED <<wire, tasks>>
        \/ to = n /\ Go(n, id, kind, 0) /\ UNCHANGED wire
        \/ /\ Route(n, to) # NoNode /\ UNCHANGED tasks
           /\ Transmit(n, wire, {Packet(n, Route(n, to), id, kind, 1)})
    BY <1>1, Zenon DEF SendMessage
  <2> HIDE DEF n, to, kind
  <2>4. n = Msgs[id].from
    BY Zenon DEF n
  <2>5. CASE UNCHANGED <<wire, tasks>>
    BY <2>1, <2>5, <1>a, <1>b, <1>c, <1>d, Zenon
  <2>6. CASE to = n /\ Go(n, id, kind, 0) /\ UNCHANGED wire
    <3>1. OnWay(n, id, kind, 0) /\ Brought(n, id)
      BY <2>2, <2>4, <2>6 DEF OnWay, Brought
    <3>2. TasksOK'
      BY <2>2, <2>6, <3>1, GoFact, Zenon
    <3> QED
      BY <2>1, <2>6, <3>2, <1>a, <1>b, <1>d, Zenon
  <2>7. CASE /\ Route(n, to) # NoNode /\ UNCHANGED tasks
             /\ Transmit(n, wire, {Packet(n, Route(n, to), id, kind, 1)})
    <3>1. OnWay(Route(n, to), id, kind, 1)
      BY <2>2, <2>7, FirstHop, Zenon
    <3>2. PacketOK(Packet(n, Route(n, to), id, kind, 1))
      BY <2>2, <2>4, <3>1, Zenon DEF PacketOK, Packet, Brought
    <3>3. WireOK'
      BY <2>7, <3>2, TransmitFact, Zenon
    <3> QED
      BY <2>1, <2>7, <3>3, <1>a, <1>c, <1>d, Zenon
  <2> QED
    BY SMTT(20), <2>3, <2>5, <2>6, <2>7
<1>2. ASSUME NEW id \in Ids, Timeout(id)
      PROVE  Inv'
  BY <1>2, <1>a, <1>b, <1>c, <1>d, Zenon DEF Timeout, routeVars
<1>3. ASSUME NEW x \in wire, Refuse(x)
      PROVE  Inv'
  BY <1>3, <1>a, <1>b, <1>c, <1>d, Zenon DEF Refuse, routeVars
<1>4. ASSUME NEW x \in wire, Receive(x)
      PROVE  Inv'
  <2>1. PacketOK(x)
    BY Zenon DEF WireOK
  <2>2. Dispatch(x.at, x.via, x.id, x.kind) /\ wire' \subseteq wire /\ UNCHANGED <<harbors, tasks>>
    BY <1>4, Zenon DEF Receive, routeVars
  <2>3. AllServingOK'
    BY <2>1, <2>2, DispatchFact, Zenon DEF PacketOK, OnWay
  <2> QED
    BY <2>2, <2>3, <1>a, <1>b, <1>c, Zenon
<1>5. ASSUME NEW x \in wire, ReceiveRelay(x)
      PROVE  Inv'
  <2>1. PacketOK(x) /\ OnWay(x.at, x.id, x.kind, x.hops)
    BY Zenon DEF WireOK, PacketOK
  <2>2. x.at \in Nodes /\ x.id \in Ids /\ x.kind \in Kinds /\ x.hops \in Nat
    BY <2>1, Zenon DEF OnWay
  <2>3. To(x.id, x.kind) # x.at /\ UNCHANGED <<harbors, serving>>
    BY <1>5, Zenon DEF ReceiveRelay, routeVars
  <2>4. CASE Free(x.at)
    <3>1. Go(x.at, x.id, x.kind, x.hops) /\ wire' \subseteq wire
      BY <1>5, <2>4, Zenon DEF ReceiveRelay
    <3>2. TasksOK'
      BY <2>1, <2>2, <2>3, <3>1, GoFact, Zenon
    <3> QED
      BY <2>3, <3>1, <3>2, <1>a, <1>b, <1>d, Zenon
  <2>5. CASE ~Free(x.at)
    <3>1. /\ Transmit(x.at, wire \ {x}, Relayed(x.at, x.id, x.kind, x.hops))
          /\ UNCHANGED tasks
      BY <1>5, <2>5, Zenon DEF ReceiveRelay
    <3>2. \A y \in Relayed(x.at, x.id, x.kind, x.hops) : PacketOK(y)
      BY <2>1, <2>2, <2>3, RelayFact, Zenon
    <3>3. WireOK'
      BY <3>1, <3>2, TransmitFact, Zenon
    <3> QED
      BY <2>3, <3>1, <3>3, <1>a, <1>c, <1>d, Zenon
  <2> QED
    BY <2>4, <2>5, Zenon
<1>6. ASSUME NEW n \in Nodes, Work(n)
      PROVE  Inv'
  <2> DEFINE t == Head(tasks[n])
  <2>1. tasks[n] # <<>> /\ tasks' = [tasks EXCEPT ![n] = Tail(@)] /\ UNCHANGED harbors
    BY <1>6, Zenon DEF Work, routeVars
  <2>2. TasksOK' /\ t \in TasksOf(n)
    BY Zenon, <2>1, TakeFact
  <2>3. IF To(t.id, t.kind) = n
        THEN Dispatch(n, n, t.id, t.kind) /\ UNCHANGED wire
        ELSE Transmit(n, wire, Relayed(n, t.id, t.kind, t.hops)) /\ UNCHANGED serving
    BY <1>6, Zenon DEF Work
  <2> HIDE DEF t
  <2>4. /\ t.id \in Ids /\ t.kind \in Kinds /\ t.hops \in Nat
        /\ OnWay(n, t.id, t.kind, t.hops)
        /\ ~Answer(t.kind) /\ n = To(t.id, t.kind) => Brought(n, t.id)
    BY <2>2, Zenon DEF TasksOf, TaskOK
  <2>5. CASE To(t.id, t.kind) = n
    <3>1. AllServingOK'
      BY Zenon, <2>3, <2>4, <2>5, DispatchFact
    <3> QED
      BY <2>1, <2>2, <2>3, <2>5, <3>1, <1>a, <1>b, Zenon
  <2>6. CASE To(t.id, t.kind) # n
    <3>1. \A y \in Relayed(n, t.id, t.kind, t.hops) : PacketOK(y)
      BY <2>4, <2>6, RelayFact, Zenon
    <3>2. WireOK'
      BY <2>3, <2>6, <3>1, TransmitFact, Zenon
    <3> QED
      BY <2>1, <2>2, <2>3, <2>6, <3>2, <1>a, <1>d, Zenon
  <2> QED
    BY <2>5, <2>6, Zenon
<1>7. ASSUME NEW s \in serving, Reply(s)
      PROVE  Inv'
  <2>1. UNCHANGED harbors /\ serving' \subseteq serving
    BY <1>7, Zenon DEF Reply, routeVars
  <2>2. /\ s.at \in Nodes /\ s.id \in Ids /\ s.kind \in Kinds /\ Answer(s.kind)
        /\ To(s.id, s.kind) = Msgs[s.id].from /\ Brought(s.chan, s.id)
    BY Zenon DEF AllServingOK, ServingOK, Kinds, Answer, To
  <2>3. OnWay(s.chan, s.id, s.kind, 0) /\ OnWay(s.chan, s.id, s.kind, 1)
    BY <2>2 DEF OnWay, Brought
  <2>4. CASE s.chan # s.at
    <3>1. Transmit(s.at, wire, {Packet(s.at, s.chan, s.id, s.kind, 1)}) /\ UNCHANGED tasks
      BY SMTT(20), <1>7, <2>4 DEF Reply
    <3>2. PacketOK(Packet(s.at, s.chan, s.id, s.kind, 1))
      BY <2>2, <2>3, Zenon DEF PacketOK, Packet
    <3>3. WireOK'
      BY <3>1, <3>2, TransmitFact, Zenon
    <3> QED
      BY <2>1, <3>1, <3>3, <1>a, <1>c, <1>d, Zenon
  <2>5. CASE s.chan = s.at
    <3>1. UNCHANGED wire /\ (Go(s.at, s.id, s.kind, 0) \/ UNCHANGED tasks)
      BY SMTT(20), <1>7, <2>5 DEF Reply
    <3>2. TasksOK'
      BY <2>2, <2>3, <2>5, <3>1, GoFact, <1>c, Zenon
    <3> QED
      BY SMTT(20), <2>1, <3>1, <3>2, <1>a, <1>b, <1>d
  <2> QED
    BY <2>4, <2>5, Zenon
<1>8. ASSUME NEW n \in Nodes, Start(n) \/ Stop(n) \/ Die(n)
      PROVE  Inv'
  <2>1. UNCHANGED <<harbors, tasks, serving>> /\ wire' \subseteq wire
    BY <1>8, Zenon DEF Start, Stop, Die
  <2> QED
    BY SMTT(20), <2>1, <1>a, <1>b, <1>c, <1>d
<1>9. ASSUME NEW n \in Nodes, NEW m \in Nodes, Forget(n, m)
      PROVE  Inv'
  <2> DEFINE c == Addr[m].cluster
  <2>1. /\ harbors' = [harbors EXCEPT ![n][c] = Without(harbors[n][c], m)]
        /\ wire' \subseteq wire /\ UNCHANGED <<tasks, serving>>
    BY <1>9, Zenon DEF Forget
  <2>2. c \in Clusters
    BY AddrFact, Zenon
  <2> HIDE DEF c
  <2>3. HarborsOK'
    BY <2>1, <2>2, WithoutFact, HarborsFact, Zenon DEF HarborsOK
  <2> QED
    BY <2>1, <2>3, <1>b, <1>c, <1>d, Zenon
<1>10. ASSUME NEW n \in Nodes, NEW m \in Nodes, SetAvailable(n, m)
       PROVE  Inv'
  <2> DEFINE c == Addr[m].cluster
             hs == IF m \in Range(harbors[n][c]) THEN Without(harbors[n][c], m)
                   ELSE Append(harbors[n][c], m)
  <2>1. harbors' = [harbors EXCEPT ![n][c] = hs] /\ UNCHANGED <<wire, tasks, serving>>
    BY <1>10, Zenon DEF SetAvailable
  <2>2. c \in Clusters /\ m \in HarborsOf(c)
    BY <1>10, AddrFact, Zenon DEF SetAvailable, HarborsOf
  <2> HIDE DEF c
  <2>3. harbors[n][c] \in Seq(HarborsOf(c))
    BY <2>2, Zenon DEF HarborsOK
  <2>4. hs \in Seq(HarborsOf(c))
    BY <2>2, <2>3, WithoutFact
  <2> HIDE DEF hs
  <2>5. HarborsOK'
    BY Zenon, <2>1, <2>2, <2>4, HarborsFact
  <2> QED
    BY <2>1, <2>5, <1>b, <1>c, <1>d, Zenon
<1>11. ASSUME NEW x \in wire, Lose(x)
       PROVE  Inv'
  BY <1>11, <1>a, <1>b, <1>c, <1>d, Zenon DEF Lose, routeVars
<1>12. CASE UNCHANGED vars
  BY <1>12, <1>a, <1>b, <1>c, <1>d, Zenon DEF vars
<1> QED
  BY <1>1, <1>2, <1>3, <1>4, <1>5, <1>6, <1>7, <1>8, <1>9, <1>10, <1>11, <1>12
     DEF Next, ReadSockets, Workers, Methods

\* A packet that is at its destination has made at most three hops, and before that
\* at most two.
LEMMA InvHops == Inv => HopsBounded
<1> SUFFICES ASSUME Inv, NEW x \in wire PROVE x.hops <= 3
  BY Zenon DEF HopsBounded
<1>1. OnWay(x.at, x.id, x.kind, x.hops)
  BY Zenon DEF Inv, WireOK, PacketOK
<1> QED
  BY <1>1 DEF OnWay

\* However the caches of the nodes differ and change, getNodeByLogicAddr and
\* onRelayMessage never send a message over more than three hops.
THEOREM HopsAreBounded == Spec => []HopsBounded
<1>1. Spec => []Inv
  BY InitInv, NextInv, PTL DEF Spec
<1> QED
  BY <1>1, InvHops, PTL

-----------------------------------------------------------------------------
(* Every message is in at most one place *)

\* A message that is on its way: its sender has no answer, a request is not handled
\* yet, a result says that it was, and only calls have requests and answers.
Sound(i, kind) ==
    /\ status[i] \notin {"new", "ok", "error"}
    /\ ~Answer(kind) => handled[i] = <<>>
    /\ kind = "ok" => handled[i] # <<>>
    /\ kind = "req" \/ Answer(kind) <=> Msgs[i].kind = "call"

\* So are all packets w, tasks ts and requests to be replied to sv.
SoundIn(w, ts, sv) ==
    /\ \A x \in w : x.id \in Ids /\ Sound(x.id, x.kind)
    /\ \A n \in Nodes : \A j \in DOMAIN ts[n] : ts[n][j].id \in Ids /\ Sound(ts[n][j].id, ts[n][j].kind)
    /\ \A s \in sv : s.id \in Ids /\ Sound(s.id, s.kind)

\* Message i is not among them.
Absent(i, w, ts, sv) ==
    /\ \A x \in w : x.id # i
    /\ \A n \in Nodes : \A j \in DOMAIN ts[n] : ts[n][j].id # i
    /\ \A s \in sv : s.id # i

\* Every message is in at most one place.
OnePlace(w, ts, sv) ==
    /\ \A x, y \in w : x.id = y.id => x = y
    /\ \A s, r \in sv : s.id = r.id => s = r
    /\ \A n, m \in Nodes : \A j \in DOMAIN ts[n], k \in DOMAIN ts[m] :
          ts[n][j].id = ts[m][k].id => n = m /\ j = k
    /\ \A x \in w : \A n \in Nodes : \A j \in DOMAIN ts[n] : x.id # ts[n][j].id
    /\ \A x \in w, s \in sv : x.id # s.id
    /\ \A s \in sv : \A n \in Nodes : \A j \in DOMAIN ts[n] : s.id # ts[n][j].id

\* Both hold of what is there.
Placed == SoundIn(wire, tasks, serving) /\ OnePlace(wire, tasks, serving)

\* A message that was not sent was not handled, a call that succeeded was.
Kept ==
    \A i \in Ids : /\ status[i] = "new" => handled[i] = <<>>
                   /\ status[i] = "ok" => handled[i] # <<>>

\* Every message has an outcome and a list of the nodes that handled it.
Recorded == DOMAIN status = Ids /\ DOMAIN handled = Ids

\* The inductive invariant, with Inv.
OnceInv == Recorded /\ HandledOnce /\ Kept /\ Placed

\* What is left when message i has been taken out of its place.
Rest(i, w, ts, sv) == SoundIn(w, ts, sv) /\ OnePlace(w, ts, sv) /\ Absent(i, w, ts, sv)

\* A step that concerns message i.
Same(i) == \A j \in Ids \ {i} : status'[j] = status[j] /\ handled'[j] = handled[j]

\* A message that was not sent is nowhere.
LEMMA RestNew ==
    ASSUME Placed, NEW i \in Ids, status[i] = "new"
    PROVE  Rest(i, wire, tasks, serving)
BY Zenon DEF Placed, Rest, Absent, SoundIn, Sound

\* A packet is read.
LEMMA RestWire ==
    ASSUME Placed, NEW x \in wire
    PROVE  x.id \in Ids /\ Sound(x.id, x.kind) /\ Rest(x.id, wire \ {x}, tasks, serving)
<1>1. SoundIn(wire \ {x}, tasks, serving) /\ x.id \in Ids /\ Sound(x.id, x.kind)
  BY Zenon DEF Placed, SoundIn
<1>2. OnePlace(wire \ {x}, tasks, serving)
  BY Zenon DEF Placed, OnePlace
<1>3. Absent(x.id, wire \ {x}, tasks, serving)
  BY Zenon DEF Placed, OnePlace, Absent
<1> QED
  BY <1>1, <1>2, <1>3, Zenon DEF Rest

\* A request is replied to.
LEMMA RestServing ==
    ASSUME Placed, NEW s \in serving
    PROVE  s.id \in Ids /\ Sound(s.id, s.kind) /\ Rest(s.id, wire, tasks, serving \ {s})
<1>1. SoundIn(wire, tasks, serving \ {s}) /\ s.id \in Ids /\ Sound(s.id, s.kind)
  BY Zenon DEF Placed, SoundIn
<1>2. OnePlace(wire, tasks, serving \ {s})
  BY Zenon DEF Placed, OnePlace
<1>3. Absent(s.id, wire, tasks, serving \ {s})
  BY Zenon DEF Placed, OnePlace, Absent
<1> QED
  BY <1>1, <1>2, <1>3, Zenon DEF Rest

\* A worker takes a task.
LEMMA RestTask ==
    ASSUME TasksOK, Placed, NEW n \in Nodes, tasks[n] # <<>>,
           tasks' = [tasks EXCEPT ![n] = Tail(@)], NEW t, t = Head(tasks[n])
    PROVE  t.id \in Ids /\ Sound(t.id, t.kind) /\ Rest(t.id, wire, tasks', serving)
<1>0. \A m, l \in Nodes : \A j \in DOMAIN tasks[m], k \in DOMAIN tasks[l] :
         tasks[m][j].id = tasks[l][k].id => m = l /\ j = k
  BY Zenon DEF Placed, OnePlace
<1>1. tasks[n] \in Seq(TasksOf(n))
  BY Zenon DEF TasksOK
<1> DEFINE q == tasks[n]
<1>2. /\ 1 \in DOMAIN q /\ t = q[1]
      /\ DOMAIN Tail(q) \subseteq Nat
      /\ \A j \in DOMAIN Tail(q) : j + 1 \in DOMAIN q /\ Tail(q)[j] = q[j + 1] /\ j + 1 # 1
      /\ \A j, k \in DOMAIN Tail(q) : j + 1 = k + 1 => j = k
  <2> HIDE DEF q
  <2>1. q \in Seq(TasksOf(n)) /\ q # <<>> /\ t = Head(q)
    BY <1>1, Zenon DEF q
  <2>2. Len(q) \in Nat \ {0} /\ DOMAIN q = 1..Len(q) /\ DOMAIN Tail(q) = 1..(Len(q) - 1)
        /\ \A j \in 1..(Len(q) - 1) : Tail(q)[j] = q[j + 1]
        /\ Head(q) = q[1]
    BY <2>1
  <2> QED
    BY <2>1, <2>2
<1>3. \A m \in Nodes : tasks'[m] = IF m = n THEN Tail(q) ELSE tasks[m]
  BY SMTT(30) DEF TasksOK
\* Where the tasks of the next state are in this one.
<1> DEFINE was == [m \in Nodes |-> [j \in DOMAIN tasks'[m] |-> IF m = n THEN j + 1 ELSE j]]
<1>4. \A m \in Nodes : \A j \in DOMAIN tasks'[m] :
         /\ was[m][j] \in DOMAIN tasks[m] /\ tasks'[m][j] = tasks[m][was[m][j]]
         /\ m = n => was[m][j] # 1
         /\ \A k \in DOMAIN tasks'[m] : was[m][j] = was[m][k] => j = k
  <2> SUFFICES ASSUME NEW m \in Nodes, NEW j \in DOMAIN tasks'[m]
               PROVE  /\ was[m][j] \in DOMAIN tasks[m] /\ tasks'[m][j] = tasks[m][was[m][j]]
                      /\ m = n => was[m][j] # 1
                      /\ \A k \in DOMAIN tasks'[m] : was[m][j] = was[m][k] => j = k
    BY Zenon
  <2>1. CASE m = n
    BY <1>2, <1>3, <2>1, Zenon
  <2>2. CASE m # n
    BY <1>3, <2>2, Zenon
  <2> QED
    BY <2>1, <2>2, SMTT(30)
<1> HIDE DEF q, was
<1>5. t.id \in Ids /\ Sound(t.id, t.kind) /\ t = tasks[n][1] /\ 1 \in DOMAIN tasks[n]
  BY <1>2, Zenon DEF Placed, SoundIn, q
<1>6. SoundIn(wire, tasks', serving)
  BY <1>4 DEF Placed, SoundIn
<1>7. OnePlace(wire, tasks', serving)
  <2>1. ASSUME NEW m \in Nodes, NEW l \in Nodes, NEW j \in DOMAIN tasks'[m], NEW k \in DOMAIN tasks'[l],
               tasks'[m][j].id = tasks'[l][k].id
        PROVE  m = l /\ j = k
    <3> DEFINE a == was[m][j]
               b == was[l][k]
    <3>1. /\ a \in DOMAIN tasks[m] /\ tasks'[m][j] = tasks[m][a]
          /\ b \in DOMAIN tasks[l] /\ tasks'[l][k] = tasks[l][b]
      BY <1>4
    <3>2. tasks[m][a].id = tasks[l][b].id
      BY <2>1, <3>1, SMTT(30)
    <3> HIDE DEF a, b
    <3>3. m = l /\ a = b
      BY <1>0, <3>1, <3>2
    <3> QED
      BY <1>4, <3>3 DEF a, b
  <2>2. \A x \in wire : \A m \in Nodes : \A j \in DOMAIN tasks'[m] : x.id # tasks'[m][j].id
    BY <1>4 DEF Placed, OnePlace
  <2>3. \A s \in serving : \A m \in Nodes : \A j \in DOMAIN tasks'[m] : s.id # tasks'[m][j].id
    BY <1>4 DEF Placed, OnePlace
  <2> QED
    BY <2>1, <2>2, <2>3, Zenon DEF Placed, OnePlace
<1>8. Absent(t.id, wire, tasks', serving)
  <2>1. ASSUME NEW m \in Nodes, NEW j \in DOMAIN tasks'[m]
        PROVE  tasks'[m][j].id # t.id
    <3> DEFINE a == was[m][j]
    <3>1. /\ a \in DOMAIN tasks[m] /\ tasks'[m][j] = tasks[m][a]
          /\ m = n => a # 1
      BY <1>4
    <3> HIDE DEF a
    <3>2. tasks[m][a].id # tasks[n][1].id
      BY <1>0, <1>5, <3>1
    <3> QED
      BY <1>5, <3>1, <3>2, Zenon
  <2> QED
    BY <1>5, <2>1 DEF Placed, OnePlace, Absent
<1> QED
  BY <1>5, <1>6, <1>7, <1>8, Zenon DEF Rest

\* The messages other than i stay sound.
LEMMA SoundSame ==
    ASSUME NEW i, Same(i), NEW j \in Ids, j # i, NEW kind, Sound(j, kind)
    PROVE  Sound(j, kind)'
<1>1. status'[j] = status[j] /\ handled'[j] = handled[j]
  BY Zenon DEF Same
<1> QED
  BY <1>1, Zenon DEF Sound

\* Message i is dropped, or a packet is sent, at most one.
LEMMA PutWire ==
    ASSUME NEW i \in Ids, NEW w, NEW ts, NEW sv, Rest(i, w, ts, sv), Same(i),
           \A x \in wire' : x \in w \/ (x.id = i /\ Sound(i, x.kind)'),
           \A x, y \in wire' : x \in w \/ y \in w \/ x = y,
           tasks' = ts, serving' = sv
    PROVE  Placed'
<1>1. \A x \in wire' : x.id \in Ids /\ Sound(x.id, x.kind)'
  BY SoundSame, SMTT(30) DEF Rest, SoundIn, Absent
<1>2. \A n \in Nodes : \A j \in DOMAIN ts[n] : ts[n][j].id \in Ids /\ Sound(ts[n][j].id, ts[n][j].kind)'
  BY SoundSame, SMTT(30) DEF Rest, SoundIn, Absent
<1>3. \A s \in sv : s.id \in Ids /\ Sound(s.id, s.kind)'
  BY SoundSame, SMTT(30) DEF Rest, SoundIn, Absent
<1>4. SoundIn(wire, tasks, serving)'
  BY <1>1, <1>2, <1>3, SMTT(30) DEF SoundIn
<1>5. OnePlace(wire', ts, sv)
  BY DEF Rest, OnePlace, Absent
<1> QED
  BY <1>4, <1>5, SMTT(30) DEF Placed

\* The tasks are those of ts and t, the last of node n.
Queued(n, last, t, ts) ==
    \A m \in Nodes : \A j \in DOMAIN tasks'[m] :
       \/ j \in DOMAIN ts[m] /\ tasks'[m][j] = ts[m][j]
       \/ m = n /\ j = last /\ tasks'[m][j] = t

\* Message i becomes a task.
LEMMA PutTaskAt ==
    ASSUME NEW i \in Ids, NEW w, NEW ts, NEW sv, Rest(i, w, ts, sv), Same(i),
           NEW n, NEW last, NEW t, t.id = i, Sound(i, t.kind)',
           Queued(n, last, t, ts), wire' \subseteq w, serving' = sv
    PROVE  Placed'
<1>1. \A m \in Nodes : \A j \in DOMAIN tasks'[m] : \A u :
         u = tasks'[m][j] => u.id \in Ids /\ Sound(u.id, u.kind)'
  BY SoundSame, SMTT(30) DEF Queued, Rest, SoundIn, Absent
<1>2. \A x \in wire' : x.id \in Ids /\ Sound(x.id, x.kind)'
  BY SoundSame, SMTT(30) DEF Rest, SoundIn, Absent
<1>3. \A s \in sv : s.id \in Ids /\ Sound(s.id, s.kind)'
  BY SoundSame, SMTT(30) DEF Rest, SoundIn, Absent
<1>4. SoundIn(wire, tasks, serving)'
  BY <1>1, <1>2, <1>3 DEF SoundIn
<1>5. ASSUME NEW m \in Nodes, NEW l \in Nodes, NEW j \in DOMAIN tasks'[m], NEW k \in DOMAIN tasks'[l],
             tasks'[m][j].id = tasks'[l][k].id
      PROVE  m = l /\ j = k
  <2>1. /\ \A x, y \in Nodes : \A p \in DOMAIN ts[x], q \in DOMAIN ts[y] :
              ts[x][p].id = ts[y][q].id => x = y /\ p = q
        /\ \A x \in Nodes : \A p \in DOMAIN ts[x] : ts[x][p].id # t.id
    BY SMTT(30) DEF Rest, OnePlace, Absent
  <2> QED
    BY <1>5, <2>1, SMTT(30) DEF Queued
<1>6. \A x \in wire' : \A m \in Nodes : \A j \in DOMAIN tasks'[m] : x.id # tasks'[m][j].id
  BY SMTT(30) DEF Queued, Rest, Absent, OnePlace
<1>7. \A s \in sv : \A m \in Nodes : \A j \in DOMAIN tasks'[m] : s.id # tasks'[m][j].id
  BY DEF Queued, Rest, Absent, OnePlace
<1>8. /\ \A x, y \in wire' : x.id = y.id => x = y
      /\ \A s, r \in sv : s.id = r.id => s = r
      /\ \A x \in wire', s \in sv : x.id # s.id
  BY Zenon DEF Rest, OnePlace
<1>9. OnePlace(wire', tasks', sv)
  BY <1>5, <1>6, <1>7, <1>8, Zenon DEF OnePlace
<1> QED
  BY <1>4, <1>9, SMTT(30) DEF Placed

\* gopool.Go makes message i a task of n.
LEMMA PutTask ==
    ASSUME NEW i \in Ids, NEW w, NEW ts, NEW sv, Rest(i, w, ts, sv), Same(i),
           NEW n \in Nodes, NEW S, ts \in [Nodes -> Seq(S)],
           NEW t, t.id = i, Sound(i, t.kind)',
           tasks' = [ts EXCEPT ![n] = Append(@, t)], wire' \subseteq w, serving' = sv
    PROVE  Placed'
<1> DEFINE q == ts[n]
<1>0. PICK last : last = Len(q) + 1
  BY Zenon
<1>1. q \in Seq(S) /\ tasks'[n] = Append(q, t) /\ \A m \in Nodes \ {n} : tasks'[m] = ts[m]
  BY Zenon
<1>2. \A j \in DOMAIN Append(q, t) : \/ j \in DOMAIN q /\ Append(q, t)[j] = q[j]
                                     \/ j = last /\ Append(q, t)[j] = t
  <2> HIDE DEF q
  <2> QED
    BY <1>0, <1>1
<1>3. Queued(n, last, t, ts)
  BY <1>1, <1>2, Zenon DEF Queued
<1> QED
  BY <1>3, PutTaskAt, Zenon

\* Message i becomes a request to be replied to.
LEMMA PutServing ==
    ASSUME NEW i \in Ids, NEW w, NEW ts, NEW sv, Rest(i, w, ts, sv), Same(i),
           NEW s, s.id = i, Sound(i, s.kind)', serving' = sv \union {s}, wire' \subseteq w, tasks' = ts
    PROVE  Placed'
<1>1. \A x \in wire' : x.id \in Ids /\ Sound(x.id, x.kind)'
  BY SoundSame, SMTT(30) DEF Rest, SoundIn, Absent
<1>2. \A n \in Nodes : \A j \in DOMAIN ts[n] : ts[n][j].id \in Ids /\ Sound(ts[n][j].id, ts[n][j].kind)'
  BY SoundSame DEF Rest, SoundIn, Absent
<1>3. \A r \in sv : r.id \in Ids /\ Sound(r.id, r.kind)'
  BY SoundSame DEF Rest, SoundIn, Absent
<1>4. SoundIn(wire, tasks, serving)'
  BY <1>1, <1>2, <1>3, SMTT(30) DEF SoundIn
<1>5. OnePlace(wire', ts, serving')
  BY DEF Rest, OnePlace, Absent
<1> QED
  BY <1>4, <1>5, SMTT(30) DEF Placed

-----------------------------------------------------------------------------
(* At most once *)

\* onMessage at the destination of message i, which is nowhere else.
LEMMA DispatchOnce ==
    ASSUME Recorded, HandledOnce, Kept, NEW i \in Ids, NEW kind \in Kinds, NEW n \in Nodes, NEW chan,
           Sound(i, kind), To(i, kind) = n, NEW w, wire' \subseteq w,
           Rest(i, w, tasks', serving), Dispatch(n, chan, i, kind)
    PROVE  HandledOnce' /\ Kept' /\ Placed'
<1>1. DOMAIN status = Ids /\ DOMAIN handled = Ids
  BY Zenon DEF Recorded
<1>2. CASE Answer(kind)
  <2>1. UNCHANGED <<handled, serving>> /\ status' = [status EXCEPT ![i] = IF @ = "waiting" THEN kind ELSE @]
    BY <1>2, Zenon DEF Dispatch
  <2>2. Same(i) /\ (status'[i] = status[i] \/ status'[i] = kind)
    BY <1>1, <2>1, Zenon DEF Same
  <2>3. Placed'
    BY <2>1, <2>2, PutWire
  <2>4. kind \in {"ok", "error"}
    BY <1>2, SMTT(30) DEF Answer
  <2>5. Kept'
    BY <2>1, <2>2, <2>4, SMTT(30) DEF Kept, Same, Sound
  <2>6. HandledOnce'
    BY <2>1, Zenon DEF HandledOnce
  <2> QED
    BY <2>3, <2>5, <2>6, Zenon
<1>3. CASE ~Answer(kind)
  <2>0. PICK k \in {"ok", "error"} : k = IF Served(n, i, kind) THEN "ok" ELSE "error"
    BY Zenon
  <2> DEFINE s == [at |-> n, chan |-> chan, id |-> i, kind |-> k]
  <2>1. /\ handled' = IF Served(n, i, kind) THEN [handled EXCEPT ![i] = Append(@, n)] ELSE handled
        /\ UNCHANGED status
        /\ serving' = IF kind = "req" THEN serving \union {s} ELSE serving
    BY <1>3, <2>0, Zenon DEF Dispatch, Responds
  <2>2. s.id = i /\ s.kind = k /\ (k = "ok" <=> Served(n, i, kind))
    BY <2>0, SMTT(30)
  <2>3. handled[i] = <<>> /\ Append(<<>>, n) = <<n>> /\ <<n>> # <<>> /\ Msgs[i].to = n
    BY <1>3, SMTT(30) DEF Sound, To
  <2>4. /\ \A j \in Ids \ {i} : handled'[j] = handled[j]
        /\ handled'[i] = IF Served(n, i, kind) THEN <<n>> ELSE <<>>
    BY <1>1, <2>1, <2>3
  <2> HIDE DEF s
  <2>5. Same(i)
    BY <2>1, <2>4, SMTT(30) DEF Same
  <2>6. HandledOnce'
    <3>1. Len(<<n>>) <= 1 /\ Range(<<n>>) \subseteq {n} /\ Len(<<>>) <= 1 /\ Range(<<>>) \subseteq {n}
      BY SMTT(30) DEF Range
    <3> QED
      BY <2>3, <2>4, <3>1, Zenon DEF HandledOnce
  <2>7. Kept'
    BY <2>1, <2>4, Zenon DEF Kept, Sound
  <2>8. CASE kind = "req"
    <3>1. Sound(i, k)'
      BY <2>1, <2>2, <2>3, <2>4, <2>8, Zenon DEF Sound, Answer
    <3> QED
      BY <2>1, <2>2, <2>5, <2>6, <2>7, <2>8, <3>1, PutServing, SMTT(30)
  <2>9. CASE kind # "req"
    <3>1. Placed'
      BY <2>1, <2>5, <2>9, PutWire
    <3> QED
      BY <2>6, <2>7, <3>1
  <2> QED
    BY <2>8, <2>9
<1> QED
  BY <1>2, <1>3, Zenon

\* onRelayMessage for message i, which is nowhere else.
LEMMA RelayOnce ==
    ASSUME NEW i \in Ids, NEW kind \in Kinds, NEW n, NEW h, NEW w, Sound(i, kind),
           Rest(i, w, tasks', serving), Transmit(n, w, Relayed(n, i, kind, h)),
           UNCHANGED <<serving, status, handled>>
    PROVE  Placed'
<1> DEFINE R == Relayed(n, i, kind, h)
<1>1. Same(i)
  BY Zenon DEF Same
<1>2. \A x \in wire' : x \in w \/ x \in R
  BY Zenon DEF Transmit
<1>3. \A x, y \in R : x = y
  BY Zenon DEF Relayed
<1>4. \A x \in R : x.id = i /\ (x.kind = kind \/ (kind = "req" /\ x.kind = "error"))
  BY DEF Relayed, Packet, WantsAnswer
<1>5. \A x \in R : Sound(i, x.kind)'
  <2>1. Sound(i, kind)'
    BY SMTT(30) DEF Sound
  <2>2. kind = "req" => Sound(i, "error")'
    BY Zenon DEF Sound, Answer
  <2> HIDE DEF R
  <2> QED
    BY <1>4, <2>1, <2>2, SMTT(30)
<1> HIDE DEF R
<1> QED
  BY <1>1, <1>2, <1>3, <1>4, <1>5, PutWire, SMTT(30)

\* The tasks are sequences.
LEMMA TasksFact ==
    ASSUME TasksOK
    PROVE  tasks \in [Nodes -> Seq([id : Ids, kind : Kinds, hops : Nat])]
<1> DEFINE T == [id : Ids, kind : Kinds, hops : Nat]
<1>1. ASSUME NEW n \in Nodes
      PROVE  tasks[n] \in Seq(T)
  <2>1. TasksOf(n) \subseteq T /\ tasks[n] \in Seq(TasksOf(n))
    BY Zenon DEF TasksOf, TasksOK
  <2> HIDE DEF T
  <2> QED
    BY <2>1
<1> HIDE DEF T
<1> QED
  BY <1>1, Zenon DEF TasksOK, T

\* A step that neither handles nor answers a message.
LEMMA UntouchedFact ==
    ASSUME HandledOnce, Kept, UNCHANGED <<status, handled>>
    PROVE  HandledOnce' /\ Kept'
BY Zenon DEF HandledOnce, Kept

\* A step that only drops packets.
LEMMA DropFact ==
    ASSUME Placed, UNCHANGED <<status, handled, tasks, serving>>, wire' \subseteq wire
    PROVE  Placed'
<1>1. ASSUME NEW i, NEW kind, Sound(i, kind)
      PROVE  Sound(i, kind)'
  BY <1>1, SMTT(30) DEF Sound
<1>2. SoundIn(wire, tasks, serving)'
  BY <1>1, Zenon DEF Placed, SoundIn
<1>3. OnePlace(wire', tasks, serving)
  BY Zenon DEF Placed, OnePlace
<1> QED
  BY <1>2, <1>3 DEF Placed

\* Every step keeps each message in one place.
LEMMA OnceStep ==
    ASSUME Inv, OnceInv, [Next]_vars
    PROVE  HandledOnce' /\ Kept' /\ Placed'
<1> Recorded /\ HandledOnce /\ Kept /\ Placed
  BY Zenon DEF OnceInv
<1>k. ASSUME UNCHANGED <<status, handled>>
      PROVE  HandledOnce' /\ Kept'
  BY <1>k, UntouchedFact
<1>d. ASSUME UNCHANGED <<status, handled, tasks, serving>>, wire' \subseteq wire
      PROVE  HandledOnce' /\ Kept' /\ Placed'
  BY <1>d, UntouchedFact, DropFact
<1>s. DOMAIN status = Ids /\ DOMAIN handled = Ids
  BY Zenon DEF Recorded
<1>t. PICK T : tasks \in [Nodes -> Seq(T)]
  BY TasksFact, Zenon DEF Inv
<1>1. ASSUME NEW id \in Ids, SendMessage(id)
      PROVE  HandledOnce' /\ Kept' /\ Placed'
  <2> DEFINE n == Msgs[id].from
             to == Msgs[id].to
             kind == IF Msgs[id].kind = "call" THEN "req" ELSE Msgs[id].kind
             p == Packet(n, Route(n, to), id, kind, 1)
             t == [id |-> id, kind |-> kind, hops |-> 0]
             accepted == IF kind = "req" THEN "waiting" ELSE "sent"
  <2>1. UNCHANGED <<serving, handled>> /\ status[id] = "new"
    BY <1>1, Zenon DEF SendMessage
  <2>2. /\ n \in Nodes /\ ~Answer(kind) /\ (kind = "req" <=> Msgs[id].kind = "call")
        /\ p.id = id /\ p.kind = kind /\ t.id = id /\ t.kind = kind
        /\ accepted \in {"waiting", "sent"}
    BY MsgFact, Zenon DEF Answer, Packet
  <2>3. \E r \in Outcomes \ {"new", "ok", "error"} : status' = [status EXCEPT ![id] = r]
    BY <1>1, Zenon DEF SendMessage, Refused, Returns, Outcomes
  <2>4. \/ UNCHANGED <<wire, tasks>>
        \/ tasks' = [tasks EXCEPT ![n] = Append(@, t)] /\ UNCHANGED wire
        \/ Transmit(n, wire, {p}) /\ UNCHANGED tasks
    BY <1>1, Zenon DEF SendMessage, Go
  <2> HIDE DEF n, kind, p, t
  <2>5. Rest(id, wire, tasks, serving)
    BY <2>1, RestNew
  <2>6. Same(id) /\ status'[id] \notin {"new", "ok", "error"}
    BY <1>s, <2>1, <2>3 DEF Same
  <2>7. handled[id] = <<>>
    BY <2>1, SMTT(30) DEF Kept
  <2>8. Sound(id, kind)'
    BY <2>1, <2>2, <2>6, <2>7, SMTT(30) DEF Sound, Answer
  <2>9. HandledOnce' /\ Kept'
    <3>1. HandledOnce'
      BY <2>1 DEF HandledOnce
    <3>2. Kept'
      BY <2>1, <2>6, <2>7 DEF Kept, Same
    <3> QED
      BY <3>1, <3>2
  <2>10. Placed'
    <3>1. CASE UNCHANGED <<wire, tasks>>
      BY <2>1, <2>5, <2>6, <3>1, PutWire, SMTT(30)
    <3>2. CASE tasks' = [tasks EXCEPT ![n] = Append(@, t)] /\ UNCHANGED wire
      <4>1. PICK u : u = t
        OBVIOUS
      <4>2. u.id = id /\ Sound(id, u.kind)'
        BY <2>2, <2>8, <4>1, SMTT(30)
      <4> QED
        BY <1>t, <2>1, <2>2, <2>5, <2>6, <3>2, <4>1, <4>2, PutTask, Zenon
    <3>3. CASE Transmit(n, wire, {p}) /\ UNCHANGED tasks
      <4>1. \A x \in wire' : x \in wire \/ x = p
        BY <3>3, Zenon DEF Transmit
      <4> QED
        BY <2>1, <2>2, <2>5, <2>6, <2>8, <3>3, <4>1, PutWire, Zenon
    <3> QED
      BY <2>4, <3>1, <3>2, <3>3, Zenon
  <2> QED
    BY <2>9, <2>10
<1>2. ASSUME NEW id \in Ids, Timeout(id)
      PROVE  HandledOnce' /\ Kept' /\ Placed'
  <2>1. /\ UNCHANGED <<wire, tasks, serving, handled>> /\ status[id] = "waiting"
        /\ status' = [status EXCEPT ![id] = "timeout"]
    BY <1>2, Zenon DEF Timeout, Returns
  <2>2. \A j \in Ids : status'[j] = status[j] \/ (j = id /\ status'[j] = "timeout")
    BY <1>s, <2>1
  <2>3. ASSUME NEW j \in Ids, NEW kind, Sound(j, kind)
        PROVE  Sound(j, kind)'
    BY <2>1, <2>2, <2>3, SMTT(30) DEF Sound
  <2>4. SoundIn(wire, tasks, serving)'
    BY <2>1, <2>3 DEF Placed, SoundIn
  <2>5. OnePlace(wire, tasks, serving)'
    BY <2>1, SMTT(30) DEF Placed
  <2>6. HandledOnce' /\ Kept'
    BY <2>1, <2>2, Zenon DEF HandledOnce, Kept
  <2> QED
    BY <2>4, <2>5, <2>6 DEF Placed
<1>4. ASSUME NEW x \in wire, Receive(x)
      PROVE  HandledOnce' /\ Kept' /\ Placed'
  <2>1. /\ x.id \in Ids /\ Sound(x.id, x.kind)
        /\ Rest(x.id, wire \ {x}, tasks, serving)
    BY RestWire, Zenon
  <2>2. x.at \in Nodes /\ x.kind \in Kinds
    BY Zenon DEF Inv, WireOK, PacketOK, OnWay
  <2>3. /\ Dispatch(x.at, x.via, x.id, x.kind) /\ wire' = wire \ {x} /\ tasks' = tasks
        /\ To(x.id, x.kind) = x.at
    BY <1>4, Zenon DEF Receive
  <2> QED
    BY <2>1, <2>2, <2>3, DispatchOnce
<1>5. ASSUME NEW x \in wire, ReceiveRelay(x)
      PROVE  HandledOnce' /\ Kept' /\ Placed'
  <2>1. /\ x.id \in Ids /\ Sound(x.id, x.kind)
        /\ Rest(x.id, wire \ {x}, tasks, serving)
    BY RestWire, Zenon
  <2>2. x.at \in Nodes /\ x.kind \in Kinds
    BY Zenon DEF Inv, WireOK, PacketOK, OnWay
  <2>3. UNCHANGED <<serving, status, handled>>
    BY <1>5, SMTT(30) DEF ReceiveRelay
  <2>4. Same(x.id) /\ Sound(x.id, x.kind)'
    BY <2>1, <2>3 DEF Same, Sound
  <2>5. CASE Free(x.at)
    <3> DEFINE t == [id |-> x.id, kind |-> x.kind, hops |-> x.hops]
    <3>1. tasks' = [tasks EXCEPT ![x.at] = Append(@, t)] /\ wire' = wire \ {x}
      BY <1>5, <2>5 DEF ReceiveRelay, Go
    <3>2. t.id = x.id /\ t.kind = x.kind
      BY SMTT(30)
    <3> HIDE DEF t
    <3>3. Placed'
      BY <1>t, <2>1, <2>2, <2>3, <2>4, <3>1, <3>2, PutTask, Zenon
    <3> QED
      BY <1>k, <2>3, <3>3, SMTT(30)
  <2>6. CASE ~Free(x.at)
    <3>1. Transmit(x.at, wire \ {x}, Relayed(x.at, x.id, x.kind, x.hops)) /\ tasks' = tasks
      BY <1>5, <2>6, Zenon DEF ReceiveRelay
    <3>2. Placed'
      BY <2>1, <2>2, <2>3, <3>1, RelayOnce
    <3> QED
      BY <1>k, <2>3, <3>2
  <2> QED
    BY <2>5, <2>6
<1>6. ASSUME NEW n \in Nodes, Work(n)
      PROVE  HandledOnce' /\ Kept' /\ Placed'
  <2> DEFINE t == Head(tasks[n])
  <2>1. tasks[n] # <<>> /\ tasks' = [tasks EXCEPT ![n] = Tail(@)]
    BY <1>6, Zenon DEF Work
  <2>2. t \in TasksOf(n)
    BY Zenon, <2>1, TakeFact DEF Inv
  <2>3. t.id \in Ids /\ Sound(t.id, t.kind) /\ Rest(t.id, wire, tasks', serving)
    BY <2>1, RestTask, Zenon DEF Inv
  <2>4. IF To(t.id, t.kind) = n
        THEN Dispatch(n, n, t.id, t.kind) /\ UNCHANGED wire
        ELSE Transmit(n, wire, Relayed(n, t.id, t.kind, t.hops)) /\ UNCHANGED <<serving, status, handled>>
    BY <1>6, Zenon DEF Work
  <2> HIDE DEF t
  <2>5. t.kind \in Kinds
    BY <2>2, Zenon DEF TasksOf
  <2>6. CASE To(t.id, t.kind) = n
    BY <2>3, <2>4, <2>5, <2>6, DispatchOnce
  <2>7. CASE To(t.id, t.kind) # n
    <3>1. Placed'
      BY <2>3, <2>4, <2>5, <2>7, RelayOnce
    <3> QED
      BY <1>k, <2>4, <2>7, <3>1, SMTT(30)
  <2> QED
    BY <2>6, <2>7
<1>7. ASSUME NEW s \in serving, Reply(s)
      PROVE  HandledOnce' /\ Kept' /\ Placed'
  <2> DEFINE p == Packet(s.at, s.chan, s.id, s.kind, 1)
             t == [id |-> s.id, kind |-> s.kind, hops |-> 0]
  <2>1. s.id \in Ids /\ Sound(s.id, s.kind) /\ Rest(s.id, wire, tasks, serving \ {s})
    BY RestServing, SMTT(30)
  <2>2. UNCHANGED <<status, handled>> /\ serving' = serving \ {s}
    BY <1>7, Zenon DEF Reply
  <2>3. s.at \in Nodes
    BY Zenon DEF Inv, AllServingOK, ServingOK
  <2>4. Same(s.id) /\ Sound(s.id, s.kind)'
    BY <2>1, <2>2, Zenon DEF Same, Sound
  <2>5. \/ tasks' = [tasks EXCEPT ![s.at] = Append(@, t)] /\ UNCHANGED wire
        \/ UNCHANGED <<wire, tasks>>
        \/ Transmit(s.at, wire, {p}) /\ UNCHANGED tasks
    BY <1>7, Zenon DEF Reply, Go
  <2>6. p.id = s.id /\ p.kind = s.kind /\ t.id = s.id /\ t.kind = s.kind
    BY Zenon DEF Packet
  <2> HIDE DEF p, t
  <2>7. Placed'
    <3>1. CASE UNCHANGED <<wire, tasks>>
      BY <2>1, <2>2, <2>4, <3>1, PutWire, SMTT(30)
    <3>2. CASE tasks' = [tasks EXCEPT ![s.at] = Append(@, t)] /\ UNCHANGED wire
      BY <1>t, <2>1, <2>2, <2>3, <2>4, <2>6, <3>2, PutTask, Zenon
    <3>3. CASE Transmit(s.at, wire, {p}) /\ UNCHANGED tasks
      <4>1. \A x \in wire' : x \in wire \/ x = p
        BY <3>3, SMTT(30) DEF Transmit
      <4> QED
        BY <2>1, <2>2, <2>4, <2>6, <3>3, <4>1, PutWire, Zenon
    <3> QED
      BY <2>5, <3>1, <3>2, <3>3, Zenon
  <2> QED
    BY <1>k, <2>2, <2>7
<1>8. ASSUME NEW x \in wire, Refuse(x) \/ Lose(x)
      PROVE  HandledOnce' /\ Kept' /\ Placed'
  BY <1>8, <1>d, Zenon DEF Refuse, Lose
<1>9. ASSUME NEW n \in Nodes, Start(n) \/ Stop(n) \/ Die(n)
      PROVE  HandledOnce' /\ Kept' /\ Placed'
  BY <1>9, <1>d, Zenon DEF Start, Stop, Die
<1>10. ASSUME NEW n \in Nodes, NEW m \in Nodes, Forget(n, m) \/ SetAvailable(n, m)
       PROVE  HandledOnce' /\ Kept' /\ Placed'
  BY <1>10, <1>d, Zenon DEF Forget, SetAvailable
<1>11. CASE UNCHANGED vars
  BY <1>11, <1>d DEF vars
<1> QED
  BY <1>1, <1>2, <1>4, <1>5, <1>6, <1>7, <1>8, <1>9, <1>10, <1>11
     DEF Next, ReadSockets, Workers, Methods

\* No step loses track of a message.
LEMMA RecordedStep ==
    ASSUME Recorded, [Next]_vars
    PROVE  Recorded'
<1> SUFFICES ASSUME Next
             PROVE  /\ UNCHANGED status \/ \E i, r : status' = [status EXCEPT ![i] = r]
                    /\ UNCHANGED handled \/ \E i, r : handled' = [handled EXCEPT ![i] = r]
  BY Zenon DEF Recorded, vars
<1>1. ASSUME NEW n, NEW chan, NEW id, NEW kind, Dispatch(n, chan, id, kind)
      PROVE  /\ UNCHANGED status \/ \E i, r : status' = [status EXCEPT ![i] = r]
             /\ UNCHANGED handled \/ \E i, r : handled' = [handled EXCEPT ![i] = r]
  BY <1>1, Zenon DEF Dispatch
<1>2. ASSUME NEW id, SendMessage(id) \/ Timeout(id)
      PROVE  UNCHANGED handled /\ \E i, r : status' = [status EXCEPT ![i] = r]
  BY <1>2, Zenon DEF SendMessage, Refused, Timeout, Returns
<1>3. ASSUME NEW x, Receive(x)
      PROVE  Dispatch(x.at, x.via, x.id, x.kind)
  BY <1>3, Zenon DEF Receive
<1>4. ASSUME NEW n, Work(n)
      PROVE  UNCHANGED <<status, handled>> \/ \E i, k : Dispatch(n, n, i, k)
  BY <1>4, Zenon DEF Work
<1>5. ASSUME NEW x, Refuse(x) \/ ReceiveRelay(x) \/ Reply(x) \/ Lose(x)
      PROVE  UNCHANGED <<status, handled>>
  BY <1>5, Zenon DEF Refuse, ReceiveRelay, Reply, Lose
<1>6. ASSUME NEW n, Start(n) \/ Stop(n) \/ Die(n) \/ \E m \in Nodes : Forget(n, m) \/ SetAvailable(n, m)
      PROVE  UNCHANGED <<status, handled>>
  BY <1>6, Zenon DEF Start, Stop, Die, Forget, SetAvailable
<1> QED
  BY <1>1, <1>2, <1>3, <1>4, <1>5, <1>6, Zenon DEF Next, ReadSockets, Workers, Methods

\* Initially nothing is sent.
LEMMA OnceInit == Init => OnceInv
<1> SUFFICES ASSUME Init PROVE OnceInv
  BY Zenon
<1>1. Recorded
  BY Zenon DEF Init, Recorded
<1>2. HandledOnce
  <2>1. Len(<<>>) <= 1 /\ Range(<<>>) = {}
    BY DEF Range
  <2> QED
    BY <2>1, Zenon DEF Init, HandledOnce
<1>3. Kept
  BY SMTT(30) DEF Init, Kept
<1>4. Placed
  <2>1. wire = {} /\ serving = {} /\ \A n \in Nodes : DOMAIN tasks[n] = {}
    BY DEF Init
  <2> QED
    BY <2>1, Zenon DEF Placed, SoundIn, OnePlace
<1> QED
  BY <1>1, <1>2, <1>3, <1>4, Zenon DEF OnceInv

\* The answers are among the places.
LEMMA OnceAnswered == Inv /\ OnceInv => AnsweredOnce
<1> SUFFICES ASSUME Inv, OnceInv, NEW i \in Ids
             PROVE  /\ Msgs[i].kind # "call" => Answers(i) = {}
                    /\ \A x, y \in Answers(i) : x = y
                    /\ status[i] = "ok" => handled[i] # <<>>
                    /\ status[i] \in {"ok", "error"} => Answers(i) = {}
  BY SMTT(30) DEF AnsweredOnce
<1>1. ASSUME NEW x \in Answers(i)
      PROVE  (x \in wire \/ x \in serving) /\ x.id = i /\ Answer(x.kind) /\ Sound(i, x.kind)
  <2>1. CASE x \in wire /\ x.id = i /\ Answer(x.kind)
    BY <2>1, Zenon DEF OnceInv, Placed, SoundIn
  <2>2. CASE x \in serving /\ x.id = i
    <3>1. x.kind \in {"ok", "error"}
      BY <2>2, Zenon DEF Inv, AllServingOK, ServingOK
    <3>2. Sound(i, x.kind)
      BY <2>2, Zenon DEF OnceInv, Placed, SoundIn
    <3> QED
      BY <2>2, <3>1, <3>2 DEF Answer
  <2> QED
    BY <2>1, <2>2, Zenon DEF Answers
<1>2. \A x, y \in Answers(i) : x = y
  BY <1>1 DEF OnceInv, Placed, OnePlace
<1>3. Msgs[i].kind # "call" \/ status[i] \in {"ok", "error"} => Answers(i) = {}
  BY <1>1, Zenon DEF Sound
<1> QED
  BY <1>2, <1>3, Zenon DEF OnceInv, Kept

\* Every message is in at most one place, whatever happens to the packets.
THEOREM OnceCorrect == Spec => [](Inv /\ OnceInv)
<1>1. Init => Inv /\ OnceInv
  BY InitInv, OnceInit, Zenon
<1>2. Inv /\ OnceInv /\ [Next]_vars => (Inv /\ OnceInv)'
  <2> SUFFICES ASSUME Inv, OnceInv, [Next]_vars PROVE Inv' /\ OnceInv'
    BY Zenon
  <2> QED
    BY NextInv, RecordedStep, OnceStep, Zenon DEF OnceInv
<1> QED
  BY <1>1, <1>2, PTL DEF Spec

\* Every message is handled at most once, and only at its destination: a relay
\* forwards it or queues it, never both.
THEOREM MessageHandledOnce == Spec => []HandledOnce
BY OnceCorrect, PTL DEF OnceInv

\* Only calls are answered, and at most once: by the method, by the node that
\* refuses it or by the hop without a route, and never by two of them.
THEOREM CallAnsweredOnce == Spec => []AnsweredOnce
BY OnceCorrect, OnceAnswered, PTL

-----------------------------------------------------------------------------
(* Types *)

\* The tasks are well typed because their messages are on their way.
LEMMA TasksType ==
    ASSUME Inv, \A n \in Nodes : Len(tasks[n]) <= TaskQueueSize
    PROVE  /\ tasks \in [Nodes -> Seq([id : Ids, kind : Kinds, hops : 0..3])]
           /\ \A n \in Nodes : Len(tasks[n]) <= TaskQueueSize
<1> DEFINE T == [id : Ids, kind : Kinds, hops : 0..3]
<1>1. ASSUME NEW n \in Nodes
      PROVE  tasks[n] \in Seq(T)
  <2>1. TasksOf(n) \subseteq T
    BY DEF TasksOf, TaskOK, OnWay
  <2>2. tasks[n] \in Seq(TasksOf(n))
    BY Zenon DEF Inv, TasksOK
  <2> HIDE DEF T
  <2> QED
    BY <2>1, <2>2
<1> HIDE DEF T
<1>2. tasks = [n \in Nodes |-> tasks[n]]
  BY Zenon DEF Inv, TasksOK
<1> QED
  BY <1>1, <1>2, Zenon DEF T

\* gopool.Go is called when there is room.
LEMMA GoLen ==
    ASSUME TypeOK, NEW n \in Nodes, Free(n), NEW id, NEW kind, NEW h, Go(n, id, kind, h)
    PROVE  \A m \in Nodes : Len(tasks'[m]) <= TaskQueueSize
<1> DEFINE t == [id |-> id, kind |-> kind, hops |-> h]
           T == [id : Ids, kind : Kinds, hops : 0..3]
<1>1. tasks \in [Nodes -> Seq(T)] /\ tasks' = [tasks EXCEPT ![n] = Append(@, t)]
  BY Zenon DEF TypeOK, Go
<1>2. Len(tasks[n]) < TaskQueueSize /\ TaskQueueSize \in Nat
      /\ \A m \in Nodes : Len(tasks[m]) <= TaskQueueSize
  BY MessagingAssumption, Zenon DEF Free, TypeOK
<1> HIDE DEF t, T
<1>3. Len(Append(tasks[n], t)) = Len(tasks[n]) + 1 /\ Len(tasks[n]) \in Nat
  BY <1>1
<1>4. tasks'[n] = Append(tasks[n], t) /\ \A m \in Nodes \ {n} : tasks'[m] = tasks[m]
  BY <1>1, Zenon
<1>5. Len(tasks'[n]) <= TaskQueueSize /\ \A m \in Nodes \ {n} : Len(tasks'[m]) <= TaskQueueSize
  BY <1>2, <1>3, <1>4
<1> QED
  BY <1>5, Zenon

\* Packets are well typed because they are on their way.
LEMMA PacketType ==
    ASSUME NEW n, NEW next, NEW id, NEW kind, NEW h \in Nat \ {0}, PacketOK(Packet(n, next, id, kind, h))
    PROVE  Packet(n, next, id, kind, h) \in Packets
BY DEF PacketOK, Packet, OnWay, Packets

\* So is what onRelayMessage sends.
LEMMA RelayType ==
    ASSUME NEW n, NEW id, NEW kind, NEW h \in Nat,
           \A x \in Relayed(n, id, kind, h) : PacketOK(x)
    PROVE  Relayed(n, id, kind, h) \subseteq Packets
<1> SUFFICES ASSUME NEW x \in Relayed(n, id, kind, h) PROVE x \in Packets
  BY Zenon
<1>1. \E m, k : \E j \in Nat \ {0} : x = Packet(n, m, id, k, j)
  <2>1. h + 1 \in Nat \ {0} /\ 1 \in Nat \ {0}
    OBVIOUS
  <2> QED
    BY <2>1, Zenon DEF Relayed
<1> QED
  BY <1>1, PacketType, Zenon

\* And what sendMessage puts on the wire.
LEMMA TransmitType ==
    ASSUME TypeOK, NEW n, NEW rest \in SUBSET wire, NEW out, out \subseteq Packets,
           Transmit(n, rest, out)
    PROVE  wire' \subseteq Packets /\ lost' \in BOOLEAN
BY Zenon DEF TypeOK, Transmit

\* What onMessage leaves is well typed.
LEMMA DispatchType ==
    ASSUME TypeOK, NEW n \in Nodes, NEW chan \in Nodes, NEW id \in Ids, NEW kind \in Kinds,
           Dispatch(n, chan, id, kind)
    PROVE  /\ serving' \subseteq [at : Nodes, chan : Nodes, id : Ids, kind : {"ok", "error"}]
           /\ status' \in [Ids -> Outcomes] /\ handled' \in [Ids -> Seq(Nodes)]
<1> DEFINE R == [at : Nodes, chan : Nodes, id : Ids, kind : {"ok", "error"}]
<1>1. serving \subseteq R /\ status \in [Ids -> Outcomes] /\ handled \in [Ids -> Seq(Nodes)]
  BY Zenon DEF TypeOK
<1>2. CASE Answer(kind)
  <2>1. kind \in Outcomes
    BY <1>2, Zenon DEF Answer, Outcomes
  <2>2. UNCHANGED <<handled, serving>> /\ status' = [status EXCEPT ![id] = IF @ = "waiting" THEN kind ELSE @]
    BY <1>2, Zenon DEF Dispatch
  <2> HIDE DEF R
  <2> QED
    BY <1>1, <2>1, <2>2 DEF R
<1>3. CASE ~Answer(kind)
  <2> DEFINE s == [at |-> n, chan |-> chan, id |-> id,
                   kind |-> IF Served(n, id, kind) THEN "ok" ELSE "error"]
  <2>1. s \in R
    BY Zenon
  <2>2. (serving' = serving \/ serving' = serving \union {s}) /\ UNCHANGED status
        /\ (handled' = handled \/ handled' = [handled EXCEPT ![id] = Append(@, n)])
    BY <1>3, Zenon DEF Dispatch
  <2> HIDE DEF s, R
  <2>3. Append(handled[id], n) \in Seq(Nodes)
    BY <1>1
  <2>4. handled' \in [Ids -> Seq(Nodes)]
    BY <1>1, <2>2, <2>3, Zenon
  <2> QED
    BY <1>1, <2>1, <2>2, <2>4, Zenon DEF R
<1> QED
  BY <1>2, <1>3, Zenon

\* What is left to show of a step: the tasks and the harbors are in Inv.
Typed ==
    /\ known \in [Nodes -> SUBSET Nodes]
    /\ phase \in [Nodes -> {"new", "started", "stopping", "dead"}]
    /\ wire \subseteq Packets
    /\ \A n \in Nodes : Len(tasks[n]) <= TaskQueueSize
    /\ serving \subseteq [at : Nodes, chan : Nodes, id : Ids, kind : {"ok", "error"}]
    /\ status \in [Ids -> Outcomes] /\ handled \in [Ids -> Seq(Nodes)]
    /\ refused \subseteq Nodes \X Nodes
    /\ lost \in BOOLEAN /\ faults \in 0..MaxFaults

LEMMA TypedType == Inv /\ Typed => TypeOK
BY TasksType, Zenon DEF Inv, HarborsOK, Typed, TypeOK

LEMMA TypedNext == Inv' /\ Typed' => TypeOK'
BY TypedType, PTL

LEMMA TypeTyped == TypeOK => Typed
BY Zenon DEF Typed, TypeOK

\* Every step keeps the types.
LEMMA TypeStep ==
    ASSUME Inv, TypeOK, [Next]_vars
    PROVE  Typed'
<1> Typed
  BY TypeTyped, Zenon
<1>f. MaxFaults \in Nat /\ TaskQueueSize \in Nat
      /\ faults \in 0..MaxFaults /\ refused \subseteq Nodes \X Nodes
  BY MessagingAssumption, Zenon DEF Typed
<1>1. ASSUME NEW id \in Ids, SendMessage(id)
      PROVE  Typed'
  <2> DEFINE n == Msgs[id].from
             to == Msgs[id].to
             kind == IF Msgs[id].kind = "call" THEN "req" ELSE Msgs[id].kind
             p == Packet(n, Route(n, to), id, kind, 1)
  <2>1. UNCHANGED <<known, phase, serving, handled, refused, faults>>
    BY <1>1, Zenon DEF SendMessage, routeVars
  <2>2. n \in Nodes /\ to \in Nodes /\ kind \in Kinds /\ ~Answer(kind) /\ To(id, kind) = to
    BY MsgFact DEF Kinds, Answer, To
  <2>3. \E r \in Outcomes : status' = [status EXCEPT ![id] = r]
    BY <1>1, Zenon DEF SendMessage, Refused, Returns, Outcomes
  <2>4. status' \in [Ids -> Outcomes]
    BY <2>3, Zenon DEF Typed
  <2>5. \/ UNCHANGED <<wire, tasks, lost>>
        \/ Free(n) /\ Go(n, id, kind, 0) /\ UNCHANGED <<wire, lost>>
        \/ Route(n, to) # NoNode /\ Transmit(n, wire, {p}) /\ UNCHANGED tasks
    BY <1>1, Zenon DEF SendMessage
  <2> HIDE DEF to, kind
  <2>6. Route(n, to) # NoNode => p \in Packets
    <3> SUFFICES ASSUME Route(n, to) # NoNode PROVE p \in Packets
      BY Zenon
    <3>1. OnWay(Route(n, to), id, kind, 1)
      BY <2>2, FirstHop, Zenon DEF Inv
    <3>2. PacketOK(p)
      BY <2>2, <3>1, Zenon DEF PacketOK, Packet, Brought
    <3> QED
      BY <3>2, PacketType
  <2> HIDE DEF n, p
  <2>7. CASE UNCHANGED <<wire, tasks, lost>>
    BY <2>1, <2>4, <2>7 DEF Typed
  <2>8. CASE Free(n) /\ Go(n, id, kind, 0) /\ UNCHANGED <<wire, lost>>
    <3>1. \A m \in Nodes : Len(tasks'[m]) <= TaskQueueSize
      BY <2>2, <2>8, GoLen, Zenon
    <3> QED
      BY <2>1, <2>4, <2>8, <3>1 DEF Typed
  <2>9. CASE Route(n, to) # NoNode /\ Transmit(n, wire, {p}) /\ UNCHANGED tasks
    <3>1. wire' \subseteq Packets /\ lost' \in BOOLEAN
      BY <2>6, <2>9, TransmitType
    <3> QED
      BY <2>1, <2>4, <2>9, <3>1 DEF Typed
  <2> QED
    BY <2>5, <2>7, <2>8, <2>9, Zenon
<1>2. ASSUME NEW id \in Ids, Timeout(id)
      PROVE  Typed'
  BY <1>2, Zenon DEF Timeout, Returns, routeVars, Typed, Outcomes
<1>3. ASSUME NEW x \in wire, Refuse(x)
      PROVE  Typed'
  <2>1. x.at \in Nodes /\ x.via \in Nodes
    BY SMTT(30) DEF TypeOK, Packets
  <2>2. /\ wire' \subseteq wire /\ lost' = TRUE
        /\ refused' = refused \/ refused' = refused \union {<<x.at, x.via>>}
        /\ UNCHANGED <<known, phase, tasks, serving, status, handled, faults>>
    BY <1>3, Zenon DEF Refuse, routeVars
  <2>3. refused' \subseteq Nodes \X Nodes
    BY <1>f, <2>1, <2>2
  <2> QED
    BY <2>2, <2>3 DEF Typed
<1>4. ASSUME NEW x \in wire, Receive(x)
      PROVE  Typed'
  <2>1. x.at \in Nodes /\ x.via \in Nodes /\ x.id \in Ids /\ x.kind \in Kinds
    BY Zenon DEF TypeOK, Packets
  <2>2. /\ Dispatch(x.at, x.via, x.id, x.kind) /\ wire' \subseteq wire
        /\ UNCHANGED <<known, phase, tasks, refused, lost, faults>>
    BY <1>4, Zenon DEF Receive, routeVars
  <2> QED
    BY <2>1, <2>2, DispatchType, Zenon DEF Typed
<1>5. ASSUME NEW x \in wire, ReceiveRelay(x)
      PROVE  Typed'
  <2>1. PacketOK(x) /\ OnWay(x.at, x.id, x.kind, x.hops)
    BY Zenon DEF Inv, WireOK, PacketOK
  <2>2. x.at \in Nodes /\ x.id \in Ids /\ x.kind \in Kinds /\ x.hops \in Nat
    BY <2>1 DEF OnWay
  <2>3. To(x.id, x.kind) # x.at /\ UNCHANGED <<known, phase, serving, status, handled, refused, faults>>
    BY <1>5, Zenon DEF ReceiveRelay, routeVars
  <2>4. CASE Free(x.at)
    <3>1. Go(x.at, x.id, x.kind, x.hops) /\ wire' \subseteq wire /\ UNCHANGED lost
      BY <1>5, <2>4, Zenon DEF ReceiveRelay
    <3>2. \A m \in Nodes : Len(tasks'[m]) <= TaskQueueSize
      BY <2>2, <2>4, <3>1, GoLen, Zenon
    <3> QED
      BY <2>3, <3>1, <3>2 DEF Typed
  <2>5. CASE ~Free(x.at)
    <3>1. /\ Transmit(x.at, wire \ {x}, Relayed(x.at, x.id, x.kind, x.hops))
          /\ UNCHANGED tasks
      BY <1>5, <2>5, Zenon DEF ReceiveRelay
    <3>2. \A y \in Relayed(x.at, x.id, x.kind, x.hops) : PacketOK(y)
      BY <2>1, <2>2, <2>3, RelayFact DEF Inv
    <3>3. Relayed(x.at, x.id, x.kind, x.hops) \subseteq Packets
      BY <2>2, <3>2, RelayType
    <3>4. wire' \subseteq Packets /\ lost' \in BOOLEAN
      BY <3>1, <3>3, TransmitType
    <3> QED
      BY <2>3, <3>1, <3>4 DEF Typed
  <2> QED
    BY <2>4, <2>5
<1>6. ASSUME NEW n \in Nodes, Work(n)
      PROVE  Typed'
  <2> DEFINE t == Head(tasks[n])
             T == [id : Ids, kind : Kinds, hops : 0..3]
  <2>1. tasks[n] # <<>> /\ tasks' = [tasks EXCEPT ![n] = Tail(@)] /\ UNCHANGED <<known, phase, refused, faults>>
    BY <1>6, Zenon DEF Work, routeVars
  <2>2. t \in TasksOf(n)
    BY Zenon, <2>1, TakeFact DEF Inv
  <2>3. \A m \in Nodes : Len(tasks'[m]) <= TaskQueueSize
    <3>1. tasks \in [Nodes -> Seq(T)] /\ \A m \in Nodes : Len(tasks[m]) <= TaskQueueSize
      BY Zenon DEF TypeOK
    <3> HIDE DEF T
    <3>2. Len(Tail(tasks[n])) = Len(tasks[n]) - 1 /\ Len(tasks[n]) \in Nat
      BY <2>1, <3>1
    <3>3. tasks'[n] = Tail(tasks[n]) /\ \A m \in Nodes \ {n} : tasks'[m] = tasks[m]
      BY <2>1, <3>1
    <3>4. Len(tasks'[n]) <= TaskQueueSize /\ \A m \in Nodes \ {n} : Len(tasks'[m]) <= TaskQueueSize
      BY <1>f, <3>1, <3>2, <3>3, SMTT(30)
    <3> QED
      BY <3>4, Zenon
  <2>4. IF To(t.id, t.kind) = n
        THEN Dispatch(n, n, t.id, t.kind) /\ UNCHANGED <<wire, lost>>
        ELSE Transmit(n, wire, Relayed(n, t.id, t.kind, t.hops)) /\ UNCHANGED <<serving, status, handled>>
    BY <1>6, Zenon DEF Work
  <2> HIDE DEF t
  <2>5. /\ t.id \in Ids /\ t.kind \in Kinds /\ t.hops \in Nat
        /\ OnWay(n, t.id, t.kind, t.hops)
    BY <2>2, Zenon DEF TasksOf, TaskOK
  <2>6. CASE To(t.id, t.kind) = n
    BY <2>1, <2>3, <2>4, <2>5, <2>6, DispatchType DEF Typed
  <2>7. CASE To(t.id, t.kind) # n
    <3>1. \A y \in Relayed(n, t.id, t.kind, t.hops) : PacketOK(y)
      BY <2>5, <2>7, RelayFact DEF Inv
    <3>2. Relayed(n, t.id, t.kind, t.hops) \subseteq Packets
      BY <2>5, <3>1, RelayType
    <3>3. wire' \subseteq Packets /\ lost' \in BOOLEAN
      BY <2>4, <2>7, <3>2, TransmitType
    <3> QED
      BY <2>1, <2>3, <2>4, <2>7, <3>3 DEF Typed
  <2> QED
    BY <2>6, <2>7
<1>7. ASSUME NEW s \in serving, Reply(s)
      PROVE  Typed'
  <2> DEFINE p == Packet(s.at, s.chan, s.id, s.kind, 1)
  <2>1. UNCHANGED <<known, phase, status, handled, refused, faults>> /\ serving' \subseteq serving
    BY <1>7, Zenon DEF Reply, routeVars
  <2>2. s.at \in Nodes /\ s.chan \in Nodes /\ s.id \in Ids /\ s.kind \in Kinds
    BY DEF TypeOK, Kinds
  <2>3. CASE s.chan # s.at
    <3>1. Transmit(s.at, wire, {p}) /\ UNCHANGED tasks
      BY Zenon, <1>7, <2>3 DEF Reply
    <3>2. p \in Packets
      BY <2>2 DEF Packet, Packets
    <3> HIDE DEF p
    <3>3. wire' \subseteq Packets /\ lost' \in BOOLEAN
      BY <3>1, <3>2, TransmitType
    <3> QED
      BY <2>1, <3>1, <3>3, SMTT(30) DEF Typed
  <2>4. CASE s.chan = s.at
    <3>1. /\ UNCHANGED wire /\ lost' \in BOOLEAN
          /\ (Free(s.at) /\ Go(s.at, s.id, s.kind, 0)) \/ UNCHANGED tasks
      <4>1. lost \in BOOLEAN
        BY Zenon DEF TypeOK
      <4> QED
        BY Zenon, <1>7, <2>4, <4>1 DEF Reply
    <3>2. \A m \in Nodes : Len(tasks'[m]) <= TaskQueueSize
      BY <2>2, <3>1, GoLen, Zenon DEF TypeOK
    <3> QED
      BY <2>1, <3>1, <3>2 DEF Typed
  <2> QED
    BY <2>3, <2>4
<1>8. ASSUME NEW n \in Nodes, Start(n) \/ Stop(n) \/ Die(n)
      PROVE  Typed'
  <2>1. /\ UNCHANGED <<known, tasks, serving, status, handled, refused, faults>> /\ wire' \subseteq wire
        /\ lost' = lost \/ lost' = TRUE
        /\ \E p \in {"started", "stopping", "dead"} : phase' = [phase EXCEPT ![n] = p]
    BY <1>8, Zenon DEF Start, Stop, Die
  <2> QED
    BY <2>1, Zenon DEF Typed
<1>9. ASSUME NEW n \in Nodes, NEW m \in Nodes, Forget(n, m)
      PROVE  Typed'
  <2>1. /\ UNCHANGED <<phase, tasks, serving, status, handled, refused>> /\ wire' \subseteq wire
        /\ known' = [known EXCEPT ![n] = @ \ {m}] /\ faults < MaxFaults /\ faults' = faults + 1
    BY <1>9 DEF Forget
  <2>2. lost' \in BOOLEAN
    BY <1>9, Zenon DEF Forget, Typed
  <2>3. known' \in [Nodes -> SUBSET Nodes] /\ faults' \in 0..MaxFaults
    <3>1. known \in [Nodes -> SUBSET Nodes] /\ faults \in 0..MaxFaults
      BY Zenon DEF TypeOK
    <3> QED
      BY <1>f, <2>1, <3>1
  <2> QED
    BY <2>1, <2>2, <2>3 DEF Typed
<1>10. ASSUME NEW n \in Nodes, NEW m \in Nodes, SetAvailable(n, m)
       PROVE  Typed'
  <2>1. /\ UNCHANGED <<known, phase, wire, tasks, serving, status, handled, refused, lost>>
        /\ faults < MaxFaults /\ faults' = faults + 1
    BY <1>10 DEF SetAvailable
  <2>2. faults' \in 0..MaxFaults
    BY <1>f, <2>1
  <2> QED
    BY <2>1, <2>2 DEF Typed
<1>11. ASSUME NEW x \in wire, Lose(x)
       PROVE  Typed'
  <2>1. /\ UNCHANGED <<known, phase, tasks, serving, status, handled, refused>>
        /\ wire' \subseteq wire /\ lost' = TRUE
        /\ (faults < MaxFaults /\ faults' = faults + 1) \/ UNCHANGED faults
    BY <1>11, Zenon DEF Lose, routeVars
  <2>2. faults' \in 0..MaxFaults
    BY <1>f, <2>1
  <2> QED
    BY <2>1, <2>2, Zenon DEF Typed
<1>12. CASE UNCHANGED vars
  BY <1>12, Zenon DEF vars, Typed
<1> QED
  BY <1>1, <1>2, <1>3, <1>4, <1>5, <1>6, <1>7, <1>8, <1>9, <1>10, <1>11, <1>12
     DEF Next, ReadSockets, Workers, Methods

LEMMA TypeInit == Init => TypeOK
<1> SUFFICES ASSUME Init PROVE TypeOK
  BY Zenon
<1>1. Inv
  BY InitInv, Zenon
<1>2. Typed
  <2>1. known \in [Nodes -> SUBSET Nodes] /\ TaskQueueSize \in Nat /\ MaxFaults \in Nat
    BY MessagingAssumption, Zenon DEF Init
  <2>2. /\ phase \in [Nodes -> {"new", "started", "stopping", "dead"}]
        /\ status \in [Ids -> Outcomes] /\ handled \in [Ids -> Seq(Nodes)]
        /\ wire = {} /\ serving = {} /\ refused = {} /\ lost = FALSE /\ faults = 0
    BY DEF Init, Outcomes
  <2>3. \A n \in Nodes : Len(tasks[n]) = 0
    BY Zenon DEF Init
  <2>4. faults \in 0..MaxFaults /\ \A n \in Nodes : Len(tasks[n]) <= TaskQueueSize
    BY <2>1, <2>2, <2>3
  <2> QED
    BY <2>1, <2>2, <2>4, Zenon DEF Typed
<1> QED
  BY <1>1, <1>2, TypedType

\* The state is well typed: in particular gopool.Go never queues more tasks than there is
\* room for, and a message that waits to be relayed has at most three hops behind it.
THEOREM TypeCorrect == Spec => []TypeOK
<1>1. Init => Inv /\ TypeOK
  BY InitInv, TypeInit, Zenon
<1>2. Inv /\ TypeOK /\ [Next]_vars => (Inv /\ TypeOK)'
  <2> SUFFICES ASSUME Inv, TypeOK, [Next]_vars PROVE Inv' /\ TypeOK'
    BY Zenon
  <2>1. Inv' /\ Typed'
    BY NextInv, TypeStep, Zenon
  <2> QED
    BY <2>1, TypedNext, Zenon
<1> QED
  BY <1>1, <1>2, PTL DEF Spec
=============================================================================
