----------------------------- MODULE Messaging -----------------------------
(***************************************************************************)
(* Messages and RPC calls between the nodes of several clusters: the send  *)
(* functions of Node, routing over harbors, the receiving side of a link   *)
(* with dispatch and relay, the bounded task queue, and the two kinds of   *)
(* RPC channel (cluster.go, node.go, rpc.go).                              *)
(*                                                                         *)
(* A link is abstracted to the set of packets on their way, any of which   *)
(* may be lost; NodeLink has its details.  The caches of different nodes   *)
(* change at different times.                                              *)
(***************************************************************************)
EXTENDS Naturals, Sequences, FiniteSets, Functions

CONSTANTS
    Nodes,
    Addr,           \* the logical address of each node: cluster, type and server
    HarborType,     \* addr.HarbarType
    Msgs,           \* what the program sends, by id: kind ("send", "call", "post"), from, to
    Registered,     \* ids that have a handler or a method at their destination
    Sees,           \* the nodes that the membership has told each node of
    Told,           \* the harbors among them, by cluster, in the order they were told
    TaskQueueSize,
    Late,           \* nodes that are started later
    Stoppable,      \* nodes that may be stopped
    MaxSent,        \* bound: messages that are sent
    MaxFaults,      \* bound: changes of caches, and packets lost with their connection
    NoNode

Clusters == {Addr[n].cluster : n \in Nodes}
IsHarbor(n) == Addr[n].type = HarborType
HarborsOf(c) == {n \in Nodes : IsHarbor(n) /\ Addr[n].cluster = c}

ASSUME MessagingAssumption ==
    /\ Addr \in [Nodes -> [cluster : Nat, type : Nat, server : Nat]]
    /\ Msgs \in Seq([kind : {"send", "call", "post"}, from : Nodes, to : Nodes])
    /\ Sees \in [Nodes -> SUBSET Nodes]
    /\ Told \in [Nodes -> [Clusters -> Seq(Nodes)]]
    /\ \A n \in Nodes : \A c \in Clusters : Range(Told[n][c]) = HarborsOf(c) \intersect Sees[n]
    /\ TaskQueueSize \in Nat /\ MaxSent \in Nat /\ MaxFaults \in Nat
    /\ NoNode \notin Nodes

VARIABLES
    known,          \* nodeCache.allnodes of each node
    harbors,        \* nodeCache.harbors of each node: the available ones, in order
    phase,          \* "new", "started", "stopping" (Stop waits for the methods), "dead"
    wire,           \* packets on the sockets
    tasks,          \* gopool.taskqueue
    serving,        \* RPC requests to be replied to, with the channel of each
    status,         \* what became of each message or call at its sender
    handled,        \* where each message was handled
    refused,        \* links on which a packet of an available node was refused
    lost,           \* a packet was dropped, for whatever reason
    faults          \* changes and losses so far

routeVars == <<known, harbors, phase>>
vars == <<known, harbors, phase, wire, tasks, serving, status, handled, refused, lost, faults>>

Ids == DOMAIN Msgs
Kinds == {"send", "req", "post", "ok", "error"}
Packets == [at : Nodes, via : Nodes, id : Ids, kind : Kinds, hops : 1..4]
Outcomes == {"new", "sent", "waiting", "ok", "error", "ErrBusy", "ErrInvaildNode",
             "server not start", "server die", "timeout"}

TypeOK ==
    /\ known \in [Nodes -> SUBSET Nodes] /\ harbors \in [Nodes -> [Clusters -> Seq(Nodes)]]
    /\ phase \in [Nodes -> {"new", "started", "stopping", "dead"}]
    /\ wire \subseteq Packets
    /\ tasks \in [Nodes -> Seq([id : Ids, kind : Kinds, hops : 0..3])]
    /\ \A n \in Nodes : Len(tasks[n]) <= TaskQueueSize
    /\ serving \subseteq [at : Nodes, chan : Nodes, id : Ids, kind : {"ok", "error"}]
    /\ status \in [Ids -> Outcomes] /\ handled \in [Ids -> Seq(Nodes)]
    /\ refused \subseteq Nodes \X Nodes
    /\ lost \in BOOLEAN /\ faults \in 0..MaxFaults

Init ==
    /\ known = Sees /\ harbors = Told
    /\ phase = [n \in Nodes |-> IF n \in Late THEN "new" ELSE "started"]
    /\ wire = {} /\ tasks = [n \in Nodes |-> <<>>] /\ serving = {}
    /\ status = [i \in Ids |-> "new"] /\ handled = [i \in Ids |-> <<>>]
    /\ refused = {} /\ lost = FALSE /\ faults = 0

-----------------------------------------------------------------------------
(* Routing *)

\* The number behind an address: cluster, 8 bits of type, 10 bits of server.
LogicAddr(n) == (Addr[n].cluster * 256 + Addr[n].type) * 1024 + Addr[n].server

\* Mutant: a harbor asks the harbors of its own cluster.
Route_Own(n, to) ==
    IF Addr[to].cluster = Addr[n].cluster
    THEN IF to \in known[n] THEN to ELSE NoNode
    ELSE LET hs == harbors[n][Addr[n].cluster]
         IN IF hs = <<>> THEN NoNode ELSE hs[(LogicAddr(to) % Len(hs)) + 1]

getHarbor(n, cluster, m) ==
    LET hs == harbors[n][cluster]
    IN IF hs = <<>> THEN NoNode ELSE hs[(LogicAddr(m) % Len(hs)) + 1]

\* getNodeByLogicAddr: the next hop from n towards `to'.
Route(n, to) ==
    IF Addr[to].cluster = Addr[n].cluster
    THEN IF to \in known[n] THEN to ELSE NoNode
    ELSE getHarbor(n, Addr[IF IsHarbor(n) THEN to ELSE n].cluster, to)

Answer(kind) == kind \in {"ok", "error"}
To(id, kind) == IF Answer(kind) THEN Msgs[id].from ELSE Msgs[id].to

Packet(from, next, id, kind, hops) ==
    [at |-> next, via |-> from, id |-> id, kind |-> kind, hops |-> hops]

\* sendMessage: dial gives up once die is closed, except for a connection made just
\* before.  Whatever takes no packet along drops the message.
Transmit(n, rest, out) ==
    \/ wire' = rest \union out /\ lost' = (lost \/ out = {})
    \/ phase[n] = "dead" /\ wire' = rest /\ lost' = TRUE

-----------------------------------------------------------------------------
(* The task queue *)

\* Mutant: a task is always taken.
Free_Always(n) == TRUE

\* gopool.Go returns ErrBusy unless there is room.
Free(n) == Len(tasks[n]) < TaskQueueSize

Go(n, id, kind, hops) ==
    tasks' = [tasks EXCEPT ![n] = Append(@, [id |-> id, kind |-> kind, hops |-> hops])]

-----------------------------------------------------------------------------
(* Sending *)

Returns(id, r) == status' = [status EXCEPT ![id] = r]

\* The select at the head of the send functions.  Both of its cases are ready
\* after Stop, and either is taken.
Refused(id, n) ==
    \/ phase[n] = "new" /\ Returns(id, "server not start")
    \/ phase[n] = "dead" /\ Returns(id, "server die")

\* SendBinMessage, SendPbMessage, and Call and AsyncCall of the RPC client: to the
\* node itself over the task queue, to others over the next hop.
SendMessage(id) ==
    /\ status[id] = "new"
    /\ Cardinality({i \in Ids : status[i] # "new"}) < MaxSent
    /\ LET n == Msgs[id].from
           to == Msgs[id].to
           kind == IF Msgs[id].kind = "call" THEN "req" ELSE Msgs[id].kind
           accepted == IF kind = "req" THEN "waiting" ELSE "sent"
       IN \/ Refused(id, n) /\ UNCHANGED <<wire, tasks, lost>>
          \/ /\ phase[n] # "new" /\ to = n
             /\ IF Free(n) THEN Go(n, id, kind, 0) /\ Returns(id, accepted)
                ELSE Returns(id, "ErrBusy") /\ UNCHANGED tasks
             /\ UNCHANGED <<wire, lost>>
          \/ /\ phase[n] # "new" /\ to # n /\ Route(n, to) = NoNode
             /\ Returns(id, "ErrInvaildNode") /\ UNCHANGED <<wire, tasks, lost>>
          \/ /\ phase[n] # "new" /\ to # n /\ Route(n, to) # NoNode
             /\ Transmit(n, wire, {Packet(n, Route(n, to), id, kind, 1)})
             /\ Returns(id, accepted) /\ UNCHANGED tasks
    /\ UNCHANGED <<routeVars, serving, handled, refused, faults>>

\* The deadline of a call.
Timeout(id) ==
    /\ status[id] = "waiting"
    /\ Returns(id, "timeout")
    /\ UNCHANGED <<routeVars, wire, tasks, serving, handled, refused, lost, faults>>

-----------------------------------------------------------------------------
(* Receiving *)

\* A message or request has a handler; a server that was stopped calls no method.
Served(n, id, kind) ==
    id \in Registered /\ (kind = "send" \/ phase[n] \notin {"stopping", "dead"})

\* Mutant: a request that is refused is not answered.
Responds_Served(n, id, kind) == kind = "req" /\ Served(n, id, kind)

\* A oneway request has no reply.
Responds(n, id, kind) == kind = "req"

\* onMessage for a message to n, and the tasks of n for itself: to the handler, to
\* the RPC server, or to the RPC client, where only the answer to a call that
\* still waits counts.  `chan' is where the reply to a request goes.
Dispatch(n, chan, id, kind) ==
    \/ /\ ~Answer(kind)
       /\ handled' = IF Served(n, id, kind) THEN [handled EXCEPT ![id] = Append(@, n)] ELSE handled
       /\ serving' = IF ~Responds(n, id, kind) THEN serving
                     ELSE serving \union {[at |-> n, chan |-> chan, id |-> id,
                                           kind |-> IF Served(n, id, kind) THEN "ok" ELSE "error"]}
       /\ UNCHANGED status
    \/ /\ Answer(kind)
       /\ status' = [status EXCEPT ![id] = IF @ = "waiting" THEN kind ELSE @]
       /\ UNCHANGED <<handled, serving>>

\* Mutant: whatever cannot be routed is answered.
WantsAnswer_Any(kind) == ~Answer(kind)

\* Only a request whose sender waits is answered.
WantsAnswer(kind) == kind = "req"

\* onRelayMessage: the packet that goes out, if any.
Relayed(n, id, kind, hops) ==
    LET next == Route(n, To(id, kind))
        back == Route(n, Msgs[id].from)
    IN IF next # NoNode THEN {Packet(n, next, id, kind, hops + 1)}
       ELSE IF WantsAnswer(kind) /\ back # NoNode THEN {Packet(n, back, id, "error", 1)}
       ELSE {}

Listening(n) == phase[n] # "new"

Between(x, n, m) == {x.at, x.via} = {n, m}

\* The packet handler compares the peer with the next hop towards the peer.
Expected(x) == Route(x.at, x.via) = x.via

\* A peer that is not in the cache is turned away in the handshake.  One that is
\* may connect, but the packet handler refuses what comes from a node that is
\* not the next hop towards itself, and the socket is closed with all that is on it.
Refuse(x) ==
    /\ Listening(x.at) /\ ~Expected(x)
    /\ wire' = {y \in wire : ~Between(y, x.at, x.via)}
    /\ refused' = IF x.via \in known[x.at] /\ (IsHarbor(x.via) => x.via \in Range(harbors[x.at][Addr[x.via].cluster]))
                  THEN refused \union {<<x.at, x.via>>} ELSE refused
    /\ lost' = TRUE
    /\ UNCHANGED <<routeVars, tasks, serving, status, handled, faults>>

Accepted(x) == Listening(x.at) /\ Expected(x)

Receive(x) ==
    /\ Accepted(x) /\ To(x.id, x.kind) = x.at
    /\ Dispatch(x.at, x.via, x.id, x.kind)
    /\ wire' = wire \ {x}
    /\ UNCHANGED <<routeVars, tasks, refused, lost, faults>>

\* Mutant: the message is relayed at once, and queued if there is room.
ReceiveRelay_Twice(x) ==
    /\ Accepted(x) /\ To(x.id, x.kind) # x.at
    /\ IF Free(x.at) THEN Go(x.at, x.id, x.kind, x.hops) ELSE UNCHANGED tasks
    /\ Transmit(x.at, wire \ {x}, Relayed(x.at, x.id, x.kind, x.hops))
    /\ UNCHANGED <<routeVars, serving, status, handled, refused, faults>>

\* A message to another node is relayed by a worker, or at once if the task
\* queue is full.
ReceiveRelay(x) ==
    /\ Accepted(x) /\ To(x.id, x.kind) # x.at
    /\ IF Free(x.at)
       THEN Go(x.at, x.id, x.kind, x.hops) /\ wire' = wire \ {x} /\ UNCHANGED lost
       ELSE Transmit(x.at, wire \ {x}, Relayed(x.at, x.id, x.kind, x.hops)) /\ UNCHANGED tasks
    /\ UNCHANGED <<routeVars, serving, status, handled, refused, faults>>

\* gopool.loop takes a task: a message of the node to itself, or a relay.  A worker
\* of a dead node may do so once more before it returns.
Work(n) ==
    /\ tasks[n] # <<>>
    /\ tasks' = [tasks EXCEPT ![n] = Tail(@)]
    /\ LET t == Head(tasks[n])
       IN IF To(t.id, t.kind) = n
          THEN Dispatch(n, n, t.id, t.kind) /\ UNCHANGED <<wire, lost>>
          ELSE /\ Transmit(n, wire, Relayed(n, t.id, t.kind, t.hops))
               /\ UNCHANGED <<serving, status, handled>>
    /\ UNCHANGED <<routeVars, refused, faults>>

\* The reply goes over rpcChannel, the link on which the request came, or over
\* selfChannel, where a full task queue drops it.
Reply(s) ==
    /\ serving' = serving \ {s}
    /\ IF s.chan # s.at
       THEN Transmit(s.at, wire, {Packet(s.at, s.chan, s.id, s.kind, 1)}) /\ UNCHANGED tasks
       ELSE /\ IF Free(s.at) THEN Go(s.at, s.id, s.kind, 0) /\ UNCHANGED lost
               ELSE lost' = TRUE /\ UNCHANGED tasks
            /\ UNCHANGED wire
    /\ UNCHANGED <<routeVars, status, handled, refused, faults>>

-----------------------------------------------------------------------------
(* Nodes and their caches *)

Start(n) ==
    /\ phase[n] = "new"
    /\ phase' = [phase EXCEPT ![n] = "started"]
    /\ UNCHANGED <<known, harbors, wire, tasks, serving, status, handled, refused, lost, faults>>

\* Stop: the RPC server takes no more requests.
Stop(n) ==
    /\ n \in Stoppable /\ phase[n] = "started"
    /\ phase' = [phase EXCEPT ![n] = "stopping"]
    /\ UNCHANGED <<known, harbors, wire, tasks, serving, status, handled, refused, lost, faults>>

\* When no method is counted any more the sockets and die are closed.  The count is
\* taken back by an interceptor that runs before the reply is sent, so any of the
\* replies may be still to come.
Die(n) ==
    /\ phase[n] = "stopping"
    /\ phase' = [phase EXCEPT ![n] = "dead"]
    /\ wire' = {x \in wire : n \notin {x.at, x.via}}
    /\ lost' = TRUE
    /\ UNCHANGED <<known, harbors, tasks, serving, status, handled, refused, faults>>

\* removeHarbor: the last harbor takes the place of the one that goes.
Without(hs, m) ==
    IF m \notin Range(hs) THEN hs
    ELSE [i \in 1..(Len(hs) - 1) |-> IF hs[i] = m THEN hs[Len(hs)] ELSE hs[i]]

\* onNodeInfoUpdate at n: m leaves, and the socket to it is closed.
Forget(n, m) ==
    /\ phase[n] # "new" /\ faults < MaxFaults /\ m \in known[n] \ {n}
    /\ faults' = faults + 1
    /\ known' = [known EXCEPT ![n] = @ \ {m}]
    /\ harbors' = [harbors EXCEPT ![n][Addr[m].cluster] = Without(@, m)]
    /\ wire' = {x \in wire : ~Between(x, n, m)}
    /\ lost' = (lost \/ \E x \in wire : Between(x, n, m))
    /\ UNCHANGED <<phase, tasks, serving, status, handled, refused>>

\* onNodeInfoUpdate at n: harbor m becomes unavailable, or available again.
SetAvailable(n, m) ==
    /\ phase[n] # "new" /\ faults < MaxFaults /\ m \in known[n] /\ IsHarbor(m)
    /\ faults' = faults + 1
    /\ harbors' = [harbors EXCEPT ![n][Addr[m].cluster] =
                      IF m \in Range(@) THEN Without(@, m) ELSE Append(@, m)]
    /\ UNCHANGED <<known, phase, wire, tasks, serving, status, handled, refused, lost>>

\* A connection breaks with a packet on it, or there is nobody to connect to.
Lose(x) ==
    /\ \/ faults < MaxFaults /\ faults' = faults + 1
       \/ (phase[x.at] # "started" \/ phase[x.via] = "dead") /\ UNCHANGED faults
    /\ wire' = wire \ {x} /\ lost' = TRUE
    /\ UNCHANGED <<routeVars, tasks, serving, status, handled, refused>>

-----------------------------------------------------------------------------
(* The specification *)

ReadSockets == \E x \in wire : Refuse(x) \/ Receive(x) \/ ReceiveRelay(x)
Workers == \E n \in Nodes : Work(n)
Methods == \E s \in serving : Reply(s)

Next ==
    \/ \E id \in Ids : SendMessage(id) \/ Timeout(id)
    \/ ReadSockets \/ Workers \/ Methods
    \/ \E n \in Nodes : Start(n) \/ Stop(n) \/ Die(n)
    \/ \E n, m \in Nodes : Forget(n, m) \/ SetAvailable(n, m)
    \/ \E x \in wire : Lose(x)

Spec == Init /\ [][Next]_vars

\* Sockets are read, workers run and methods reply; no deadline has to pass.
FairSpec ==
    /\ Spec
    /\ WF_vars(ReadSockets) /\ WF_vars(Workers) /\ WF_vars(Methods)
    /\ WF_vars(\E n \in Nodes : Start(n))

-----------------------------------------------------------------------------
(* Properties *)

\* However the caches of the nodes differ, a message takes at most three hops (to a
\* harbor, to a harbor of the other cluster, to its destination), because every
\* relay leads into the cluster of the destination or to the destination itself.
HopsBounded == \A x \in wire : x.hops <= 3

\* Every message is handled at most once, and only where it was sent to, whether it
\* was relayed by a worker or past a full task queue.
HandledOnce ==
    \A i \in Ids : Len(handled[i]) <= 1 /\ Range(handled[i]) \subseteq {Msgs[i].to}

Answers(i) ==
    {x \in wire : x.id = i /\ Answer(x.kind)} \union {s \in serving : s.id = i}

\* Only calls are answered, and there is at most one answer: a oneway request or a
\* response that has no route does not cause another message, and a call that
\* succeeded was handled.
AnsweredOnce ==
    \A i \in Ids :
        /\ Msgs[i].kind # "call" => Answers(i) = {}
        /\ \A x, y \in Answers(i) : x = y
        /\ status[i] = "ok" => handled[i] # <<>>
        /\ status[i] \in {"ok", "error"} => Answers(i) = {}

\* As long as no packet is lost a call is answered before any deadline: by its
\* method, by a node that stops or, when some hop has no route, by that hop.
Answered ==
    \A i \in Ids : status[i] = "waiting" ~> status[i] # "waiting" \/ lost

\* A node takes what an available peer sends it: the packet handler asks for the
\* route to the sender where it means the sender.
PeersAccepted == refused = {}
=============================================================================
