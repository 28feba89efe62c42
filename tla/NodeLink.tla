------------------------------ MODULE NodeLink ------------------------------
(***************************************************************************)
(* The link between two cluster nodes: each node's `node' record for the   *)
(* other one (its socket, its queue of pending messages, its mutex), the   *)
(* lazy dial that the first queued message starts, the handshake, the      *)
(* tie-break between two simultaneous dials, the flush of the queue when a *)
(* connection is established, and the close callback that clears the       *)
(* socket.  Source: node.go and Node.onNewConnection of cluster.go.        *)
(*                                                                         *)
(* A critical section of the record's mutex is one step.  What happens     *)
(* outside it (connecting, the handshake, Socket.Send after Unlock, the    *)
(* close callback of a dead socket) is a step of its own.                  *)
(***************************************************************************)
EXTENDS Naturals, Sequences, FiniteSets

CONSTANTS
    Lo, Hi,             \* the logical addresses of the two nodes
    Conn,               \* identities of dial attempts and of their connections
    NoConn,             \* the nil socket
    MaxPendingMsgSize,  \* capacity of the pending queue
    Kinds,              \* kinds of message the application sends
    MaxMsg,             \* bound: messages each node sends
    MayExpire,          \* kinds of message whose time may run out while queued
    MaxFaults,          \* bound: spurious timeouts and broken connections
    MaxRestarts,        \* bound: process restarts
    Moves,              \* may a restarted process come back at another address?
    Stoppable           \* nodes on which Stop may be called

Nodes == {Lo, Hi}

Peer(n) == IF n = Lo THEN Hi ELSE Lo

\* A message has no deadline, a deadline, or a context (pendingMessage).
AllKinds == {"zero", "deadline", "ctx"}

ASSUME LinkAssumption ==
    /\ Lo \in Nat /\ Hi \in Nat /\ Lo < Hi
    /\ NoConn \notin Conn
    /\ IsFiniteSet(Conn)
    /\ MaxPendingMsgSize \in Nat \ {0}
    /\ Kinds \subseteq AllKinds
    /\ MayExpire \subseteq AllKinds \ {"zero"}
    /\ MaxMsg \in Nat /\ MaxFaults \in Nat /\ MaxRestarts \in Nat
    /\ Moves \in BOOLEAN
    /\ Stoppable \subseteq Nodes

VARIABLES
    pending,    \* node.pendingMsg: messages waiting for a connection, oldest = least seq
    socket,     \* node.socket
    locked,     \* TRUE once the record's mutex was left locked by a return
    end,        \* end[n][d]: phase of n's end of connection attempt d
    wire,       \* wire[n][d]: what n sent on d and its peer has not handled
    sendingOn,  \* socket captured by a sender that has unlocked the record
    sent,       \* number of messages the application of each node has sent
    got,        \* what each node's packet handler was given, in order
    stop,       \* progress of Node.Stop
    hello,      \* network address the handshake request of d carries
    netAddr,    \* version of each node's own network address
    known,      \* address the node's record holds for the peer (addr.NetAddr)
    moving,     \* an address update has closed the socket and not yet set known
    faults,     \* faults used up
    restarts    \* restarts used up

vars == <<pending, socket, locked, end, wire, sendingOn, sent, got, stop,
          netAddr, known, moving, hello, faults, restarts>>

addrVars == <<netAddr, known, moving, hello>>

\* The dialing end: the goroutine is scheduled or its retry timer runs; the
\* handshake was written; the response is in the receive buffer; dial failed.
DialPhases == {"queued", "dialing", "answered", "failed"}

\* Either end: the socket works; it is closed and its callback has yet to run.
\* "accepting": onNewConnection has the connection and has not decided.
Phases == DialPhases \union {"none", "accepting", "est", "dying", "closed"}

StopPhases == {"run", "stopping", "closed", "dead", "down"}

\* late: the deadline has passed, or the context is done.
Msgs == [seq : 1..MaxMsg, kind : AllKinds, late : BOOLEAN]

TypeOK ==
    /\ pending \in [Nodes -> SUBSET Msgs]
    /\ socket \in [Nodes -> Conn \union {NoConn}]
    /\ locked \in [Nodes -> BOOLEAN]
    /\ end \in [Nodes -> [Conn -> Phases]]
    /\ wire \in [Nodes -> [Conn -> SUBSET (1..MaxMsg)]]
    /\ sendingOn \in [Nodes -> Conn \union {NoConn}]
    /\ sent \in [Nodes -> 0..MaxMsg]
    /\ \A n \in Nodes : sendingOn[n] # NoConn => sent[n] > 0
    /\ got \in [Nodes -> Seq(1..MaxMsg)]
    /\ stop \in [Nodes -> StopPhases]
    /\ netAddr \in [Nodes -> Nat]
    /\ known \in [Nodes -> Nat]
    /\ moving \in [Nodes -> BOOLEAN]
    /\ hello \in [Conn -> Nat]
    /\ faults \in 0..MaxFaults
    /\ restarts \in 0..MaxRestarts

Init ==
    /\ pending = [n \in Nodes |-> {}]
    /\ socket = [n \in Nodes |-> NoConn]
    /\ locked = [n \in Nodes |-> FALSE]
    /\ end = [n \in Nodes |-> [d \in Conn |-> "none"]]
    /\ wire = [n \in Nodes |-> [d \in Conn |-> {}]]
    /\ sendingOn = [n \in Nodes |-> NoConn]
    /\ sent = [n \in Nodes |-> 0]
    /\ got = [n \in Nodes |-> <<>>]
    /\ stop = [n \in Nodes |-> "run"]
    /\ netAddr = [n \in Nodes |-> 0]
    /\ known = [n \in Nodes |-> 0]
    /\ moving = [n \in Nodes |-> FALSE]
    /\ hello = [d \in Conn |-> 0]
    /\ faults = 0
    /\ restarts = 0

-----------------------------------------------------------------------------
(* Connection attempts *)

Free(e) == {d \in Conn : \A n \in Nodes : e[n][d] = "none"}

\* A goroutine (of the pool or its own) or a timer that will call dial.
NewDial(e, n) == [e EXCEPT ![n][CHOOSE d \in Free(e) : TRUE] = "queued"]

\* The peer's end of d is not there, or no longer: nothing n closes is noticed.
Alone(n, d) == end[Peer(n)][d] \in {"none", "closed"}

\* The ends after n's end of d is closed for good; an attempt with no end left
\* can be used again.
Closed(n, d) ==
    IF Alone(n, d)
    THEN [end EXCEPT ![Lo][d] = "none", ![Hi][d] = "none"]
    ELSE [end EXCEPT ![n][d] = "closed"]

\* What n had not read from d is lost; so is what it sent and nobody will read.
Unread(n, d) ==
    IF Alone(n, d)
    THEN [wire EXCEPT ![Lo][d] = {}, ![Hi][d] = {}]
    ELSE [wire EXCEPT ![Peer(n)][d] = {}]

\* The connection is closed at n's end, which the peer will notice.
Gone(n, d) == end[n][d] \in {"failed", "dying", "closed"}

\* The event has its natural cause, or is a fault taken from the budget.
CauseOr(cause) ==
    \/ cause /\ UNCHANGED faults
    \/ ~cause /\ faults < MaxFaults /\ faults' = faults + 1

Listening(n) == stop[n] = "run"

-----------------------------------------------------------------------------
(* The pending queue *)

\* now.After(m.deadline): the zero time.Time is before every clock reading.
NowAfter(m) == m.kind = "zero" \/ m.late

\* The loop's `remove' for one message.
Removed(m, removeZero) ==
    IF m.kind = "ctx"
    THEN m.late
    ELSE (m.kind = "zero" /\ removeZero) \/ NowAfter(m)

removeFailedMsg(n, removeZero) ==
    {m \in pending[n] : ~Removed(m, removeZero)}

Full(q) == Cardinality(q) >= MaxPendingMsgSize

\* Mutant: the queue is walked without removing what was sent.
onEstablish_KeepsQueue(n, d) ==
    /\ socket' = [socket EXCEPT ![n] = d]
    /\ wire' = [wire EXCEPT ![n][d] = {m.seq : m \in {x \in pending[n] : ~x.late}}]
    /\ UNCHANGED pending

\* Mutant: the entry before each message is sent.
onEstablish_OffByOne(n, d) ==
    /\ socket' = [socket EXCEPT ![n] = d]
    /\ wire' = [wire EXCEPT ![n][d] = {m.seq - 1 : m \in {x \in pending[n] : ~x.late}}]
    /\ pending' = [pending EXCEPT ![n] = {}]

\* n.socket becomes the new connection and the queue is flushed to it: all
\* messages but those whose deadline passed or whose context is done.
onEstablish(n, d) ==
    /\ socket' = [socket EXCEPT ![n] = d]
    /\ wire' = [wire EXCEPT ![n][d] = {m.seq : m \in {x \in pending[n] : ~x.late}}]
    /\ pending' = [pending EXCEPT ![n] = {}]

-----------------------------------------------------------------------------
(* Sending: sendMessage and sendMessageWithContext *)

\* With a socket, the record is unlocked and the message is sent afterwards.
CaptureSocket(n) ==
    /\ socket[n] # NoConn
    /\ sendingOn' = [sendingOn EXCEPT ![n] = socket[n]]
    /\ UNCHANGED <<pending, end, locked>>

\* What is left in the queue to make room for a message of kind k.
Kept(n, k) ==
    IF Full(pending[n]) /\ k # "zero" THEN removeFailedMsg(n, TRUE) ELSE pending[n]

\* No room: ErrPendingQueueFull is returned without unlocking the record.
RejectFull(n, k) ==
    /\ socket[n] = NoConn
    /\ Full(Kept(n, k))
    /\ pending' = [pending EXCEPT ![n] = Kept(n, k)]
    /\ locked' = [locked EXCEPT ![n] = TRUE]
    /\ UNCHANGED <<end, sendingOn>>

\* The message is queued; the one that makes the queue non-empty starts a dial.
Enqueue(n, k) ==
    /\ socket[n] = NoConn
    /\ ~Full(Kept(n, k))
    /\ pending' = [pending EXCEPT ![n] = Kept(n, k) \union
                      {[seq |-> sent[n] + 1, kind |-> k, late |-> FALSE]}]
    /\ IF Kept(n, k) = {}
       THEN Free(end) # {} /\ end' = NewDial(end, n)
       ELSE UNCHANGED end
    /\ UNCHANGED <<locked, sendingOn>>

\* The application of a node is one goroutine: it sends its messages in order.
SendMessage(n, k) ==
    /\ stop[n] \notin {"dead", "down"}
    /\ ~locked[n]
    /\ sendingOn[n] = NoConn
    /\ sent[n] < MaxMsg
    /\ sent' = [sent EXCEPT ![n] = @ + 1]
    /\ CaptureSocket(n) \/ RejectFull(n, k) \/ Enqueue(n, k)
    /\ UNCHANGED <<socket, wire, got, stop, addrVars, faults, restarts>>

\* Socket.Send on the captured socket: ErrSocketClosed if it died meanwhile.
SendOnSocket(n) ==
    /\ sendingOn[n] # NoConn
    /\ wire' = IF end[n][sendingOn[n]] = "est"
               THEN [wire EXCEPT ![n][sendingOn[n]] = @ \union {sent[n]}]
               ELSE wire
    /\ sendingOn' = [sendingOn EXCEPT ![n] = NoConn]
    /\ UNCHANGED <<pending, socket, locked, end, sent, got, stop, addrVars,
                   faults, restarts>>

\* Time passes: a queued message's deadline is reached or its context is done.
Expire(n, m) ==
    /\ m \in pending[n]
    /\ m.kind \in MayExpire
    /\ ~m.late
    /\ pending' = [pending EXCEPT ![n] = (@ \ {m}) \union {[m EXCEPT !.late = TRUE]}]
    /\ UNCHANGED <<socket, locked, end, wire, sendingOn, sent, got, stop,
                   addrVars, faults, restarts>>

-----------------------------------------------------------------------------
(* Dialing: dial, handshake, dialError, dialOK *)

\* dialer.Dial reached the peer's listener, and the handshake request is written.
Connect(n, d) ==
    /\ end[n][d] = "queued" /\ end[Peer(n)][d] = "none"
    /\ known[n] = netAddr[Peer(n)]
    /\ Listening(Peer(n))
    /\ end' = [end EXCEPT ![n][d] = "dialing", ![Peer(n)][d] = "accepting"]
    /\ hello' = [hello EXCEPT ![d] = netAddr[n]]
    /\ UNCHANGED <<pending, socket, locked, wire, sendingOn, sent, got, stop,
                   netAddr, known, moving, faults, restarts>>

\* dialer.Dial fails: nobody listens at that address, or a network fault.
ConnectFail(n, d) ==
    /\ end[n][d] = "queued"
    /\ CauseOr(known[n] # netAddr[Peer(n)] \/ ~Listening(Peer(n)))
    /\ end' = [end EXCEPT ![n][d] = "failed"]
    /\ UNCHANGED <<pending, socket, locked, wire, sendingOn, sent, got, stop,
                   addrVars, restarts>>

\* handshake fails: the peer closed the connection or its record is locked for
\* ever, or the answer takes more than a second; dial closes the connection.
HandshakeFail(n, d) ==
    /\ end[n][d] \in {"dialing", "answered"}
    /\ CauseOr(Gone(Peer(n), d) \/ locked[Peer(n)])
    /\ end' = [end EXCEPT ![n][d] = "failed"]
    /\ UNCHANGED <<pending, socket, locked, wire, sendingOn, sent, got, stop,
                   addrVars, restarts>>

\* Mutant: a failed dial is not retried.
Redial_Never(n, d, kept) == end' = Closed(n, d)

\* Messages left after a failed dial start a timer that dials again.
Redial(n, d, kept) ==
    IF kept = {}
    THEN end' = Closed(n, d)
    ELSE Free(Closed(n, d)) # {} /\ end' = NewDial(Closed(n, d), n)

\* With no socket, drop the failed messages and dial again if any are left.
dialError(n, d) ==
    /\ end[n][d] = "failed"
    /\ stop[n] # "dead"
    /\ ~locked[n]
    /\ LET kept == removeFailedMsg(n, FALSE)
       IN IF socket[n] = NoConn
          THEN /\ pending' = [pending EXCEPT ![n] = kept]
               /\ Redial(n, d, kept)
          ELSE end' = Closed(n, d) /\ UNCHANGED pending
    /\ wire' = Unread(n, d)
    /\ UNCHANGED <<socket, locked, sendingOn, sent, got, stop, addrVars, faults,
                   restarts>>

\* Mutant: the new connection replaces the one there is.
dialOK_Replaces(n, d) ==
    /\ end[n][d] = "answered"
    /\ stop[n] # "dead"
    /\ ~locked[n]
    /\ end' = [end EXCEPT ![n][d] = "est"]
    /\ onEstablish(n, d)
    /\ UNCHANGED <<locked, sendingOn, sent, got, stop, addrVars, faults, restarts>>

\* The handshake succeeded: use the connection unless there is already one.
dialOK(n, d) ==
    /\ end[n][d] = "answered"
    /\ stop[n] # "dead"
    /\ ~locked[n]
    /\ IF socket[n] # NoConn
       THEN /\ end' = Closed(n, d)
            /\ wire' = Unread(n, d)
            /\ UNCHANGED <<pending, socket>>
       ELSE /\ end' = [end EXCEPT ![n][d] = "est"]
            /\ onEstablish(n, d)
    /\ UNCHANGED <<locked, sendingOn, sent, got, stop, addrVars, faults, restarts>>

\* dial finds self.die closed: the connection, if any, is closed.
DialDie(n, d) ==
    /\ end[n][d] \in {"answered", "failed"}
    /\ stop[n] = "dead"
    /\ end' = Closed(n, d)
    /\ wire' = Unread(n, d)
    /\ UNCHANGED <<pending, socket, locked, sendingOn, sent, got, stop, addrVars,
                   faults, restarts>>

-----------------------------------------------------------------------------
(* Accepting: onNewConnection *)

\* The dialer's address is not the one the record holds (ErrNetAddrMismatch).
Mismatch(n, d) == known[n] # hello[d]

\* Mutants: both sides give up; neither side gives up.
Refuses_Both(n) == pending[n] # {} \/ socket[n] # NoConn

Refuses_Neither(n) == pending[n] = {} /\ socket[n] # NoConn

\* Both sides dial at the same time: the lower address does not accept.
\* Otherwise a node that has a socket refuses (ErrDuplicateConn).
Refuses(n) ==
    IF pending[n] # {} THEN n < Peer(n) ELSE socket[n] # NoConn

\* A dialer that still waits for the answer gets it.
Answered(phase) == IF phase = "dialing" THEN "answered" ELSE phase

Accept(n, d) ==
    /\ end[n][d] = "accepting"
    /\ ~Mismatch(n, d)
    /\ ~locked[n]
    /\ ~Refuses(n)
    /\ end' = [end EXCEPT ![n][d] = "est", ![Peer(n)][d] = Answered(end[Peer(n)][d])]
    /\ onEstablish(n, d)
    /\ UNCHANGED <<locked, sendingOn, sent, got, stop, addrVars, faults, restarts>>

\* The connection is closed without an answer: it is refused, reading the
\* request or writing the answer fails, or the dialer is gone.
Refuse(n, d) ==
    /\ end[n][d] = "accepting"
    /\ CauseOr(\/ Mismatch(n, d)
               \/ ~locked[n] /\ (Refuses(n) \/ Gone(Peer(n), d)))
    /\ end' = Closed(n, d)
    /\ wire' = Unread(n, d)
    /\ UNCHANGED <<pending, socket, locked, sendingOn, sent, got, stop, addrVars,
                   restarts>>

-----------------------------------------------------------------------------
(* The life of an established socket *)

\* Mutant: the message stays in the receive buffer.
Deliver_Keeps(n, d) ==
    /\ end[n][d] \in {"est", "dying"}
    /\ Len(got[n]) < MaxMsg
    /\ \E x \in wire[Peer(n)][d] : got' = [got EXCEPT ![n] = Append(@, x)]
    /\ UNCHANGED <<pending, socket, locked, end, wire, sendingOn, sent, stop, addrVars,
                   faults, restarts>>

\* The packet handler is given the next message; it may still run on a socket
\* that is closed, until the receive loop ends.
Deliver(n, d) ==
    LET w == wire[Peer(n)][d] IN
    /\ end[n][d] \in {"est", "dying"}
    /\ \E x \in w :
         /\ \A y \in w : x <= y
         /\ got' = [got EXCEPT ![n] = Append(@, x)]
         /\ wire' = [wire EXCEPT ![Peer(n)][d] = @ \ {x}]
    /\ UNCHANGED <<pending, socket, locked, end, sendingOn, sent, stop, addrVars,
                   faults, restarts>>

\* A loop of the socket fails on the connection and closes the socket.
ConnError(n, d) ==
    /\ end[n][d] = "est"
    /\ CauseOr(Gone(Peer(n), d))
    /\ end' = [end EXCEPT ![n][d] = "dying"]
    /\ UNCHANGED <<pending, socket, locked, wire, sendingOn, sent, got, stop,
                   addrVars, restarts>>

\* Both loops ended: the close callback clears n.socket, whatever it is by now.
CloseCallback(n, d) ==
    /\ end[n][d] = "dying"
    /\ ~locked[n]
    /\ socket' = [socket EXCEPT ![n] = NoConn]
    /\ end' = Closed(n, d)
    /\ wire' = Unread(n, d)
    /\ UNCHANGED <<pending, locked, sendingOn, sent, got, stop, addrVars, faults,
                   restarts>>

\* Socket.Close on the record's socket, if any, which is then cleared at once.
closeSocket(n) ==
    /\ ~locked[n]
    /\ end' = [end EXCEPT ![n] = [d \in Conn |->
                  IF d = socket[n] THEN "dying" ELSE @[d]]]
    /\ socket' = [socket EXCEPT ![n] = NoConn]

-----------------------------------------------------------------------------
(* Stop, crash and restart, and the peer's change of network address *)

\* Stop closes the listener; no new connection comes in.
StopListener(n) ==
    /\ n \in Stoppable
    /\ stop[n] = "run"
    /\ stop' = [stop EXCEPT ![n] = "stopping"]
    /\ UNCHANGED <<pending, socket, locked, end, wire, sendingOn, sent, got,
                   addrVars, faults, restarts>>

\* nodeCache.close
StopCloseSockets(n) ==
    /\ stop[n] = "stopping"
    /\ closeSocket(n)
    /\ stop' = [stop EXCEPT ![n] = "closed"]
    /\ UNCHANGED <<pending, locked, wire, sendingOn, sent, got, addrVars, faults,
                   restarts>>

\* close(s.die): Wait returns.
StopDie(n) ==
    /\ stop[n] = "closed"
    /\ stop' = [stop EXCEPT ![n] = "dead"]
    /\ UNCHANGED <<pending, socket, locked, end, wire, sendingOn, sent, got,
                   addrVars, faults, restarts>>

\* The process ends, at any point; the kernel closes its connections.
Crash(n) ==
    /\ stop[n] # "down"
    /\ restarts < MaxRestarts
    /\ restarts' = restarts + 1
    /\ stop' = [stop EXCEPT ![n] = "down"]
    /\ pending' = [pending EXCEPT ![n] = {}]
    /\ socket' = [socket EXCEPT ![n] = NoConn]
    /\ locked' = [locked EXCEPT ![n] = FALSE]
    /\ sendingOn' = [sendingOn EXCEPT ![n] = NoConn]
    /\ moving' = [moving EXCEPT ![n] = FALSE]
    /\ end' = [m \in Nodes |-> [d \in Conn |->
                 IF end[n][d] = "none" THEN end[m][d] ELSE Closed(n, d)[m][d]]]
    /\ wire' = [m \in Nodes |-> [d \in Conn |->
                 IF end[n][d] = "none" THEN wire[m][d] ELSE Unread(n, d)[m][d]]]
    /\ UNCHANGED <<sent, got, netAddr, known, hello, faults>>

\* The process starts again, at its old address or at a new one, and learns the
\* peer's address from the membership.
Restart(n, moved) ==
    /\ stop[n] = "down"
    /\ moved => Moves
    /\ stop' = [stop EXCEPT ![n] = "run"]
    /\ netAddr' = [netAddr EXCEPT ![n] = IF moved THEN @ + 1 ELSE @]
    /\ known' = [known EXCEPT ![n] = netAddr[Peer(n)]]
    /\ UNCHANGED <<pending, socket, locked, end, wire, sendingOn, sent, got,
                   moving, hello, faults, restarts>>

\* onNodeInfoUpdate with a new network address for the peer: the socket is
\* closed, then the record's address is replaced.
UpdateClose(n) ==
    /\ stop[n] = "run"
    /\ known[n] # netAddr[Peer(n)]
    /\ ~moving[n]
    /\ closeSocket(n)
    /\ moving' = [moving EXCEPT ![n] = TRUE]
    /\ UNCHANGED <<pending, locked, wire, sendingOn, sent, got, stop, netAddr,
                   known, hello, faults, restarts>>

UpdateNetAddr(n) ==
    /\ moving[n]
    /\ known' = [known EXCEPT ![n] = netAddr[Peer(n)]]
    /\ moving' = [moving EXCEPT ![n] = FALSE]
    /\ UNCHANGED <<pending, socket, locked, end, wire, sendingOn, sent, got, stop,
                   netAddr, hello, faults, restarts>>

-----------------------------------------------------------------------------
(* The specification *)

\* Steps of the goroutines that work on n's end of d.
EndStep(n, d) ==
    \/ Connect(n, d) \/ ConnectFail(n, d) \/ HandshakeFail(n, d)
    \/ dialError(n, d) \/ dialOK(n, d) \/ DialDie(n, d)
    \/ Accept(n, d) \/ Refuse(n, d)
    \/ Deliver(n, d) \/ ConnError(n, d) \/ CloseCallback(n, d)

NodeStep(n) ==
    \/ \E k \in Kinds : SendMessage(n, k)
    \/ SendOnSocket(n)
    \/ \E m \in pending[n] : Expire(n, m)
    \/ StopListener(n) \/ StopCloseSockets(n) \/ StopDie(n)
    \/ Crash(n)
    \/ \E moved \in BOOLEAN : Restart(n, moved)
    \/ UpdateClose(n) \/ UpdateNetAddr(n)

Next ==
    \E n \in Nodes : NodeStep(n) \/ \E d \in Conn : EndStep(n, d)

Spec == Init /\ [][Next]_vars

\* Goroutines, timers and the kernel make progress and the membership is read;
\* no fault, send, expiry, stop, crash or restart has to happen.
Fairness ==
    \A n \in Nodes :
      /\ WF_vars(SendOnSocket(n))
      /\ WF_vars(UpdateClose(n))
      /\ WF_vars(UpdateNetAddr(n))
      /\ \A d \in Conn : WF_vars(EndStep(n, d) /\ UNCHANGED faults)

FairSpec == Spec /\ Fairness

-----------------------------------------------------------------------------
(* Properties *)

\* A queue that holds messages has a dial on its way, so that it will be
\* flushed or retried: sendMessage dials only for the first message, so a dial
\* that ends without a retry (dialError, dialOK) would strand the others.
PendingHasDial ==
    \A n \in Nodes :
        pending[n] # {} /\ stop[n] # "dead" =>
            \E d \in Conn : end[n][d] \in DialPhases

\* While the record has a socket nothing waits in the queue: only onEstablish
\* empties it, so a message queued beside a socket would never be sent, and
\* onNewConnection, which looks at the socket only when the queue is empty,
\* would replace a working socket.
SocketExcludesPending ==
    \A n \in Nodes : socket[n] # NoConn => pending[n] = {}

\* Every established socket is the record's socket until its callback has run:
\* simultaneous dials, late handshakes and retries never leave a second
\* connection, or one the record has forgotten.
OneConnection ==
    \A n \in Nodes, d \in Conn :
        end[n][d] \in {"est", "dying"} => socket[n] = d

\* A message is handled at most once, across lost connections, simultaneous
\* dials and reconnections: it leaves the queue when it is handed to a socket
\* and no later dial or retry sends it again.
AtMostOnce ==
    \A n \in Nodes : \A i, j \in DOMAIN got[n] : got[n][i] = got[n][j] => i = j

\* No message stays in the queue for ever while the peer can be reached: it is
\* sent or dropped (comment of sendMessage on starting the dial).
Drained ==
    \A n \in Nodes :
        pending[n] # {} ~> \/ pending[n] = {}
                           \/ ~Listening(Peer(n))
                           \/ stop[n] = "dead"

\* As long as there is no fault and no deadline is reached every message arrives,
\* also when both nodes dial at the same time and one of the dials is refused.
EveryMessageArrives ==
    \A n \in Nodes, x \in 1..MaxMsg :
        sent[n] >= x ~> \/ faults > 0
                        \/ \E i \in DOMAIN got[Peer(n)] : got[Peer(n)][i] = x

\* dialError only drops messages whose deadline passed or whose context is done.
DialErrorDropsExpired ==
    [][\A n \in Nodes, d \in Conn :
          dialError(n, d) => \A m \in pending[n] : m \in pending'[n] \/ m.late]_vars

\* Once Stop is complete the node has no working connection.
DeadIsClosed ==
    \A n \in Nodes, d \in Conn : stop[n] = "dead" => end[n][d] # "est"

=============================================================================
