--------------------------- MODULE NodeLinkProofs ---------------------------
(***************************************************************************)
(* Proofs about NodeLink, for any two addresses, any set of connection     *)
(* identities and any values of the bounds.                                *)
(***************************************************************************)
EXTENDS NodeLink, TLAPS

-----------------------------------------------------------------------------
(* Lemmas about the operators on connection ends *)

\* Peer is the other node.
LEMMA PeerFact ==
    ASSUME NEW n \in Nodes
    PROVE  Peer(n) \in Nodes /\ Peer(n) # n /\ Nodes = {n, Peer(n)}
BY LinkAssumption DEF Nodes, Peer

\* Closing one end leaves every other end alone, but for forgetting a peer's
\* end that was already closed.
LEMMA ClosedFact ==
    ASSUME TypeOK, NEW n \in Nodes, NEW d \in Conn
    PROVE  /\ Closed(n, d) \in [Nodes -> [Conn -> Phases]]
           /\ Closed(n, d)[n][d] \in {"none", "closed"}
           /\ \A m \in Nodes, c \in Conn :
                 \/ m = n /\ c = d
                 \/ Closed(n, d)[m][c] = end[m][c]
                 \/ end[m][c] \in {"none", "closed"} /\ Closed(n, d)[m][c] = "none"
<1>1. Lo \in Nodes /\ Hi \in Nodes
  BY Zenon DEF Nodes
<1>2. CASE Alone(n, d)
  <2>1. Closed(n, d) = [end EXCEPT ![Lo][d] = "none", ![Hi][d] = "none"]
    BY <1>2, Zenon DEF Closed
  <2> DEFINE e1 == [end EXCEPT ![Lo][d] = "none"]
  <2>a. e1 \in [Nodes -> [Conn -> Phases]]
    BY <1>1, SMTT(30) DEF TypeOK, Phases
  <2>b. [e1 EXCEPT ![Hi][d] = "none"] \in [Nodes -> [Conn -> Phases]]
    BY <1>1, <2>a, Zenon DEF Phases
  <2>2. Closed(n, d) \in [Nodes -> [Conn -> Phases]]
    BY <2>1, <2>b, Zenon
  <2>3. \A m \in Nodes, c \in Conn :
           Closed(n, d)[m][c] = IF c = d THEN "none" ELSE end[m][c]
    BY <2>1, <1>1, LinkAssumption, SMTT(30) DEF TypeOK, Nodes
  <2> QED
    BY <2>2, <2>3, <1>2, PeerFact DEF Alone
<1>3. CASE ~Alone(n, d)
  <2>1. Closed(n, d) = [end EXCEPT ![n][d] = "closed"]
    BY <1>3, Zenon DEF Closed
  <2> QED
    BY <2>1 DEF TypeOK, Phases
<1> QED
  BY <1>2, <1>3, Zenon

\* What is left on the wires after closing one end.
LEMMA UnreadFact ==
    ASSUME TypeOK, NEW n \in Nodes, NEW d \in Conn
    PROVE  Unread(n, d) \in [Nodes -> [Conn -> SUBSET (1..MaxMsg)]]
BY PeerFact, Zenon DEF Unread, TypeOK, Nodes

\* A new dial takes one unused attempt and changes nothing else.
LEMMA NewDialFact ==
    ASSUME NEW e \in [Nodes -> [Conn -> Phases]], NEW n \in Nodes, Free(e) # {}
    PROVE  \E d \in Conn :
             /\ e[n][d] = "none"
             /\ NewDial(e, n) = [e EXCEPT ![n][d] = "queued"]
<1> DEFINE d == CHOOSE x \in Free(e) : TRUE
<1>1. d \in Free(e)
  BY Zenon
<1>2. d \in Conn /\ e[n][d] = "none"
  BY <1>1, Zenon DEF Free
<1> QED
  BY <1>2, Zenon DEF NewDial

\* A new dial keeps every attempt that is on its way.
LEMMA NewDialKeeps ==
    ASSUME NEW e \in [Nodes -> [Conn -> Phases]], NEW n \in Nodes, Free(e) # {}
    PROVE  /\ NewDial(e, n) \in [Nodes -> [Conn -> Phases]]
           /\ \E d \in Conn : NewDial(e, n)[n][d] = "queued"
           /\ \A m \in Nodes, c \in Conn :
                 \/ NewDial(e, n)[m][c] = e[m][c]
                 \/ e[m][c] = "none" /\ NewDial(e, n)[m][c] = "queued"
<1>1. PICK d \in Conn : /\ e[n][d] = "none"
                        /\ NewDial(e, n) = [e EXCEPT ![n][d] = "queued"]
  BY NewDialFact, Zenon
<1> QED
  BY <1>1 DEF Phases, DialPhases

\* onEstablish keeps the types of what it assigns.
LEMMA EstablishType ==
    ASSUME TypeOK, NEW n \in Nodes, NEW d \in Conn, onEstablish(n, d)
    PROVE  /\ socket' \in [Nodes -> Conn \union {NoConn}]
           /\ wire' \in [Nodes -> [Conn -> SUBSET (1..MaxMsg)]]
           /\ pending' \in [Nodes -> SUBSET Msgs]
<1> DEFINE flushed == {m.seq : m \in {x \in pending[n] : ~x.late}}
<1>1. flushed \in SUBSET (1..MaxMsg)
  BY DEF TypeOK, Msgs
<1>2. wire' = [wire EXCEPT ![n][d] = flushed]
  BY Zenon DEF onEstablish
<1> HIDE DEF flushed
<1>3. wire' \in [Nodes -> [Conn -> SUBSET (1..MaxMsg)]]
  BY <1>1, <1>2, Zenon DEF TypeOK
<1> QED
  BY <1>3, Zenon DEF TypeOK, onEstablish

-----------------------------------------------------------------------------
(* Type correctness *)

\* The initial state is well typed.
LEMMA InitType == Init => TypeOK
BY LinkAssumption DEF Init, TypeOK, Phases, StopPhases

\* Every variable keeps its type, whatever the interleaving.
THEOREM TypeCorrect == Spec => []TypeOK
<1>1. Init => TypeOK
  BY InitType, Zenon
<1>2. TypeOK /\ [Next]_vars => TypeOK'
  <2> SUFFICES ASSUME TypeOK, [Next]_vars
               PROVE  TypeOK'
    BY Zenon
  <2>1. CASE UNCHANGED vars
    BY <2>1, Zenon DEF TypeOK, vars
  <2>2. ASSUME NEW n \in Nodes, NodeStep(n)
        PROVE  TypeOK'
    <3>1. ASSUME NEW k \in Kinds, SendMessage(n, k)
          PROVE  TypeOK'
      <4> DEFINE new == [seq |-> sent[n] + 1, kind |-> k, late |-> FALSE]
      <4>1. sent[n] + 1 \in 1..MaxMsg /\ sent' = [sent EXCEPT ![n] = @ + 1]
        BY <3>1, LinkAssumption DEF SendMessage, TypeOK
      <4>2. new \in Msgs
        BY <4>1, LinkAssumption, Zenon DEF Msgs
      <4>3. Kept(n, k) \in SUBSET Msgs
        BY Zenon DEF Kept, removeFailedMsg, TypeOK
      <4>4. CASE CaptureSocket(n)
        <5>1. sent' \in [Nodes -> 0..MaxMsg] /\ \A m \in Nodes : sent'[m] >= sent[m]
          BY <4>1, LinkAssumption DEF TypeOK
        <5>2. sent'[n] > 0
          BY <4>1, LinkAssumption DEF TypeOK
        <5>3. sendingOn' = [sendingOn EXCEPT ![n] = socket[n]]
          BY <4>4, Zenon DEF CaptureSocket
        <5>4. sendingOn' \in [Nodes -> Conn \union {NoConn}]
          BY <5>3, Zenon DEF TypeOK
        <5>5. \A m \in Nodes : sendingOn'[m] # NoConn => sent'[m] > 0
          BY <5>1, <5>2, <5>3, LinkAssumption DEF TypeOK
        <5>6. UNCHANGED <<pending, end, locked, socket, wire, got, stop, netAddr, known,
                          moving, hello, faults, restarts>>
          BY <3>1, <4>4, Zenon DEF CaptureSocket, SendMessage, addrVars
        <5> QED
          BY <5>1, <5>4, <5>5, <5>6, Zenon DEF TypeOK
      <4>5. CASE RejectFull(n, k)
        BY <3>1, <4>1, <4>3, <4>5 DEF RejectFull, SendMessage, TypeOK, addrVars
      <4>6. CASE Enqueue(n, k)
        <5>1. end' \in [Nodes -> [Conn -> Phases]]
          <6>1. end \in [Nodes -> [Conn -> Phases]]
            BY Zenon DEF TypeOK
          <6>2. CASE UNCHANGED end
            BY <6>1, <6>2, Zenon
          <6>3. CASE Free(end) # {} /\ end' = NewDial(end, n)
            BY <6>1, <6>3, NewDialKeeps, Zenon
          <6> QED
            BY <4>6, <6>2, <6>3, Zenon DEF Enqueue
        <5>2. pending' = [pending EXCEPT ![n] = Kept(n, k) \union {new}]
          BY <4>6, Zenon DEF Enqueue
        <5> HIDE DEF new
        <5>3. pending' \in [Nodes -> SUBSET Msgs]
          BY <4>2, <4>3, <5>2, Zenon DEF TypeOK
        <5> QED
          BY <3>1, <4>1, <4>6, <5>1, <5>3 DEF Enqueue, SendMessage, TypeOK, addrVars
      <4> QED
        BY <3>1, <4>4, <4>5, <4>6, Zenon DEF SendMessage
    <3>2. CASE SendOnSocket(n)
      <4>1. sendingOn[n] \in Conn /\ sent[n] \in 1..MaxMsg
        BY <3>2, LinkAssumption DEF SendOnSocket, TypeOK
      <4>2. wire' \in [Nodes -> [Conn -> SUBSET (1..MaxMsg)]]
        BY <3>2, <4>1 DEF SendOnSocket, TypeOK
      <4> QED
        BY <3>2, <4>2, Zenon DEF SendOnSocket, TypeOK, addrVars
    <3>3. ASSUME NEW m \in pending[n], Expire(n, m)
          PROVE  TypeOK'
      <4> DEFINE late == [m EXCEPT !.late = TRUE]
      <4>1. m \in Msgs
        BY Zenon DEF TypeOK
      <4>2. late \in Msgs
        BY <4>1, Zenon DEF Msgs
      <4>3. pending' = [pending EXCEPT ![n] = (@ \ {m}) \union {late}]
        BY <3>3, Zenon DEF Expire
      <4> HIDE DEF late
      <4>4. pending' \in [Nodes -> SUBSET Msgs]
        BY <4>2, <4>3, Zenon DEF TypeOK
      <4> QED
        BY <3>3, <4>4, Zenon DEF Expire, TypeOK, addrVars
    <3>4. CASE StopListener(n)
      BY <3>4, Zenon DEF StopListener, TypeOK, addrVars, StopPhases
    <3>5. CASE StopCloseSockets(n)
      BY <3>5, Zenon DEF StopCloseSockets, closeSocket, TypeOK, addrVars, StopPhases, Phases
    <3>6. CASE StopDie(n)
      BY <3>6, Zenon DEF StopDie, TypeOK, addrVars, StopPhases
    <3>7. CASE Crash(n)
      <4>1. end' \in [Nodes -> [Conn -> Phases]]
        <5>1. ASSUME NEW m \in Nodes, NEW d \in Conn
              PROVE  (IF end[n][d] = "none" THEN end[m][d] ELSE Closed(n, d)[m][d]) \in Phases
          <6>1. end[m][d] \in Phases
            BY Zenon DEF TypeOK
          <6>2. Closed(n, d)[m][d] \in Phases
            BY ClosedFact
          <6> QED
            BY <6>1, <6>2, Zenon
        <5>2. end' = [m \in Nodes |-> [d \in Conn |->
                        IF end[n][d] = "none" THEN end[m][d] ELSE Closed(n, d)[m][d]]]
          BY <3>7, Zenon DEF Crash
        <5> QED
          BY <5>1, <5>2, Zenon
      <4>2. wire' \in [Nodes -> [Conn -> SUBSET (1..MaxMsg)]]
        <5>1. ASSUME NEW m \in Nodes, NEW d \in Conn
              PROVE  (IF end[n][d] = "none" THEN wire[m][d] ELSE Unread(n, d)[m][d])
                        \in SUBSET (1..MaxMsg)
          <6>1. wire[m][d] \in SUBSET (1..MaxMsg)
            BY DEF TypeOK
          <6>2. Unread(n, d)[m][d] \in SUBSET (1..MaxMsg)
            BY UnreadFact
          <6> QED
            BY <6>1, <6>2, Zenon
        <5>2. wire' = [m \in Nodes |-> [d \in Conn |->
                        IF end[n][d] = "none" THEN wire[m][d] ELSE Unread(n, d)[m][d]]]
          BY <3>7, Zenon DEF Crash
        <5> QED
          BY <5>1, <5>2, Zenon
      <4> QED
        <5>1. restarts' \in 0..MaxRestarts
          BY <3>7, LinkAssumption DEF Crash, TypeOK
        <5> QED
          BY <3>7, <4>1, <4>2, <5>1, SMTT(30) DEF Crash, TypeOK, StopPhases
    <3>8. ASSUME NEW moved \in BOOLEAN, Restart(n, moved)
          PROVE  TypeOK'
      <4>1. netAddr' \in [Nodes -> Nat]
        BY <3>8 DEF Restart, TypeOK
      <4>2. known' \in [Nodes -> Nat]
        BY <3>8, PeerFact, Zenon DEF Restart, TypeOK
      <4> QED
        BY <3>8, <4>1, <4>2, SMTT(30) DEF Restart, TypeOK, StopPhases
    <3>9. CASE UpdateClose(n)
      BY <3>9, Zenon DEF UpdateClose, closeSocket, TypeOK, Phases
    <3>10. CASE UpdateNetAddr(n)
      BY <3>10, PeerFact, SMTT(30) DEF UpdateNetAddr, TypeOK
    <3> QED
      BY <2>2, <3>1, <3>2, <3>3, <3>4, <3>5, <3>6, <3>7, <3>8, <3>9, <3>10, Zenon
      DEF NodeStep
  <2>3. ASSUME NEW n \in Nodes, NEW d \in Conn, EndStep(n, d)
        PROVE  TypeOK'
    <3>a. Closed(n, d) \in [Nodes -> [Conn -> Phases]]
      BY ClosedFact, Zenon
    <3>b. Unread(n, d) \in [Nodes -> [Conn -> SUBSET (1..MaxMsg)]]
      BY UnreadFact, Zenon
    <3>1. CASE Connect(n, d)
      <4> DEFINE e1 == [end EXCEPT ![n][d] = "dialing"]
      <4>1. e1 \in [Nodes -> [Conn -> Phases]]
        BY Zenon DEF TypeOK, Phases, DialPhases
      <4>2. [e1 EXCEPT ![Peer(n)][d] = "accepting"] \in [Nodes -> [Conn -> Phases]]
        BY <4>1, PeerFact, Zenon DEF Phases
      <4>3. end' = [e1 EXCEPT ![Peer(n)][d] = "accepting"]
        BY <3>1, Zenon DEF Connect
      <4>4. hello' \in [Conn -> Nat]
        BY <3>1, Zenon DEF Connect, TypeOK
      <4>5. UNCHANGED <<pending, socket, locked, wire, sendingOn, sent, got, stop,
                        netAddr, known, moving, faults, restarts>>
        BY <3>1, Zenon DEF Connect
      <4>6. end' \in [Nodes -> [Conn -> Phases]]
        BY <4>2, <4>3, Zenon
      <4> HIDE DEF e1
      <4> QED
        BY <4>4, <4>5, <4>6, Zenon DEF TypeOK
    <3>2. CASE ConnectFail(n, d)
      BY <3>2, LinkAssumption DEF ConnectFail, CauseOr, TypeOK, Phases, DialPhases, addrVars
    <3>3. CASE HandshakeFail(n, d)
      BY <3>3, LinkAssumption DEF HandshakeFail, CauseOr, TypeOK, Phases, DialPhases, addrVars
    <3>4. CASE dialError(n, d)
      <4>1. removeFailedMsg(n, FALSE) \in SUBSET Msgs
        BY Zenon DEF removeFailedMsg, TypeOK
      <4>2. pending' \in [Nodes -> SUBSET Msgs]
        BY <3>4, <4>1, Zenon DEF dialError, TypeOK
      <4>3. end' \in [Nodes -> [Conn -> Phases]]
        <5>1. CASE end' = Closed(n, d)
          BY <5>1, <3>a, Zenon
        <5>2. CASE Free(Closed(n, d)) # {} /\ end' = NewDial(Closed(n, d), n)
          BY <5>2, <3>a, NewDialKeeps, Zenon
        <5> QED
          BY <3>4, <5>1, <5>2, Zenon DEF dialError, Redial
      <4> QED
        BY <3>4, <4>2, <4>3, <3>b, Zenon DEF dialError, TypeOK, addrVars
    <3>5. CASE dialOK(n, d)
      <4>1. CASE socket[n] # NoConn
        <5>1. end' = Closed(n, d) /\ wire' = Unread(n, d) /\ UNCHANGED <<pending, socket>>
          BY <3>5, <4>1, Zenon DEF dialOK
        <5> QED
          BY <3>5, <5>1, <3>a, <3>b, Zenon DEF dialOK, TypeOK, addrVars
      <4>2. CASE socket[n] = NoConn
        <5>0. end' = [end EXCEPT ![n][d] = "est"] /\ onEstablish(n, d)
          BY <3>5, <4>2, Zenon DEF dialOK
        <5>1. end' \in [Nodes -> [Conn -> Phases]]
          BY <5>0, Zenon DEF TypeOK, Phases
        <5> QED
          BY <3>5, <5>0, <5>1, EstablishType, Zenon DEF dialOK, TypeOK, addrVars
      <4> QED
        BY <4>1, <4>2, Zenon
    <3>6. CASE DialDie(n, d)
      BY <3>6, <3>a, <3>b, Zenon DEF DialDie, TypeOK, addrVars
    <3>7. CASE Accept(n, d)
      <4> DEFINE q == Answered(end[Peer(n)][d])
      <4>a. q \in Phases
        BY PeerFact DEF Answered, TypeOK, Phases, DialPhases
      <4>0. end' = [end EXCEPT ![n][d] = "est", ![Peer(n)][d] = q]
        BY <3>7, Zenon DEF Accept
      <4> HIDE DEF q
      <4>1. end' \in [Nodes -> [Conn -> Phases]]
        <5> DEFINE e1 == [end EXCEPT ![n][d] = "est"]
        <5>1. e1 \in [Nodes -> [Conn -> Phases]]
          BY Zenon DEF TypeOK, Phases
        <5>2. [e1 EXCEPT ![Peer(n)][d] = q] \in [Nodes -> [Conn -> Phases]]
          BY <4>a, <5>1, PeerFact, Zenon
        <5> QED
          BY <4>0, <5>2, Zenon
      <4> QED
        BY <3>7, <4>1, EstablishType, Zenon DEF Accept, TypeOK, addrVars
    <3>8. CASE Refuse(n, d)
      <4>1. faults' \in 0..MaxFaults
        BY <3>8, LinkAssumption DEF Refuse, CauseOr, TypeOK
      <4> QED
        BY <3>8, <4>1, <3>a, <3>b, Zenon DEF Refuse, TypeOK, addrVars
    <3>9. CASE Deliver(n, d)
      <4>1. PICK x \in wire[Peer(n)][d] :
               /\ got' = [got EXCEPT ![n] = Append(@, x)]
               /\ wire' = [wire EXCEPT ![Peer(n)][d] = @ \ {x}]
        BY <3>9, Zenon DEF Deliver
      <4>2. x \in 1..MaxMsg
        BY PeerFact DEF TypeOK
      <4>3. got' \in [Nodes -> Seq(1..MaxMsg)]
        BY <4>1, <4>2 DEF TypeOK
      <4>4. wire' \in [Nodes -> [Conn -> SUBSET (1..MaxMsg)]]
        BY <4>1, PeerFact DEF TypeOK
      <4> QED
        BY <3>9, <4>3, <4>4, Zenon DEF Deliver, TypeOK, addrVars
    <3>10. CASE ConnError(n, d)
      BY <3>10, LinkAssumption, SMTT(30) DEF ConnError, CauseOr, TypeOK, Phases, addrVars
    <3>11. CASE CloseCallback(n, d)
      BY <3>11, <3>a, <3>b, Zenon DEF CloseCallback, TypeOK, addrVars
    <3> QED
      BY <2>3, <3>1, <3>2, <3>3, <3>4, <3>5, <3>6, <3>7, <3>8, <3>9, <3>10, <3>11, Zenon
      DEF EndStep
  <2> QED
    BY <2>1, <2>2, <2>3, Zenon DEF Next
<1> QED
  BY <1>1, <1>2, PTL DEF Spec

-----------------------------------------------------------------------------
(* The pending queue *)

\* The two facts about the queue are inductive only together: dialOK closes its
\* connection and starts nothing when the record has a socket, which is right
\* because the queue is empty then.
QueueInv == TypeOK /\ SocketExcludesPending /\ PendingHasDial

\* The queue invariant is kept by every step of the application, of Stop, of a
\* crash or restart and of an address change.
LEMMA QueueNodeStep ==
    ASSUME QueueInv, TypeOK', NEW n \in Nodes, NodeStep(n)
    PROVE  SocketExcludesPending' /\ PendingHasDial'
<1> USE DEF QueueInv
<1>0. end \in [Nodes -> [Conn -> Phases]] /\ pending \in [Nodes -> SUBSET Msgs]
  BY Zenon DEF TypeOK
<1>1. ASSUME NEW k \in Kinds, SendMessage(n, k)
      PROVE  SocketExcludesPending' /\ PendingHasDial'
  <2>0. UNCHANGED <<socket, stop>>
    BY <1>1, Zenon DEF SendMessage
  <2>1. Kept(n, k) \subseteq pending[n]
    BY Zenon DEF Kept, removeFailedMsg
  <2>2. CASE CaptureSocket(n)
    BY <2>0, <2>2, Zenon DEF CaptureSocket, SocketExcludesPending, PendingHasDial
  <2>3. CASE RejectFull(n, k)
    <3>1. UNCHANGED end /\ \A m \in Nodes : pending'[m] \subseteq pending[m]
      BY <1>0, <2>1, <2>3, Zenon DEF RejectFull
    <3> QED
      BY <2>0, <3>1, Zenon DEF SocketExcludesPending, PendingHasDial
  <2>4. CASE Enqueue(n, k)
    <3>1. socket[n] = NoConn /\ \A m \in Nodes \ {n} : pending'[m] = pending[m]
      BY <1>0, <2>4, Zenon DEF Enqueue
    <3>2. SocketExcludesPending'
      BY <2>0, <3>1, Zenon DEF SocketExcludesPending
    <3>3. CASE Kept(n, k) = {}
      <4>1. Free(end) # {} /\ end' = NewDial(end, n)
        BY <2>4, <3>3, Zenon DEF Enqueue
      <4>2. \E d \in Conn : end'[n][d] = "queued"
        BY <1>0, <4>1, NewDialKeeps
      <4>3. \A m \in Nodes, c \in Conn : end[m][c] \in DialPhases => end'[m][c] \in DialPhases
        BY <1>0, <4>1, NewDialKeeps DEF DialPhases
      <4> QED
        BY <2>0, <3>1, <3>2, <4>2, <4>3, SMTT(30) DEF PendingHasDial, DialPhases
    <3>4. CASE Kept(n, k) # {}
      <4>1. UNCHANGED end /\ pending[n] # {}
        BY <2>1, <2>4, <3>4, Zenon DEF Enqueue
      <4> QED
        BY <2>0, <3>1, <3>2, <4>1, Zenon DEF PendingHasDial
    <3> QED
      BY <3>3, <3>4, Zenon
  <2> QED
    BY <1>1, <2>2, <2>3, <2>4, Zenon DEF SendMessage
<1>2. CASE SendOnSocket(n)
  BY <1>2, Zenon DEF SendOnSocket, SocketExcludesPending, PendingHasDial
<1>3. ASSUME NEW m \in pending[n], Expire(n, m)
      PROVE  SocketExcludesPending' /\ PendingHasDial'
  <2>1. UNCHANGED <<socket, end, stop>> /\ \A x \in Nodes \ {n} : pending'[x] = pending[x]
    BY <1>0, <1>3, Zenon DEF Expire
  <2>2. pending[n] # {}
    BY <1>3, Zenon
  <2> QED
    BY <2>1, <2>2, Zenon DEF SocketExcludesPending, PendingHasDial
<1>4. CASE StopListener(n)
  BY <1>4, Zenon DEF StopListener, SocketExcludesPending, PendingHasDial, TypeOK
<1>5. ASSUME closeSocket(n), UNCHANGED pending,
             \A x \in Nodes : stop'[x] # "dead" => stop[x] # "dead"
      PROVE  SocketExcludesPending' /\ PendingHasDial'
  <2>1. SocketExcludesPending'
    BY <1>5, Zenon DEF closeSocket, SocketExcludesPending, TypeOK
  <2>2. pending[n] # {} => socket[n] = NoConn
    BY Zenon DEF SocketExcludesPending
  <2>3. pending[n] # {} => \A x \in Nodes, c \in Conn : end'[x][c] = end[x][c]
    BY <1>0, <1>5, <2>2, LinkAssumption, Zenon DEF closeSocket
  <2>4. \A x \in Nodes \ {n}, c \in Conn : end'[x][c] = end[x][c]
    BY <1>0, <1>5, SMTT(30) DEF closeSocket
  <2> QED
    BY <1>5, <2>1, <2>3, <2>4, Zenon DEF PendingHasDial
<1>6. CASE StopCloseSockets(n)
  BY <1>5, <1>6, Zenon DEF StopCloseSockets, TypeOK
<1>7. CASE StopDie(n)
  BY <1>7, Zenon DEF StopDie, SocketExcludesPending, PendingHasDial, TypeOK
<1>8. CASE Crash(n)
  <2>1. pending' = [pending EXCEPT ![n] = {}] /\ socket' = [socket EXCEPT ![n] = NoConn]
        /\ stop' = [stop EXCEPT ![n] = "down"]
    BY <1>8, Zenon DEF Crash
  <2>2. \A x \in Nodes \ {n}, c \in Conn : end[x][c] \in DialPhases => end'[x][c] = end[x][c]
    <3> SUFFICES ASSUME NEW x \in Nodes \ {n}, NEW c \in Conn, end[x][c] \in DialPhases
                 PROVE  end'[x][c] = end[x][c]
      BY Zenon
    <3>1. Closed(n, c)[x][c] = end[x][c]
      BY ClosedFact, SMTT(30) DEF DialPhases
    <3> QED
      BY <1>8, <3>1, Zenon DEF Crash
  <2>3. SocketExcludesPending'
    BY <2>1, SMTT(30) DEF SocketExcludesPending, TypeOK
  <2>4. \A x \in Nodes : pending'[x] # {} /\ stop'[x] # "dead" =>
           x # n /\ pending[x] # {} /\ stop[x] # "dead"
    BY <1>0, <2>1, SMTT(30) DEF TypeOK
  <2>5. PendingHasDial'
    BY <2>2, <2>4, Zenon DEF PendingHasDial
  <2> QED
    BY <2>3, <2>5, Zenon
<1>9. ASSUME NEW moved \in BOOLEAN, Restart(n, moved)
      PROVE  SocketExcludesPending' /\ PendingHasDial'
  BY <1>9, Zenon DEF Restart, SocketExcludesPending, PendingHasDial, TypeOK
<1>10. CASE UpdateClose(n)
  BY <1>5, <1>10, Zenon DEF UpdateClose
<1>11. CASE UpdateNetAddr(n)
  BY <1>11, Zenon DEF UpdateNetAddr, SocketExcludesPending, PendingHasDial
<1> QED
  BY <1>1, <1>2, <1>3, <1>4, <1>6, <1>7, <1>8, <1>9, <1>10, <1>11, Zenon DEF NodeStep

\* The queue invariant is kept by every step on an end of a connection.
LEMMA QueueEndStep ==
    ASSUME QueueInv, TypeOK', NEW n \in Nodes, NEW d \in Conn, EndStep(n, d)
    PROVE  SocketExcludesPending' /\ PendingHasDial'
<1> USE DEF QueueInv
<1>0. /\ end \in [Nodes -> [Conn -> Phases]]
      /\ pending \in [Nodes -> SUBSET Msgs]
      /\ socket \in [Nodes -> Conn \union {NoConn}]
  BY SMTT(30) DEF TypeOK
\* Closing an end of a node whose queue is empty does no harm to the other.
<1>1. ASSUME end' = Closed(n, d), UNCHANGED stop,
             \A x \in Nodes : pending'[x] \subseteq pending[x],
             pending'[n] = {} \/ stop[n] = "dead" \/ end[n][d] \notin DialPhases
      PROVE  PendingHasDial'
  <2>1. \A x \in Nodes, c \in Conn :
           end[x][c] \in DialPhases => end'[x][c] = end[x][c] \/ (x = n /\ c = d)
    <3> SUFFICES ASSUME NEW x \in Nodes, NEW c \in Conn, end[x][c] \in DialPhases,
                        ~(x = n /\ c = d)
                 PROVE  end'[x][c] = end[x][c]
      BY Zenon
    <3>1. end[x][c] \notin {"none", "closed"}
      BY Zenon DEF DialPhases
    <3> QED
      BY <1>1, <3>1, ClosedFact
  <2> QED
    BY <1>1, <2>1, Zenon DEF PendingHasDial
\* A socket is put in place and the queue is flushed.
<1>2. ASSUME onEstablish(n, d), UNCHANGED stop,
             \A x \in Nodes \ {n}, c \in Conn : end[x][c] \in DialPhases => end'[x][c] \in DialPhases
      PROVE  SocketExcludesPending' /\ PendingHasDial'
  <2>1. pending'[n] = {} /\ \A x \in Nodes \ {n} : UNCHANGED <<pending[x], socket[x]>>
    BY <1>0, <1>2, Zenon DEF onEstablish
  <2> QED
    BY <1>2, <2>1, Zenon DEF SocketExcludesPending, PendingHasDial
<1>3. CASE Connect(n, d)
  <2>1. \A x \in Nodes, c \in Conn : end[x][c] \in DialPhases => end'[x][c] \in DialPhases
    BY <1>0, <1>3, PeerFact DEF Connect, DialPhases
  <2>2. UNCHANGED <<pending, socket, stop>>
    BY <1>3, SMTT(30) DEF Connect
  <2> QED
    BY <2>1, <2>2, SMTT(30) DEF SocketExcludesPending, PendingHasDial
<1>4. CASE ConnectFail(n, d)
  BY <1>0, <1>4, Zenon DEF ConnectFail, SocketExcludesPending, PendingHasDial, DialPhases
<1>5. CASE HandshakeFail(n, d)
  BY <1>0, <1>5, Zenon DEF HandshakeFail, SocketExcludesPending, PendingHasDial, DialPhases
<1>6. CASE dialError(n, d)
  <2>1. UNCHANGED <<socket, stop>> /\ \A x \in Nodes : pending'[x] \subseteq pending[x]
    BY <1>0, <1>6, Zenon DEF dialError, Redial, removeFailedMsg
  <2>2. SocketExcludesPending'
    BY <2>1, Zenon DEF SocketExcludesPending
  <2>3. CASE end' = Closed(n, d) /\ pending'[n] = {}
    BY <1>1, <2>1, <2>2, <2>3, Zenon
  <2>4. CASE Free(Closed(n, d)) # {} /\ end' = NewDial(Closed(n, d), n)
    <3>1. Closed(n, d) \in [Nodes -> [Conn -> Phases]]
      BY ClosedFact, SMTT(30)
    <3>2. \E c \in Conn : end'[n][c] = "queued"
      BY <2>4, <3>1, NewDialKeeps
    <3>3. \A x \in Nodes \ {n}, c \in Conn : end[x][c] \in DialPhases => Closed(n, d)[x][c] = end[x][c]
      BY ClosedFact DEF DialPhases
    <3>4. \A x \in Nodes \ {n}, c \in Conn : end[x][c] \in DialPhases => end'[x][c] \in DialPhases
      BY <2>4, <3>1, <3>3, NewDialKeeps DEF DialPhases
    <3> QED
      BY <2>1, <2>2, <3>2, <3>4, Zenon DEF PendingHasDial, DialPhases
  <2> QED
    BY <1>0, <1>6, <2>3, <2>4, Zenon DEF dialError, Redial, SocketExcludesPending
<1>7. CASE dialOK(n, d)
  <2>1. CASE socket[n] # NoConn
    <3>1. end' = Closed(n, d) /\ UNCHANGED <<pending, socket, stop>>
      BY <1>7, <2>1, Zenon DEF dialOK
    <3>2. pending[n] = {}
      BY <2>1, Zenon DEF SocketExcludesPending
    <3> QED
      BY <1>1, <3>1, <3>2, Zenon DEF SocketExcludesPending
  <2>2. CASE socket[n] = NoConn
    <3>1. end' = [end EXCEPT ![n][d] = "est"] /\ onEstablish(n, d) /\ UNCHANGED stop
      BY <1>7, <2>2, SMTT(30) DEF dialOK
    <3> QED
      BY <1>0, <1>2, <3>1, Zenon
  <2> QED
    BY <2>1, <2>2, Zenon
<1>8. CASE DialDie(n, d)
  BY <1>1, <1>8, Zenon DEF DialDie, SocketExcludesPending
<1>9. CASE Accept(n, d)
  <2>1. end' = [end EXCEPT ![n][d] = "est", ![Peer(n)][d] = Answered(end[Peer(n)][d])]
        /\ onEstablish(n, d) /\ UNCHANGED stop
    BY <1>9, Zenon DEF Accept
  <2>2. \A x \in Nodes \ {n}, c \in Conn : end[x][c] \in DialPhases => end'[x][c] \in DialPhases
    BY <1>0, <2>1, PeerFact DEF Answered, DialPhases
  <2> QED
    BY <1>2, <2>1, <2>2, Zenon
<1>10. CASE Refuse(n, d)
  BY <1>1, <1>10, Zenon DEF Refuse, SocketExcludesPending, DialPhases
<1>11. CASE Deliver(n, d)
  BY <1>11, Zenon DEF Deliver, SocketExcludesPending, PendingHasDial
<1>12. CASE ConnError(n, d)
  BY <1>0, <1>12, Zenon DEF ConnError, SocketExcludesPending, PendingHasDial, DialPhases
<1>13. CASE CloseCallback(n, d)
  <2>1. SocketExcludesPending'
    BY <1>0, <1>13, Zenon DEF CloseCallback, SocketExcludesPending
  <2> QED
    BY <1>1, <1>13, <2>1, Zenon DEF CloseCallback, DialPhases
<1> QED
  BY <1>3, <1>4, <1>5, <1>6, <1>7, <1>8, <1>9, <1>10, <1>11, <1>12, <1>13, Zenon DEF EndStep

\* No queue is stranded: whatever the interleaving of sends, dials, handshakes,
\* losses, crashes and address changes, a queue that holds messages has a dial
\* on its way, and no queue holds messages beside a socket.
THEOREM QueueSafe == Spec => [](SocketExcludesPending /\ PendingHasDial)
<1>1. Init => QueueInv
  <2>1. Init => TypeOK
    BY InitType, Zenon
  <2> QED
    BY <2>1, Zenon DEF Init, QueueInv, SocketExcludesPending, PendingHasDial
<1>2. QueueInv /\ TypeOK' /\ [Next]_vars => QueueInv'
  <2> SUFFICES ASSUME QueueInv, TypeOK', [Next]_vars
               PROVE  QueueInv'
    BY Zenon
  <2>1. CASE UNCHANGED vars
    BY <2>1, Zenon DEF QueueInv, vars, TypeOK, SocketExcludesPending, PendingHasDial
  <2>2. CASE Next
    BY <2>2, QueueNodeStep, QueueEndStep, Zenon DEF Next, QueueInv
  <2> QED
    BY <2>1, <2>2, Zenon
<1>3. QueueInv => SocketExcludesPending /\ PendingHasDial
  BY Zenon DEF QueueInv
<1> QED
  BY <1>1, <1>2, <1>3, TypeCorrect, PTL DEF Spec

\* The flush of onEstablish is never needed twice: while a record has a socket its
\* queue is empty.
THEOREM SocketEmptiesQueue == Spec => []SocketExcludesPending
BY QueueSafe, PTL

-----------------------------------------------------------------------------
(* One connection *)

\* While nothing calls closeSocket, no node stops and no address changes.
Settled ==
    \A n \in Nodes : /\ stop[n] \in {"run", "down"}
                     /\ netAddr[n] = 0 /\ known[n] = 0 /\ ~moving[n]

ConnInv == TypeOK /\ SocketExcludesPending /\ OneConnection /\ Settled

Open == {"est", "dying"}

\* A step that opens no end and leaves the socket of every open end in place
\* keeps OneConnection.
LEMMA NothingOpened ==
    ASSUME OneConnection,
           \A m \in Nodes, c \in Conn :
              end'[m][c] \in Open => end[m][c] \in Open /\ socket'[m] = socket[m]
    PROVE  OneConnection'
BY Zenon DEF OneConnection, Open

\* Closing an end opens none.
LEMMA ClosedOpensNone ==
    ASSUME TypeOK, NEW n \in Nodes, NEW d \in Conn, NEW m \in Nodes, NEW c \in Conn,
           Closed(n, d)[m][c] \in Open
    PROVE  end[m][c] \in Open /\ ~(m = n /\ c = d)
<1>1. Closed(n, d)[m][c] # "none" /\ Closed(n, d)[m][c] # "closed"
  BY Zenon DEF Open
<1>2. ~(m = n /\ c = d)
  BY <1>1, ClosedFact
<1>3. Closed(n, d)[m][c] = end[m][c]
  BY <1>1, <1>2, ClosedFact
<1> QED
  BY <1>2, <1>3, Zenon

\* Starting a dial opens none.
LEMMA NewDialOpensNone ==
    ASSUME NEW e \in [Nodes -> [Conn -> Phases]], NEW n \in Nodes, Free(e) # {},
           NEW m \in Nodes, NEW c \in Conn, NewDial(e, n)[m][c] \in Open
    PROVE  e[m][c] \in Open
<1>1. NewDial(e, n)[m][c] # "queued"
  BY SMTT(30) DEF Open
<1> QED
  BY <1>1, NewDialKeeps

\* OneConnection and Settled are kept by the steps of a node.
LEMMA ConnNodeStep ==
    ASSUME ConnInv, Stoppable = {}, Moves = FALSE, NEW n \in Nodes, NodeStep(n)
    PROVE  OneConnection' /\ Settled'
<1> USE DEF ConnInv
<1>0. end \in [Nodes -> [Conn -> Phases]]
  BY Zenon DEF TypeOK
<1>1. ASSUME NEW k \in Kinds, SendMessage(n, k)
      PROVE  OneConnection' /\ Settled'
  <2>1. UNCHANGED <<socket, stop, netAddr, known, moving>>
    BY <1>1, Zenon DEF SendMessage, addrVars
  <2>2. \A m \in Nodes, c \in Conn : end'[m][c] \in Open => end[m][c] \in Open
    <3>1. UNCHANGED end \/ (Free(end) # {} /\ end' = NewDial(end, n))
      BY <1>1, Zenon DEF SendMessage, CaptureSocket, RejectFull, Enqueue
    <3> QED
      BY <1>0, <3>1, NewDialOpensNone, SMTT(30)
  <2> QED
    BY <2>1, <2>2, NothingOpened, Zenon DEF Settled
<1>2. CASE SendOnSocket(n)
  BY <1>2, NothingOpened, Zenon DEF SendOnSocket, Settled, addrVars
<1>3. ASSUME NEW m \in pending[n], Expire(n, m)
      PROVE  OneConnection' /\ Settled'
  BY <1>3, NothingOpened, Zenon DEF Expire, Settled, addrVars
<1>4. ~StopListener(n) /\ ~StopCloseSockets(n) /\ ~StopDie(n)
  BY Zenon DEF Settled, StopListener, StopCloseSockets, StopDie
<1>5. ~UpdateClose(n) /\ ~UpdateNetAddr(n)
  BY PeerFact, Zenon DEF Settled, UpdateClose, UpdateNetAddr
<1>6. CASE Crash(n)
  <2>1. socket' = [socket EXCEPT ![n] = NoConn] /\ stop' = [stop EXCEPT ![n] = "down"]
        /\ moving' = [moving EXCEPT ![n] = FALSE] /\ UNCHANGED <<netAddr, known>>
    BY <1>6, Zenon DEF Crash
  <2>2. Settled'
    BY <2>1, Zenon DEF Settled, TypeOK
  <2>3. \A m \in Nodes, c \in Conn :
           end'[m][c] \in Open => end[m][c] \in Open /\ m # n
    <3> SUFFICES ASSUME NEW m \in Nodes, NEW c \in Conn, end'[m][c] \in Open
                 PROVE  end[m][c] \in Open /\ m # n
      BY SMTT(30)
    <3>1. end'[m][c] = IF end[n][c] = "none" THEN end[m][c] ELSE Closed(n, c)[m][c]
      BY <1>6, Zenon DEF Crash
    <3>2. CASE end[n][c] = "none"
      BY <3>1, <3>2, Zenon DEF Open
    <3>3. CASE end[n][c] # "none"
      BY <3>1, <3>3, ClosedOpensNone, Zenon
    <3> QED
      BY <3>2, <3>3, Zenon
  <2>4. \A m \in Nodes : m # n => socket'[m] = socket[m]
    BY <2>1, SMTT(30) DEF TypeOK
  <2> QED
    BY <2>2, <2>3, <2>4, NothingOpened, SMTT(30)
<1>7. ASSUME NEW moved \in BOOLEAN, Restart(n, moved)
      PROVE  OneConnection' /\ Settled'
  <2>1. moved = FALSE
    BY <1>7, Zenon DEF Restart
  <2>2. Settled'
    BY <1>7, <2>1, PeerFact, Zenon DEF Restart, Settled, TypeOK
  <2> QED
    BY <1>7, <2>2, NothingOpened, Zenon DEF Restart
<1> QED
  BY <1>1, <1>2, <1>3, <1>4, <1>5, <1>6, <1>7, Zenon DEF NodeStep

\* OneConnection and Settled are kept by the steps on an end of a connection.
LEMMA ConnEndStep ==
    ASSUME ConnInv, NEW n \in Nodes, NEW d \in Conn, EndStep(n, d)
    PROVE  OneConnection' /\ Settled'
<1> USE DEF ConnInv
<1>0. /\ end \in [Nodes -> [Conn -> Phases]]
      /\ socket \in [Nodes -> Conn \union {NoConn}]
  BY Zenon DEF TypeOK
<1>1. UNCHANGED <<stop, netAddr, known, moving>>
  BY Zenon DEF EndStep, Connect, ConnectFail, HandshakeFail, dialError, dialOK, DialDie, Accept,
         Refuse, Deliver, ConnError, CloseCallback, addrVars
<1>2. Settled'
  BY <1>1, Zenon DEF Settled
<1> SUFFICES OneConnection'
  BY <1>2, Zenon
<1>3. ASSUME end' = Closed(n, d), UNCHANGED socket
      PROVE  OneConnection'
  BY <1>3, ClosedOpensNone, NothingOpened, Zenon
\* A socket is only put in place when the record has none.
<1>4. ASSUME onEstablish(n, d), socket[n] = NoConn,
             \A m \in Nodes, c \in Conn :
                end'[m][c] \in Open => end[m][c] \in Open \/ (m = n /\ c = d)
      PROVE  OneConnection'
  <2>1. socket' = [socket EXCEPT ![n] = d]
    BY <1>4, SMTT(30) DEF onEstablish
  <2>2. \A c \in Conn : end[n][c] \notin Open
    <3>1. NoConn \notin Conn
      BY LinkAssumption, Zenon
    <3> QED
      BY <1>4, <3>1, Zenon DEF OneConnection, Open
  <2> QED
    BY <1>0, <1>4, <2>1, <2>2 DEF OneConnection, Open
<1>5. CASE Connect(n, d) \/ ConnectFail(n, d) \/ HandshakeFail(n, d)
  <2>1. UNCHANGED socket
    BY <1>5, SMTT(30) DEF Connect, ConnectFail, HandshakeFail
  <2>2. \A m \in Nodes, c \in Conn : end'[m][c] \in Open => end[m][c] \in Open
    <3>1. CASE Connect(n, d)
      <4>1. end' = [end EXCEPT ![n][d] = "dialing", ![Peer(n)][d] = "accepting"]
        BY <3>1, Zenon DEF Connect
      <4>2. \A m \in Nodes, c \in Conn :
               end'[m][c] \in {end[m][c], "dialing", "accepting"}
        BY <1>0, <4>1, PeerFact
      <4> QED
        BY <4>2, Zenon DEF Open
    <3>2. CASE ConnectFail(n, d) \/ HandshakeFail(n, d)
      <4>1. end' = [end EXCEPT ![n][d] = "failed"]
        BY <3>2, Zenon DEF ConnectFail, HandshakeFail
      <4> QED
        BY <1>0, <4>1, Zenon DEF Open
    <3> QED
      BY <1>5, <3>1, <3>2, Zenon
  <2> QED
    BY <2>1, <2>2, NothingOpened, Zenon
<1>6. CASE dialError(n, d)
  <2>1. UNCHANGED socket
    BY <1>6, Zenon DEF dialError, Redial
  <2>2. CASE Free(Closed(n, d)) # {} /\ end' = NewDial(Closed(n, d), n)
    <3>1. Closed(n, d) \in [Nodes -> [Conn -> Phases]]
      BY ClosedFact, Zenon
    <3>2. \A m \in Nodes, c \in Conn : Closed(n, d)[m][c] \in Open => end[m][c] \in Open
      BY ClosedOpensNone, Zenon
    <3>3. \A m \in Nodes, c \in Conn : end'[m][c] \in Open => Closed(n, d)[m][c] \in Open
      BY <2>2, <3>1, NewDialOpensNone, Zenon
    <3> QED
      BY <2>1, <3>2, <3>3, NothingOpened, Zenon
  <2> QED
    BY <1>3, <1>6, <2>1, <2>2, Zenon DEF dialError, Redial
<1>7. CASE dialOK(n, d)
  <2>1. CASE socket[n] = NoConn
    BY <1>0, <1>4, <1>7, <2>1 DEF dialOK, Open
  <2> QED
    BY <1>3, <1>7, <2>1, SMTT(30) DEF dialOK
<1>8. CASE DialDie(n, d) \/ Refuse(n, d)
  BY <1>3, <1>8, Zenon DEF DialDie, Refuse
<1>9. CASE Accept(n, d)
  <2>1. end' = [end EXCEPT ![n][d] = "est", ![Peer(n)][d] = Answered(end[Peer(n)][d])]
        /\ onEstablish(n, d) /\ ~Refuses(n)
    BY <1>9, Zenon DEF Accept
  <2>2. socket[n] = NoConn
    BY <2>1, Zenon DEF Refuses, SocketExcludesPending
  <2>3. \A m \in Nodes, c \in Conn :
           end'[m][c] \in Open => end[m][c] \in Open \/ (m = n /\ c = d)
    BY <1>0, <2>1, PeerFact DEF Answered, Open
  <2> QED
    BY <1>4, <2>1, <2>2, <2>3, Zenon
<1>10. CASE Deliver(n, d)
  BY <1>10, NothingOpened, Zenon DEF Deliver
<1>11. CASE ConnError(n, d)
  BY <1>0, <1>11, NothingOpened, Zenon DEF ConnError, Open
<1>12. CASE CloseCallback(n, d)
  <2>1. end' = Closed(n, d) /\ socket' = [socket EXCEPT ![n] = NoConn] /\ end[n][d] \in Open
    BY <1>12, Zenon DEF CloseCallback, Open
  <2>2. \A c \in Conn : end[n][c] \in Open => c = d
    BY <2>1, Zenon DEF OneConnection, Open
  <2>3. \A m \in Nodes, c \in Conn : end'[m][c] \in Open => end[m][c] \in Open /\ ~(m = n /\ c = d)
    BY <2>1, ClosedOpensNone, Zenon
  <2>4. \A m \in Nodes, c \in Conn : end'[m][c] \in Open => socket'[m] = socket[m]
    BY <1>0, <2>1, <2>2, <2>3, Zenon
  <2> QED
    BY <2>3, <2>4, NothingOpened, Zenon
<1> QED
  BY <1>5, <1>6, <1>7, <1>8, <1>9, <1>10, <1>11, <1>12, Zenon DEF EndStep

\* While no node is stopped and no node comes back at another address, each end
\* of a connection that is open is the record's socket: at most one connection
\* joins the two nodes, however their dials, retries, losses and crashes
\* interleave.  The assumption is needed: closeSocket clears the socket before
\* the close callback of the old connection has run.
THEOREM AtMostOneConnection ==
    ASSUME Stoppable = {}, Moves = FALSE
    PROVE  Spec => []OneConnection
<1>1. Init => OneConnection /\ Settled
  BY DEF Init, OneConnection, Settled
<1>2. /\ TypeOK /\ SocketExcludesPending /\ OneConnection /\ Settled /\ [Next]_vars
      => OneConnection' /\ Settled'
  <2> SUFFICES ASSUME ConnInv, [Next]_vars
               PROVE  OneConnection' /\ Settled'
    BY Zenon DEF ConnInv
  <2>1. CASE UNCHANGED vars
    BY <2>1, Zenon DEF ConnInv, vars, OneConnection, Settled
  <2>2. CASE Next
    BY <2>2, ConnNodeStep, ConnEndStep, Zenon DEF Next
  <2> QED
    BY <2>1, <2>2, Zenon
<1> QED
  BY <1>1, <1>2, TypeCorrect, QueueSafe, PTL DEF Spec

-----------------------------------------------------------------------------
(* A link hands a message to the peer at most once.                        *)
(*                                                                         *)
(* AtMostOnce is about what was handled only.  It is inductive together    *)
(* with where a message may still be: a message of a node is in the queue, *)
(* with the goroutine that is about to send it, on one connection, handled *)
(* or lost, and in no two of these places.                                 *)

\* What n's packet handler was given.
Handled(n) == {got[n][i] : i \in DOMAIN got[n]}

\* The message x of n is on no connection and was not handled.
Unsent(n, x) == x \notin Handled(Peer(n)) /\ \A d \in Conn : x \notin wire[n][d]

\* Where a message of n is: in the queue, with the goroutine that sends it, on one
\* connection or handled, and never in two of these places.
OnePlace(n) ==
    /\ \A m \in pending[n] :
          m.seq <= sent[n] /\ Unsent(n, m.seq) /\ (sendingOn[n] # NoConn => m.seq # sent[n])
    /\ sendingOn[n] # NoConn => Unsent(n, sent[n])
    /\ \A d \in Conn : \A x \in wire[n][d] :
          x <= sent[n] /\ x \notin Handled(Peer(n)) /\ \A c \in Conn : x \in wire[n][c] => c = d
    /\ \A x \in Handled(Peer(n)) : x <= sent[n]

OnceInv == AtMostOnce /\ \A n \in Nodes : OnePlace(n)

\* A step that sends, handles and takes up nothing new keeps the invariant.
LEMMA NothingNew ==
    ASSUME OnceInv, UNCHANGED <<sent, got>>,
           \A n \in Nodes : \A m \in pending'[n] : \E q \in pending[n] : q.seq = m.seq,
           \A n \in Nodes : \A d \in Conn : wire'[n][d] \subseteq wire[n][d],
           \A n \in Nodes : sendingOn'[n] = sendingOn[n] \/ sendingOn'[n] = NoConn
    PROVE  OnceInv'
<1>1. AtMostOnce'
  BY Zenon DEF OnceInv, AtMostOnce
<1>2. ASSUME NEW n \in Nodes
      PROVE  OnePlace(n)'
  <2>1. OnePlace(n)
    BY Zenon DEF OnceInv
  <2>2. \A x : Unsent(n, x) => Unsent(n, x)'
    BY DEF Unsent, Handled
  <2>3. Handled(Peer(n))' = Handled(Peer(n))
    BY Zenon DEF Handled
  <2> QED
    BY <2>1, <2>2, <2>3 DEF OnePlace
<1> QED
  BY <1>1, <1>2, Zenon DEF OnceInv

\* Closing an end only takes messages off the wires.
LEMMA UnreadShrinks ==
    ASSUME TypeOK, NEW n \in Nodes, NEW d \in Conn
    PROVE  \A m \in Nodes, c \in Conn : Unread(n, d)[m][c] \subseteq wire[m][c]
<1>1. wire \in [Nodes -> [Conn -> SUBSET (1..MaxMsg)]] /\ Lo \in Nodes /\ Hi \in Nodes
  BY Zenon DEF TypeOK, Nodes
<1>2. CASE Alone(n, d)
  BY <1>1, <1>2, SMTT(30) DEF Unread
<1>3. CASE ~Alone(n, d)
  BY <1>1, <1>3, PeerFact, Zenon DEF Unread
<1> QED
  BY <1>2, <1>3, Zenon

\* The new message of n is nowhere yet: all numbers in use are at most sent[n].
LEMMA FreshFact ==
    ASSUME TypeOK, NEW n \in Nodes, OnePlace(n)
    PROVE  Unsent(n, sent[n] + 1)
<1>1. sent[n] \in Nat /\ \A d \in Conn : wire[n][d] \subseteq Nat
  BY LinkAssumption DEF TypeOK
<1> QED
  BY <1>1 DEF OnePlace, Unsent, TypeOK

\* Every message is in one place after a step of the application, of Stop, of a
\* crash or restart and of an address change.
LEMMA OnceNodeStep ==
    ASSUME TypeOK, OnceInv, NEW n \in Nodes, NodeStep(n)
    PROVE  OnceInv'
<1>0. /\ pending \in [Nodes -> SUBSET Msgs]
      /\ wire \in [Nodes -> [Conn -> SUBSET (1..MaxMsg)]]
      /\ sendingOn \in [Nodes -> Conn \union {NoConn}]
      /\ sent \in [Nodes -> 0..MaxMsg]
  BY Zenon DEF TypeOK
<1>a. ASSUME UNCHANGED <<pending, sent, got, wire, sendingOn>>
      PROVE  OnceInv'
  BY <1>a, NothingNew, Zenon
<1>1. ASSUME NEW k \in Kinds, SendMessage(n, k)
      PROVE  OnceInv'
  <2>1. /\ UNCHANGED <<wire, got>>
        /\ sendingOn[n] = NoConn
        /\ sent' = [sent EXCEPT ![n] = @ + 1]
    BY <1>1, Zenon DEF SendMessage
  <2>2. /\ \A m \in Nodes \ {n} : sendingOn'[m] = sendingOn[m] /\ pending'[m] = pending[m]
        /\ \A m \in pending'[n] : 
              m \in pending[n] \/ (sendingOn'[n] = NoConn /\ m.seq = sent[n] + 1)
    <3>1. Kept(n, k) \subseteq pending[n]
      BY Zenon DEF Kept, removeFailedMsg
    <3>2. CASE CaptureSocket(n)
      <4>1. sendingOn' = [sendingOn EXCEPT ![n] = socket[n]] /\ pending' = pending
        BY <3>2, Zenon DEF CaptureSocket
      <4> QED
        BY <1>0, <4>1, Zenon
    <3>3. CASE RejectFull(n, k)
      <4>1. sendingOn' = sendingOn /\ pending' = [pending EXCEPT ![n] = Kept(n, k)]
        BY <3>3, Zenon DEF RejectFull
      <4> QED
        BY <1>0, <3>1, <4>1, Zenon
    <3>4. CASE Enqueue(n, k)
      <4> DEFINE new == [seq |-> sent[n] + 1, kind |-> k, late |-> FALSE]
      <4>1. sendingOn' = sendingOn /\ pending' = [pending EXCEPT ![n] = Kept(n, k) \union {new}]
        BY <3>4, Zenon DEF Enqueue
      <4>2. new.seq = sent[n] + 1
        BY Zenon
      <4> HIDE DEF new
      <4> QED
        BY <1>0, <2>1, <3>1, <4>1, <4>2, Zenon
    <3> QED
      BY <1>1, <3>2, <3>3, <3>4, Zenon DEF SendMessage
  <2>3. AtMostOnce'
    BY <2>1, Zenon DEF OnceInv, AtMostOnce
  <2>4. ASSUME NEW m \in Nodes
        PROVE  OnePlace(m)'
    <3>1. OnePlace(m) /\ Handled(Peer(m))' = Handled(Peer(m))
      BY <2>1, Zenon DEF OnceInv, Handled
    <3>2. \A x : Unsent(m, x)' = Unsent(m, x)
      BY <2>1, <3>1, Zenon DEF Unsent
    <3>3. CASE m # n
      BY <1>0, <2>1, <2>2, <3>1, <3>2, <3>3, Zenon DEF OnePlace
    <3>4. CASE m = n
      <4>1. sent[n] \in Nat /\ sent'[n] = sent[n] + 1
        BY <1>0, <2>1
      <4>2. Unsent(n, sent[n] + 1)
        BY <3>1, <3>4, FreshFact, Zenon
      <4>3. \A q \in pending[n] : q.seq \in Nat
        BY <1>0 DEF Msgs
      <4>4. \A d \in Conn : wire[n][d] \subseteq Nat
        BY <1>0
      <4>5. \A x \in Handled(Peer(n)) : x \in Nat
        <5> DEFINE s == got[Peer(n)]
        <5>1. s \in Seq(1..MaxMsg)
          BY PeerFact, Zenon DEF TypeOK
        <5> HIDE DEF s
        <5>2. \A i \in DOMAIN s : s[i] \in Nat
          BY <5>1, LinkAssumption
        <5> QED
          BY <5>2, Zenon DEF Handled, s
      <4>6. \A q \in pending'[n] :
               /\ q.seq <= sent'[n]
               /\ Unsent(n, q.seq)'
               /\ sendingOn'[n] # NoConn => q.seq # sent'[n]
        <5> SUFFICES ASSUME NEW q \in pending'[n]
                     PROVE  /\ q.seq <= sent[n] + 1
                            /\ Unsent(n, q.seq)
                            /\ sendingOn'[n] # NoConn => q.seq # sent[n] + 1
          BY <3>2, <3>4, <4>1, Zenon
        <5>1. CASE q \in pending[n]
          BY <3>1, <3>4, <4>1, <4>3, <5>1 DEF OnePlace
        <5>2. CASE sendingOn'[n] = NoConn /\ q.seq = sent[n] + 1
          BY <4>1, <4>2, <5>2
        <5> QED
          BY <2>2, <5>1, <5>2, Zenon
      <4>7. \A d \in Conn : \A x \in wire'[n][d] :
               x <= sent'[n] /\ x \notin Handled(Peer(n))' /\ \A c \in Conn : x \in wire'[n][c] => c = d
        BY <2>1, <3>1, <3>4, <4>1, <4>4 DEF OnePlace
      <4>8. \A x \in Handled(Peer(n))' : x <= sent'[n]
        BY <3>1, <3>4, <4>1, <4>5 DEF OnePlace
      <4> QED
        BY <3>2, <3>4, <4>1, <4>2, <4>6, <4>7, <4>8, Zenon DEF OnePlace
    <3> QED
      BY <3>3, <3>4, Zenon
  <2> QED
    BY <2>3, <2>4, Zenon DEF OnceInv
<1>2. CASE SendOnSocket(n)
  <2> DEFINE c == sendingOn[n]
  <2>1. /\ UNCHANGED <<pending, sent, got>>
        /\ c \in Conn
        /\ sendingOn' = [sendingOn EXCEPT ![n] = NoConn]
    BY <1>0, <1>2, Zenon DEF SendOnSocket
  <2>2. CASE end[n][c] # "est"
    <3>1. UNCHANGED wire
      BY <1>2, <2>2, Zenon DEF SendOnSocket
    <3> QED
      BY <1>0, <2>1, <3>1, NothingNew, Zenon
  <2>3. CASE end[n][c] = "est"
    <3>1. wire' = [wire EXCEPT ![n][c] = @ \union {sent[n]}]
      BY <1>2, <2>3, Zenon DEF SendOnSocket
    <3>2. \A m \in Nodes, d \in Conn :
             wire'[m][d] = IF m = n /\ d = c THEN wire[n][c] \union {sent[n]} ELSE wire[m][d]
      BY <1>0, <2>1, <3>1, Zenon
    <3>3. AtMostOnce'
      BY <2>1, Zenon DEF OnceInv, AtMostOnce
    <3>4. ASSUME NEW m \in Nodes
          PROVE  OnePlace(m)'
      <4>1. OnePlace(m) /\ Handled(Peer(m))' = Handled(Peer(m))
        BY <2>1, Zenon DEF OnceInv, Handled
      <4>2. CASE m # n
        <5>1. sendingOn'[m] = sendingOn[m] /\ \A d \in Conn : wire'[m][d] = wire[m][d]
          BY <1>0, <2>1, <3>2, <4>2, Zenon
        <5> QED
          BY <2>1, <4>1, <5>1, Zenon DEF OnePlace, Unsent
      <4>3. CASE m = n
        <5>1. sendingOn'[n] = NoConn /\ c # NoConn /\ sent[n] \in Nat
          BY <1>0, <2>1, LinkAssumption
        <5>2. Unsent(n, sent[n]) /\ \A q \in pending[n] : q.seq # sent[n]
          BY <4>1, <4>3, <5>1, Zenon DEF OnePlace
        <5>3. \A x : Unsent(n, x) /\ x # sent[n] => Unsent(n, x)'
          BY <3>2, <4>1, <4>3 DEF Unsent
        <5> HIDE DEF c
        <5>4. /\ sent[n] <= sent[n] /\ OnePlace(n) /\ Handled(Peer(n))' = Handled(Peer(n))
              /\ UNCHANGED <<sent, pending>>
          BY <2>1, <4>1, <4>3, <5>1
        <5>5. \A e \in Conn : \A x : x \in wire'[n][e] <=> x \in wire[n][e] \/ (e = c /\ x = sent[n])
          BY <3>2, Zenon
        <5>6. ASSUME NEW e \in Conn, NEW x \in wire'[n][e]
              PROVE  x <= sent[n] /\ x \notin Handled(Peer(n)) /\ \A f \in Conn : x \in wire'[n][f] => f = e
          <6>1. CASE x = sent[n]
            BY <5>2, <5>4, <5>5, <6>1, Zenon DEF Unsent
          <6>2. CASE x # sent[n]
            BY <5>4, <5>5, <6>2, Zenon DEF OnePlace
          <6> QED
            BY <6>1, <6>2, Zenon
        <5>7. ASSUME NEW q \in pending[n]
              PROVE  q.seq <= sent[n] /\ Unsent(n, q.seq)'
          BY <5>2, <5>3, <5>4, Zenon DEF OnePlace
        <5>8. sent'[n] = sent[n] /\ pending'[n] = pending[n]
          BY <5>4, Zenon
        <5>9. \A q \in pending'[n] :
                 q.seq <= sent'[n] /\ Unsent(n, q.seq)' /\ (sendingOn'[n] # NoConn => q.seq # sent'[n])
          BY <5>1, <5>7, <5>8, Zenon
        <5>10. \A e \in Conn : \A x \in wire'[n][e] :
                  x <= sent'[n] /\ x \notin Handled(Peer(n))' /\ \A f \in Conn : x \in wire'[n][f] => f = e
          BY <5>4, <5>6, <5>8, Zenon
        <5>11. \A x \in Handled(Peer(n))' : x <= sent'[n]
          BY <5>4, <5>8, Zenon DEF OnePlace
        <5>12. OnePlace(n)'
          BY <5>1, <5>9, <5>10, <5>11, Zenon DEF OnePlace
        <5> QED
          BY <4>3, <5>12, Zenon
      <4> QED
        BY <4>2, <4>3, Zenon
    <3> QED
      BY <3>3, <3>4, Zenon DEF OnceInv
  <2> QED
    BY <2>2, <2>3, Zenon
<1>3. ASSUME NEW m \in pending[n], Expire(n, m)
      PROVE  OnceInv'
  <2> DEFINE late == [m EXCEPT !.late = TRUE]
  <2>1. m \in Msgs
    BY <1>0, Zenon
  <2>2. late.seq = m.seq
    BY <2>1, Zenon DEF Msgs
  <2>3. pending' = [pending EXCEPT ![n] = (@ \ {m}) \union {late}] /\ UNCHANGED <<sent, got, wire, sendingOn>>
    BY <1>3, Zenon DEF Expire
  <2> HIDE DEF late
  <2>4. \A x \in Nodes : \A r \in pending'[x] : \E q \in pending[x] : q.seq = r.seq
    BY <1>0, <2>2, <2>3, Zenon
  <2> QED
    BY <2>3, <2>4, NothingNew, Zenon
<1>4. CASE StopListener(n)
  BY <1>4, <1>a, Zenon DEF StopListener
<1>5. CASE StopCloseSockets(n)
  BY <1>5, <1>a, Zenon DEF StopCloseSockets
<1>6. CASE StopDie(n)
  BY <1>6, <1>a, Zenon DEF StopDie
<1>7. CASE Crash(n)
  <2>1. /\ UNCHANGED <<sent, got>>
        /\ pending' = [pending EXCEPT ![n] = {}]
        /\ sendingOn' = [sendingOn EXCEPT ![n] = NoConn]
        /\ wire' = [m \in Nodes |-> [d \in Conn |->
                      IF end[n][d] = "none" THEN wire[m][d] ELSE Unread(n, d)[m][d]]]
    BY <1>7, Zenon DEF Crash
  <2>2. \A m \in Nodes, d \in Conn : wire'[m][d] \subseteq wire[m][d]
    BY <2>1, UnreadShrinks, Zenon
  <2>3. /\ \A x \in Nodes : pending'[x] \subseteq pending[x]
        /\ \A x \in Nodes : sendingOn'[x] = sendingOn[x] \/ sendingOn'[x] = NoConn
    BY <1>0, <2>1, Zenon
  <2> QED
    BY <2>1, <2>2, <2>3, NothingNew, Zenon
<1>8. ASSUME NEW moved \in BOOLEAN, Restart(n, moved)
      PROVE  OnceInv'
  BY <1>8, <1>a, Zenon DEF Restart
<1>9. CASE UpdateClose(n)
  BY <1>9, <1>a, Zenon DEF UpdateClose
<1>10. CASE UpdateNetAddr(n)
  BY <1>10, <1>a, Zenon DEF UpdateNetAddr
<1> QED
  BY <1>1, <1>2, <1>3, <1>4, <1>5, <1>6, <1>7, <1>8, <1>9, <1>10, Zenon DEF NodeStep

\* The flush of onEstablish moves the queue's messages to one connection.
LEMMA OnceEstablish ==
    ASSUME TypeOK, OnceInv, NEW n \in Nodes, NEW d \in Conn, onEstablish(n, d),
           UNCHANGED <<sent, got, sendingOn>>
    PROVE  OnceInv'
<1>0. /\ pending \in [Nodes -> SUBSET Msgs]
      /\ wire \in [Nodes -> [Conn -> SUBSET (1..MaxMsg)]]
  BY Zenon DEF TypeOK
<1> DEFINE flushed == {m.seq : m \in {x \in pending[n] : ~x.late}}
<1>1. \A x \in flushed : \E q \in pending[n] : q.seq = x
  BY Zenon
<1>2. wire' = [wire EXCEPT ![n][d] = flushed] /\ pending' = [pending EXCEPT ![n] = {}]
  BY Zenon DEF onEstablish
<1> HIDE DEF flushed
<1>3. \A m \in Nodes, c \in Conn : wire'[m][c] = IF m = n /\ c = d THEN flushed ELSE wire[m][c]
  BY <1>0, <1>2, Zenon
<1>4. AtMostOnce'
  BY Zenon DEF OnceInv, AtMostOnce
<1>5. ASSUME NEW m \in Nodes
      PROVE  OnePlace(m)'
  <2>1. OnePlace(m) /\ Handled(Peer(m))' = Handled(Peer(m))
    BY Zenon DEF OnceInv, Handled
  <2>2. CASE m # n
    <3>1. pending'[m] = pending[m] /\ \A c \in Conn : wire'[m][c] = wire[m][c]
      BY <1>0, <1>2, <1>3, <2>2, Zenon
    <3> QED
      BY <2>1, <3>1, Zenon DEF OnePlace, Unsent
  <2>3. CASE m = n
    <3>1. pending'[n] = {}
      BY <1>0, <1>2, Zenon
    <3>2. \A x \in flushed : x <= sent[n] /\ Unsent(n, x) /\ (sendingOn[n] # NoConn => x # sent[n])
      BY <1>1, <2>1, <2>3 DEF OnePlace
    <3>3. \A c \in Conn : wire'[n][c] = IF c = d THEN flushed ELSE wire[n][c]
      BY <1>3, Zenon
    <3>4. OnePlace(n) /\ Handled(Peer(n))' = Handled(Peer(n))
      BY <2>1, <2>3, Zenon
    <3>5. sendingOn[n] # NoConn => Unsent(n, sent[n])'
      BY <3>2, <3>3, <3>4, Zenon DEF OnePlace, Unsent
    <3>6. ASSUME NEW c \in Conn, NEW x \in wire'[n][c]
          PROVE  x <= sent[n] /\ x \notin Handled(Peer(n)) /\ \A e \in Conn : x \in wire'[n][e] => e = c
      <4>1. CASE x \in flushed
        <5>1. x <= sent[n] /\ Unsent(n, x)
          BY <3>2, <4>1, Zenon
        <5>2. \A e \in Conn : x \in wire'[n][e] => e = d
          BY <3>3, <5>1, Zenon DEF Unsent
        <5> QED
          BY <5>1, <5>2, Zenon DEF Unsent
      <4>2. CASE x \notin flushed
        BY <3>3, <3>4, <4>2, Zenon DEF OnePlace
      <4> QED
        BY <4>1, <4>2, Zenon
    <3>7. \A q \in pending'[n] :
             q.seq <= sent'[n] /\ Unsent(n, q.seq)' /\ (sendingOn'[n] # NoConn => q.seq # sent'[n])
      BY <3>1, Zenon
    <3>8. sendingOn'[n] # NoConn =>
             sent'[n] \notin Handled(Peer(n))' /\ \A c \in Conn : sent'[n] \notin wire'[n][c]
      BY <3>5, Zenon DEF Unsent
    <3>9. \A c \in Conn : \A x \in wire'[n][c] :
             x <= sent'[n] /\ x \notin Handled(Peer(n))' /\ \A e \in Conn : x \in wire'[n][e] => e = c
      <4>1. sent'[n] = sent[n]
        BY Zenon
      <4> QED
        BY <3>4, <3>6, <4>1
    <3>10. \A x \in Handled(Peer(n))' : x <= sent'[n]
      BY <3>4, Zenon DEF OnePlace
    <3>11. OnePlace(n)'
      BY <3>7, <3>8, <3>9, <3>10, Zenon DEF OnePlace, Unsent
    <3> QED
      BY <2>3, <3>11, Zenon
  <2> QED
    BY <2>2, <2>3, Zenon
<1> QED
  BY <1>4, <1>5, Zenon DEF OnceInv

\* Every message is in one place after a step on an end of a connection.
LEMMA OnceEndStep ==
    ASSUME TypeOK, OnceInv, NEW n \in Nodes, NEW d \in Conn, EndStep(n, d)
    PROVE  OnceInv'
<1>0. /\ pending \in [Nodes -> SUBSET Msgs]
      /\ wire \in [Nodes -> [Conn -> SUBSET (1..MaxMsg)]]
      /\ got \in [Nodes -> Seq(1..MaxMsg)]
  BY Zenon DEF TypeOK
<1>a. ASSUME UNCHANGED <<sent, got, sendingOn>>, wire' = wire \/ wire' = Unread(n, d),
             \A x \in Nodes : pending'[x] \subseteq pending[x]
      PROVE  OnceInv'
  <2>1. \A x \in Nodes, c \in Conn : wire'[x][c] \subseteq wire[x][c]
    BY <1>a, UnreadShrinks, Zenon
  <2> QED
    BY <1>a, <2>1, NothingNew, Zenon
<1>1. CASE Connect(n, d)
  BY <1>1, <1>a, Zenon DEF Connect
<1>2. CASE ConnectFail(n, d)
  BY <1>2, <1>a, Zenon DEF ConnectFail
<1>3. CASE HandshakeFail(n, d)
  BY <1>3, <1>a, Zenon DEF HandshakeFail
<1>4. CASE dialError(n, d)
  <2>1. \A x \in Nodes : pending'[x] \subseteq pending[x]
    <3>1. removeFailedMsg(n, FALSE) \subseteq pending[n]
      BY Zenon DEF removeFailedMsg
    <3>2. \/ pending' = [pending EXCEPT ![n] = removeFailedMsg(n, FALSE)]
          \/ pending' = pending
      BY <1>4, Zenon DEF dialError
    <3> QED
      BY <1>0, <3>1, <3>2, Zenon
  <2> QED
    BY <1>4, <1>a, <2>1, Zenon DEF dialError
<1>5. CASE dialOK(n, d)
  <2>1. CASE socket[n] # NoConn
    BY <1>5, <1>a, <2>1, Zenon DEF dialOK
  <2>2. CASE socket[n] = NoConn
    BY <1>5, <2>2, OnceEstablish, Zenon DEF dialOK
  <2> QED
    BY <2>1, <2>2, Zenon
<1>6. CASE DialDie(n, d)
  BY <1>6, <1>a, Zenon DEF DialDie
<1>7. CASE Accept(n, d)
  BY <1>7, OnceEstablish, Zenon DEF Accept
<1>8. CASE Refuse(n, d)
  BY <1>8, <1>a, Zenon DEF Refuse
<1>9. CASE Deliver(n, d)
  <2> DEFINE p == Peer(n)
  <2>0. p \in Nodes /\ p # n /\ Peer(p) = n /\ \A m \in Nodes : m = n \/ m = p
    BY PeerFact, Zenon
  <2>1. PICK x \in wire[p][d] :
           /\ got' = [got EXCEPT ![n] = Append(@, x)]
           /\ wire' = [wire EXCEPT ![p][d] = @ \ {x}]
    BY <1>9, Zenon DEF Deliver
  <2>2. UNCHANGED <<pending, sendingOn, sent>>
    BY <1>9, Zenon DEF Deliver
  <2> HIDE DEF p
  <2>3. OnePlace(n) /\ OnePlace(p) /\ AtMostOnce
    BY <2>0, Zenon DEF OnceInv
  <2>4. x \in 1..MaxMsg /\ got[n] \in Seq(1..MaxMsg)
    BY <1>0, <2>0, Zenon
  <2>5. x <= sent[p] /\ x \notin Handled(n) /\ \A c \in Conn : x \in wire[p][c] => c = d
    BY <2>0, <2>3, Zenon DEF OnePlace
  <2>6. got'[n] = Append(got[n], x) /\ got'[p] = got[p]
    BY <1>0, <2>0, <2>1, Zenon
  <2>7. /\ Len(got'[n]) = Len(got[n]) + 1
        /\ DOMAIN got[n] = 1..Len(got[n]) /\ DOMAIN got'[n] = 1..Len(got'[n])
        /\ \A i \in DOMAIN got[n] : got'[n][i] = got[n][i]
        /\ got'[n][Len(got[n]) + 1] = x
    BY <2>4, <2>6
  <2>8. Handled(n)' = Handled(n) \union {x} /\ Handled(p)' = Handled(p)
    BY <2>4, <2>6, <2>7 DEF Handled
  <2>9. \A m \in Nodes, c \in Conn :
           wire'[m][c] = IF m = p /\ c = d THEN wire[p][d] \ {x} ELSE wire[m][c]
    BY <1>0, <2>0, <2>1, Zenon
  <2>10. AtMostOnce'
    <3>1. \A i \in DOMAIN got[n] : got[n][i] # x
      BY <2>5, Zenon DEF Handled
    <3>2. \A i, j \in DOMAIN got'[n] : got'[n][i] = got'[n][j] => i = j
      <4>1. \A i \in DOMAIN got'[n] : i \in DOMAIN got[n] \/ i = Len(got[n]) + 1
        BY <2>4, <2>7
      <4>2. \A i, j \in DOMAIN got[n] : got[n][i] = got[n][j] => i = j
        BY <2>3, Zenon DEF AtMostOnce
      <4> QED
        BY <2>7, <3>1, <4>1, <4>2, Zenon
    <3>3. \A i, j \in DOMAIN got'[p] : got'[p][i] = got'[p][j] => i = j
      BY <2>0, <2>3, <2>6, Zenon DEF AtMostOnce
    <3> QED
      BY <2>0, <3>2, <3>3, Zenon DEF AtMostOnce
  <2>11. OnePlace(n)'
    <3>1. Handled(Peer(n))' = Handled(Peer(n)) /\ \A c \in Conn : wire'[n][c] = wire[n][c]
      BY <2>0, <2>8, <2>9, Zenon DEF p
    <3>2. \A y : Unsent(n, y)' <=> Unsent(n, y)
      BY <3>1, Zenon DEF Unsent
    <3>3. sent'[n] = sent[n] /\ pending'[n] = pending[n] /\ sendingOn'[n] = sendingOn[n]
      BY <2>2, Zenon
    <3>4. \A q \in pending'[n] :
             q.seq <= sent'[n] /\ Unsent(n, q.seq)' /\ (sendingOn'[n] # NoConn => q.seq # sent'[n])
      BY <2>3, <3>2, <3>3, Zenon DEF OnePlace
    <3>5. sendingOn'[n] # NoConn =>
             sent'[n] \notin Handled(Peer(n))' /\ \A c \in Conn : sent'[n] \notin wire'[n][c]
      <4>1. sendingOn'[n] # NoConn => Unsent(n, sent[n])
        BY <2>3, <3>3, Zenon DEF OnePlace
      <4> QED
        BY <3>1, <3>3, <4>1, Zenon DEF Unsent
    <3>6. \A c \in Conn : \A y \in wire'[n][c] :
             y <= sent'[n] /\ y \notin Handled(Peer(n))' /\ \A e \in Conn : y \in wire'[n][e] => e = c
      <4>1. \A c \in Conn : \A y \in wire[n][c] :
               y <= sent[n] /\ y \notin Handled(Peer(n)) /\ \A e \in Conn : y \in wire[n][e] => e = c
        BY <2>3, Zenon DEF OnePlace
      <4> QED
        BY <3>1, <3>3, <4>1, Zenon
    <3>7. \A y \in Handled(Peer(n))' : y <= sent'[n]
      BY <2>3, <3>1, <3>3, Zenon DEF OnePlace
    <3> QED
      BY <3>4, <3>5, <3>6, <3>7, Zenon DEF OnePlace, Unsent
  <2>12. OnePlace(p)'
    <3>0. /\ x \in wire[p][d]
          /\ \A c \in Conn : wire'[p][c] \subseteq wire[p][c]
          /\ \A y \in Handled(Peer(p))' : y \in Handled(Peer(p)) \/ y = x
      BY <2>0, <2>1, <2>8, <2>9
    <3>1. \A y : Unsent(p, y) => y # x /\ Unsent(p, y)'
      BY <3>0, Zenon DEF Unsent
    <3>2. \A c \in Conn : \A y \in wire'[p][c] : y \in wire[p][c] /\ y # x
      BY <2>0, <2>5, <2>9, Zenon
    <3>3. Handled(Peer(p))' = Handled(Peer(p)) \union {x}
      BY <2>0, <2>8, Zenon
    <3>4. ASSUME NEW c \in Conn, NEW y \in wire'[p][c]
          PROVE  y <= sent[p] /\ y \notin Handled(Peer(p))' /\ \A e \in Conn : y \in wire'[p][e] => e = c
      BY <2>3, <3>2, <3>3, Zenon DEF OnePlace
    <3>5. \A y \in Handled(Peer(p))' : y <= sent[p]
      BY <2>3, <2>5, <3>3, Zenon DEF OnePlace
    <3> QED
      BY <2>2, <2>3, <3>1, <3>4, <3>5, Zenon DEF OnePlace
  <2> QED
    BY <2>0, <2>10, <2>11, <2>12, Zenon DEF OnceInv
<1>10. CASE ConnError(n, d)
  BY <1>10, <1>a, Zenon DEF ConnError
<1>11. CASE CloseCallback(n, d)
  BY <1>11, <1>a, Zenon DEF CloseCallback
<1> QED
  BY <1>1, <1>2, <1>3, <1>4, <1>5, <1>6, <1>7, <1>8, <1>9, <1>10, <1>11, Zenon DEF EndStep

\* A message is handled at most once, whatever connections are lost, dialled at
\* the same time, refused or retried, and whichever process crashes and restarts.
THEOREM HandledAtMostOnce == Spec => []AtMostOnce
<1>1. Init => OnceInv
  <2>1. Init => \A n \in Nodes : Handled(n) = {}
    BY DEF Init, Handled
  <2>2. Init => AtMostOnce
    BY DEF Init, AtMostOnce
  <2>3. Init => \A n \in Nodes : OnePlace(n)
    BY <2>1, PeerFact DEF Init, OnePlace
  <2> QED
    BY <2>2, <2>3, Zenon DEF OnceInv
<1>2. TypeOK /\ OnceInv /\ [Next]_vars => OnceInv'
  <2> SUFFICES ASSUME TypeOK, OnceInv, [Next]_vars
               PROVE  OnceInv'
    BY Zenon
  <2>1. CASE UNCHANGED vars
    <3>1. UNCHANGED <<pending, sent, got, wire, sendingOn>>
      BY <2>1, Zenon DEF vars
    <3> QED
      BY <3>1, NothingNew, Zenon
  <2> QED
    BY <2>1, OnceNodeStep, OnceEndStep, Zenon DEF Next
<1>3. OnceInv => AtMostOnce
  BY Zenon DEF OnceInv
<1> QED
  BY <1>1, <1>2, <1>3, TypeCorrect, PTL DEF Spec

=============================================================================
