------------------------------- MODULE Socket -------------------------------
(***************************************************************************)
(* Two Sockets over one TCP connection (socket/socket.go): at each end the *)
(* send queue, sendloop, the frame reader, recvloop with the packet        *)
(* handler, and close with finalize.                                       *)
(*                                                                         *)
(* Each direction of the connection holds PipeSize bytes.  A write blocks  *)
(* while it is full, a read returns any number of the bytes there are.     *)
(* The handler sends a reply to some of the messages.                      *)
(***************************************************************************)
EXTENDS Wire

CONSTANTS
    A, B,           \* the two ends
    SelfAddr,       \* the address of each end
    Programs,       \* what the ends send (messages with a deadline), whether reads may be
                    \* short, and a bound on the faults
    ReplyTo(_),     \* the reply to a message, if it is not the message itself
    SendChanSize, BatchSendSize,
    BufSize,        \* bytes of the frame reader's first buffer (4096)
    PipeSize

Ends == {A, B}
Peer(e) == IF e = A THEN B ELSE A

\* The programs send what can be sent.
ASSUME SocketAssumption ==
    /\ A # B
    /\ {SendChanSize, BatchSendSize, BufSize, PipeSize} \subseteq Nat
    /\ \A p \in Programs :
        /\ p.faults \in Nat
        /\ \A e \in Ends :
            /\ Len(p.sends[e]) \in Nat
            /\ \A i \in 1..Len(p.sends[e]) : p.sends[e][i].msg \in Sendable

VARIABLES
    program,        \* one of Programs
    next,           \* the messages an end has sent
    sendReq,        \* the send queue
    buf,            \* sendloop's buffer
    sendpc,         \* sendloop
    pipe,           \* bytes from each end to the other
    fr,             \* frameReader: the bytes between r and w, the index r, the buffer's size
    recvReq,        \* receives that are armed
    recvpc,         \* recvloop
    packet,         \* the message the handler has
    die,            \* die is closed
    open,           \* the connection is not closed at this end
    callbacks,      \* calls of the close callback
    accepted,       \* messages that Send took, in order
    received,       \* messages the handler was given, in order
    broken,         \* the error that recvloop met first
    faults          \* calls of Close, failures of handlers and of the connection

vars == <<program, next, sendReq, buf, sendpc, pipe, fr, recvReq, recvpc, packet, die, open,
          callbacks, accepted, received, broken, faults>>

sendVars == <<next, sendReq, buf, sendpc, accepted>>
recvVars == <<fr, recvReq, recvpc, packet, received, broken>>
closeVars == <<die, open, callbacks>>

NoPacket == [kind |-> "none"]

\* "flush", "flushing", "last": after die is closed.
SendPhases == {"select", "write", "flush", "flushing", "last", "close", "done"}
RecvPhases == {"select", "recv", "handle", "close", "done"}

TypeOK ==
    /\ \A e \in Ends :
        /\ Len(sendReq[e]) <= SendChanSize /\ Len(pipe[e]) <= PipeSize
        /\ fr[e].r \in Nat /\ fr[e].r + Len(fr[e].data) <= fr[e].cap
        /\ fr[e].cap \in BufSize..(BufSize + MaxPacketSize)
        /\ {buf[e], pipe[e], fr[e].data} \subseteq Seq(Byte)
        /\ callbacks[e] \in 0..1
    /\ sendpc \in [Ends -> SendPhases] /\ recvpc \in [Ends -> RecvPhases]
    /\ recvReq \in [Ends -> BOOLEAN] /\ die \in [Ends -> BOOLEAN] /\ open \in [Ends -> BOOLEAN]
    /\ broken \in [Ends -> {"no", "connection", "frame"}]
    /\ faults \in 0..program.faults

\* New, SetPacketHandler, SetCloseCallback and Recv at both ends.
Init ==
    /\ program \in Programs
    /\ next = [e \in Ends |-> 0] /\ sendReq = [e \in Ends |-> <<>>]
    /\ buf = [e \in Ends |-> <<>>] /\ sendpc = [e \in Ends |-> "select"]
    /\ pipe = [e \in Ends |-> <<>>]
    /\ fr = [e \in Ends |-> [data |-> <<>>, r |-> 0, cap |-> BufSize]]
    /\ recvReq = [e \in Ends |-> TRUE] /\ recvpc = [e \in Ends |-> "select"]
    /\ packet = [e \in Ends |-> NoPacket]
    /\ die = [e \in Ends |-> FALSE] /\ open = [e \in Ends |-> TRUE]
    /\ callbacks = [e \in Ends |-> 0]
    /\ accepted = [e \in Ends |-> <<>>] /\ received = [e \in Ends |-> <<>>]
    /\ broken = [e \in Ends |-> "no"] /\ faults = 0

Set(f, e, v) == [f EXCEPT ![e] = v]

-----------------------------------------------------------------------------
(* Send *)

\* Mutant: one more than the queue holds.
Room_OffByOne(e) == Len(sendReq[e]) <= SendChanSize

Room(e) == Len(sendReq[e]) < SendChanSize

Enqueue(e, m) ==
    /\ Room(e)
    /\ sendReq' = [sendReq EXCEPT ![e] = Append(@, m)]
    /\ accepted' = [accepted EXCEPT ![e] = Append(@, m)]

\* Mutant: every Send waits for ever.
GivesUp_Never(e, deadline) == FALSE

\* A deadline in the past, or one that passes: the queue is full.
GivesUp(e, deadline) == ~Room(e) /\ deadline # "none"

\* Send, SendWithContext.  When die is closed and there is room either may happen.
Send(e, m, deadline) ==
    \/ Enqueue(e, m)
    \/ (die[e] \/ GivesUp(e, deadline)) /\ UNCHANGED <<sendReq, accepted>>

SendNext(e) ==
    /\ next[e] < Len(program.sends[e])
    /\ LET s == program.sends[e][next[e] + 1] IN Send(e, s.msg, s.deadline)
    /\ next' = [next EXCEPT ![e] = @ + 1]
    /\ UNCHANGED <<program, buf, sendpc, pipe, recvVars, closeVars, faults>>

-----------------------------------------------------------------------------
(* close *)

\* closeOnce: die is closed first, the connection after it.  A second caller waits
\* for the first.
Close(e) ==
    /\ ~die[e] /\ die' = Set(die, e, TRUE)

\* Mutant: the connection is left to doClose.
CloseConn_Later(e) ==
    /\ die[e] /\ open[e] /\ sendpc[e] = "done" /\ recvpc[e] = "done"
    /\ open' = Set(open, e, FALSE)
    /\ pipe' = Set(pipe, Peer(e), <<>>)
    /\ UNCHANGED <<program, sendVars, recvVars, die, callbacks, faults>>

\* What was not read is gone; what was written may be lost with it.
CloseConn(e) ==
    /\ die[e] /\ open[e]
    /\ open' = Set(open, e, FALSE)
    /\ \E kept \in {<<>>, pipe[e]} : pipe' = [pipe EXCEPT ![Peer(e)] = <<>>, ![e] = kept]
    /\ UNCHANGED <<program, sendVars, recvVars, die, callbacks, faults>>

\* Socket.Close called by the program.
CallClose(e) ==
    /\ faults < program.faults /\ faults' = faults + 1
    /\ Close(e)
    /\ UNCHANGED <<program, sendVars, pipe, recvVars, open, callbacks>>

\* Mutant: the callback is due when one of the loops has ended.
LoopsDone_Either(e) == sendpc[e] = "done" \/ recvpc[e] = "done"

LoopsDone(e) == sendpc[e] = "done" /\ recvpc[e] = "done"

\* finalize, and doClose once.
finalize(e) ==
    /\ LoopsDone(e) /\ callbacks[e] = 0
    /\ open' = Set(open, e, FALSE)
    /\ pipe' = Set(pipe, Peer(e), <<>>)
    /\ callbacks' = [callbacks EXCEPT ![e] = @ + 1]
    /\ UNCHANGED <<program, sendVars, recvVars, die, faults>>

-----------------------------------------------------------------------------
(* sendloop *)

\* The buffer is written when it is full or nothing more waits.
Due(b, rest) == Len(b) >= BatchSendSize \/ (b # <<>> /\ rest = <<>>)

\* sendloop takes a message from the queue.
TakeMessage(e) ==
    /\ sendpc[e] \in {"select", "flush"} /\ sendReq[e] # <<>>
    /\ LET b == buf[e] \o Encode(Head(sendReq[e]))
           full == Len(b) >= BatchSendSize
       IN /\ buf' = Set(buf, e, b)
          /\ sendpc' = [sendpc EXCEPT ![e] =
                 IF @ = "select" THEN IF Due(b, Tail(sendReq[e])) THEN "write" ELSE @
                 ELSE IF full THEN "flushing" ELSE @]
    /\ sendReq' = [sendReq EXCEPT ![e] = Tail(@)]
    /\ UNCHANGED <<program, next, accepted, pipe, recvVars, closeVars, faults>>

\* sendloop sees that die is closed, and writes what the queue still holds.
Flush(e) ==
    /\ \/ sendpc[e] = "select" /\ die[e] /\ sendpc' = Set(sendpc, e, "flush")
       \/ /\ sendpc[e] = "flush" /\ sendReq[e] = <<>>
          /\ sendpc' = Set(sendpc, e, IF buf[e] = <<>> THEN "done" ELSE "last")
    /\ UNCHANGED <<program, next, sendReq, buf, accepted, pipe, recvVars, closeVars, faults>>

Writing(e) == sendpc[e] \in {"write", "flushing", "last"}
Least(a, b) == IF a < b THEN a ELSE b

\* A part of the buffer goes into the connection; with the rest the write is done.
Write(e) ==
    /\ Writing(e) /\ open[e] /\ open[Peer(e)] /\ Len(pipe[e]) < PipeSize
    /\ LET n == Least(PipeSize - Len(pipe[e]), Len(buf[e]))
       IN /\ pipe' = [pipe EXCEPT ![e] = @ \o SubSeq(buf[e], 1, n)]
          /\ buf' = [buf EXCEPT ![e] = SubSeq(@, n + 1, Len(@))]
          /\ sendpc' = [sendpc EXCEPT ![e] =
                 IF n < Len(buf[e]) THEN @
                 ELSE CASE @ = "write" -> "select" [] @ = "flushing" -> "flush" [] @ = "last" -> "done"]
    /\ UNCHANGED <<program, next, sendReq, accepted, recvVars, closeVars, faults>>

\* The connection is closed at one of its ends: the write fails.
WriteFails(e) ==
    /\ Writing(e) /\ ~(open[e] /\ open[Peer(e)])
    /\ sendpc' = [sendpc EXCEPT ![e] = IF @ = "write" THEN "close" ELSE "done"]
    /\ UNCHANGED <<program, next, sendReq, buf, accepted, pipe, recvVars, closeVars, faults>>

\* sendloop calls close, and returns when it has been carried out.
SendClose(e) ==
    /\ sendpc[e] = "close"
    /\ \/ Close(e) /\ UNCHANGED sendpc
       \/ ~open[e] /\ sendpc' = Set(sendpc, e, "done") /\ UNCHANGED die
    /\ UNCHANGED <<program, next, sendReq, buf, accepted, pipe, recvVars, open, callbacks, faults>>

-----------------------------------------------------------------------------
(* recvloop *)

\* recvloop takes an armed receive, or returns.
TakeRecv(e) ==
    /\ recvpc[e] = "select"
    /\ \/ recvReq[e] /\ recvReq' = Set(recvReq, e, FALSE) /\ recvpc' = Set(recvpc, e, "recv")
       \/ die[e] /\ recvpc' = Set(recvpc, e, "done") /\ UNCHANGED recvReq
    /\ UNCHANGED <<program, sendVars, pipe, fr, packet, received, broken, closeVars, faults>>

Payload(f) == Value(SubSeq(f.data, 1, sizeLen))
HasHead(f) == Len(f.data) >= sizeLen
BadFrame(f) == HasHead(f) /\ (Payload(f) = 0 \/ Payload(f) + sizeLen > MaxPacketSize)
HasFrame(f) == HasHead(f) /\ ~BadFrame(f) /\ Payload(f) + sizeLen <= Len(f.data)

\* The packet is skipped; when all is used the indices start again.
Taken(f) ==
    LET n == sizeLen + Payload(f)
    IN [f EXCEPT !.data = SubSeq(@, n + 1, Len(@)), !.r = IF n = Len(f.data) THEN 0 ELSE @ + n]

\* What is left of a packet is moved to the start, of a larger buffer if the packet
\* does not fit this one.
Compacted(f) ==
    [data |-> f.data, r |-> 0,
     cap |-> IF HasHead(f) /\ Payload(f) + sizeLen > f.cap THEN Payload(f) + sizeLen ELSE f.cap]

\* frameReader.recv reads until there is a whole frame.
Read(e) ==
    LET in == pipe[Peer(e)]
        f == Compacted(fr[e])
        most == Least(Len(in), f.cap - f.r - Len(f.data))
    IN /\ recvpc[e] = "recv" /\ open[e] /\ in # <<>>
       /\ ~HasFrame(fr[e]) /\ ~BadFrame(fr[e])
       /\ \E n \in 1..most :
              /\ program.cuts \/ n = most
              /\ fr' = Set(fr, e, [f EXCEPT !.data = @ \o SubSeq(in, 1, n)])
              /\ pipe' = Set(pipe, Peer(e), SubSeq(in, n + 1, Len(in)))
       /\ UNCHANGED <<program, sendVars, recvReq, recvpc, packet, received, broken, closeVars, faults>>

\* The frame is decoded and goes to the packet handler.
TakeFrame(e) ==
    /\ recvpc[e] = "recv" /\ HasFrame(fr[e])
    /\ LET payload == SubSeq(fr[e].data, sizeLen + 1, sizeLen + Payload(fr[e]))
           m == Decode(SelfAddr[e], payload)
       IN /\ fr' = Set(fr, e, Taken(fr[e]))
          /\ IF m = Invalid
             THEN /\ recvpc' = Set(recvpc, e, "close") /\ broken' = Set(broken, e, "frame")
                  /\ UNCHANGED <<packet, received>>
             ELSE /\ recvpc' = Set(recvpc, e, "handle") /\ packet' = Set(packet, e, m)
                  /\ received' = [received EXCEPT ![e] = Append(@, m)] /\ UNCHANGED broken
    /\ UNCHANGED <<program, sendVars, recvReq, pipe, closeVars, faults>>

\* Read fails, because the connection is closed at one of its ends or breaks or a
\* receive takes too long, or the length is wrong.
ReadFails(e) ==
    /\ recvpc[e] = "recv"
    /\ \/ /\ BadFrame(fr[e]) /\ broken' = Set(broken, e, "frame") /\ UNCHANGED faults
       \/ /\ ~HasFrame(fr[e]) /\ ~BadFrame(fr[e])
          /\ \/ (~open[e] \/ (~open[Peer(e)] /\ pipe[Peer(e)] = <<>>)) /\ UNCHANGED faults
             \/ faults < program.faults /\ faults' = faults + 1
          /\ broken' = Set(broken, e, "connection")
    /\ recvpc' = Set(recvpc, e, IF die[e] THEN "done" ELSE "close")
    /\ UNCHANGED <<program, sendVars, fr, recvReq, packet, received, pipe, closeVars>>

\* The handler has returned: the next receive is armed.
Rearm(e) ==
    /\ recvpc' = Set(recvpc, e, "select") /\ packet' = Set(packet, e, NoPacket)
    /\ recvReq' = Set(recvReq, e, TRUE)

\* The handler sends a reply with a deadline, as RPC replies are sent, or returns an error.
Handle(e) ==
    /\ recvpc[e] = "handle"
    /\ \/ /\ ReplyTo(packet[e]) # packet[e]
          /\ Send(e, ReplyTo(packet[e]), "second") /\ Rearm(e) /\ UNCHANGED faults
       \/ /\ ReplyTo(packet[e]) = packet[e]
          /\ Rearm(e) /\ UNCHANGED <<sendReq, accepted, faults>>
       \/ /\ faults < program.faults /\ faults' = faults + 1
          /\ recvpc' = Set(recvpc, e, "close")
          /\ UNCHANGED <<packet, recvReq, sendReq, accepted>>
    /\ UNCHANGED <<program, next, buf, sendpc, pipe, fr, received, broken, closeVars>>

RecvClose(e) ==
    /\ recvpc[e] = "close"
    /\ \/ Close(e) /\ UNCHANGED recvpc
       \/ ~open[e] /\ recvpc' = Set(recvpc, e, "done") /\ UNCHANGED die
    /\ UNCHANGED <<program, sendVars, fr, recvReq, packet, received, broken, pipe, open, callbacks, faults>>

-----------------------------------------------------------------------------
(* The specification *)

sendloop(e) == TakeMessage(e) \/ Flush(e) \/ Write(e) \/ WriteFails(e) \/ SendClose(e)
recvloop(e) == TakeRecv(e) \/ Read(e) \/ TakeFrame(e) \/ ReadFails(e) \/ Handle(e) \/ RecvClose(e)
closer(e) == CloseConn(e) \/ finalize(e)

Next == \E e \in Ends : SendNext(e) \/ CallClose(e) \/ sendloop(e) \/ recvloop(e) \/ closer(e)

Spec == Init /\ [][Next]_vars

\* Some goroutine of the two Sockets that can go on does.
FairSpec == Spec /\ WF_vars(\E e \in Ends : sendloop(e) \/ recvloop(e) \/ closer(e))

-----------------------------------------------------------------------------
(* Properties *)

\* Those among the first 0, 1, ... messages of s.
EncodedUpTo(s) ==
    LET upTo[i \in 0..Len(s)] ==
            IF i = 0 THEN <<>>
            ELSE IF Encodable(s[i]) THEN Append(upTo[i - 1], s[i]) ELSE upTo[i - 1]
    IN upTo

Encoded(s) == EncodedUpTo(s)[Len(s)]

\* What e is to make of a message: the message itself, or one to pass on whose bytes
\* are the same and from which the number of a request and whether its sender waits
\* can be read.
Arrives(e, m, got) ==
    IF m.to = SelfAddr[e] THEN got = m
    ELSE /\ got.kind = "relay" /\ got.to = m.to /\ got.from = m.from
         /\ Encode(got) = Encode(m)
         /\ m.kind = "req" =>
                GetRpcRequest(got).seq = m.seq /\ GetRpcRequest(got).oneway = m.oneway

\* However the bytes are cut up, and whatever the buffer still holds of other packets,
\* the messages that Send took and that can be encoded arrive unchanged, in order
\* and without gaps, and no Socket finds a wrong length or an undecodable packet.
InOrder ==
    \A e \in Ends :
        LET sent == Encoded(accepted[Peer(e)])
        IN /\ Len(received[e]) <= Len(sent)
           /\ \A i \in 1..Len(received[e]) : Arrives(e, sent[i], received[e][i])
           /\ broken[e] # "frame"

\* The close callback is the last thing a Socket does: both loops have ended, the
\* handler has returned and the connection is closed.
CallbackLast ==
    \A e \in Ends : callbacks[e] > 0 =>
        sendpc[e] = "done" /\ recvpc[e] = "done" /\ ~open[e]

\* As long as no end closes, every message that Send took arrives, even when both
\* handlers wait for room in queues that only the other one's reading can make.
Arrival ==
    []<>(\/ die[A] \/ die[B]
         \/ \A e \in Ends : Len(received[e]) = Len(Encoded(accepted[Peer(e)])))

\* A Socket that is closed ends both loops and calls back, wherever they wait: for
\* messages, for bytes, for room in the connection or in the queue.
Released == []<>(\A e \in Ends : die[e] => callbacks[e] = 1)
=============================================================================
