------------------------------ MODULE MCSocket ------------------------------
(* Instances of the two Sockets and of the wire formats: bytes have eight    *)
(* values and most fields one byte.                                          *)
EXTENDS Socket

MCSelfAddr == [e \in Ends |-> IF e = A THEN 1 ELSE 2]

Data(n) == [i \in 1..n |-> i % Base]

Bin(from, cmd, n) == [kind |-> "bin", to |-> 3 - from, from |-> from, cmd |-> cmd, data |-> Data(n)]
Request(s, oneway, m, u, n) ==
    [kind |-> "req", to |-> 2, from |-> 1, seq |-> s, oneway |-> oneway, method |-> Data(m),
     userdata |-> Data(u), arg |-> Data(n)]
Response(s, u, code, text, n) ==
    [kind |-> "resp", to |-> 2, from |-> 1, seq |-> s, userdata |-> Data(u), code |-> code,
     text |-> Data(IF code = 0 THEN 0 ELSE text), ret |-> Data(n)]

Messages ==
    {[Bin(1, c, n) EXCEPT !.kind = k] : k \in {"bin", "pb"}, c \in {0, 7}, n \in {0, 7, 8}}
        \union {Request(7, o, m, u, n) : o \in BOOLEAN, m \in 0..1, u \in 0..1, n \in 0..1}
        \union {Response(7, u, c, t, n) : u \in 0..1, c \in {0, 7}, t \in 0..1, n \in 0..1}

MCReplyTo(m) == IF m.kind = "bin" /\ m.cmd = 1 THEN [Bin(m.to, 2, 2) EXCEPT !.to = m.from] ELSE m

With(m, d) == [msg |-> m, deadline |-> d]

\* Both ends send more than the queues and the connection hold, and reply to the first.
Duplex ==
    [sends |-> [e \in Ends |-> [i \in 1..3 |->
                   With(Bin(MCSelfAddr[e], IF i = 1 THEN 1 ELSE 3, 2), "none")]],
     cuts |-> FALSE, faults |-> 0]

FromA(s, c, f) ==
    [sends |-> [e \in Ends |-> IF e = A THEN s ELSE <<>>], cuts |-> c, faults |-> f]

\* A frame that is too large, a small one, the largest and a small one.
Sizes ==
    FromA(<<With(Bin(1, 3, 8), "past"), With(Bin(1, 3, 1), "none"), With(Bin(1, 3, 7), "none"),
            With(Bin(1, 3, 1), "second")>>, TRUE, 0)

\* A message and a request when something goes wrong.
Faulty == FromA(<<With(Bin(1, 3, 2), "none"), With(Bin(1, 1, 1), "none")>>, FALSE, 1)

\* To the node at B, or to another.
Alone(m, to) == FromA(<<With([m EXCEPT !.to = to], "none")>>, FALSE, 0)

MCPrograms == {Duplex, Sizes, Faulty} \union {Alone(m, to) : m \in Messages, to \in {2, 3}}
=============================================================================
