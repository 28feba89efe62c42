---------------------------- MODULE SocketProofs ----------------------------
(***************************************************************************)
(* A message that is encoded and decoded again is the same; between two    *)
(* Sockets, however the bytes are cut up, what is received is what was     *)
(* sent, in order and without gaps; the close callback comes last.  All of *)
(* it for any messages, sizes of fields, buffers and queues, and for any   *)
(* number of messages.                                                     *)
(***************************************************************************)
EXTENDS Socket, WellFoundedInduction, TLAPS

-----------------------------------------------------------------------------
(* Induction and recursion *)

\* A set of numbers has a least one.
LEMMA LeastNumber ==
    ASSUME NEW T \in SUBSET Nat, T # {}
    PROVE  \E x \in T : \A y \in T : x <= y
<1>1. PICK x \in T : \A y \in T : ~ (<<y, x>> \in OpToRel(<, Nat))
  BY WFMin, NatLessThanWellFounded, Zenon
<1>2. \A y \in T : <<y, x>> \in OpToRel(<, Nat) <=> y < x
  BY Zenon DEF OpToRel
<1>3. \A y \in T : ~ (y < x)
  BY <1>1, <1>2, Zenon
<1>. QED
  BY <1>3

\* Induction, with a set of numbers in the place of a predicate.
LEMMA Induction ==
    ASSUME NEW T, 0 \in T, \A n \in Nat : n \in T => n + 1 \in T
    PROVE  Nat \subseteq T
<1>. SUFFICES ASSUME Nat \ T # {} PROVE FALSE
  BY Zenon
<1>1. PICK x \in Nat \ T : \A y \in Nat \ T : x <= y
  BY LeastNumber, Zenon
<1>2. x # 0 /\ x - 1 \in Nat
  OBVIOUS
<1>3. x - 1 \in T
  BY <1>1, <1>2
<1>. QED
  BY <1>2, <1>3

\* g has a first value, and the others follow from the ones before them.
Recursive(g, N, S, base, step) ==
    g \in [0..N -> S] /\ g[0] = base /\ \A i \in 1..N : g[i] = step[i][g[i - 1]]

LEMMA Recursion ==
    ASSUME NEW N \in Nat, NEW S, NEW base \in S, NEW step \in [1..N -> [S -> S]]
    PROVE  \E g : Recursive(g, N, S, base, step)
<1>. DEFINE Good(n, g) == g \in [0..n -> S] /\ g[0] = base /\ \A i \in 1..n : g[i] = step[i][g[i-1]]
            T == {n \in Nat : n <= N => \E g : Good(n, g)}
<1>1. 0 \in T
  <2>1. Good(0, [i \in 0..0 |-> base])
    OBVIOUS
  <2>. QED
    BY <2>1, Zenon
<1>2. ASSUME NEW n \in Nat, n \in T
      PROVE  n + 1 \in T
  <2>. SUFFICES ASSUME n + 1 <= N
                PROVE  \E g : Good(n + 1, g)
    OBVIOUS
  <2>1. PICK g : Good(n, g)
    BY <1>2
  <2>. DEFINE h == [i \in 0..n+1 |-> IF i = n + 1 THEN step[n+1][g[n]] ELSE g[i]]
  <2>2. step[n+1][g[n]] \in S
    BY <2>1
  <2>3. h \in [0..n+1 -> S]
    BY <2>1, <2>2
  <2>4. ASSUME NEW i \in 1..n+1
        PROVE  h[i] = step[i][h[i-1]]
    <3>1. CASE i = n + 1
      <4>1. n \in 0..n+1 /\ n + 1 \in 0..n+1 /\ n # n + 1 /\ i - 1 = n
        BY <3>1
      <4>2. h[n+1] = step[n+1][g[n]] /\ h[n] = g[n]
        BY <4>1, Zenon
      <4>. QED
        BY <3>1, <4>1, <4>2, Zenon
    <3>2. CASE i # n + 1
      <4>1. i \in 1..n /\ i - 1 \in 0..n /\ h[i] = g[i] /\ h[i-1] = g[i-1]
        BY <3>2
      <4>. QED
        BY <2>1, <4>1, Zenon
    <3>. QED
      BY <3>1, <3>2, Zenon
  <2>5. h[0] = base
    BY <2>1
  <2>. HIDE DEF h
  <2>6. Good(n + 1, h)
    BY <2>3, <2>4, <2>5, Zenon
  <2>. QED
    BY <2>6, Zenon
<1>3. N \in T
  <2>. HIDE DEF T
  <2>. QED
    BY <1>1, <1>2, Induction, Zenon
<1>. QED
  BY <1>3 DEF Recursive

\* Two functions that start with the same value and go on in the same way.
SameSteps(N, f, g) ==
    /\ f = [i \in 0..N |-> f[i]] /\ g = [i \in 0..N |-> g[i]]
    /\ f[0] = g[0] /\ \A i \in 1..N : f[i - 1] = g[i - 1] => f[i] = g[i]

LEMMA SameFunction ==
    ASSUME NEW N \in Nat, NEW f, NEW g, SameSteps(N, f, g)
    PROVE  f = g
<1>. USE DEF SameSteps
<1>. DEFINE T == {n \in Nat : n <= N => f[n] = g[n]}
<1>1. 0 \in T
  BY Zenon
<1>2. ASSUME NEW n \in Nat, n \in T
      PROVE  n + 1 \in T
  <2>1. n + 1 <= N => n + 1 \in 1..N /\ (n + 1) - 1 = n /\ n <= N
    OBVIOUS
  <2>2. n + 1 <= N => f[n + 1] = g[n + 1]
    BY <1>2, <2>1, Zenon
  <2>. QED
    BY <2>2
<1>3. Nat \subseteq T
  <2>. HIDE DEF T
  <2>. QED
    BY <1>1, <1>2, Induction, Zenon
<1>4. \A n \in 0..N : f[n] = g[n]
  BY <1>3
<1>. QED
  BY <1>4, Zenon

LEMMA ConstantTypes ==
    /\ Base \in Nat /\ Base > 4
    /\ sizeLen \in Nat \ {0} /\ sizeAddr \in Nat \ {0} /\ sizeCmd \in Nat \ {0}
    /\ lenSeq \in Nat \ {0} /\ lenPart \in Nat \ {0}
    /\ MaxPacketSize \in Nat /\ maxPart \in Nat
    /\ minSize \in Nat /\ minSize = sizeLen + 1 + 2 * sizeAddr
BY WireAssumption DEF minSize

LEMMA Divide ==
    ASSUME NEW v \in Nat
    PROVE  v \div Base \in Nat /\ v % Base \in Byte /\ v = (v \div Base) * Base + (v % Base)
BY ConstantTypes DEF Byte

-----------------------------------------------------------------------------
(* Numbers *)

LEMMA ShiftedDef ==
    ASSUME NEW width \in Nat, NEW v \in Nat
    PROVE  /\ Shifted(width, v) \in [0..width -> Nat]
           /\ Shifted(width, v)[0] = v
           /\ \A i \in 1..width : Shifted(width, v)[i] = Shifted(width, v)[i-1] \div Base
<1>. DEFINE step == [i \in 1..width |-> [x \in Nat |-> x \div Base]]
            Rec(g) == g = [i \in 0..width |-> IF i = 0 THEN v ELSE g[i-1] \div Base]
            F == Shifted(width, v)
<1>1. step \in [1..width -> [Nat -> Nat]]
  BY Divide, Zenon
<1>2. PICK g : Recursive(g, width, Nat, v, step)
  <2>. HIDE DEF step
  <2>. QED
    BY <1>1, Recursion, Zenon
<1>3. g \in [0..width -> Nat] /\ g[0] = v
  BY <1>2, Zenon DEF Recursive
<1>4. ASSUME NEW i \in 1..width
      PROVE  g[i-1] \in Nat /\ g[i] = g[i-1] \div Base
  <2>1. i - 1 \in 0..width
    OBVIOUS
  <2>2. step[i] = [x \in Nat |-> x \div Base]
    BY Zenon
  <2>3. g[i] = step[i][g[i-1]]
    BY <1>2, Zenon DEF Recursive
  <2>. QED
    BY <1>3, <2>1, <2>2, <2>3, Zenon
<1>5. Rec(g)
  BY <1>3, <1>4
<1>6. F = CHOOSE f : Rec(f)
  BY Zenon DEF Shifted
<1>. HIDE DEF F
<1>7. Rec(F)
  <2>. HIDE DEF Rec
  <2>. QED
    BY <1>5, <1>6, Zenon
<1>8. F = g
  <2>1. F = [i \in 0..width |-> F[i]] /\ g = [i \in 0..width |-> g[i]] /\ F[0] = g[0] /\ width \in Nat
    BY <1>3, <1>7
  <2>2. \A i \in 1..width : F[i-1] = g[i-1] => F[i] = g[i]
    BY <1>4, <1>7
  <2>3. SameSteps(width, F, g)
    BY <2>1, <2>2, Zenon DEF SameSteps
  <2>. QED
    BY <2>1, <2>3, SameFunction, Zenon
<1>. QED
  BY <1>3, <1>4, <1>8, Zenon DEF F

LEMMA NumbersDef ==
    ASSUME NEW bs \in Seq(Byte)
    PROVE  /\ Numbers(bs) \in [0..Len(bs) -> Nat]
           /\ Numbers(bs)[0] = 0
           /\ \A i \in 1..Len(bs) : Numbers(bs)[i] = Numbers(bs)[i-1] * Base + bs[i]
           /\ Value(bs) \in Nat
<1>. DEFINE N == Len(bs)
            step == [i \in 1..N |-> [x \in Nat |-> x * Base + bs[i]]]
            Rec(g) == g = [i \in 0..N |-> IF i = 0 THEN 0 ELSE g[i-1] * Base + bs[i]]
            F == Numbers(bs)
<1>1. step \in [1..N -> [Nat -> Nat]]
  BY ConstantTypes DEF Byte
<1>2. PICK g : Recursive(g, N, Nat, 0, step)
  <2>1. N \in Nat
    OBVIOUS
  <2>. HIDE DEF step, N
  <2>. QED
    BY <1>1, <2>1, Recursion, Zenon
<1>3. g \in [0..N -> Nat] /\ g[0] = 0
  BY <1>2, Zenon DEF Recursive
<1>4. ASSUME NEW i \in 1..N
      PROVE  g[i-1] \in Nat /\ g[i] = g[i-1] * Base + bs[i]
  <2>1. i - 1 \in 0..N
    OBVIOUS
  <2>2. step[i] = [x \in Nat |-> x * Base + bs[i]]
    BY Zenon
  <2>3. g[i] = step[i][g[i-1]]
    BY <1>2, Zenon DEF Recursive
  <2>. QED
    BY <1>3, <2>1, <2>2, <2>3, Zenon
<1>5. Rec(g)
  BY <1>3, <1>4
<1>6. F = CHOOSE f : Rec(f)
  BY Zenon DEF Numbers
<1>. HIDE DEF F
<1>7. Rec(F)
  <2>. HIDE DEF Rec
  <2>. QED
    BY <1>5, <1>6, Zenon
<1>8. F = g
  <2>1. F = [i \in 0..N |-> F[i]] /\ g = [i \in 0..N |-> g[i]] /\ F[0] = g[0] /\ N \in Nat
    BY <1>3, <1>7
  <2>2. \A i \in 1..N : F[i-1] = g[i-1] => F[i] = g[i]
    BY <1>4, <1>7
  <2>3. SameSteps(N, F, g)
    BY <2>1, <2>2, Zenon DEF SameSteps
  <2>. QED
    BY <2>1, <2>3, SameFunction, Zenon
<1>9. Value(bs) = g[N] /\ N \in 0..N
  BY <1>8 DEF Value, F
<1>. QED
  BY <1>3, <1>4, <1>8, <1>9 DEF F

LEMMA PutType ==
    ASSUME NEW width \in Nat, NEW v \in Nat
    PROVE  Put(width, v) \in Seq(Byte) /\ Len(Put(width, v)) = width
<1>1. ASSUME NEW i \in 1..width
      PROVE  Shifted(width, v)[width - i] % Base \in Byte
  <2>1. width - i \in 0..width
    OBVIOUS
  <2>2. Shifted(width, v)[width - i] \in Nat
    BY <2>1, ShiftedDef
  <2>. QED
    BY <2>2, Divide, Zenon
<1>. QED
  BY <1>1 DEF Put

\* What is written in a field that can hold it is read again.
LEMMA ValuePut ==
    ASSUME NEW width \in Nat, NEW v \in Field(width)
    PROVE  Value(Put(width, v)) = v
<1>. DEFINE sh == Shifted(width, v)
            bs == Put(width, v)
            nu == Numbers(bs)
            T == {n \in Nat : n <= width => nu[n] = sh[width - n]}
<1>1. v \in Nat /\ sh[width] = 0
  BY Zenon DEF Field
<1>2. bs \in Seq(Byte) /\ Len(bs) = width
  BY <1>1, PutType, Zenon
<1>3. /\ sh \in [0..width -> Nat] /\ sh[0] = v
      /\ \A i \in 1..width : sh[i] = sh[i-1] \div Base
  BY <1>1, ShiftedDef, ZenonT(30)
<1>4. /\ nu[0] = 0
      /\ \A i \in 1..width : nu[i] = nu[i-1] * Base + bs[i]
  BY <1>2, NumbersDef, Zenon
<1>5. \A i \in 1..width : bs[i] = sh[width - i] % Base
  BY Zenon DEF Put
<1>. HIDE DEF sh, bs, nu
<1>6. 0 \in T
  BY <1>1, <1>4
<1>7. ASSUME NEW n \in Nat, n \in T
      PROVE  n + 1 \in T
  <2>. SUFFICES ASSUME n + 1 <= width
                PROVE  nu[n+1] = sh[width - (n+1)]
    OBVIOUS
  <2>. DEFINE x == sh[width - (n+1)]
  <2>1. x \in Nat
    BY <1>3
  <2>2. n + 1 \in 1..width /\ width - n \in 1..width /\ (n + 1) - 1 = n /\ (width - n) - 1 = width - (n+1)
    OBVIOUS
  <2>3. nu[n] = x \div Base
    BY <1>3, <1>7, <2>2
  <2>4. nu[n+1] = nu[n] * Base + (x % Base)
    BY <1>4, <1>5, <2>2, Zenon
  <2>. HIDE DEF x
  <2>5. nu[n+1] = x
    BY <2>1, <2>3, <2>4, Divide, Zenon
  <2>. QED
    BY <2>5, Zenon DEF x
<1>8. width \in T
  <2>. HIDE DEF T
  <2>. QED
    BY <1>6, <1>7, Induction
<1>9. nu[width] = sh[0]
  BY <1>8
<1>. QED
  BY <1>2, <1>3, <1>9, Zenon DEF Value, nu, bs

-----------------------------------------------------------------------------
(* Bytes within bytes *)

Bytes == Seq(Byte)

\* The bytes s are in w, behind the first c.
At(w, c, s) == c + Len(s) <= Len(w) /\ \A i \in 1..Len(s) : s[i] = w[c + i]

LEMMA AtSelf ==
    ASSUME NEW w \in Bytes
    PROVE  At(w, 0, w)
BY DEF At, Bytes

LEMMA AtSplit ==
    ASSUME NEW w \in Bytes, NEW s \in Bytes, NEW t \in Bytes, NEW c \in Nat
    PROVE  At(w, c, s \o t) <=> At(w, c, s) /\ At(w, c + Len(s), t)
<1>. DEFINE st == s \o t
<1>1. /\ Len(s) \in Nat /\ Len(t) \in Nat /\ Len(w) \in Nat
      /\ Len(st) = Len(s) + Len(t)
      /\ \A i \in 1..Len(st) : st[i] = IF i <= Len(s) THEN s[i] ELSE t[i - Len(s)]
  BY DEF Bytes
<1>. HIDE DEF st
<1>2. ASSUME At(w, c, st)
      PROVE  At(w, c, s) /\ At(w, c + Len(s), t)
  <2>1. \A i \in 1..Len(s) : st[i] = s[i] /\ st[i] = w[c + i]
    BY <1>1, <1>2 DEF At
  <2>2. ASSUME NEW i \in 1..Len(t)
        PROVE  t[i] = w[(c + Len(s)) + i]
    <3>1. Len(s) + i \in 1..Len(st) /\ ~(Len(s) + i <= Len(s)) /\ (Len(s) + i) - Len(s) = i
      BY <1>1
    <3>2. st[Len(s) + i] = t[i]
      BY <1>1, <3>1, Zenon
    <3>3. st[Len(s) + i] = w[c + (Len(s) + i)]
      BY <1>2, <3>1 DEF At
    <3>4. c + (Len(s) + i) = (c + Len(s)) + i
      BY <1>1
    <3>. QED
      BY <3>2, <3>3, <3>4, Zenon
  <2>. QED
    BY <1>1, <1>2, <2>1, <2>2 DEF At
<1>3. ASSUME At(w, c, s), At(w, c + Len(s), t)
      PROVE  At(w, c, st)
  <2>1. ASSUME NEW i \in 1..Len(st)
        PROVE  st[i] = w[c + i]
    <3>1. CASE i <= Len(s)
      BY <1>1, <1>3, <3>1 DEF At
    <3>2. CASE ~(i <= Len(s))
      <4>1. i - Len(s) \in 1..Len(t) /\ (c + Len(s)) + (i - Len(s)) = c + i
        BY <1>1, <3>2
      <4>2. t[i - Len(s)] = w[(c + Len(s)) + (i - Len(s))]
        BY <1>3, <4>1, Zenon DEF At
      <4>. QED
        BY <1>1, <3>2, <4>1, <4>2, Zenon
    <3>. QED
      BY <3>1, <3>2
  <2>. QED
    BY <1>1, <1>3, <2>1 DEF At
<1>. QED
  BY <1>2, <1>3 DEF st

LEMMA SubSeqIs ==
    ASSUME NEW w \in Bytes, NEW c \in Nat, NEW n \in Nat, c + n <= Len(w)
    PROVE  /\ SubSeq(w, c + 1, c + n) \in Bytes
           /\ Len(SubSeq(w, c + 1, c + n)) = n
           /\ \A i \in 1..n : SubSeq(w, c + 1, c + n)[i] = w[c + i]
BY DEF Bytes

LEMMA SameBytes ==
    ASSUME NEW s \in Bytes, NEW t \in Bytes, Len(s) = Len(t), \A i \in 1..Len(s) : s[i] = t[i]
    PROVE  s = t
BY DEF Bytes

LEMMA AtSubSeq ==
    ASSUME NEW w \in Bytes, NEW s \in Bytes, NEW c \in Nat, At(w, c, s)
    PROVE  SubSeq(w, c + 1, c + Len(s)) = s
<1>1. Len(s) \in Nat /\ c + Len(s) <= Len(w)
  BY DEF At, Bytes
<1>. DEFINE u == SubSeq(w, c + 1, c + Len(s))
<1>2. u \in Bytes /\ Len(u) = Len(s) /\ \A i \in 1..Len(s) : u[i] = w[c + i]
  BY <1>1, SubSeqIs, ZenonT(30)
<1>. HIDE DEF u
<1>3. \A i \in 1..Len(u) : u[i] = s[i]
  BY <1>2, Zenon DEF At
<1>4. u = s
  BY <1>2, <1>3, SameBytes, Zenon
<1>. QED
  BY <1>4, Zenon DEF u

LEMMA ConcatType ==
    ASSUME NEW s \in Bytes, NEW t \in Bytes
    PROVE  s \o t \in Bytes /\ Len(s \o t) = Len(s) + Len(t) /\ Len(s) \in Nat /\ Len(t) \in Nat
BY DEF Bytes

-----------------------------------------------------------------------------
(* Parts *)

LEMMA PutBytes ==
    ASSUME NEW width \in Nat, NEW v \in Field(width)
    PROVE  /\ Put(width, v) \in Bytes /\ Len(Put(width, v)) = width
           /\ Value(Put(width, v)) = v /\ v \in Nat
<1>1. v \in Nat
  BY Zenon DEF Field
<1>. QED
  BY <1>1, PutType, ValuePut, Zenon DEF Bytes

\* A number in a field can be read where it was put.
LEMMA FieldAt ==
    ASSUME NEW w \in Bytes, NEW c \in Nat, NEW width \in Nat, NEW v \in Field(width),
           At(w, c, Put(width, v))
    PROVE  Value(SubSeq(w, c + 1, c + width)) = v /\ c + width <= Len(w)
<1>1. Put(width, v) \in Bytes /\ Len(Put(width, v)) = width /\ Value(Put(width, v)) = v
  BY PutBytes, Zenon
<1>2. SubSeq(w, c + 1, c + width) = Put(width, v)
  BY <1>1, AtSubSeq, Zenon
<1>3. c + width <= Len(w)
  BY <1>1, Zenon DEF At
<1>. QED
  BY <1>1, <1>2, <1>3, Zenon

\* So can a part with its length in front of it.
LEMMA PartAt ==
    ASSUME NEW w \in Bytes, NEW c \in Nat, NEW v \in Bytes, Len(v) \in Field(lenPart),
           At(w, c, Put(lenPart, Len(v)) \o v)
    PROVE  /\ ~ Missing(w, c + 1)
           /\ End(w, c + 1) = (c + lenPart + Len(v)) + 1
           /\ ReadBytes(w, c + 1) = v
           /\ c + lenPart + Len(v) <= Len(w)
<1>. DEFINE head == Put(lenPart, Len(v))
<1>1. head \in Bytes /\ Len(head) = lenPart /\ Len(v) \in Nat /\ lenPart \in Nat
  BY PutBytes, ConstantTypes, Zenon
<1>2. At(w, c, head) /\ At(w, c + lenPart, v)
  <2>1. At(w, c, head) /\ At(w, c + Len(head), v)
    BY <1>1, AtSplit, Zenon
  <2>. QED
    BY <1>1, <2>1, Zenon
<1>3. Value(SubSeq(w, c + 1, c + lenPart)) = Len(v) /\ c + lenPart <= Len(w)
  BY <1>1, <1>2, FieldAt, Zenon
<1>4. SubSeq(w, (c + lenPart) + 1, (c + lenPart) + Len(v)) = v
  <2>1. c + lenPart \in Nat
    BY <1>1
  <2>. QED
    BY <1>2, <2>1, AtSubSeq, Zenon
<1>5. Len(w) \in Nat /\ (c + lenPart) + Len(v) <= Len(w)
  BY <1>1, <1>2 DEF At, Bytes
<1>. HIDE DEF head
<1>6. ~ Missing(w, c + 1)
  BY <1>1, <1>5 DEF Missing
<1>7. End(w, c + 1) = (c + lenPart + Len(v)) + 1
  <2>1. (c + 1) + lenPart - 1 = c + lenPart
    BY <1>1
  <2>2. End(w, c + 1) = (c + 1) + lenPart + Value(SubSeq(w, c + 1, c + lenPart))
    BY <1>6, <2>1, Zenon DEF End
  <2>. QED
    BY <1>1, <1>3, <2>2
<1>8. ReadBytes(w, c + 1) = v
  <2>1. (c + 1) + lenPart = (c + lenPart) + 1 /\ ((c + lenPart + Len(v)) + 1) - 1 = (c + lenPart) + Len(v)
    BY <1>1
  <2>. QED
    BY <1>4, <1>7, <2>1, Zenon DEF ReadBytes
<1>. QED
  BY <1>5, <1>6, <1>7, <1>8, Zenon

\* What is short enough is written as it is.
LEMMA WriteBytesIs ==
    ASSUME NEW v \in Bytes, Len(v) <= maxPart
    PROVE  WriteBytes(v) = Put(lenPart, Len(v)) \o v
<1>1. Len(v) \in Nat /\ SubSeq(v, 1, Len(v)) = v /\ ~(Len(v) > maxPart)
  BY ConstantTypes DEF Bytes
<1>. QED
  BY <1>1, Zenon DEF WriteBytes

LEMMA LengthAndBytes ==
    ASSUME NEW v \in Bytes
    PROVE  /\ Put(lenPart, Len(v)) \o v \in Bytes
           /\ Len(Put(lenPart, Len(v)) \o v) = lenPart + Len(v)
<1>1. Len(v) \in Nat /\ lenPart \in Nat
  BY ConstantTypes DEF Bytes
<1>2. Put(lenPart, Len(v)) \in Bytes /\ Len(Put(lenPart, Len(v))) = lenPart
  BY <1>1, PutType, Zenon DEF Bytes
<1>. QED
  BY <1>2, ConcatType, Zenon

LEMMA LenNat ==
    ASSUME NEW s \in Bytes
    PROVE  Len(s) \in Nat
BY DEF Bytes

\* Where the pieces of a message are.
LEMMA AtFront ==
    ASSUME NEW w \in Bytes, NEW s \in Bytes, NEW t \in Bytes, At(w, 0, s \o t)
    PROVE  At(w, 0, s) /\ At(w, Len(s), t)
<1>1. 0 \in Nat /\ 0 + Len(s) = Len(s)
  BY LenNat
<1>2. At(w, 0, s) /\ At(w, 0 + Len(s), t)
  BY <1>1, AtSplit, Zenon
<1>. QED
  BY <1>1, <1>2, Zenon

PiecesAt(w, a, b, c, d, f) ==
    /\ w \in Bytes
    /\ Len(w) = Len(a) + Len(b) + Len(c) + Len(d) + Len(f)
    /\ At(w, 0, a) /\ At(w, Len(a), b) /\ At(w, Len(a) + Len(b), c)
    /\ At(w, Len(a) + Len(b) + Len(c), d)
    /\ At(w, Len(a) + Len(b) + Len(c) + Len(d), f)

LEMMA Pieces ==
    ASSUME NEW a \in Bytes, NEW b \in Bytes, NEW c \in Bytes, NEW d \in Bytes, NEW f \in Bytes,
           NEW w, w = a \o b \o c \o d \o f
    PROVE  PiecesAt(w, a, b, c, d, f)
<1>. USE Zenon
<1>1. a \o b \in Bytes /\ Len(a \o b) = Len(a) + Len(b)
  BY ConcatType
<1>2. a \o b \o c \in Bytes /\ Len(a \o b \o c) = Len(a) + Len(b) + Len(c)
  BY <1>1, ConcatType
<1>3. a \o b \o c \o d \in Bytes /\ Len(a \o b \o c \o d) = Len(a) + Len(b) + Len(c) + Len(d)
  BY <1>2, ConcatType
<1>4. w \in Bytes /\ Len(w) = Len(a) + Len(b) + Len(c) + Len(d) + Len(f)
  BY <1>3, ConcatType
<1>5. At(w, 0, w)
  BY <1>4, AtSelf, Zenon
<1>6. At(w, 0, a \o b \o c \o d) /\ At(w, Len(a \o b \o c \o d), f)
  BY <1>3, <1>4, <1>5, AtFront
<1>7. At(w, 0, a \o b \o c) /\ At(w, Len(a \o b \o c), d)
  BY <1>2, <1>4, <1>6, AtFront
<1>8. At(w, 0, a \o b) /\ At(w, Len(a \o b), c)
  BY <1>1, <1>4, <1>7, AtFront
<1>9. At(w, 0, a) /\ At(w, Len(a), b)
  BY <1>4, <1>8, AtFront
<1>. QED
  BY <1>1, <1>2, <1>3, <1>4, <1>6, <1>7, <1>8, <1>9 DEF PiecesAt

\* A part that a length can be written in front of, whole.
Short(v) == Len(v) \in Field(lenPart) /\ Len(v) <= maxPart

Part(v) == Put(lenPart, Len(v)) \o v

LEMMA ShortPart ==
    ASSUME NEW v \in Bytes, Short(v)
    PROVE  WriteBytes(v) = Part(v) /\ WriteMessage(v) = Part(v)
BY WriteBytesIs, Zenon DEF Short, Part, WriteMessage

LEMMA PartBytes ==
    ASSUME NEW v \in Bytes
    PROVE  Part(v) \in Bytes /\ Len(Part(v)) = lenPart + Len(v)
BY LengthAndBytes, Zenon DEF Part

\* Where the part ends the next one starts.
LEMMA ReadPart ==
    ASSUME NEW w \in Bytes, NEW c \in Nat, NEW v \in Bytes, Short(v), At(w, c, Part(v))
    PROVE  /\ ~ Missing(w, c + 1)
           /\ End(w, c + 1) = (c + Len(Part(v))) + 1
           /\ ReadBytes(w, c + 1) = v
           /\ c + Len(Part(v)) \in Nat
<1>1. /\ ~ Missing(w, c + 1)
      /\ End(w, c + 1) = (c + lenPart + Len(v)) + 1
      /\ ReadBytes(w, c + 1) = v
  BY PartAt, Zenon DEF Short, Part
<1>2. Len(v) \in Nat /\ lenPart \in Nat /\ Len(Part(v)) = lenPart + Len(v)
  BY LenNat, ConstantTypes, PartBytes, Zenon
<1>3. c + Len(Part(v)) = c + lenPart + Len(v) /\ c + Len(Part(v)) \in Nat
  BY <1>2
<1>. QED
  BY <1>1, <1>3, Zenon

LEMMA RequestTypes ==
    ASSUME NEW m \in Requests
    PROVE  /\ m.kind = "req" /\ m.to \in Field(sizeAddr) /\ m.from \in Field(sizeAddr)
           /\ m.seq \in Field(lenSeq) /\ m.oneway \in BOOLEAN
           /\ m.method \in Bytes /\ m.userdata \in Bytes /\ m.arg \in Bytes
           /\ m = [kind |-> "req", to |-> m.to, from |-> m.from, seq |-> m.seq,
                   oneway |-> m.oneway, method |-> m.method, userdata |-> m.userdata,
                   arg |-> m.arg]
<1>1. Seq(Byte) = Bytes
  BY Zenon DEF Bytes
<1>. QED
  BY <1>1, Zenon DEF Requests

IsRequest(r, to, from, seq, oneway, method, userdata, arg) ==
    r = [kind |-> "req", to |-> to, from |-> from, seq |-> seq, oneway |-> oneway,
         method |-> method, userdata |-> userdata, arg |-> arg]

IsResponse(r, to, from, seq, userdata, code, text, ret) ==
    r = [kind |-> "resp", to |-> to, from |-> from, seq |-> seq, userdata |-> userdata,
         code |-> code, text |-> text, ret |-> ret]

\* A request can be read again.
LEMMA ReadRequest ==
    ASSUME NEW seq \in Field(lenSeq), NEW oneway \in BOOLEAN,
           NEW method \in Bytes, NEW userdata \in Bytes, NEW arg \in Bytes,
           Short(method), Short(userdata), Short(arg), NEW to, NEW from, NEW w,
           w = Put(lenSeq, seq) \o <<Bit(oneway)>> \o Part(method) \o Part(userdata) \o Part(arg)
    PROVE  IsRequest(DecodeRequest(to, from, w), to, from, seq, oneway, method, userdata, arg)
<1>. USE Zenon
<1>. DEFINE a == Put(lenSeq, seq)
            b == <<Bit(oneway)>>
            n1 == Len(a) + Len(b)
            n2 == n1 + Len(Part(method))
            n3 == n2 + Len(Part(userdata))
<1>1. a \in Bytes /\ Len(a) = lenSeq /\ lenSeq \in Nat
  BY ConstantTypes, PutBytes
<1>2. b \in Bytes /\ Len(b) = 1 /\ b[1] = Bit(oneway)
  BY ConstantTypes, SMT DEF Bit, Bytes, Byte
<1>3. Part(method) \in Bytes /\ Part(userdata) \in Bytes /\ Part(arg) \in Bytes
  BY PartBytes, Zenon
<1>. HIDE DEF a, b
<1>4. /\ w \in Bytes
      /\ Len(w) = n3 + Len(Part(arg))
      /\ At(w, 0, a) /\ At(w, Len(a), b) /\ At(w, n1, Part(method))
      /\ At(w, n2, Part(userdata)) /\ At(w, n3, Part(arg))
  <2>1. w = a \o b \o Part(method) \o Part(userdata) \o Part(arg)
    BY Zenon DEF a, b
  <2>2. a \in Bytes /\ b \in Bytes
    BY <1>1, <1>2
  <2>3. PiecesAt(w, a, b, Part(method), Part(userdata), Part(arg))
    BY <1>3, <2>1, <2>2, Pieces
  <2>. QED
    BY <2>3, Zenon DEF PiecesAt
<1>5. n1 \in Nat /\ lenSeq + 2 = n1 + 1 /\ n1 = lenSeq + 1
  BY <1>1, <1>2, SMT
<1>7. End(w, n1 + 1) = n2 + 1 /\ ReadBytes(w, n1 + 1) = method /\ n2 \in Nat
  BY <1>4, <1>5, ReadPart
<1>8. End(w, n2 + 1) = n3 + 1 /\ ReadBytes(w, n2 + 1) = userdata /\ n3 \in Nat
  BY <1>4, <1>7, ReadPart
<1>9. End(w, n3 + 1) = (n3 + Len(Part(arg))) + 1 /\ ReadBytes(w, n3 + 1) = arg
  BY <1>4, <1>8, ReadPart, ZenonT(40)
<1>10. End(w, n3 + 1) = Len(w) + 1 /\ Len(w) \in Nat
  BY <1>4, <1>9, LenNat, Zenon
<1>. HIDE DEF n1, n2, n3
<1>13. ~(End(w, n3 + 1) > Len(w) + 1)
  BY <1>10, SMT
<1>11. Value(SubSeq(w, 1, lenSeq)) = seq
  <2>1. Value(SubSeq(w, 0 + 1, 0 + lenSeq)) = seq /\ 0 \in Nat
    BY <1>1, <1>4, FieldAt DEF a
  <2>2. 0 + 1 = 1 /\ 0 + lenSeq = lenSeq
    BY <1>1, SMT
  <2>. QED
    BY <2>1, <2>2
<1>12. (w[lenSeq + 1] = 1) = oneway
  <2>1. w[lenSeq + 1] = Bit(oneway)
    <3>1. \A i \in 1..Len(b) : b[i] = w[Len(a) + i]
      BY <1>4 DEF At
    <3>2. 1 \in 1..1
      BY SMT
    <3>. QED
      BY <1>1, <1>2, <3>1, <3>2
  <2>2. 0 # 1
    BY SMT
  <2>. QED
    BY <2>1, <2>2 DEF Bit
<1>. QED
  BY <1>5, <1>7, <1>8, <1>9, <1>13, <1>11, <1>12 DEF DecodeRequest, IsRequest

LEMMA NotAbove ==
    ASSUME NEW x \in Nat
    PROVE  ~(x + 1 > x + 1)
OBVIOUS

LEMMA Present ==
    ASSUME NEW w \in Bytes, NEW c \in Nat, c + lenPart <= Len(w)
    PROVE  /\ ~ Missing(w, c + 1)
           /\ c + lenPart \in Nat /\ (c + 1) + lenPart - 1 = c + lenPart
           /\ (c + 1) + lenPart = (c + lenPart) + 1
<1>1. lenPart \in Nat /\ Len(w) \in Nat
  BY ConstantTypes, LenNat
<1>. QED
  BY <1>1 DEF Missing

LEMMA NoBytes == <<>> \in Bytes /\ Len(<<>>) = 0
BY DEF Bytes

\* So can a response.
LEMMA ReadResponse ==
    ASSUME NEW seq \in Field(lenSeq), NEW code \in Field(lenPart),
           NEW userdata \in Bytes, NEW text \in Bytes, NEW ret \in Bytes,
           Short(userdata), code # 0 => Short(text), Short(ret), code = 0 => text = <<>>,
           NEW to, NEW from, NEW w, NEW error, error = (IF code # 0 THEN Part(text) ELSE <<>>),
           w = Put(lenSeq, seq) \o Part(userdata) \o Put(lenPart, code) \o error \o Part(ret)
    PROVE  IsResponse(DecodeResponse(to, from, w), to, from, seq, userdata, code, text, ret)
<1>. USE Zenon
<1>. DEFINE a == Put(lenSeq, seq)
            c == Put(lenPart, code)
            n1 == Len(a)
            n2 == n1 + Len(Part(userdata))
            n3 == n2 + Len(c)
            n4 == n3 + Len(error)
            ok == ~Missing(w, n2 + 1) /\ Value(SubSeq(w, n2 + 1, (n2 + 1) + lenPart - 1)) = 0
<1>1. a \in Bytes /\ Len(a) = lenSeq /\ lenSeq \in Nat
  BY ConstantTypes, PutBytes, Zenon
<1>2. c \in Bytes /\ Len(c) = lenPart /\ lenPart \in Nat
  BY ConstantTypes, PutBytes, Zenon
<1>3. Part(userdata) \in Bytes /\ Part(text) \in Bytes /\ Part(ret) \in Bytes /\ error \in Bytes
  BY PartBytes, NoBytes, Zenon
<1>. HIDE DEF a, c
<1>4. /\ w \in Bytes
      /\ Len(w) = n4 + Len(Part(ret))
      /\ At(w, 0, a) /\ At(w, n1, Part(userdata)) /\ At(w, n2, c)
      /\ At(w, n3, error) /\ At(w, n4, Part(ret))
  <2>1. w = a \o Part(userdata) \o c \o error \o Part(ret)
    BY Zenon DEF a, c
  <2>2. a \in Bytes /\ c \in Bytes
    BY <1>1, <1>2, Zenon
  <2>3. PiecesAt(w, a, Part(userdata), c, error, Part(ret))
    BY <1>3, <2>1, <2>2, Pieces, Zenon
  <2>. QED
    BY <2>3, Zenon DEF PiecesAt
<1>5. n1 \in Nat /\ n1 = lenSeq
  BY <1>1
<1>6. End(w, n1 + 1) = n2 + 1 /\ ReadBytes(w, n1 + 1) = userdata /\ n2 \in Nat
  BY <1>4, <1>5, ReadPart, ZenonT(40)
<1>7. n3 = n2 + lenPart
  BY <1>2, Zenon
<1>. HIDE DEF n2, n3
<1>8. Value(SubSeq(w, n2 + 1, n2 + lenPart)) = code /\ n2 + lenPart <= Len(w)
  BY <1>2, <1>4, <1>6, FieldAt, ZenonT(40) DEF c
<1>9. Len(w) \in Nat
  BY <1>4, LenNat, Zenon
<1>10. /\ n3 \in Nat /\ (n2 + 1) + lenPart - 1 = n2 + lenPart /\ (n2 + 1) + lenPart = n3 + 1
       /\ ~ Missing(w, n2 + 1)
  BY <1>4, <1>6, <1>7, <1>8, Present
<1>11. (ok <=> code = 0) /\ Value(SubSeq(w, n2 + 1, (n2 + 1) + lenPart - 1)) = code
  BY <1>8, <1>10
<1>. HIDE DEF n1, ok
<1>12. code # 0 => End(w, n3 + 1) = n4 + 1 /\ ReadBytes(w, n3 + 1) = text
  BY <1>4, <1>10, ReadPart
<1>13. n4 \in Nat /\ (code = 0 => n4 = n3)
  <2>1. Len(error) \in Nat /\ (code = 0 => Len(error) = 0)
    BY <1>3, NoBytes, LenNat
  <2>. QED
    BY <1>10, <2>1, SMT
<1>14. End(w, n4 + 1) = (n4 + Len(Part(ret))) + 1 /\ ReadBytes(w, n4 + 1) = ret
  BY <1>4, <1>13, ReadPart, ZenonT(40)
<1>15. End(w, n4 + 1) = Len(w) + 1
  BY <1>4, <1>14, Zenon
<1>16. ~(End(w, n4 + 1) > Len(w) + 1)
  BY <1>9, <1>15, NotAbove
<1>17. (IF ok THEN n3 + 1 ELSE End(w, n3 + 1)) = n4 + 1
  BY <1>11, <1>12, <1>13
<1>18. (IF ok THEN <<>> ELSE ReadBytes(w, n3 + 1)) = text
  BY <1>11, <1>12
<1>19. Value(SubSeq(w, 1, lenSeq)) = seq
  <2>1. Value(SubSeq(w, 0 + 1, 0 + lenSeq)) = seq
    BY <1>1, <1>4, FieldAt, 0 \in Nat DEF a
  <2>2. 0 + 1 = 1 /\ 0 + lenSeq = lenSeq
    BY <1>1, SMT
  <2>. QED
    BY <2>1, <2>2
<1>20. End(w, lenSeq + 1) = n2 + 1 /\ ReadBytes(w, lenSeq + 1) = userdata
  BY <1>5, <1>6
<1>. HIDE DEF n4
<1>. QED
  BY <1>10, <1>11, <1>14, <1>16, <1>17, <1>18, <1>19, <1>20, ZenonT(40) DEF DecodeResponse, IsResponse, ok

-----------------------------------------------------------------------------
(* Payloads *)

\* What is in front is read, and the rest is left.
LEMMA Cut ==
    ASSUME NEW s \in Bytes, NEW t \in Bytes
    PROVE  GetUint(s \o t, Len(s)) = Value(s) /\ After(s \o t, Len(s)) = t
<1>. USE Zenon
<1>. DEFINE w == s \o t
<1>1. w \in Bytes /\ Len(w) = Len(s) + Len(t) /\ Len(s) \in Nat /\ Len(t) \in Nat
  BY ConcatType
<1>2. At(w, 0, s) /\ At(w, Len(s), t)
  BY <1>1, AtSelf, AtFront
<1>. HIDE DEF w
<1>3. 0 \in Nat /\ 0 + 1 = 1 /\ 0 + Len(s) = Len(s) /\ ~(Len(w) < Len(s))
  BY <1>1, SMT
<1>4. SubSeq(w, 1, Len(s)) = s
  <2>1. SubSeq(w, 0 + 1, 0 + Len(s)) = s
    BY <1>1, <1>2, <1>3, AtSubSeq
  <2>. QED
    BY <1>3, <2>1
<1>5. SubSeq(w, Len(s) + 1, Len(w)) = t
  <2>1. SubSeq(w, Len(s) + 1, Len(s) + Len(t)) = t
    BY <1>1, <1>2, AtSubSeq
  <2>. QED
    BY <1>1, <2>1
<1>6. GetUint(w, Len(s)) = Value(s) /\ After(w, Len(s)) = t
  BY <1>3, <1>4, <1>5 DEF GetUint, After
<1>. QED
  BY <1>6 DEF w

LEMMA OneByte ==
    ASSUME NEW b \in Byte
    PROVE  <<b>> \in Bytes /\ Len(<<b>>) = 1 /\ Value(<<b>>) = b /\ <<b>>[1] = b
<1>1. <<b>> \in Seq(Byte) /\ Len(<<b>>) = 1 /\ 1 \in 1..1 /\ 1 - 1 = 0 /\ <<b>>[1] = b
  OBVIOUS
<1>2. Numbers(<<b>>)[1] = 0 * Base + b
  BY <1>1, NumbersDef, Zenon
<1>3. Value(<<b>>) = 0 * Base + b
  BY <1>1, <1>2, Zenon DEF Value
<1>4. 0 * Base + b = b
  BY ConstantTypes DEF Byte
<1>. QED
  BY <1>1, <1>3, <1>4, Zenon DEF Bytes

Assoc(a, b, c) == (a \o b) \o c = a \o (b \o c)

LEMMA Associative ==
    ASSUME NEW a \in Bytes, NEW b \in Bytes, NEW c \in Bytes
    PROVE  Assoc(a, b, c)
<1>. DEFINE l == (a \o b) \o c
            r == a \o (b \o c)
<1>1. l \in Bytes /\ r \in Bytes /\ Len(l) = Len(r)
  BY DEF Bytes
<1>2. \A i \in 1..Len(l) : l[i] = r[i]
  BY DEF Bytes
<1>. HIDE DEF l, r
<1>3. l = r
  BY <1>1, <1>2, SameBytes, Zenon
<1>. QED
  BY <1>3, Zenon DEF l, r, Assoc

Assoc4(a, b, c, d) == a \o b \o c \o d = a \o (b \o (c \o d))

LEMMA Associative4 ==
    ASSUME NEW a \in Bytes, NEW b \in Bytes, NEW c \in Bytes, NEW d \in Bytes
    PROVE  Assoc4(a, b, c, d)
<1>1. a \o b \in Bytes /\ c \o d \in Bytes
  BY ConcatType, Zenon
<1>2. Assoc(a \o b, c, d) /\ Assoc(a, b, c \o d)
  BY <1>1, Associative, Zenon
<1>. QED
  BY <1>2, Zenon DEF Assoc, Assoc4

\* The fields of every payload, and what follows them.
HeaderRead(w, t, to, from, body) ==
    /\ GetUint(w, 1) = t
    /\ GetUint(After(w, 1), sizeAddr) = to
    /\ GetUint(After(After(w, 1), sizeAddr), sizeAddr) = from
    /\ After(After(After(w, 1), sizeAddr), sizeAddr) = body
    /\ w \in Bytes
    /\ Len(w) = 1 + sizeAddr + sizeAddr + Len(body)

LEMMA ReadHeader ==
    ASSUME NEW t \in Byte, NEW to \in Field(sizeAddr), NEW from \in Field(sizeAddr), NEW body \in Bytes,
           NEW w, w = <<t>> \o Put(sizeAddr, to) \o Put(sizeAddr, from) \o body
    PROVE  HeaderRead(w, t, to, from, body)
<1>. USE Zenon
<1>. DEFINE a == <<t>>
            b == Put(sizeAddr, to)
            c == Put(sizeAddr, from)
<1>1. a \in Bytes /\ Len(a) = 1 /\ Value(a) = t
  BY OneByte, Zenon
<1>2. sizeAddr \in Nat
  BY ConstantTypes, Zenon
<1>3. b \in Bytes /\ Len(b) = sizeAddr /\ Value(b) = to
  BY <1>2, PutBytes
<1>4. c \in Bytes /\ Len(c) = sizeAddr /\ Value(c) = from
  BY <1>2, PutBytes
<1>5. w = a \o b \o c \o body
  BY Zenon
<1>. HIDE DEF a, b, c
<1>6. c \o body \in Bytes /\ b \o (c \o body) \in Bytes
  BY <1>3, <1>4, ConcatType
<1>7. w = a \o (b \o (c \o body))
  <2>1. a \in Bytes /\ b \in Bytes /\ c \in Bytes
    BY <1>1, <1>3, <1>4
  <2>2. Assoc4(a, b, c, body)
    BY <2>1, Associative4
  <2>. QED
    BY <1>5, <2>2 DEF Assoc4
<1>8. GetUint(w, 1) = t /\ After(w, 1) = b \o (c \o body)
  <2>1. GetUint(w, Len(a)) = Value(a) /\ After(w, Len(a)) = b \o (c \o body)
    BY <1>1, <1>6, <1>7, Cut
  <2>. QED
    BY <1>1, <2>1
<1>9. GetUint(b \o (c \o body), sizeAddr) = to /\ After(b \o (c \o body), sizeAddr) = c \o body
  <2>1. GetUint(b \o (c \o body), Len(b)) = Value(b) /\ After(b \o (c \o body), Len(b)) = c \o body
    BY <1>3, <1>6, Cut
  <2>. QED
    BY <1>3, <2>1
<1>10. GetUint(c \o body, sizeAddr) = from /\ After(c \o body, sizeAddr) = body
  <2>1. GetUint(c \o body, Len(c)) = Value(c) /\ After(c \o body, Len(c)) = body
    BY <1>4, Cut, Zenon
  <2>. QED
    BY <1>4, <2>1
<1>11. w \in Bytes /\ Len(w) = 1 + sizeAddr + sizeAddr + Len(body)
  <2>1. a \o b \in Bytes /\ Len(a \o b) = 1 + sizeAddr
    BY <1>1, <1>3, ConcatType
  <2>2. a \o b \o c \in Bytes /\ Len(a \o b \o c) = 1 + sizeAddr + sizeAddr
    BY <1>4, <2>1, ConcatType
  <2>. QED
    BY <1>5, <2>2, ConcatType
<1>. QED
  BY <1>8, <1>9, <1>10, <1>11 DEF HeaderRead

\* The length of a part, cut off at the longest.
Kept(v) == IF Len(v) > maxPart THEN maxPart ELSE Len(v)

LEMMA WriteBytesType ==
    ASSUME NEW v \in Bytes
    PROVE  /\ WriteBytes(v) \in Bytes
           /\ Len(WriteBytes(v)) = lenPart + Kept(v)
           /\ Kept(v) \in Nat
<1>1. Len(v) \in Nat /\ maxPart \in Nat /\ lenPart \in Nat
  BY LenNat, ConstantTypes, Zenon
<1>2. Kept(v) \in Nat /\ Kept(v) <= Len(v)
  BY <1>1 DEF Kept
<1>3. SubSeq(v, 1, Kept(v)) \in Bytes /\ Len(SubSeq(v, 1, Kept(v))) = Kept(v)
  BY <1>1, <1>2 DEF Bytes
<1>4. Put(lenPart, Kept(v)) \in Bytes /\ Len(Put(lenPart, Kept(v))) = lenPart
  BY <1>1, <1>2, PutType, Zenon DEF Bytes
<1>5. WriteBytes(v) = Put(lenPart, Kept(v)) \o SubSeq(v, 1, Kept(v))
  BY Zenon DEF WriteBytes, Kept
<1>. QED
  BY <1>2, <1>3, <1>4, <1>5, ConcatType, Zenon

LEMMA ResponseTypes ==
    ASSUME NEW m \in Responses
    PROVE  /\ m.kind = "resp" /\ m.to \in Field(sizeAddr) /\ m.from \in Field(sizeAddr)
           /\ m.seq \in Field(lenSeq) /\ m.code \in Field(lenPart)
           /\ m.userdata \in Bytes /\ m.text \in Bytes /\ m.ret \in Bytes
           /\ m.code = 0 => m.text = <<>>
           /\ m = [kind |-> "resp", to |-> m.to, from |-> m.from, seq |-> m.seq,
                   userdata |-> m.userdata, code |-> m.code, text |-> m.text, ret |-> m.ret]
<1>1. Seq(Byte) = Bytes
  BY Zenon DEF Bytes
<1>. QED
  BY <1>1 DEF Responses

LEMMA PlainTypes ==
    ASSUME NEW m \in PlainMessages
    PROVE  /\ m.kind \in {"bin", "pb"} /\ m.to \in Field(sizeAddr) /\ m.from \in Field(sizeAddr)
           /\ m.cmd \in Field(sizeCmd) /\ m.data \in Bytes
           /\ m = [kind |-> m.kind, to |-> m.to, from |-> m.from, cmd |-> m.cmd, data |-> m.data]
<1>1. Seq(Byte) = Bytes
  BY Zenon DEF Bytes
<1>. QED
  BY <1>1 DEF PlainMessages

LEMMA EncodeRequestType ==
    ASSUME NEW m \in Requests
    PROVE  /\ EncodeRequest(m) \in Bytes
           /\ Len(EncodeRequest(m)) =
                 lenSeq + 1 + (lenPart + Kept(m.method)) + (lenPart + Kept(m.userdata))
                     + (lenPart + Len(m.arg))
<1>. USE Zenon
<1>1. /\ m.seq \in Field(lenSeq) /\ m.oneway \in BOOLEAN
      /\ m.method \in Bytes /\ m.userdata \in Bytes /\ m.arg \in Bytes
  BY RequestTypes, Zenon
<1>2. Put(lenSeq, m.seq) \in Bytes /\ Len(Put(lenSeq, m.seq)) = lenSeq
  BY <1>1, ConstantTypes, PutBytes
<1>3. Bit(m.oneway) \in Byte
  <2>1. 0 \in Byte /\ 1 \in Byte
    BY ConstantTypes, SMT DEF Byte
  <2>. QED
    BY <2>1 DEF Bit
<1>4. <<Bit(m.oneway)>> \in Bytes /\ Len(<<Bit(m.oneway)>>) = 1
  BY <1>3, OneByte
<1>5. /\ WriteBytes(m.method) \in Bytes /\ Len(WriteBytes(m.method)) = lenPart + Kept(m.method)
      /\ WriteBytes(m.userdata) \in Bytes /\ Len(WriteBytes(m.userdata)) = lenPart + Kept(m.userdata)
  BY <1>1, WriteBytesType
<1>6. WriteMessage(m.arg) \in Bytes /\ Len(WriteMessage(m.arg)) = lenPart + Len(m.arg)
  BY <1>1, LengthAndBytes DEF WriteMessage
<1>7. /\ EncodeRequest(m) \in Bytes
      /\ Len(EncodeRequest(m)) = Len(Put(lenSeq, m.seq)) + Len(<<Bit(m.oneway)>>)
             + Len(WriteBytes(m.method)) + Len(WriteBytes(m.userdata)) + Len(WriteMessage(m.arg))
  <2>1. PiecesAt(EncodeRequest(m), Put(lenSeq, m.seq), <<Bit(m.oneway)>>, WriteBytes(m.method),
                 WriteBytes(m.userdata), WriteMessage(m.arg))
    BY <1>2, <1>4, <1>5, <1>6, Pieces DEF EncodeRequest
  <2>. QED
    BY <2>1 DEF PiecesAt
<1>. QED
  BY <1>2, <1>4, <1>5, <1>6, <1>7

LEMMA EncodeResponseType ==
    ASSUME NEW m \in Responses
    PROVE  /\ EncodeResponse(m) \in Bytes
           /\ Len(EncodeResponse(m)) =
                 lenSeq + (lenPart + Kept(m.userdata)) + lenPart
                     + (IF m.code # 0 THEN lenPart + Kept(m.text) ELSE 0) + (lenPart + Len(m.ret))
<1>. USE Zenon
<1>. DEFINE error == IF m.code # 0 THEN WriteBytes(m.text) ELSE <<>>
<1>1. /\ m.seq \in Field(lenSeq) /\ m.code \in Field(lenPart)
      /\ m.userdata \in Bytes /\ m.text \in Bytes /\ m.ret \in Bytes
  BY ResponseTypes
<1>2. Put(lenSeq, m.seq) \in Bytes /\ Len(Put(lenSeq, m.seq)) = lenSeq
  BY <1>1, ConstantTypes, PutBytes
<1>3. Put(lenPart, m.code) \in Bytes /\ Len(Put(lenPart, m.code)) = lenPart
  BY <1>1, ConstantTypes, PutBytes
<1>4. /\ WriteBytes(m.userdata) \in Bytes /\ Len(WriteBytes(m.userdata)) = lenPart + Kept(m.userdata)
      /\ WriteBytes(m.text) \in Bytes /\ Len(WriteBytes(m.text)) = lenPart + Kept(m.text)
  BY <1>1, WriteBytesType
<1>5. error \in Bytes /\ Len(error) = IF m.code # 0 THEN lenPart + Kept(m.text) ELSE 0
  BY <1>4, NoBytes
<1>6. WriteMessage(m.ret) \in Bytes /\ Len(WriteMessage(m.ret)) = lenPart + Len(m.ret)
  BY <1>1, LengthAndBytes DEF WriteMessage
<1>7. EncodeResponse(m) = Put(lenSeq, m.seq) \o WriteBytes(m.userdata) \o Put(lenPart, m.code)
                              \o error \o WriteMessage(m.ret)
  BY Zenon DEF EncodeResponse
<1>. HIDE DEF error
<1>8. PiecesAt(EncodeResponse(m), Put(lenSeq, m.seq), WriteBytes(m.userdata), Put(lenPart, m.code),
               error, WriteMessage(m.ret))
  BY <1>2, <1>3, <1>4, <1>5, <1>6, <1>7, Pieces
<1>9. /\ EncodeResponse(m) \in Bytes
      /\ Len(EncodeResponse(m)) = Len(Put(lenSeq, m.seq)) + Len(WriteBytes(m.userdata))
             + Len(Put(lenPart, m.code)) + Len(error) + Len(WriteMessage(m.ret))
  BY <1>8 DEF PiecesAt
<1>. QED
  BY <1>2, <1>3, <1>4, <1>5, <1>6, <1>9

-----------------------------------------------------------------------------
(* Frames *)

PayloadOf(m) == Header(m) \o Body(m)

LEMMA Kinds ==
    ASSUME NEW m \in Sendable
    PROVE  /\ m \in PlainMessages \/ m \in Requests \/ m \in Responses
           /\ m.kind # "relay"
           /\ m.to \in Field(sizeAddr) /\ m.from \in Field(sizeAddr)
           /\ MsgType(m.kind) \in Byte /\ MsgType(m.kind) \in 1..4
<1>1. m \in PlainMessages \/ m \in Requests \/ m \in Responses
  BY Zenon DEF Sendable
<1>2. m.kind \in {"bin", "pb", "req", "resp"} /\ m.to \in Field(sizeAddr) /\ m.from \in Field(sizeAddr)
  BY <1>1, PlainTypes, RequestTypes, ResponseTypes, Zenon
<1>3. MsgType(m.kind) \in 1..4
  BY <1>2 DEF MsgType
<1>4. 1..4 \subseteq Byte
  BY ConstantTypes DEF Byte
<1>. QED
  BY <1>1, <1>2, <1>3, <1>4

LEMMA BodyOfKind ==
    ASSUME NEW m
    PROVE  /\ m.kind \in {"bin", "pb"} => Body(m) = Put(sizeCmd, m.cmd) \o m.data
           /\ m.kind = "req" => Body(m) = EncodeRequest(m)
           /\ m.kind = "resp" => Body(m) = EncodeResponse(m)
BY Zenon DEF Body

LEMMA PlainBody ==
    ASSUME NEW m \in PlainMessages
    PROVE  /\ Body(m) = Put(sizeCmd, m.cmd) \o m.data
           /\ Body(m) \in Bytes /\ Len(Body(m)) = sizeCmd + Len(m.data)
           /\ GetUint(Body(m), sizeCmd) = m.cmd /\ After(Body(m), sizeCmd) = m.data
<1>. USE Zenon
<1>1. m.kind \in {"bin", "pb"} /\ m.cmd \in Field(sizeCmd) /\ m.data \in Bytes
  BY PlainTypes, Zenon
<1>2. Body(m) = Put(sizeCmd, m.cmd) \o m.data
  BY <1>1, BodyOfKind
<1>3. sizeCmd \in Nat
  BY ConstantTypes
<1>. DEFINE c == Put(sizeCmd, m.cmd)
<1>4. c \in Bytes /\ Len(c) = sizeCmd /\ Value(c) = m.cmd
  BY <1>1, <1>3, PutBytes
<1>. HIDE DEF c
<1>5. GetUint(c \o m.data, Len(c)) = Value(c) /\ After(c \o m.data, Len(c)) = m.data
  BY <1>1, <1>4, Cut
<1>6. c \o m.data \in Bytes /\ Len(c \o m.data) = sizeCmd + Len(m.data)
  BY <1>1, <1>4, ConcatType
<1>7. Body(m) = c \o m.data
  BY <1>2, Zenon DEF c
<1>. QED
  BY <1>2, <1>4, <1>5, <1>6, <1>7

LEMMA BodyType ==
    ASSUME NEW m \in Sendable
    PROVE  Body(m) \in Bytes
BY Kinds, PlainBody, BodyOfKind, RequestTypes, ResponseTypes, EncodeRequestType, EncodeResponseType, Zenon

LEMMA ReadPayload ==
    ASSUME NEW m \in Sendable, NEW w, w = PayloadOf(m)
    PROVE  HeaderRead(w, MsgType(m.kind), m.to, m.from, Body(m))
<1>1. /\ m.to \in Field(sizeAddr) /\ m.from \in Field(sizeAddr)
      /\ MsgType(m.kind) \in Byte /\ Body(m) \in Bytes
  BY Kinds, BodyType, Zenon
<1>2. w = <<MsgType(m.kind)>> \o Put(sizeAddr, m.to) \o Put(sizeAddr, m.from) \o Body(m)
  BY Zenon DEF PayloadOf, Header
<1>. QED
  BY <1>1, <1>2, ReadHeader, Zenon

\* A part that is cut off does not fit.
LEMMA CutOff ==
    ASSUME NEW x \in Nat, NEW y \in Nat, NEW n \in Nat, NEW most \in Int, NEW longest \in Nat,
           most < longest, NEW p, NEW q,
           p = (IF x > longest THEN longest ELSE x), q = (IF y > longest THEN longest ELSE y)
    PROVE  x + y + n <= most <=> p + q + n <= most
OBVIOUS

\* What fits in a packet has parts that are short enough, and what does not fit is not
\* made to fit by cutting it off.
LEMMA FitsRequest ==
    ASSUME NEW m \in Requests
    PROVE  /\ Size(m) <= MaxPacketSize <=> sizeLen + Len(PayloadOf(m)) <= MaxPacketSize
           /\ Size(m) <= MaxPacketSize => Short(m.method) /\ Short(m.userdata) /\ Short(m.arg)
<1>. DEFINE x == Len(m.method)
            y == Len(m.userdata)
            z == Len(m.arg)
            most == MaxPacketSize - minSize - lenSeq - 3 * lenPart
<1>1. x \in Nat /\ y \in Nat /\ z \in Nat
  BY RequestTypes, LenNat, Zenon
<1>2. Size(m) = minSize + (lenSeq + 1 + 3 * lenPart + x + y + z)
  <2>1. m.kind = "req"
    BY RequestTypes, Zenon
  <2>. QED
    BY <2>1, Zenon DEF Size
<1>3. Len(PayloadOf(m)) =
          1 + sizeAddr + sizeAddr
            + (lenSeq + 1 + (lenPart + Kept(m.method)) + (lenPart + Kept(m.userdata)) + (lenPart + z))
  <2>1. m \in Sendable /\ Body(m) = EncodeRequest(m)
    BY RequestTypes, BodyOfKind, Zenon DEF Sendable
  <2>2. Len(PayloadOf(m)) = 1 + sizeAddr + sizeAddr + Len(Body(m))
    BY <2>1, ReadPayload, Zenon DEF HeaderRead
  <2>. QED
    BY <2>1, <2>2, EncodeRequestType, Zenon
<1>4. most < maxPart /\ 0..most \subseteq Field(lenPart)
  BY WireAssumption, Zenon
<1>. DEFINE p == Kept(m.method)
            q == Kept(m.userdata)
<1>5. p = (IF x > maxPart THEN maxPart ELSE x) /\ q = (IF y > maxPart THEN maxPart ELSE y)
  BY Zenon DEF Kept
<1>. HIDE DEF x, y, z, p, q
<1>6. Size(m) <= MaxPacketSize <=> sizeLen + Len(PayloadOf(m)) <= MaxPacketSize
  <2>1. most \in Int /\ maxPart \in Nat /\ z + 1 \in Nat /\ p \in Nat /\ q \in Nat
    BY <1>1, <1>5, ConstantTypes
  <2>2. Size(m) <= MaxPacketSize <=> x + y + (z + 1) <= most
    BY <1>1, <1>2, ConstantTypes
  <2>3. sizeLen + Len(PayloadOf(m)) <= MaxPacketSize <=> p + q + (z + 1) <= most
    <3>. DEFINE l == Len(PayloadOf(m))
    <3>1. l = 1 + sizeAddr + sizeAddr + (lenSeq + 1 + (lenPart + p) + (lenPart + q) + (lenPart + z))
      BY <1>3, Zenon DEF p, q
    <3>. HIDE DEF l
    <3>2. l = 2 + 2 * sizeAddr + lenSeq + 3 * lenPart + p + q + z
      BY <1>1, <2>1, <3>1, ConstantTypes
    <3>3. sizeLen + l <= MaxPacketSize <=> p + q + (z + 1) <= most
      BY <1>1, <2>1, <3>2, ConstantTypes
    <3>. QED
      BY <3>3, Zenon DEF l
  <2>4. x + y + (z + 1) <= most <=> p + q + (z + 1) <= most
    <3>. HIDE DEF most
    <3>. QED
      BY <1>1, <1>4, <1>5, <2>1, CutOff
  <2>. QED
    BY <2>2, <2>3, <2>4, Zenon
<1>7. Size(m) <= MaxPacketSize => x \in 0..most /\ y \in 0..most /\ z \in 0..most
  BY <1>1, <1>2, ConstantTypes
<1>8. \A v \in 0..most : v \in Field(lenPart) /\ v <= maxPart
  BY <1>4, ConstantTypes
<1>. QED
  BY <1>6, <1>7, <1>8, Zenon DEF Short, x, y, z

LEMMA FitsResponse ==
    ASSUME NEW m \in Responses
    PROVE  /\ Size(m) <= MaxPacketSize <=> sizeLen + Len(PayloadOf(m)) <= MaxPacketSize
           /\ Size(m) <= MaxPacketSize =>
                 Short(m.userdata) /\ Short(m.ret) /\ (m.code # 0 => Short(m.text))
<1>. DEFINE x == Len(m.userdata)
            y == IF m.code = 0 THEN 0 ELSE Len(m.text)
            e == IF m.code = 0 THEN 0 ELSE lenPart
            z == Len(m.ret)
            p == Kept(m.userdata)
            q == IF m.code = 0 THEN 0 ELSE Kept(m.text)
            l == Len(PayloadOf(m))
            most == MaxPacketSize - minSize - lenSeq - 3 * lenPart
<1>1. x \in Nat /\ Len(m.text) \in Nat /\ z \in Nat
  BY ResponseTypes, LenNat, Zenon
<1>2. y \in Nat /\ e \in Nat
  BY <1>1, ConstantTypes
<1>3. Size(m) = minSize + (lenSeq + 3 * lenPart + x + z + (e + y))
  <2>1. m.kind = "resp"
    BY ResponseTypes, Zenon
  <2>2. Size(m) = minSize + (lenSeq + 3 * lenPart + x + z + (IF m.code = 0 THEN 0 ELSE lenPart + Len(m.text)))
    BY <2>1, Zenon DEF Size
  <2>3. (IF m.code = 0 THEN 0 ELSE lenPart + Len(m.text)) = e + y
    BY <1>1, ConstantTypes
  <2>. QED
    BY <2>2, <2>3, Zenon
<1>4. most < maxPart /\ 0..most \subseteq Field(lenPart)
  BY WireAssumption, Zenon
<1>5. p = (IF x > maxPart THEN maxPart ELSE x) /\ q = (IF y > maxPart THEN maxPart ELSE y)
  <2>1. ~(0 > maxPart)
    BY ConstantTypes
  <2>. QED
    BY <2>1, Zenon DEF Kept
<1>6. p \in Nat /\ q \in Nat
  BY <1>1, <1>2, <1>5, ConstantTypes
<1>7. l = 1 + sizeAddr + sizeAddr + (lenSeq + (lenPart + p) + lenPart + (e + q) + (lenPart + z))
  <2>1. m \in Sendable /\ Body(m) = EncodeResponse(m)
    BY ResponseTypes, BodyOfKind, Zenon DEF Sendable
  <2>2. Len(PayloadOf(m)) = 1 + sizeAddr + sizeAddr + Len(Body(m))
    BY <2>1, ReadPayload, Zenon DEF HeaderRead
  <2>3. (IF m.code # 0 THEN lenPart + Kept(m.text) ELSE 0) = e + q
    <3>1. 0 = 0 + 0
      OBVIOUS
    <3>. QED
      BY <3>1, Zenon
  <2>4. Len(Body(m)) = lenSeq + (lenPart + p) + lenPart
          + (IF m.code # 0 THEN lenPart + Kept(m.text) ELSE 0) + (lenPart + z)
    BY <2>1, EncodeResponseType, Zenon
  <2>. HIDE DEF e, q
  <2>. QED
    BY <2>2, <2>3, <2>4, Zenon
<1>. HIDE DEF x, y, e, z, p, q, l
<1>8. Size(m) <= MaxPacketSize <=> sizeLen + l <= MaxPacketSize
  <2>1. most \in Int /\ maxPart \in Nat /\ z + e \in Nat
    BY <1>1, <1>2, ConstantTypes
  <2>2. Size(m) <= MaxPacketSize <=> x + y + (z + e) <= most
    BY <1>1, <1>2, <1>3, ConstantTypes
  <2>3. l = 1 + 2 * sizeAddr + lenSeq + 3 * lenPart + p + q + z + e
    BY <1>1, <1>2, <1>6, <1>7, ConstantTypes
  <2>4. sizeLen + l <= MaxPacketSize <=> p + q + (z + e) <= most
    BY <1>1, <1>2, <1>6, <2>3, ConstantTypes
  <2>5. x + y + (z + e) <= most <=> p + q + (z + e) <= most
    <3>. HIDE DEF most
    <3>. QED
      BY <1>1, <1>2, <1>4, <1>5, <2>1, CutOff, SMTT(30)
  <2>. QED
    BY <2>2, <2>4, <2>5, Zenon
<1>9. Size(m) <= MaxPacketSize => x \in 0..most /\ y \in 0..most /\ z \in 0..most
  BY <1>1, <1>2, <1>3, ConstantTypes
<1>10. \A v \in 0..most : v \in Field(lenPart) /\ v <= maxPart
  BY <1>4, ConstantTypes
<1>. QED
  BY <1>8, <1>9, <1>10, Zenon DEF Short, x, y, z, l

LEMMA FitsPlain ==
    ASSUME NEW m \in PlainMessages
    PROVE  Size(m) <= MaxPacketSize <=> sizeLen + Len(PayloadOf(m)) <= MaxPacketSize
<1>. DEFINE l == Len(PayloadOf(m))
            x == Len(m.data)
<1>1. x \in Nat /\ m.kind \in {"bin", "pb"}
  BY PlainTypes, LenNat, Zenon
<1>2. Size(m) = minSize + (sizeCmd + x)
  BY <1>1, Zenon DEF Size
<1>3. l = 1 + sizeAddr + sizeAddr + (sizeCmd + x)
  <2>1. m \in Sendable
    BY Zenon DEF Sendable
  <2>2. Len(PayloadOf(m)) = 1 + sizeAddr + sizeAddr + Len(Body(m))
    BY <2>1, ReadPayload, Zenon DEF HeaderRead
  <2>. QED
    BY <2>2, PlainBody, Zenon
<1>. HIDE DEF l, x
<1>4. Size(m) <= MaxPacketSize <=> sizeLen + l <= MaxPacketSize
  BY <1>1, <1>2, <1>3, ConstantTypes
<1>. QED
  BY <1>4, Zenon DEF l

LEMMA Fits ==
    ASSUME NEW m \in Sendable
    PROVE  Size(m) <= MaxPacketSize <=> sizeLen + Len(PayloadOf(m)) <= MaxPacketSize
BY Kinds, FitsPlain, FitsRequest, FitsResponse, Zenon

\* What a payload is decoded to, by the parts of it.
DecodesTo(self, w, t, to, from, body) ==
    /\ to # self => Decode(self, w) = NewRelayMessage(to, from, w)
    /\ to = self /\ (t = 2 \/ (t = 1 /\ GetUint(body, sizeCmd) \in PbIds)) =>
          Decode(self, w) = [kind |-> IF t = 2 THEN "bin" ELSE "pb", to |-> to, from |-> from,
                             cmd |-> GetUint(body, sizeCmd), data |-> After(body, sizeCmd)]
    /\ to = self /\ t = 3 => Decode(self, w) = DecodeRequest(to, from, body)
    /\ to = self /\ t = 4 => Decode(self, w) = DecodeResponse(to, from, body)

LEMMA DecodeCases ==
    ASSUME NEW self, NEW w, NEW t \in 1..4, NEW to, NEW from, NEW body, HeaderRead(w, t, to, from, body)
    PROVE  DecodesTo(self, w, t, to, from, body)
<1>1. /\ GetUint(w, 1) = t
      /\ GetUint(After(w, 1), sizeAddr) = to
      /\ GetUint(After(After(w, 1), sizeAddr), sizeAddr) = from
      /\ After(After(After(w, 1), sizeAddr), sizeAddr) = body
  BY Zenon DEF HeaderRead
<1>2. getMsgType(t) = t
  BY DEF getMsgType
<1>3. 1 # 2 /\ 1 # 3 /\ 1 # 4 /\ 2 # 3 /\ 2 # 4 /\ 3 # 4
  OBVIOUS
<1>. QED
  BY <1>1, <1>2, <1>3, Zenon DEF Decode, DecodesTo

LEMMA PlainArrives ==
    ASSUME NEW m \in PlainMessages, m.kind = "pb" => m.cmd \in PbIds
    PROVE  Decode(m.to, PayloadOf(m)) = m
<1>. USE Zenon
<1>1. m \in Sendable
  BY Zenon DEF Sendable
<1>. DEFINE t == MsgType(m.kind)
            d == IF t = 2 THEN "bin" ELSE "pb"
<1>2. m.kind \in {"bin", "pb"}
  BY PlainTypes
<1>3. t \in 1..4 /\ (m.kind = "bin" => t = 2) /\ (m.kind = "pb" => t = 1) /\ 1 # 2
  BY <1>2, SMT DEF MsgType
<1>4. HeaderRead(PayloadOf(m), t, m.to, m.from, Body(m))
  BY <1>1, ReadPayload
<1>. HIDE DEF t
<1>5. GetUint(Body(m), sizeCmd) = m.cmd /\ After(Body(m), sizeCmd) = m.data
  BY PlainBody, Zenon
<1>6. t = 2 \/ (t = 1 /\ GetUint(Body(m), sizeCmd) \in PbIds)
  BY <1>2, <1>3, <1>5
<1>7. d = m.kind
  BY <1>2, <1>3
<1>8. Decode(m.to, PayloadOf(m)) = [kind |-> d, to |-> m.to, from |-> m.from,
                                    cmd |-> GetUint(Body(m), sizeCmd), data |-> After(Body(m), sizeCmd)]
  <2>1. DecodesTo(m.to, PayloadOf(m), t, m.to, m.from, Body(m))
    BY <1>3, <1>4, DecodeCases
  <2>. QED
    BY <1>6, <2>1 DEF DecodesTo
<1>. HIDE DEF d
<1>9. Decode(m.to, PayloadOf(m)) = [kind |-> m.kind, to |-> m.to, from |-> m.from,
                                    cmd |-> m.cmd, data |-> m.data]
  BY <1>5, <1>7, <1>8
<1>. QED
  BY <1>9, PlainTypes

LEMMA RequestDecoded ==
    ASSUME NEW m \in Requests, Size(m) <= MaxPacketSize
    PROVE  DecodeRequest(m.to, m.from, Body(m)) = m
<1>. USE Zenon
<1>1. /\ m.seq \in Field(lenSeq) /\ m.oneway \in BOOLEAN
      /\ m.method \in Bytes /\ m.userdata \in Bytes /\ m.arg \in Bytes
  BY RequestTypes
<1>2. Short(m.method) /\ Short(m.userdata) /\ Short(m.arg)
  BY FitsRequest
<1>3. Body(m) = Put(lenSeq, m.seq) \o <<Bit(m.oneway)>> \o Part(m.method) \o Part(m.userdata) \o Part(m.arg)
  <2>1. Body(m) = EncodeRequest(m)
    BY RequestTypes, BodyOfKind
  <2>2. WriteBytes(m.method) = Part(m.method)
    BY <1>1, <1>2, ShortPart
  <2>3. WriteBytes(m.userdata) = Part(m.userdata)
    BY <1>1, <1>2, ShortPart
  <2>4. WriteMessage(m.arg) = Part(m.arg)
    BY <1>1, <1>2, ShortPart
  <2>. QED
    BY <2>1, <2>2, <2>3, <2>4 DEF EncodeRequest
<1>4. IsRequest(DecodeRequest(m.to, m.from, Body(m)), m.to, m.from, m.seq, m.oneway, m.method,
                m.userdata, m.arg)
  BY <1>1, <1>2, <1>3, ReadRequest
<1>. QED
  BY <1>4, RequestTypes DEF IsRequest

LEMMA RequestArrives ==
    ASSUME NEW m \in Requests, Size(m) <= MaxPacketSize
    PROVE  Decode(m.to, PayloadOf(m)) = m
<1>. USE Zenon
<1>1. m \in Sendable /\ m.kind = "req"
  BY RequestTypes DEF Sendable
<1>2. MsgType(m.kind) \in 1..4 /\ MsgType(m.kind) = 3
  BY <1>1, SMT DEF MsgType
<1>3. Decode(m.to, PayloadOf(m)) = DecodeRequest(m.to, m.from, Body(m))
  <2>1. HeaderRead(PayloadOf(m), MsgType(m.kind), m.to, m.from, Body(m))
    BY <1>1, ReadPayload
  <2>2. DecodesTo(m.to, PayloadOf(m), MsgType(m.kind), m.to, m.from, Body(m))
    BY <1>2, <2>1, DecodeCases
  <2>. QED
    BY <1>2, <2>2 DEF DecodesTo
<1>. QED
  BY <1>3, RequestDecoded

LEMMA ResponseArrives ==
    ASSUME NEW m \in Responses, Size(m) <= MaxPacketSize
    PROVE  Decode(m.to, PayloadOf(m)) = m
<1>. USE Zenon
<1>1. m \in Sendable /\ m.kind = "resp"
  BY ResponseTypes, Zenon DEF Sendable
<1>2. MsgType(m.kind) \in 1..4 /\ MsgType(m.kind) = 4
  BY <1>1, SMT DEF MsgType
<1>3. Decode(m.to, PayloadOf(m)) = DecodeResponse(m.to, m.from, Body(m))
  <2>1. HeaderRead(PayloadOf(m), MsgType(m.kind), m.to, m.from, Body(m))
    BY <1>1, ReadPayload
  <2>2. DecodesTo(m.to, PayloadOf(m), MsgType(m.kind), m.to, m.from, Body(m))
    BY <1>2, <2>1, DecodeCases
  <2>. QED
    BY <1>2, <2>2 DEF DecodesTo
<1>4. /\ m.seq \in Field(lenSeq) /\ m.code \in Field(lenPart) /\ (m.code = 0 => m.text = <<>>)
      /\ m.userdata \in Bytes /\ m.text \in Bytes /\ m.ret \in Bytes
  BY ResponseTypes
<1>5. Short(m.userdata) /\ Short(m.ret) /\ (m.code # 0 => Short(m.text))
  BY FitsResponse
<1>. DEFINE error == IF m.code # 0 THEN Part(m.text) ELSE <<>>
<1>6. Body(m) = Put(lenSeq, m.seq) \o Part(m.userdata) \o Put(lenPart, m.code) \o error \o Part(m.ret)
  <2>1. Body(m) = EncodeResponse(m)
    BY <1>1, BodyOfKind
  <2>2. WriteBytes(m.userdata) = Part(m.userdata)
    BY <1>4, <1>5, ShortPart
  <2>3. (IF m.code # 0 THEN WriteBytes(m.text) ELSE <<>>) = error
    BY <1>4, <1>5, ShortPart
  <2>4. WriteMessage(m.ret) = Part(m.ret)
    BY <1>4, <1>5, ShortPart
  <2>. HIDE DEF error
  <2>. QED
    BY <2>1, <2>2, <2>3, <2>4 DEF EncodeResponse
<1>7. error = IF m.code # 0 THEN Part(m.text) ELSE <<>>
  BY Zenon
<1>. HIDE DEF error
<1>8. IsResponse(DecodeResponse(m.to, m.from, Body(m)), m.to, m.from, m.seq, m.userdata, m.code,
                 m.text, m.ret)
  BY <1>4, <1>5, <1>6, <1>7, ReadResponse
<1>. QED
  BY <1>3, <1>8, ResponseTypes DEF IsResponse

LEMMA HeaderType ==
    ASSUME NEW m \in Sendable
    PROVE  /\ Header(m) \in Bytes /\ Len(Header(m)) = 1 + sizeAddr + sizeAddr
           /\ Header(m)[1] = MsgType(m.kind)
<1>. USE Zenon
<1>. DEFINE a == <<MsgType(m.kind)>>
            b == Put(sizeAddr, m.to)
            c == Put(sizeAddr, m.from)
            h == a \o b \o c
<1>1. sizeAddr \in Nat /\ m.to \in Field(sizeAddr) /\ m.from \in Field(sizeAddr) /\ MsgType(m.kind) \in Byte
  BY ConstantTypes, Kinds
<1>2. a \in Bytes /\ Len(a) = 1 /\ a[1] = MsgType(m.kind)
  BY <1>1, OneByte
<1>3. b \in Bytes /\ Len(b) = sizeAddr /\ c \in Bytes /\ Len(c) = sizeAddr
  BY <1>1, PutBytes, Zenon
<1>. HIDE DEF a, b, c
<1>4. a \o b \in Bytes /\ Len(a \o b) = 1 + sizeAddr
  BY <1>2, <1>3, ConcatType
<1>5. h \in Bytes /\ Len(h) = 1 + sizeAddr + sizeAddr
  BY <1>3, <1>4, ConcatType
<1>6. At(h, 0, a)
  BY <1>2, <1>3, <1>4, <1>5, AtSelf, AtFront
<1>. HIDE DEF h
<1>7. h[1] = a[1]
  <2>1. \A i \in 1..Len(a) : a[i] = h[0 + i]
    BY <1>6, Zenon DEF At
  <2>2. 1 \in 1..1 /\ 0 + 1 = 1
    BY SMT
  <2>. QED
    BY <1>2, <2>1, <2>2
<1>8. h = Header(m)
  BY Zenon DEF h, a, b, c, Header
<1>. QED
  BY <1>2, <1>5, <1>7, <1>8

\* A frame: the length of a payload that fits, and the payload.
Frame(p) == Put(sizeLen, Len(p)) \o p

LEMMA FrameType ==
    ASSUME NEW p \in Bytes, sizeLen + Len(p) <= MaxPacketSize
    PROVE  /\ Len(p) \in Field(sizeLen) /\ Put(sizeLen, Len(p)) \in Bytes
           /\ Len(Put(sizeLen, Len(p))) = sizeLen /\ sizeLen \in Nat
           /\ Frame(p) \in Bytes /\ Len(Frame(p)) = sizeLen + Len(p)
<1>1. Len(p) \in Nat /\ sizeLen \in Nat /\ MaxPacketSize \in Nat
  BY ConstantTypes, LenNat, Zenon
<1>2. Len(p) \in 0..MaxPacketSize
  BY <1>1
<1>3. Len(p) \in Field(sizeLen)
  BY <1>2, WireAssumption, Zenon
<1>4. Put(sizeLen, Len(p)) \in Bytes /\ Len(Put(sizeLen, Len(p))) = sizeLen
  BY <1>1, <1>3, PutBytes, Zenon
<1>. QED
  BY <1>1, <1>3, <1>4, ConcatType, Zenon DEF Frame

\* A message that can be encoded becomes one frame, any other nothing.
LEMMA EncodeIs ==
    ASSUME NEW m \in Sendable
    PROVE  /\ PayloadOf(m) \in Bytes /\ Len(PayloadOf(m)) \in Nat \ {0}
           /\ Encodable(m) => /\ Encode(m) = Frame(PayloadOf(m))
                              /\ sizeLen + Len(PayloadOf(m)) <= MaxPacketSize
           /\ ~ Encodable(m) => Encode(m) = <<>>
           /\ Encode(m) \in Bytes
<1>. DEFINE p == PayloadOf(m)
<1>1. p \in Bytes /\ Len(p) = 1 + sizeAddr + sizeAddr + Len(Body(m))
  BY ReadPayload, Zenon DEF HeaderRead
<1>2. Len(p) \in Nat \ {0}
  <2>1. Len(Body(m)) \in Nat
    BY BodyType, LenNat, Zenon
  <2>. QED
    BY <1>1, <2>1, ConstantTypes
<1>3. m.kind # "relay" /\ (Size(m) <= MaxPacketSize <=> sizeLen + Len(p) <= MaxPacketSize)
  BY Kinds, Fits, Zenon
<1>4. sizeLen + Len(p) > MaxPacketSize <=> ~(sizeLen + Len(p) <= MaxPacketSize)
  BY <1>2, ConstantTypes
<1>5. finalizeFrame(p) = IF Size(m) <= MaxPacketSize THEN Frame(p) ELSE <<>>
  BY <1>3, <1>4, Zenon DEF finalizeFrame, Frame
<1>6. Encodable(m) => Encode(m) = Frame(p) /\ sizeLen + Len(p) <= MaxPacketSize
  BY <1>3, <1>5, Zenon DEF Encode, Encodable, PayloadOf
<1>7. ~ Encodable(m) => Encode(m) = <<>>
  BY <1>3, <1>5, Zenon DEF Encode, Encodable, PayloadOf
<1>8. Encode(m) \in Bytes
  BY <1>1, <1>6, <1>7, FrameType, NoBytes, Zenon
<1>. QED
  BY <1>1, <1>2, <1>6, <1>7, <1>8, Zenon

\* The number of a request can be read from the frame that is passed on.
LEMMA RequestInFrame ==
    ASSUME NEW m \in Requests, Encodable(m), NEW r,
           r.to = m.to, r.from = m.from, r.frame = Frame(PayloadOf(m))
    PROVE  GetRpcRequest(r) = m
<1>. USE Zenon
<1>. DEFINE p == PayloadOf(m)
            f == Frame(p)
<1>1. m \in Sendable /\ m.kind = "req" /\ Size(m) <= MaxPacketSize
  BY RequestTypes DEF Sendable, Encodable
<1>2. p \in Bytes /\ sizeLen + Len(p) <= MaxPacketSize
  BY <1>1, EncodeIs
<1>3. /\ Put(sizeLen, Len(p)) \in Bytes /\ Len(Put(sizeLen, Len(p))) = sizeLen /\ sizeLen \in Nat
      /\ f \in Bytes /\ Len(f) = sizeLen + Len(p)
  BY <1>2, FrameType
<1>4. At(f, sizeLen, p)
  <2>1. At(f, 0, Put(sizeLen, Len(p)) \o p)
    BY <1>3, AtSelf DEF Frame
  <2>2. At(f, Len(Put(sizeLen, Len(p))), p)
    BY <1>2, <1>3, <2>1, AtFront
  <2>. QED
    BY <1>3, <2>2
<1>5. Header(m) \in Bytes /\ Len(Header(m)) = 1 + sizeAddr + sizeAddr /\ Header(m)[1] = MsgType(m.kind)
  BY <1>1, HeaderType, Zenon
<1>6. Body(m) \in Bytes /\ Len(Body(m)) \in Nat
  BY <1>1, BodyType, LenNat
<1>. HIDE DEF f
<1>7. At(f, sizeLen, Header(m)) /\ At(f, sizeLen + Len(Header(m)), Body(m))
  BY <1>3, <1>4, <1>5, <1>6, AtSplit DEF PayloadOf
<1>8. /\ sizeLen + Len(Header(m)) = minSize /\ minSize \in Nat
      /\ Len(p) = 1 + sizeAddr + sizeAddr + Len(Body(m))
  <2>1. sizeLen + (1 + sizeAddr + sizeAddr) = minSize /\ minSize \in Nat
    BY ConstantTypes, SMT
  <2>2. Len(p) = 1 + sizeAddr + sizeAddr + Len(Body(m))
    BY <1>1, ReadPayload DEF HeaderRead
  <2>. QED
    BY <1>5, <2>1, <2>2
<1>. DEFINE l == Len(f)
<1>9. l = minSize + Len(Body(m)) /\ ~(l < minSize)
  <2>1. l = sizeLen + (1 + sizeAddr + sizeAddr + Len(Body(m)))
    BY <1>3, <1>8
  <2>. HIDE DEF l
  <2>. QED
    BY <1>6, <2>1, ConstantTypes, SMTT(30)
<1>10. SubSeq(f, minSize + 1, minSize + Len(Body(m))) = Body(m)
  <2>1. At(f, minSize, Body(m))
    BY <1>7, <1>8, Zenon
  <2>. QED
    BY <1>3, <1>6, <1>8, <2>1, AtSubSeq
<1>11. f[sizeLen + 1] = 3
  <2>1. \A i \in 1..Len(Header(m)) : Header(m)[i] = f[sizeLen + i]
    BY <1>7 DEF At
  <2>2. 1 \in 1..(1 + sizeAddr + sizeAddr)
    BY ConstantTypes, SMT
  <2>3. MsgType(m.kind) = 3
    BY <1>1, SMT DEF MsgType
  <2>. QED
    BY <1>5, <2>1, <2>2, <2>3
<1>12. getMsgType(3) = 3
  BY SMT DEF getMsgType
<1>13. SubSeq(f, minSize + 1, Len(f)) = Body(m)
  BY <1>9, <1>10
<1>14. r.frame = f
  BY Zenon DEF f
<1>15. GetRpcRequest(r) = DecodeRequest(m.to, m.from, Body(m))
  BY <1>9, <1>11, <1>12, <1>13, <1>14 DEF GetRpcRequest
<1>. QED
  BY <1>1, <1>15, RequestDecoded

\* A message that can be encoded is decoded to the same message at the node it is for,
\* and at any other node to a relay message with the same bytes (codec.go).
THEOREM RoundTrip ==
    ASSUME NEW m \in Sendable, Encodable(m), NEW self
    PROVE  Decode(self, PayloadOf(m)) =
              IF m.to = self THEN m ELSE NewRelayMessage(m.to, m.from, PayloadOf(m))
<1>. USE Zenon
<1>1. Size(m) <= MaxPacketSize /\ (m.kind = "pb" => m.cmd \in PbIds)
  BY Zenon DEF Encodable
<1>2. CASE m.to = self
  BY <1>1, <1>2, Kinds, PlainArrives, RequestArrives, ResponseArrives
<1>3. CASE m.to # self
  <2>1. HeaderRead(PayloadOf(m), MsgType(m.kind), m.to, m.from, Body(m))
    BY ReadPayload, Zenon
  <2>2. MsgType(m.kind) \in 1..4
    BY Kinds, Zenon
  <2>3. DecodesTo(self, PayloadOf(m), MsgType(m.kind), m.to, m.from, Body(m))
    BY <2>1, <2>2, DecodeCases
  <2>. QED
    BY <1>3, <2>3 DEF DecodesTo
<1>. QED
  BY <1>2, <1>3


-----------------------------------------------------------------------------
(* Streams *)

\* The bytes that the first 0, 1, ... messages of s become.
Stream(s) ==
    LET upTo[i \in 0..Len(s)] == IF i = 0 THEN <<>> ELSE upTo[i - 1] \o Encode(s[i])
    IN upTo

Sends == Seq(Sendable)

LEMMA StreamDef ==
    ASSUME NEW s \in Sends
    PROVE  /\ Stream(s) \in [0..Len(s) -> Bytes]
           /\ Stream(s)[0] = <<>>
           /\ \A i \in 1..Len(s) : Stream(s)[i] = Stream(s)[i - 1] \o Encode(s[i])
<1>. DEFINE N == Len(s)
            step == [i \in 1..N |-> [x \in Bytes |-> x \o Encode(s[i])]]
            Rec(g) == g = [i \in 0..N |-> IF i = 0 THEN <<>> ELSE g[i - 1] \o Encode(s[i])]
            F == Stream(s)
<1>1. step \in [1..N -> [Bytes -> Bytes]]
  <2>1. ASSUME NEW i \in 1..N, NEW x \in Bytes
        PROVE  x \o Encode(s[i]) \in Bytes
    <3>1. s[i] \in Sendable
      BY DEF Sends
    <3>. QED
      BY <3>1, EncodeIs, ConcatType, Zenon
  <2>. QED
    BY <2>1, Zenon
<1>2. PICK g : Recursive(g, N, Bytes, <<>>, step)
  <2>1. N \in Nat
    BY DEF Sends
  <2>. HIDE DEF step, N
  <2>. QED
    BY <1>1, <2>1, Recursion, NoBytes, Zenon
<1>3. g \in [0..N -> Bytes] /\ g[0] = <<>>
  BY <1>2, Zenon DEF Recursive
<1>4. ASSUME NEW i \in 1..N
      PROVE  g[i - 1] \in Bytes /\ g[i] = g[i - 1] \o Encode(s[i])
  <2>1. i - 1 \in 0..N
    BY DEF Sends
  <2>2. g[i - 1] \in Bytes
    BY <1>3, <2>1, Zenon
  <2>3. g[i] = step[i][g[i - 1]]
    BY <1>2, Zenon DEF Recursive
  <2>. QED
    BY <2>2, <2>3, Zenon
<1>5. Rec(g)
  <2>1. \A i \in 0..N : g[i] = IF i = 0 THEN <<>> ELSE g[i - 1] \o Encode(s[i])
    <3>1. \A i \in 0..N : i # 0 => i \in 1..N
      BY DEF Sends
    <3>. QED
      BY <1>3, <1>4, <3>1, Zenon
  <2>. QED
    BY <1>3, <2>1, Zenon
<1>6. F = CHOOSE f : Rec(f)
  BY Zenon DEF Stream
<1>. HIDE DEF F
<1>7. Rec(F)
  <2>. HIDE DEF Rec
  <2>. QED
    BY <1>5, <1>6, Zenon
<1>8. F = g
  <2>1. \A i \in 0..N : F[i] = IF i = 0 THEN <<>> ELSE F[i - 1] \o Encode(s[i])
    BY <1>7, Zenon
  <2>2. N \in Nat /\ 0 \in 0..N /\ \A i \in 1..N : i \in 0..N /\ i # 0
    BY DEF Sends
  <2>3. F = [i \in 0..N |-> F[i]] /\ g = [i \in 0..N |-> g[i]] /\ F[0] = g[0]
    BY <1>3, <1>7, <2>1, <2>2, Zenon
  <2>4. \A i \in 1..N : F[i - 1] = g[i - 1] => F[i] = g[i]
    BY <1>4, <2>1, <2>2, Zenon
  <2>5. SameSteps(N, F, g)
    BY <2>2, <2>3, <2>4, Zenon DEF SameSteps
  <2>. QED
    BY <2>2, <2>5, SameFunction, Zenon
<1>. QED
  BY <1>3, <1>4, <1>8, Zenon DEF F

LEMMA EncodedDef ==
    ASSUME NEW s \in Sends
    PROVE  /\ EncodedUpTo(s) \in [0..Len(s) -> Sends]
           /\ EncodedUpTo(s)[0] = <<>>
           /\ \A i \in 1..Len(s) :
                 EncodedUpTo(s)[i] = IF Encodable(s[i]) THEN Append(EncodedUpTo(s)[i - 1], s[i])
                                     ELSE EncodedUpTo(s)[i - 1]
<1>. DEFINE N == Len(s)
            With(i, x) == IF Encodable(s[i]) THEN Append(x, s[i]) ELSE x
            step == [i \in 1..N |-> [x \in Sends |-> With(i, x)]]
            Rec(g) == g = [i \in 0..N |-> IF i = 0 THEN <<>> ELSE With(i, g[i - 1])]
            F == EncodedUpTo(s)
<1>1. step \in [1..N -> [Sends -> Sends]]
  <2>1. ASSUME NEW i \in 1..N, NEW x \in Sends
        PROVE  With(i, x) \in Sends
    BY DEF Sends
  <2>. HIDE DEF With
  <2>. QED
    BY <2>1, Zenon
<1>2. PICK g : Recursive(g, N, Sends, <<>>, step)
  <2>1. N \in Nat /\ <<>> \in Sends
    BY DEF Sends
  <2>. HIDE DEF step, N
  <2>. QED
    BY <1>1, <2>1, Recursion, Zenon
<1>6. F = CHOOSE f : Rec(f)
  BY Zenon DEF EncodedUpTo
<1>. HIDE DEF F, With
<1>3. g \in [0..N -> Sends] /\ g[0] = <<>>
  BY <1>2, Zenon DEF Recursive
<1>4. ASSUME NEW i \in 1..N
      PROVE  g[i - 1] \in Sends /\ g[i] = With(i, g[i - 1])
  <2>1. i - 1 \in 0..N
    BY DEF Sends
  <2>2. g[i - 1] \in Sends
    BY <1>3, <2>1, Zenon
  <2>3. g[i] = step[i][g[i - 1]]
    BY <1>2, Zenon DEF Recursive
  <2>. QED
    BY <2>2, <2>3, Zenon
<1>5. Rec(g)
  <2>1. \A i \in 0..N : g[i] = IF i = 0 THEN <<>> ELSE With(i, g[i - 1])
    <3>1. \A i \in 0..N : i # 0 => i \in 1..N
      BY DEF Sends
    <3>. QED
      BY <1>3, <1>4, <3>1, Zenon
  <2>. QED
    BY <1>3, <2>1, Zenon
<1>7. Rec(F)
  <2>. HIDE DEF Rec
  <2>. QED
    BY <1>5, <1>6, Zenon
<1>8. F = g
  <2>1. \A i \in 0..N : F[i] = IF i = 0 THEN <<>> ELSE With(i, F[i - 1])
    BY <1>7, Zenon
  <2>2. N \in Nat /\ 0 \in 0..N /\ \A i \in 1..N : i \in 0..N /\ i # 0
    BY DEF Sends
  <2>3. F = [i \in 0..N |-> F[i]] /\ g = [i \in 0..N |-> g[i]] /\ F[0] = g[0]
    BY <1>3, <1>7, <2>1, <2>2, Zenon
  <2>4. \A i \in 1..N : F[i - 1] = g[i - 1] => F[i] = g[i]
    BY <1>4, <2>1, <2>2, Zenon
  <2>5. SameSteps(N, F, g)
    BY <2>2, <2>3, <2>4, Zenon DEF SameSteps
  <2>. QED
    BY <2>2, <2>5, SameFunction, Zenon
<1>. QED
  BY <1>3, <1>4, <1>8, Zenon DEF F, With

LEMMA SendsTypes ==
    ASSUME NEW s \in Sends
    PROVE  /\ Len(s) \in Nat /\ Len(s) \in 0..Len(s)
           /\ \A i \in 1..Len(s) : /\ s[i] \in Sendable /\ i \in Nat /\ i \in 0..Len(s)
                                    /\ i - 1 \in 0..Len(s)
           /\ \A i \in 0..Len(s) : i \in Nat /\ Stream(s)[i] \in Bytes /\ EncodedUpTo(s)[i] \in Sends
<1>1. /\ Len(s) \in Nat /\ Len(s) \in 0..Len(s)
      /\ \A i \in 1..Len(s) : /\ s[i] \in Sendable /\ i \in Nat /\ i \in 0..Len(s)
                               /\ i - 1 \in 0..Len(s)
      /\ \A i \in 0..Len(s) : i \in Nat
  BY DEF Sends
<1>. QED
  BY <1>1, StreamDef, EncodedDef, Zenon

\* What holds first and is passed on holds up to the end.
LEMMA Upwards ==
    ASSUME NEW T, NEW j \in Nat, NEW N \in Nat, j \in T,
           \A n \in Nat : n >= j /\ n + 1 <= N /\ n \in T => n + 1 \in T
    PROVE  j..N \subseteq T
<1>. DEFINE U == {n \in Nat : j + n <= N => j + n \in T}
<1>1. 0 \in U
  OBVIOUS
<1>2. ASSUME NEW n \in Nat, n \in U
      PROVE  n + 1 \in U
  <2>1. j + n \in Nat /\ j + n >= j /\ (j + n) + 1 = j + (n + 1) /\ n + 1 \in Nat
    OBVIOUS
  <2>2. j + (n + 1) <= N => j + n <= N
    OBVIOUS
  <2>. QED
    BY <1>2, <2>1, <2>2, Zenon
<1>3. Nat \subseteq U
  <2>. HIDE DEF U
  <2>. QED
    BY <1>1, <1>2, Induction, Zenon
<1>4. \A k \in j..N : k - j \in Nat /\ j + (k - j) = k /\ k <= N
  OBVIOUS
<1>. QED
  BY <1>3, <1>4, Zenon

LEMMA AppendSends ==
    ASSUME NEW s \in Sends, NEW m \in Sendable
    PROVE  /\ Append(s, m) \in Sends /\ Len(Append(s, m)) = Len(s) + 1
           /\ Append(s, m)[Len(s) + 1] = m
           /\ \A i \in 1..Len(s) : Append(s, m)[i] = s[i]
BY DEF Sends

\* One more message changes nothing about the first ones.
LEMMA StreamAppend ==
    ASSUME NEW s \in Sends, NEW m \in Sendable, NEW t, t = Append(s, m)
    PROVE  /\ \A i \in 0..Len(s) : Stream(t)[i] = Stream(s)[i] /\ EncodedUpTo(t)[i] = EncodedUpTo(s)[i]
           /\ Stream(t)[Len(t)] = Stream(s)[Len(s)] \o Encode(m)
<1>. DEFINE N == Len(s)
            T == {n \in Nat : Stream(t)[n] = Stream(s)[n] /\ EncodedUpTo(t)[n] = EncodedUpTo(s)[n]}
<1>1. t \in Sends /\ Len(t) = N + 1 /\ t[N + 1] = m /\ \A i \in 1..N : t[i] = s[i]
  BY AppendSends, Zenon
<1>2. N \in Nat /\ 0 \in Nat
  BY SendsTypes, Zenon
<1>3. 0 \in T
  BY <1>1, <1>2, StreamDef, EncodedDef, Zenon
<1>4. ASSUME NEW n \in Nat, n >= 0 /\ n + 1 <= N /\ n \in T
      PROVE  n + 1 \in T
  <2>1. n + 1 \in 1..N /\ n + 1 \in 1..(N + 1) /\ (n + 1) - 1 = n /\ n + 1 \in Nat
    BY <1>2, <1>4
  <2>2. Stream(t)[n + 1] = Stream(t)[n] \o Encode(t[n + 1]) /\ Stream(s)[n + 1] = Stream(s)[n] \o Encode(s[n + 1])
    BY <1>1, <2>1, StreamDef, Zenon
  <2>3. /\ EncodedUpTo(t)[n + 1] = IF Encodable(t[n + 1]) THEN Append(EncodedUpTo(t)[n], t[n + 1])
                                   ELSE EncodedUpTo(t)[n]
        /\ EncodedUpTo(s)[n + 1] = IF Encodable(s[n + 1]) THEN Append(EncodedUpTo(s)[n], s[n + 1])
                                   ELSE EncodedUpTo(s)[n]
    <3>1. n + 1 \in 1..Len(t)
      BY <1>1, <2>1, Zenon
    <3>2. EncodedUpTo(t)[n + 1] = IF Encodable(t[n + 1]) THEN Append(EncodedUpTo(t)[(n + 1) - 1], t[n + 1])
                                  ELSE EncodedUpTo(t)[(n + 1) - 1]
      BY <1>1, <3>1, EncodedDef, Zenon
    <3>3. EncodedUpTo(s)[n + 1] = IF Encodable(s[n + 1]) THEN Append(EncodedUpTo(s)[(n + 1) - 1], s[n + 1])
                                  ELSE EncodedUpTo(s)[(n + 1) - 1]
      BY <2>1, EncodedDef, Zenon
    <3>. QED
      BY <2>1, <3>2, <3>3, Zenon
  <2>4. t[n + 1] = s[n + 1] /\ Stream(t)[n] = Stream(s)[n] /\ EncodedUpTo(t)[n] = EncodedUpTo(s)[n]
    BY <1>1, <1>4, <2>1, Zenon
  <2>. QED
    BY <2>1, <2>2, <2>3, <2>4, Zenon
<1>5. 0..N \subseteq T
  <2>. HIDE DEF T, N
  <2>. QED
    BY <1>2, <1>3, <1>4, Upwards, Zenon
<1>6. \A i \in 0..Len(s) : Stream(t)[i] = Stream(s)[i] /\ EncodedUpTo(t)[i] = EncodedUpTo(s)[i]
  BY <1>5, Zenon
<1>7. Stream(t)[Len(t)] = Stream(s)[N] \o Encode(m)
  <2>1. N + 1 \in 1..(N + 1) /\ (N + 1) - 1 = N /\ N \in 0..N
    BY <1>2
  <2>2. Stream(t)[N + 1] = Stream(t)[N] \o Encode(t[N + 1])
    BY <1>1, <2>1, StreamDef, Zenon
  <2>. QED
    BY <1>1, <1>6, <2>1, <2>2, Zenon
<1>. QED
  BY <1>6, <1>7, Zenon

\* s starts with p.
StartsWith(s, p) == Len(p) <= Len(s) /\ \A i \in 1..Len(p) : s[i] = p[i]

LEMMA StartsWithMore ==
    ASSUME NEW S, NEW s \in Seq(S), NEW p \in Seq(S), NEW t \in Seq(S), StartsWith(s, p)
    PROVE  StartsWith(s \o t, p)
BY DEF StartsWith

LEMMA StartsWithOneMore ==
    ASSUME NEW S, NEW s \in Seq(S), NEW p \in Seq(S), NEW x \in S, StartsWith(s, p)
    PROVE  StartsWith(Append(s, x), p)
BY DEF StartsWith

LEMMA Grows ==
    ASSUME NEW s \in Sends, NEW j \in 0..Len(s), NEW k \in j..Len(s)
    PROVE  StartsWith(Stream(s)[k], Stream(s)[j]) /\ StartsWith(EncodedUpTo(s)[k], EncodedUpTo(s)[j])
<1>. DEFINE T == {n \in Nat : /\ StartsWith(Stream(s)[n], Stream(s)[j])
                              /\ StartsWith(EncodedUpTo(s)[n], EncodedUpTo(s)[j])}
<1>1. Len(s) \in Nat /\ j \in Nat /\ Stream(s)[j] \in Bytes /\ EncodedUpTo(s)[j] \in Sends
  BY SendsTypes, Zenon
<1>2. j \in T
  <2>1. StartsWith(Stream(s)[j], Stream(s)[j]) /\ StartsWith(EncodedUpTo(s)[j], EncodedUpTo(s)[j])
    BY <1>1 DEF StartsWith, Bytes, Sends
  <2>. QED
    BY <1>1, <2>1, Zenon
<1>3. ASSUME NEW n \in Nat, n >= j /\ n + 1 <= Len(s) /\ n \in T
      PROVE  n + 1 \in T
  <2>1. n + 1 \in 1..Len(s) /\ (n + 1) - 1 = n /\ n + 1 \in Nat /\ n \in 0..Len(s)
    BY <1>1, <1>3
  <2>2. Stream(s)[n] \in Bytes /\ EncodedUpTo(s)[n] \in Sends /\ s[n + 1] \in Sendable
    BY <2>1, SendsTypes, Zenon
  <2>3. Encode(s[n + 1]) \in Bytes
    BY <2>2, EncodeIs, Zenon
  <2>4. Stream(s)[n + 1] = Stream(s)[n] \o Encode(s[n + 1])
    BY <2>1, StreamDef, Zenon
  <2>5. EncodedUpTo(s)[n + 1] = IF Encodable(s[n + 1]) THEN Append(EncodedUpTo(s)[n], s[n + 1])
                                ELSE EncodedUpTo(s)[n]
    BY <2>1, EncodedDef, Zenon
  <2>6. StartsWith(Stream(s)[n + 1], Stream(s)[j])
    BY <1>1, <1>3, <2>2, <2>3, <2>4, StartsWithMore, Zenon DEF Bytes
  <2>7. StartsWith(EncodedUpTo(s)[n + 1], EncodedUpTo(s)[j])
    BY <1>1, <1>3, <2>2, <2>5, StartsWithOneMore, Zenon DEF Sends
  <2>. QED
    BY <2>1, <2>6, <2>7, Zenon
<1>4. j..Len(s) \subseteq T
  <2>. HIDE DEF T
  <2>. QED
    BY <1>1, <1>2, <1>3, Upwards, Zenon
<1>. QED
  BY <1>4, Zenon

\* The message i is the next after j that becomes a frame.
NextIs(s, j, i) ==
    /\ i > j /\ Encodable(s[i])
    /\ Stream(s)[i] = Stream(s)[j] \o Frame(PayloadOf(s[i]))
    /\ EncodedUpTo(s)[i] = Append(EncodedUpTo(s)[j], s[i])

\* None of the messages between j and k can be encoded.
NoneBetween(s, j, k) == \A i \in (j + 1)..k : ~ Encodable(s[i])

LEMMA NothingBetween ==
    ASSUME NEW s \in Sends, NEW j \in 0..Len(s), NEW k \in j..Len(s), NoneBetween(s, j, k)
    PROVE  Stream(s)[k] = Stream(s)[j] /\ EncodedUpTo(s)[k] = EncodedUpTo(s)[j]
<1>. DEFINE T == {n \in Nat : NoneBetween(s, j, n) =>
                     Stream(s)[n] = Stream(s)[j] /\ EncodedUpTo(s)[n] = EncodedUpTo(s)[j]}
<1>1. Len(s) \in Nat /\ j \in Nat
  BY SendsTypes, Zenon
<1>2. j \in T
  BY <1>1, Zenon
<1>3. ASSUME NEW n \in Nat, n >= j /\ n + 1 <= Len(s) /\ n \in T
      PROVE  n + 1 \in T
  <2>1. /\ n + 1 \in 1..Len(s) /\ (n + 1) - 1 = n /\ n + 1 \in Nat /\ n \in 0..Len(s)
        /\ n + 1 \in (j + 1)..(n + 1) /\ \A i \in (j + 1)..n : i \in (j + 1)..(n + 1)
    BY <1>1, <1>3
  <2>2. ASSUME NoneBetween(s, j, n + 1)
        PROVE  Stream(s)[n + 1] = Stream(s)[j] /\ EncodedUpTo(s)[n + 1] = EncodedUpTo(s)[j]
    <3>1. ~ Encodable(s[n + 1]) /\ NoneBetween(s, j, n)
      BY <2>1, <2>2, Zenon DEF NoneBetween
    <3>2. Stream(s)[n] = Stream(s)[j] /\ EncodedUpTo(s)[n] = EncodedUpTo(s)[j]
      BY <1>3, <3>1, Zenon
    <3>3. s[n + 1] \in Sendable /\ Stream(s)[n] \in Bytes
      BY <2>1, SendsTypes, Zenon
    <3>4. Encode(s[n + 1]) = <<>>
      BY <3>1, <3>3, EncodeIs, Zenon
    <3>5. Stream(s)[n] \o <<>> = Stream(s)[n]
      BY <3>3 DEF Bytes
    <3>6. Stream(s)[n + 1] = Stream(s)[n] \o Encode(s[n + 1])
      BY <2>1, StreamDef, Zenon
    <3>7. EncodedUpTo(s)[n + 1] = EncodedUpTo(s)[n]
      BY <2>1, <3>1, EncodedDef, Zenon
    <3>. QED
      BY <3>2, <3>4, <3>5, <3>6, <3>7, Zenon
  <2>. QED
    BY <2>1, <2>2, Zenon
<1>4. j..Len(s) \subseteq T
  <2>. HIDE DEF T
  <2>. QED
    BY <1>1, <1>2, <1>3, Upwards, Zenon
<1>. QED
  BY <1>4, Zenon

LEMMA NextFrame ==
    ASSUME NEW s \in Sends, NEW j \in 0..Len(s), Len(Stream(s)[j]) < Len(Stream(s)[Len(s)])
    PROVE  \E i \in 1..Len(s) : NextIs(s, j, i)
<1>. DEFINE N == Len(s)
            T == {i \in (j + 1)..N : Encodable(s[i])}
<1>1. /\ N \in Nat /\ j \in Nat /\ N \in j..N /\ Len(Stream(s)[j]) \in Nat
  <2>1. N \in Nat /\ j \in Nat /\ Stream(s)[j] \in Bytes
    BY SendsTypes, Zenon
  <2>. QED
    BY <2>1, LenNat
<1>2. T # {}
  <2>1. SUFFICES ASSUME T = {}
                 PROVE  FALSE
    BY Zenon
  <2>2. NoneBetween(s, j, N)
    BY <2>1, Zenon DEF NoneBetween
  <2>3. Stream(s)[N] = Stream(s)[j]
    BY <1>1, <2>2, NothingBetween, Zenon
  <2>4. ~(Len(Stream(s)[j]) < Len(Stream(s)[j]))
    BY <1>1
  <2>. QED
    BY <2>3, <2>4, Zenon
<1>3. T \in SUBSET Nat
  BY <1>1
<1>4. PICK i \in T : \A y \in T : i <= y
  BY <1>2, <1>3, LeastNumber, Zenon
<1>5. Encodable(s[i]) /\ i \in (j + 1)..N
  BY Zenon
<1>6. i \in 1..N /\ i > j /\ i - 1 \in j..N
  BY <1>1, <1>5
<1>7. NoneBetween(s, j, i - 1)
  <2>1. \A y \in (j + 1)..(i - 1) : y \in (j + 1)..N /\ ~(i <= y)
    BY <1>1, <1>5
  <2>. QED
    BY <1>4, <2>1, Zenon DEF NoneBetween
<1>8. Stream(s)[i - 1] = Stream(s)[j] /\ EncodedUpTo(s)[i - 1] = EncodedUpTo(s)[j]
  BY <1>6, <1>7, NothingBetween, Zenon
<1>9. s[i] \in Sendable
  BY <1>6, SendsTypes, Zenon
<1>10. Encode(s[i]) = Frame(PayloadOf(s[i]))
  BY <1>5, <1>9, EncodeIs, Zenon
<1>11. NextIs(s, j, i)
  BY <1>5, <1>6, <1>8, <1>10, StreamDef, EncodedDef, Zenon DEF NextIs
<1>. QED
  BY <1>6, <1>11, Zenon

-----------------------------------------------------------------------------
(* What flows from one end to the other *)

Matches(e, s, got) == Len(got) = Len(s) /\ \A i \in 1..Len(s) : Arrives(e, s[i], got[i])

\* The messages up to j have been received, and what flows follows them; it ends
\* with the last message that has left the queue.
SoundFrom(e, acc, q, got, flow, whole, j) ==
    /\ Matches(e, EncodedUpTo(acc)[j], got)
    /\ At(Stream(acc)[Len(acc)], Len(Stream(acc)[j]), flow)
    /\ whole => Len(Stream(acc)[j]) + Len(flow) = Len(Stream(acc)[Len(acc) - Len(q)])

Sound(e, acc, q, got, flow, whole) == \E j \in 0..Len(acc) : SoundFrom(e, acc, q, got, flow, whole, j)

\* The queue holds the last of the messages that were accepted.
Queue(acc, q) == Len(q) <= Len(acc) /\ \A i \in 1..Len(q) : q[i] = acc[Len(acc) - Len(q) + i]

Relays == [kind : {"relay"}, to : Nat, from : Nat, frame : Seq(Byte)]
Handled == Sendable \union Relays

LEMMA AtMore ==
    ASSUME NEW w \in Bytes, NEW t \in Bytes, NEW s \in Bytes, NEW c \in Nat, At(w, c, s)
    PROVE  At(w \o t, c, s)
BY DEF At, Bytes

LEMMA QueueTypes ==
    ASSUME NEW acc \in Sends, NEW q \in Sends, Queue(acc, q)
    PROVE  /\ Len(acc) \in Nat /\ Len(q) \in Nat /\ Len(acc) - Len(q) \in 0..Len(acc)
           /\ Len(acc) - Len(q) \in Nat
BY DEF Queue, Sends

\* Send.
LEMMA SoundEnqueue ==
    ASSUME NEW e, NEW acc \in Sends, NEW q \in Sends, NEW got, NEW flow \in Bytes, NEW whole \in BOOLEAN,
           NEW m \in Sendable, Queue(acc, q), Sound(e, acc, q, got, flow, whole)
    PROVE  /\ Queue(Append(acc, m), Append(q, m))
           /\ Sound(e, Append(acc, m), Append(q, m), got, flow, whole)
<1>. DEFINE a == Append(acc, m)
            b == Append(q, m)
<1>1. a \in Sends /\ Len(a) = Len(acc) + 1 /\ b \in Sends /\ Len(b) = Len(q) + 1
  BY AppendSends, Zenon
<1>2. /\ Len(acc) \in Nat /\ Len(q) \in Nat /\ Len(acc) - Len(q) \in 0..Len(acc)
      /\ Len(a) - Len(b) = Len(acc) - Len(q)
  BY <1>1, QueueTypes
<1>3. Queue(a, b)
  BY DEF Queue, Sends
<1>4. PICK j \in 0..Len(acc) : SoundFrom(e, acc, q, got, flow, whole, j)
  BY Zenon DEF Sound
<1>5. /\ \A i \in 0..Len(acc) : Stream(a)[i] = Stream(acc)[i] /\ EncodedUpTo(a)[i] = EncodedUpTo(acc)[i]
      /\ Stream(a)[Len(a)] = Stream(acc)[Len(acc)] \o Encode(m)
  BY StreamAppend, Zenon
<1>6. /\ Stream(acc)[Len(acc)] \in Bytes /\ Stream(acc)[j] \in Bytes /\ Len(Stream(acc)[j]) \in Nat
      /\ Encode(m) \in Bytes
  BY SendsTypes, LenNat, EncodeIs, Zenon
<1>. HIDE DEF a, b
<1>7. At(Stream(a)[Len(a)], Len(Stream(a)[j]), flow)
  BY <1>4, <1>5, <1>6, AtMore, Zenon DEF SoundFrom
<1>8. whole => Len(Stream(a)[j]) + Len(flow) = Len(Stream(a)[Len(a) - Len(b)])
  BY <1>2, <1>4, <1>5, Zenon DEF SoundFrom
<1>9. Matches(e, EncodedUpTo(a)[j], got)
  BY <1>4, <1>5, Zenon DEF SoundFrom
<1>10. j \in 0..Len(a)
  BY <1>1, <1>2
<1>11. SoundFrom(e, a, b, got, flow, whole, j)
  BY <1>7, <1>8, <1>9, Zenon DEF SoundFrom
<1>12. Sound(e, a, b, got, flow, whole)
  BY <1>10, <1>11, Zenon DEF Sound
<1>. QED
  BY <1>3, <1>12, Zenon DEF a, b

LEMMA AtLen ==
    ASSUME NEW w \in Bytes, NEW s \in Bytes, NEW c \in Nat, At(w, c, s)
    PROVE  c + Len(s) <= Len(w)
BY Zenon DEF At

\* sendloop takes the first message of the queue.
LEMMA SoundTake ==
    ASSUME NEW e, NEW acc \in Sends, NEW q \in Sends, NEW got, NEW flow \in Bytes,
           Queue(acc, q), q # <<>>, Sound(e, acc, q, got, flow, TRUE)
    PROVE  Sound(e, acc, Tail(q), got, flow \o Encode(Head(q)), TRUE)
<1>. DEFINE b == Tail(q)
            m == Head(q)
            t == Len(acc) - Len(q)
            u == Len(acc) - Len(b)
            w == Stream(acc)[Len(acc)]
            new == flow \o Encode(m)
<1>1. /\ Len(acc) \in Nat /\ Len(q) \in Nat /\ Len(q) # 0 /\ Len(b) = Len(q) - 1
      /\ b \in Sends /\ m = q[1] /\ m \in Sendable
  BY DEF Sends
<1>2. /\ t \in 0..Len(acc) /\ u \in 1..Len(acc) /\ u - 1 = t /\ 1 \in 1..Len(q) /\ t + 1 = u
      /\ u \in 0..Len(acc) /\ Len(acc) \in u..Len(acc)
  BY <1>1 DEF Queue
<1>3. m = acc[u]
  BY <1>1, <1>2, Zenon DEF Queue
<1>4. PICK j \in 0..Len(acc) : SoundFrom(e, acc, q, got, flow, TRUE, j)
  BY Zenon DEF Sound
<1>. DEFINE c == Len(Stream(acc)[j])
<1>5. /\ w \in Bytes /\ c \in Nat /\ Encode(m) \in Bytes /\ Stream(acc)[t] \in Bytes
      /\ Len(Stream(acc)[t]) \in Nat /\ Len(flow) \in Nat /\ Len(Encode(m)) \in Nat
      /\ Stream(acc)[u] \in Bytes /\ Stream(acc)[j] \in Bytes
  BY <1>1, <1>2, SendsTypes, EncodeIs, LenNat, Zenon
<1>6. Stream(acc)[u] = Stream(acc)[t] \o Encode(m)
  BY <1>2, <1>3, StreamDef, Zenon
<1>7. StartsWith(w, Stream(acc)[u])
  BY <1>2, Grows, Zenon
<1>8. At(w, c, flow) /\ c + Len(flow) = Len(Stream(acc)[t])
  BY <1>4, Zenon DEF SoundFrom
<1>. HIDE DEF b, m, t, u, w, c
<1>9. At(w, 0, Stream(acc)[t] \o Encode(m))
  BY <1>5, <1>6, <1>7 DEF StartsWith, At, Bytes
<1>10. At(w, c + Len(flow), Encode(m))
  BY <1>5, <1>8, <1>9, AtFront, Zenon
<1>11. At(w, c, new)
  BY <1>5, <1>8, <1>10, AtSplit, Zenon
<1>12. new \in Bytes /\ Len(new) = Len(flow) + Len(Encode(m))
  BY <1>5, ConcatType, Zenon
<1>. HIDE DEF new
<1>13. c + Len(new) = Len(Stream(acc)[u])
  <2>1. Len(Stream(acc)[u]) = Len(Stream(acc)[t]) + Len(Encode(m))
    BY <1>5, <1>6, ConcatType, Zenon
  <2>. QED
    BY <1>5, <1>8, <1>12, <2>1, SMTT(30)
<1>14. SoundFrom(e, acc, b, got, new, TRUE, j)
  BY <1>4, <1>11, <1>13, Zenon DEF SoundFrom, c, w, u
<1>. QED
  BY <1>14, Zenon DEF Sound, new, b, m

\* The connection is closed: the end of what flows is lost.
LEMMA SoundLose ==
    ASSUME NEW e, NEW acc \in Sends, NEW q, NEW p, NEW got, NEW a \in Bytes, NEW b \in Bytes, NEW whole,
           Sound(e, acc, q, got, a \o b, whole)
    PROVE  Sound(e, acc, p, got, a, FALSE)
<1>1. PICK j \in 0..Len(acc) : SoundFrom(e, acc, q, got, a \o b, whole, j)
  BY Zenon DEF Sound
<1>2. Stream(acc)[Len(acc)] \in Bytes /\ Len(Stream(acc)[j]) \in Nat
  BY SendsTypes, LenNat, Zenon
<1>3. At(Stream(acc)[Len(acc)], Len(Stream(acc)[j]), a)
  BY <1>1, <1>2, AtSplit, Zenon DEF SoundFrom
<1>4. SoundFrom(e, acc, p, got, a, FALSE, j)
  BY <1>1, <1>3, Zenon DEF SoundFrom
<1>. QED
  BY <1>4, Zenon DEF Sound

\* What a frame is decoded to arrives as it should.
LEMMA DecodedArrives ==
    ASSUME NEW e, NEW m \in Sendable, Encodable(m), NEW x, x = Decode(SelfAddr[e], PayloadOf(m))
    PROVE  Arrives(e, m, x) /\ x \in Handled /\ x # Invalid
<1>. DEFINE p == PayloadOf(m)
<1>1. x = IF m.to = SelfAddr[e] THEN m ELSE NewRelayMessage(m.to, m.from, p)
  BY RoundTrip, Zenon
<1>2. p \in Bytes /\ Encode(m) = Frame(p) /\ Frame(p) \in Bytes
  BY EncodeIs, FrameType, Zenon
<1>3. m.to \in Nat /\ m.from \in Nat
  <2>1. m.to \in Field(sizeAddr) /\ m.from \in Field(sizeAddr)
    BY Kinds, Zenon
  <2>. QED
    BY <2>1, Zenon DEF Field
<1>. HIDE DEF p
<1>4. CASE m.to = SelfAddr[e]
  <2>1. x = m
    BY <1>1, <1>4, Zenon
  <2>2. m.kind \in {"bin", "pb", "req", "resp"}
    BY Kinds, PlainTypes, RequestTypes, ResponseTypes, Zenon
  <2>3. m # Invalid
    BY <2>2 DEF Invalid
  <2>. QED
    BY <1>4, <2>1, <2>3, Zenon DEF Arrives, Handled
<1>5. CASE m.to # SelfAddr[e]
  <2>1. x = [kind |-> "relay", to |-> m.to, from |-> m.from, frame |-> Frame(p)]
    BY <1>1, <1>5, Zenon DEF NewRelayMessage, Frame
  <2>2. x.kind = "relay" /\ x.to = m.to /\ x.from = m.from /\ x.frame = Frame(p)
    BY <2>1
  <2>3. x \in Handled
    BY <1>2, <1>3, <2>1 DEF Handled, Relays, Bytes
  <2>4. x # Invalid
    BY <2>2 DEF Invalid
  <2>5. Encode(x) = Encode(m)
    BY <1>2, <2>2, Zenon DEF Encode
  <2>6. m.kind = "req" => GetRpcRequest(x) = m
    <3>1. ASSUME m.kind = "req"
          PROVE  m \in Requests
      <4>1. m \in PlainMessages => m.kind # "req"
        BY PlainTypes, Zenon
      <4>2. m \in Responses => m.kind # "req"
        BY ResponseTypes
      <4>. QED
        BY <3>1, <4>1, <4>2, Kinds, Zenon
    <3>. QED
      BY <2>2, <3>1, RequestInFrame, Zenon DEF p
  <2>. QED
    BY <1>5, <2>2, <2>3, <2>4, <2>5, <2>6, Zenon DEF Arrives
<1>. QED
  BY <1>4, <1>5, Zenon

LEMMA AtPart ==
    ASSUME NEW w \in Bytes, NEW s \in Bytes, NEW c \in Nat, NEW k \in Nat, NEW n \in Nat,
           At(w, c, s), k + n <= Len(s)
    PROVE  At(w, c + k, SubSeq(s, k + 1, k + n))
<1>. DEFINE u == SubSeq(s, k + 1, k + n)
<1>1. u \in Bytes /\ Len(u) = n /\ \A i \in 1..n : u[i] = s[k + i]
  BY SubSeqIs, Zenon
<1>2. Len(s) \in Nat /\ Len(w) \in Nat
  BY LenNat, Zenon
<1>. HIDE DEF u
<1>3. (c + k) + Len(u) <= Len(w)
  BY <1>1, <1>2 DEF At
<1>4. ASSUME NEW i \in 1..n
      PROVE  u[i] = w[(c + k) + i]
  <2>1. k + i \in 1..Len(s) /\ c + (k + i) = (c + k) + i
    BY <1>2
  <2>. QED
    BY <1>1, <2>1, Zenon DEF At
<1>. QED
  BY <1>1, <1>3, <1>4, Zenon DEF At, u

LEMMA AtSame ==
    ASSUME NEW w, NEW s \in Bytes, NEW t \in Bytes, NEW c, At(w, c, s), At(w, c, t), Len(s) = Len(t)
    PROVE  s = t
<1>1. \A i \in 1..Len(s) : s[i] = t[i]
  BY Zenon DEF At
<1>. QED
  BY <1>1, SameBytes, Zenon

LEMMA MatchesAppend ==
    ASSUME NEW e, NEW s \in Sends, NEW got \in Seq(Handled), Matches(e, s, got),
           NEW m \in Sendable, NEW x \in Handled, Arrives(e, m, x)
    PROVE  Matches(e, Append(s, m), Append(got, x))
<1>. DEFINE a == Append(s, m)
            b == Append(got, x)
            n == Len(s)
<1>1. /\ n \in Nat /\ Len(got) = n /\ Len(a) = n + 1 /\ Len(b) = n + 1 /\ a[n + 1] = m /\ b[n + 1] = x
      /\ \A i \in 1..n : a[i] = s[i] /\ b[i] = got[i]
  BY DEF Matches, Sends
<1>2. \A i \in 1..(n + 1) : i \in 1..n \/ i = n + 1
  BY <1>1
<1>. HIDE DEF a, b
<1>3. \A i \in 1..(n + 1) : Arrives(e, a[i], b[i])
  BY <1>1, <1>2, Zenon DEF Matches
<1>4. Matches(e, a, b)
  BY <1>1, <1>3, Zenon DEF Matches
<1>. QED
  BY <1>4, Zenon DEF a, b

\* A frame that begins the data is the next message.
Taking(e, acc, q, got, d, rest, whole, n, payload, left) ==
    /\ n > 0 /\ n + sizeLen <= MaxPacketSize /\ n \in Nat
    /\ n + sizeLen <= Len(d) =>
          /\ Decode(SelfAddr[e], payload) \in Handled
          /\ Decode(SelfAddr[e], payload) # Invalid
          /\ Sound(e, acc, q, Append(got, Decode(SelfAddr[e], payload)), left \o rest, whole)

Gots == Seq(Handled)

\* The parts of the data: the length n, the payload and what is left.
PartsOf(d, n, payload, left) ==
    /\ n = Value(SubSeq(d, 1, sizeLen))
    /\ payload = SubSeq(d, sizeLen + 1, sizeLen + n)
    /\ left = SubSeq(d, sizeLen + n + 1, Len(d))

LEMMA SoundFrame ==
    ASSUME NEW e, NEW acc \in Sends, NEW q \in Sends, Queue(acc, q), NEW got \in Gots,
           NEW d \in Bytes, NEW rest \in Bytes, NEW whole \in BOOLEAN,
           Sound(e, acc, q, got, d \o rest, whole), Len(d) >= sizeLen,
           NEW n, NEW payload, NEW left, PartsOf(d, n, payload, left)
    PROVE  Taking(e, acc, q, got, d, rest, whole, n, payload, left)
<1>. DEFINE w == Stream(acc)[Len(acc)]
            x == Decode(SelfAddr[e], payload)
<1>1. sizeLen \in Nat /\ sizeLen > 0 /\ MaxPacketSize \in Nat /\ Len(d) \in Nat /\ Len(rest) \in Nat
  BY ConstantTypes, LenNat
<1>2. PICK j \in 0..Len(acc) : SoundFrom(e, acc, q, got, d \o rest, whole, j)
  BY Zenon DEF Sound
<1>. DEFINE c == Len(Stream(acc)[j])
<1>3. w \in Bytes /\ Len(w) \in Nat /\ c \in Nat /\ Stream(acc)[j] \in Bytes /\ Len(acc) \in Nat
  BY SendsTypes, LenNat, Zenon
<1>4. At(w, c, d) /\ At(w, c + Len(d), rest)
  BY <1>2, <1>3, AtSplit, Zenon DEF SoundFrom
<1>5. c < Len(w)
  BY <1>1, <1>3, <1>4 DEF At
<1>6. PICK i \in 1..Len(acc) : NextIs(acc, j, i)
  BY <1>5, NextFrame, Zenon
<1>. DEFINE m == acc[i]
            p == PayloadOf(m)
            h == Put(sizeLen, Len(p))
<1>7. m \in Sendable /\ Encodable(m)
  BY <1>6, SendsTypes, Zenon DEF NextIs
<1>8. p \in Bytes /\ Len(p) \in Nat \ {0} /\ sizeLen + Len(p) <= MaxPacketSize
  BY <1>7, EncodeIs, Zenon
<1>9. /\ Len(p) \in Field(sizeLen) /\ h \in Bytes /\ Len(h) = sizeLen
      /\ Frame(p) \in Bytes /\ Len(Frame(p)) = sizeLen + Len(p) /\ Frame(p) = h \o p
  BY <1>8, FrameType, Zenon DEF Frame
<1>10. Value(h) = Len(p)
  BY <1>1, <1>9, PutBytes, Zenon
<1>11. Stream(acc)[i] = Stream(acc)[j] \o Frame(p) /\ EncodedUpTo(acc)[i] = Append(EncodedUpTo(acc)[j], m)
  BY <1>6, Zenon DEF NextIs
<1>12. i \in 0..Len(acc) /\ Len(acc) \in i..Len(acc)
  BY <1>3
<1>13. At(w, c, Frame(p))
  <2>1. StartsWith(w, Stream(acc)[i]) /\ Stream(acc)[i] \in Bytes
    BY <1>12, Grows, SendsTypes, Zenon
  <2>2. At(w, 0, Stream(acc)[i])
    <3>. HIDE DEF w
    <3>. QED
      BY <1>3, <2>1 DEF StartsWith, At, Bytes
  <2>3. At(w, 0, Stream(acc)[j] \o Frame(p))
    BY <1>11, <2>2, Zenon
  <2>. HIDE DEF w
  <2>. QED
    BY <1>3, <1>9, <2>3, AtFront, Zenon
<1>. HIDE DEF w, m, p, h, c, x
<1>14. At(w, c, h) /\ At(w, c + sizeLen, p)
  <2>1. At(w, c, h \o p)
    BY <1>9, <1>13, Zenon
  <2>2. At(w, c, h) /\ At(w, c + Len(h), p)
    BY <1>3, <1>8, <1>9, <2>1, AtSplit, Zenon
  <2>. QED
    BY <1>9, <2>2, Zenon
<1>15. SubSeq(d, 1, sizeLen) = h
  <2>1. 0 \in Nat /\ 0 + 1 = 1 /\ 0 + sizeLen = sizeLen /\ c + 0 = c /\ 0 + sizeLen <= Len(d)
    BY <1>1, <1>3
  <2>2. At(w, c + 0, SubSeq(d, 0 + 1, 0 + sizeLen))
    BY <1>1, <1>3, <1>4, <2>1, AtPart, Zenon
  <2>3. SubSeq(d, 0 + 1, 0 + sizeLen) \in Bytes /\ Len(SubSeq(d, 0 + 1, 0 + sizeLen)) = sizeLen
    <3>1. 0 \in Nat /\ 0 + sizeLen <= Len(d) /\ sizeLen \in Nat
      BY <1>1, <2>1, Zenon
    <3>. QED
      BY <3>1, SubSeqIs, Zenon
  <2>. QED
    <3>1. SubSeq(d, 0 + 1, 0 + sizeLen) = h
      <4>. DEFINE u == SubSeq(d, 0 + 1, 0 + sizeLen)
      <4>1. u \in Bytes /\ Len(u) = Len(h) /\ At(w, c, u)
        BY <1>9, <2>1, <2>2, <2>3, Zenon
      <4>. HIDE DEF u
      <4>2. u = h
        BY <1>9, <1>14, <4>1, AtSame, Zenon
      <4>. QED
        BY <4>2, Zenon DEF u
    <3>. QED
      BY <2>1, <3>1, Zenon
<1>16. n = Len(p)
  BY <1>10, <1>15, Zenon DEF PartsOf
<1>17. n > 0 /\ n + sizeLen <= MaxPacketSize /\ n \in Nat
  BY <1>1, <1>8, <1>16
<1>18. ASSUME n + sizeLen <= Len(d)
       PROVE  x \in Handled /\ x # Invalid /\ Sound(e, acc, q, Append(got, x), left \o rest, whole)
  <2>1. sizeLen + n <= Len(d)
    BY <1>1, <1>17, <1>18
  <2>2. payload = p
    <3>1. At(w, c + sizeLen, payload)
      BY <1>1, <1>3, <1>4, <1>17, <2>1, AtPart, Zenon DEF PartsOf
    <3>2. payload \in Bytes /\ Len(payload) = n
      BY <1>1, <1>17, <2>1, SubSeqIs, ZenonT(40) DEF PartsOf
    <3>. QED
      BY <1>8, <1>14, <1>16, <3>1, <3>2, AtSame, Zenon
  <2>3. x = Decode(SelfAddr[e], PayloadOf(m))
    BY <2>2, Zenon DEF x, p
  <2>4. Arrives(e, m, x) /\ x \in Handled /\ x # Invalid
    BY <1>7, <2>3, DecodedArrives, Zenon
  <2>5. Matches(e, EncodedUpTo(acc)[i], Append(got, x))
    <3>1. EncodedUpTo(acc)[j] \in Sends
      BY SendsTypes, Zenon
    <3>. QED
      BY <1>2, <1>7, <1>11, <2>4, <3>1, MatchesAppend, Zenon DEF SoundFrom, Gots
  <2>. DEFINE k == sizeLen + n
              l == Len(d) - k
  <2>6. k \in Nat /\ l \in Nat /\ k + l = Len(d) /\ k + l <= Len(d)
    BY <1>1, <1>17, <2>1
  <2>. HIDE DEF k, l
  <2>7. left \in Bytes /\ Len(left) = l /\ At(w, c + k, left)
    <3>1. left = SubSeq(d, k + 1, k + l)
      BY <2>6, Zenon DEF k, PartsOf
    <3>2. left \in Bytes /\ Len(left) = l
      BY <2>6, <3>1, SubSeqIs, Zenon
    <3>3. At(w, c + k, SubSeq(d, k + 1, k + l))
      BY <1>3, <1>4, <2>6, AtPart, Zenon
    <3>. QED
      BY <3>1, <3>2, <3>3, Zenon
  <2>8. Len(Stream(acc)[i]) = c + k /\ c + k \in Nat
    <3>1. Len(Stream(acc)[i]) = c + (sizeLen + Len(p))
      <4>1. Len(Stream(acc)[j] \o Frame(p)) = Len(Stream(acc)[j]) + Len(Frame(p))
        BY <1>3, <1>9, ConcatType, Zenon
      <4>. QED
        BY <1>9, <1>11, <4>1, Zenon DEF c
    <3>. QED
      BY <1>3, <1>16, <2>6, <3>1, SMTT(30) DEF k
  <2>9. (c + k) + Len(left) = c + Len(d)
    BY <1>3, <2>6, <2>7
  <2>10. At(w, c + k, left \o rest)
    <3>1. At(w, (c + k) + Len(left), rest)
      BY <1>4, <2>9, Zenon
    <3>. QED
      BY <1>3, <2>7, <2>8, <3>1, AtSplit, Zenon
  <2>11. whole => (c + k) + Len(left \o rest) = Len(Stream(acc)[Len(acc) - Len(q)])
    <3>1. Len(left \o rest) = l + Len(rest) /\ Len(d \o rest) = Len(d) + Len(rest)
      BY <2>7, ConcatType, Zenon
    <3>2. (c + k) + (l + Len(rest)) = c + (Len(d) + Len(rest))
      BY <1>1, <1>3, <2>6
    <3>. QED
      BY <1>2, <3>1, <3>2, Zenon DEF SoundFrom, c
  <2>12. SoundFrom(e, acc, q, Append(got, x), left \o rest, whole, i)
    BY <2>5, <2>8, <2>10, <2>11, Zenon DEF SoundFrom, w
  <2>. QED
    BY <1>12, <2>4, <2>12, Zenon DEF Sound
<1>. QED
  BY <1>17, <1>18, Zenon DEF Taking, x

-----------------------------------------------------------------------------
(* The two Sockets *)

Readers == [data : Bytes, r : Nat, cap : Nat]

Types ==
    /\ program \in Programs /\ next \in [Ends -> Nat]
    /\ sendReq \in [Ends -> Sends] /\ accepted \in [Ends -> Sends]
    /\ buf \in [Ends -> Bytes] /\ pipe \in [Ends -> Bytes]
    /\ fr \in [Ends -> Readers]
    /\ sendpc \in [Ends -> SendPhases] /\ recvpc \in [Ends -> RecvPhases]
    /\ recvReq \in [Ends -> BOOLEAN] /\ die \in [Ends -> BOOLEAN] /\ open \in [Ends -> BOOLEAN]
    /\ packet \in [Ends -> Handled \union {NoPacket}] /\ received \in [Ends -> Gots]
    /\ callbacks \in [Ends -> 0..1] /\ broken \in [Ends -> {"no", "connection", "frame"}]
    /\ faults \in 0..program.faults

\* The limits of the queue, of the connection and of the frame reader's buffer.
Bounds ==
    \A e \in Ends :
        /\ Len(sendReq[e]) <= SendChanSize /\ Len(pipe[e]) <= PipeSize
        /\ fr[e].r + Len(fr[e].data) <= fr[e].cap
        /\ fr[e].cap \in BufSize..(BufSize + MaxPacketSize)

Linked(e) == open[e] /\ open[Peer(e)]

\* What e has not taken of what its peer has put together, as long as nothing is lost.
Flow(e) == (fr[e].data \o pipe[Peer(e)]) \o (IF Linked(e) THEN buf[Peer(e)] ELSE <<>>)

Flowing(e) == Sound(e, accepted[Peer(e)], sendReq[Peer(e)], received[e], Flow(e), Linked(e))

Flows ==
    \A e \in Ends :
        /\ Flowing(e) /\ Queue(accepted[e], sendReq[e]) /\ broken[e] # "frame"
        /\ recvpc[e] = "handle" => packet[e] \in Handled

\* The handler's replies can be sent.
RepliesCanBeSent == \A m \in Handled : ReplyTo(m) # m => ReplyTo(m) \in Sendable

LEMMA Peers ==
    /\ \A e \in Ends : Peer(e) \in Ends /\ Peer(e) # e /\ Peer(Peer(e)) = e
    /\ \A e, x \in Ends : x = e \/ x = Peer(e)
BY SocketAssumption DEF Ends, Peer

LEMMA SizeTypes ==
    /\ SendChanSize \in Nat /\ BatchSendSize \in Nat /\ BufSize \in Nat /\ PipeSize \in Nat
    /\ MaxPacketSize \in Nat /\ sizeLen \in Nat
BY SocketAssumption, ConstantTypes

LEMMA Updated ==
    ASSUME NEW S, NEW f \in [Ends -> S], NEW e \in Ends, NEW v \in S
    PROVE  /\ [f EXCEPT ![e] = v] \in [Ends -> S] /\ [f EXCEPT ![e] = v][e] = v
           /\ \A x \in Ends : x # e => [f EXCEPT ![e] = v][x] = f[x]
BY Zenon

LEMMA SubBytes ==
    ASSUME NEW w \in Bytes, NEW a \in Nat, NEW b \in Nat, b <= Len(w)
    PROVE  SubSeq(w, a + 1, b) \in Bytes
BY DEF Bytes

LEMMA SendsParts ==
    ASSUME NEW q \in Sends, q # <<>>
    PROVE  Head(q) \in Sendable /\ Tail(q) \in Sends /\ Len(Tail(q)) = Len(q) - 1 /\ Len(q) \in Nat \ {0}
BY DEF Sends

\* At the start nothing flows.
LEMMA InitAll ==
    ASSUME Init
    PROVE  Types /\ Bounds /\ CallbackLast /\ Flows
<1>1. <<>> \in Sends /\ <<>> \in Bytes /\ <<>> \in Gots /\ Len(<<>>) = 0 /\ (<<>> \o <<>>) \o <<>> = <<>>
  BY DEF Sends, Bytes, Gots
<1>2. /\ 0 \in Nat /\ 0 \in 0..1 /\ 0 <= SendChanSize /\ 0 <= PipeSize /\ BufSize \in Nat
      /\ 0 + 0 <= BufSize /\ BufSize \in BufSize..(BufSize + MaxPacketSize) /\ ~(0 > 0)
  BY SizeTypes
<1>3. 0 \in 0..program.faults
  <2>1. program.faults \in Nat
    BY SocketAssumption, Zenon DEF Init
  <2>. QED
    BY <2>1
<1>4. \A e \in Ends : fr[e] = [data |-> <<>>, r |-> 0, cap |-> BufSize]
  BY Zenon DEF Init
<1>5. [data |-> <<>>, r |-> 0, cap |-> BufSize] \in Readers
  BY <1>1, <1>2, Zenon DEF Readers
<1>6. Types
  <2>1. fr \in [Ends -> Readers]
    BY <1>5, Zenon DEF Init
  <2>2. sendpc \in [Ends -> SendPhases] /\ recvpc \in [Ends -> RecvPhases]
    BY Zenon DEF Init, SendPhases, RecvPhases
  <2>. QED
    BY <1>1, <1>2, <1>3, <2>1, <2>2, Zenon DEF Init, Types
<1>7. Bounds
  BY <1>1, <1>2, <1>4, Zenon DEF Init, Bounds
<1>8. CallbackLast
  BY <1>2, Zenon DEF Init, CallbackLast
<1>9. ASSUME NEW e \in Ends
      PROVE  Flowing(e)
  <2>1. Peer(e) \in Ends
    BY Peers, Zenon
  <2>2. Flow(e) = <<>>
    BY <1>1, <1>4, <2>1, Zenon DEF Init, Flow
  <2>3. accepted[Peer(e)] = <<>> /\ sendReq[Peer(e)] = <<>> /\ received[e] = <<>>
    BY <2>1, Zenon DEF Init
  <2>4. 0 \in 0..0 /\ 0 - 0 = 0 /\ 0 + 0 = 0 /\ 0 <= 0 /\ 1..0 = {}
    OBVIOUS
  <2>5. EncodedUpTo(<<>>)[0] = <<>> /\ Stream(<<>>)[0] = <<>>
    BY <1>1, EncodedDef, StreamDef, Zenon
  <2>6. SoundFrom(e, <<>>, <<>>, <<>>, <<>>, Linked(e), 0)
    BY <1>1, <2>4, <2>5, Zenon DEF SoundFrom, Matches, At
  <2>7. Sound(e, <<>>, <<>>, <<>>, <<>>, Linked(e))
    BY <1>1, <2>4, <2>6, Zenon DEF Sound
  <2>. QED
    BY <2>2, <2>3, <2>7, Zenon DEF Flowing
<1>10. Flows
  <2>1. Queue(<<>>, <<>>)
    BY DEF Queue
  <2>2. \A e \in Ends : accepted[e] = <<>> /\ sendReq[e] = <<>> /\ broken[e] = "no" /\ recvpc[e] = "select"
    BY Zenon DEF Init
  <2>3. "no" # "frame" /\ "select" # "handle"
    BY Zenon
  <2>. QED
    BY <1>9, <2>1, <2>2, <2>3, Zenon DEF Flows
<1>. QED
  BY <1>6, <1>7, <1>8, <1>10, Zenon

SafetyInv == Types /\ Bounds /\ CallbackLast /\ Flows

\* Both loops stay where they have ended, and a closed connection is not opened.
Ended ==
    \A e \in Ends : /\ sendpc[e] = "done" => sendpc'[e] = "done"
                    /\ recvpc[e] = "done" => recvpc'[e] = "done"
                    /\ ~ open[e] => ~ open'[e]

LEMMA CallbackKept ==
    ASSUME CallbackLast, Ended, callbacks' = callbacks
    PROVE  CallbackLast'
BY Zenon DEF CallbackLast, Ended

LEMMA StaysDone ==
    ASSUME NEW S, NEW f \in [Ends -> S], NEW x \in Ends, f[x] # "done", NEW v \in S, NEW e \in Ends,
           f[e] = "done"
    PROVE  [f EXCEPT ![x] = v][e] = "done"
BY Zenon

LEMMA FlowKept ==
    ASSUME NEW e \in Ends, Flowing(e), UNCHANGED <<accepted, sendReq, received, fr, pipe, buf, open>>
    PROVE  Flowing(e)'
BY Zenon DEF Flowing, Flow, Linked

LEMMA BoundsKept ==
    ASSUME Bounds, UNCHANGED <<sendReq, fr, pipe>>
    PROVE  Bounds'
BY Zenon DEF Bounds

\* A step that neither sends, takes nor loses anything.
LEMMA FlowsKept ==
    ASSUME Flows, UNCHANGED <<accepted, sendReq, received, fr, pipe, buf, open>>,
           \A e \in Ends : broken'[e] # "frame",
           \A e \in Ends : recvpc'[e] = "handle" => packet'[e] \in Handled
    PROVE  Flows'
BY FlowKept, Zenon DEF Flows

\* What such a step leaves alone.
Quiet ==
    UNCHANGED <<program, next, sendReq, accepted, buf, pipe, fr, packet, received, open, callbacks>>

QuietTypes ==
    /\ sendpc' \in [Ends -> SendPhases] /\ recvpc' \in [Ends -> RecvPhases]
    /\ recvReq' \in [Ends -> BOOLEAN] /\ die' \in [Ends -> BOOLEAN]
    /\ broken' \in [Ends -> {"no", "connection", "frame"}] /\ faults' \in 0..program.faults

LEMMA QuietStep ==
    ASSUME SafetyInv, Quiet, QuietTypes, Ended, \A e \in Ends : broken'[e] # "frame",
           \A e \in Ends : recvpc'[e] = "handle" => recvpc[e] = "handle"
    PROVE  SafetyInv'
<1>. USE Zenon
<1>1. Types'
  BY Zenon DEF SafetyInv, Types, Quiet, QuietTypes
<1>2. Bounds'
  BY BoundsKept, Zenon DEF SafetyInv, Quiet
<1>3. CallbackLast'
  BY CallbackKept DEF SafetyInv, Quiet
<1>4. \A e \in Ends : recvpc'[e] = "handle" => packet'[e] \in Handled
  BY Zenon DEF SafetyInv, Flows, Quiet
<1>5. Flows'
  BY <1>4, FlowsKept DEF SafetyInv, Quiet
<1>. QED
  BY <1>1, <1>2, <1>3, <1>5 DEF SafetyInv

LEMMA Bumped ==
    ASSUME Types, faults < program.faults
    PROVE  faults + 1 \in 0..program.faults
<1>1. program.faults \in Nat
  BY SocketAssumption, Zenon DEF Types
<1>2. faults \in 0..program.faults
  BY Zenon DEF Types
<1>. QED
  BY <1>1, <1>2

LEMMA CallCloseStep ==
    ASSUME SafetyInv, NEW x \in Ends, CallClose(x)
    PROVE  SafetyInv'
<1>. USE Zenon
<1>1. die' \in [Ends -> BOOLEAN]
  BY Zenon DEF SafetyInv, Types, CallClose, Close, Set
<1>2. faults' \in 0..program.faults
  BY Bumped DEF SafetyInv, CallClose
<1>3. Quiet /\ UNCHANGED <<sendpc, recvpc, recvReq, broken>>
  BY Zenon DEF CallClose, Quiet, sendVars, recvVars
<1>4. QuietTypes
  BY <1>1, <1>2, <1>3 DEF QuietTypes, SafetyInv, Types
<1>5. Ended /\ \A e \in Ends : broken'[e] # "frame"
  BY <1>3 DEF Ended, Quiet, SafetyInv, Flows
<1>. QED
  BY <1>3, <1>4, <1>5, QuietStep

\* Steps of sendloop alone.
LEMMA SendpcStep ==
    ASSUME SafetyInv, NEW x \in Ends, sendpc[x] # "done", NEW v \in SendPhases,
           sendpc' = [sendpc EXCEPT ![x] = v] \/ sendpc' = sendpc, die' \in [Ends -> BOOLEAN], Quiet,
           UNCHANGED <<recvpc, recvReq, broken, faults>>
    PROVE  SafetyInv'
<1>. USE Zenon
<1>1. sendpc \in [Ends -> SendPhases]
  BY Zenon DEF SafetyInv, Types
<1>2. sendpc' \in [Ends -> SendPhases]
  BY <1>1, Zenon
<1>3. QuietTypes
  BY <1>2, Zenon DEF QuietTypes, SafetyInv, Types
<1>4. \A e \in Ends : sendpc[e] = "done" => sendpc'[e] = "done"
  BY <1>1, StaysDone, Zenon
<1>5. Ended /\ \A e \in Ends : broken'[e] # "frame"
  BY <1>4, Zenon DEF Ended, Quiet, SafetyInv, Flows
<1>. QED
  BY <1>3, <1>5, QuietStep

LEMMA Phases ==
    /\ "select" # "done" /\ "flush" # "done" /\ "write" # "done" /\ "flushing" # "done"
    /\ "last" # "done" /\ "close" # "done" /\ "recv" # "done" /\ "handle" # "done"
    /\ "recv" # "handle" /\ "close" # "handle" /\ "done" # "handle" /\ "select" # "handle"
    /\ {"select", "write", "flush", "flushing", "last", "close", "done"} \subseteq SendPhases
    /\ {"select", "recv", "handle", "close", "done"} \subseteq RecvPhases
    /\ "connection" # "frame"
BY Zenon DEF SendPhases, RecvPhases

LEMMA FlushStep ==
    ASSUME SafetyInv, NEW x \in Ends, Flush(x)
    PROVE  SafetyInv'
<1>. USE Zenon
<1>1. Quiet /\ UNCHANGED <<recvpc, recvReq, broken, faults, die>>
  BY Zenon DEF Flush, Quiet, recvVars, closeVars
<1>2. die' \in [Ends -> BOOLEAN]
  BY <1>1, Zenon DEF SafetyInv, Types
<1>3. sendpc[x] # "done"
  BY Phases, Zenon DEF Flush
<1>4. \E v \in SendPhases : sendpc' = [sendpc EXCEPT ![x] = v]
  BY Phases DEF Flush, Set
<1>. QED
  BY <1>1, <1>2, <1>3, <1>4, SendpcStep

LEMMA WriteFailsStep ==
    ASSUME SafetyInv, NEW x \in Ends, WriteFails(x)
    PROVE  SafetyInv'
<1>. USE Zenon
<1>1. Quiet /\ UNCHANGED <<recvpc, recvReq, broken, faults, die>>
  BY Zenon DEF WriteFails, Quiet, recvVars, closeVars
<1>2. die' \in [Ends -> BOOLEAN]
  BY <1>1, Zenon DEF SafetyInv, Types
<1>3. sendpc[x] # "done"
  BY Phases, Zenon DEF WriteFails, Writing
<1>4. \E v \in SendPhases : sendpc' = [sendpc EXCEPT ![x] = v]
  BY Phases, Zenon DEF WriteFails
<1>. QED
  BY <1>1, <1>2, <1>3, <1>4, SendpcStep, Zenon

LEMMA SendCloseStep ==
    ASSUME SafetyInv, NEW x \in Ends, SendClose(x)
    PROVE  SafetyInv'
<1>. USE Zenon
<1>1. Quiet /\ UNCHANGED <<recvpc, recvReq, broken, faults>>
  BY Zenon DEF SendClose, Quiet, recvVars
<1>2. die' \in [Ends -> BOOLEAN]
  BY Zenon DEF SafetyInv, Types, SendClose, Close, Set
<1>3. sendpc[x] # "done"
  BY Phases, Zenon DEF SendClose
<1>4. \E v \in SendPhases : sendpc' = [sendpc EXCEPT ![x] = v] \/ sendpc' = sendpc
  BY Phases, Zenon DEF SendClose, Set
<1>. QED
  BY <1>1, <1>2, <1>3, <1>4, SendpcStep

\* Steps of recvloop alone.
LEMMA RecvpcStep ==
    ASSUME SafetyInv, NEW x \in Ends, recvpc[x] # "done", NEW v \in RecvPhases, v # "handle",
           recvpc' = [recvpc EXCEPT ![x] = v] \/ recvpc' = recvpc, recvReq' \in [Ends -> BOOLEAN],
           die' \in [Ends -> BOOLEAN], Quiet, UNCHANGED sendpc, faults' \in 0..program.faults,
           broken' = [broken EXCEPT ![x] = "connection"] \/ broken' = broken
    PROVE  SafetyInv'
<1>. USE Zenon
<1>1. recvpc \in [Ends -> RecvPhases] /\ broken \in [Ends -> {"no", "connection", "frame"}]
  BY Zenon DEF SafetyInv, Types
<1>2. recvpc' \in [Ends -> RecvPhases]
  BY <1>1, Zenon
<1>3. broken' \in [Ends -> {"no", "connection", "frame"}]
  BY <1>1, Zenon
<1>4. QuietTypes
  BY <1>2, <1>3, Zenon DEF QuietTypes, SafetyInv, Types
<1>5. \A e \in Ends : recvpc[e] = "done" => recvpc'[e] = "done"
  BY <1>1, StaysDone
<1>6. \A e \in Ends : broken'[e] # "frame"
  BY <1>1, Phases, Zenon DEF SafetyInv, Flows
<1>7. \A e \in Ends : recvpc'[e] = "handle" => recvpc[e] = "handle"
  BY <1>1, Zenon
<1>8. Ended
  BY <1>5, Zenon DEF Ended, Quiet
<1>. QED
  BY <1>4, <1>6, <1>7, <1>8, QuietStep

LEMMA TakeRecvStep ==
    ASSUME SafetyInv, NEW x \in Ends, TakeRecv(x)
    PROVE  SafetyInv'
<1>. USE Zenon
<1>1. Quiet /\ UNCHANGED <<sendpc, die, broken, faults>>
  BY Zenon DEF TakeRecv, Quiet, sendVars, closeVars
<1>2. recvReq' \in [Ends -> BOOLEAN] /\ die' \in [Ends -> BOOLEAN] /\ faults' \in 0..program.faults
  BY <1>1, Zenon DEF SafetyInv, Types, TakeRecv, Set
<1>3. recvpc[x] # "done"
  BY Phases, Zenon DEF TakeRecv
<1>4. \E v \in RecvPhases : v # "handle" /\ recvpc' = [recvpc EXCEPT ![x] = v]
  BY Phases, Zenon DEF TakeRecv, Set
<1>. QED
  BY <1>1, <1>2, <1>3, <1>4, RecvpcStep

LEMMA RecvCloseStep ==
    ASSUME SafetyInv, NEW x \in Ends, RecvClose(x)
    PROVE  SafetyInv'
<1>. USE Zenon
<1>1. Quiet /\ UNCHANGED <<sendpc, recvReq, broken, faults>>
  BY Zenon DEF RecvClose, Quiet, sendVars
<1>2. recvReq' \in [Ends -> BOOLEAN] /\ faults' \in 0..program.faults
  BY <1>1 DEF SafetyInv, Types
<1>3. die' \in [Ends -> BOOLEAN]
  BY Zenon DEF SafetyInv, Types, RecvClose, Close, Set
<1>4. recvpc[x] # "done"
  BY Phases DEF RecvClose
<1>5. \E v \in RecvPhases : v # "handle" /\ (recvpc' = [recvpc EXCEPT ![x] = v] \/ recvpc' = recvpc)
  BY Phases DEF RecvClose, Set
<1>. QED
  BY <1>1, <1>2, <1>3, <1>4, <1>5, RecvpcStep

\* The rest of the flow, after the bytes that are read.
FlowRest(e) == pipe[Peer(e)] \o (IF Linked(e) THEN buf[Peer(e)] ELSE <<>>)

LEMMA FlowTypes ==
    ASSUME Types, NEW e \in Ends
    PROVE  /\ accepted[e] \in Sends /\ sendReq[e] \in Sends /\ received[e] \in Gots
           /\ buf[e] \in Bytes /\ pipe[e] \in Bytes
           /\ fr[e] \in Readers /\ fr[e].data \in Bytes /\ fr[e].r \in Nat /\ fr[e].cap \in Nat
           /\ open[e] \in BOOLEAN
BY Zenon DEF Types, Readers

LEMMA FlowParts ==
    ASSUME Types, NEW e \in Ends
    PROVE  /\ Peer(e) \in Ends /\ Linked(e) \in BOOLEAN
           /\ FlowRest(e) \in Bytes /\ Flow(e) \in Bytes /\ fr[e].data \o pipe[Peer(e)] \in Bytes
           /\ (IF Linked(e) THEN buf[Peer(e)] ELSE <<>>) \in Bytes
           /\ Flow(e) = fr[e].data \o FlowRest(e)
<1>. USE Zenon
<1>. DEFINE tail == IF Linked(e) THEN buf[Peer(e)] ELSE <<>>
<1>1. Peer(e) \in Ends
  BY Peers, Zenon
<1>2. fr[e].data \in Bytes /\ pipe[Peer(e)] \in Bytes /\ buf[Peer(e)] \in Bytes
  BY <1>1, FlowTypes, Zenon
<1>3. <<>> \in Bytes
  BY SMT DEF Bytes
<1>4. tail \in Bytes
  BY <1>2, <1>3, Zenon
<1>5. Linked(e) \in BOOLEAN
  BY Zenon DEF Linked
<1>. HIDE DEF tail
<1>6. Assoc(fr[e].data, pipe[Peer(e)], tail)
  BY <1>2, <1>4, Associative
<1>7. (fr[e].data \o pipe[Peer(e)]) \o tail = fr[e].data \o (pipe[Peer(e)] \o tail)
  BY <1>6, Zenon DEF Assoc
<1>8. pipe[Peer(e)] \o tail \in Bytes /\ fr[e].data \o pipe[Peer(e)] \in Bytes
  BY <1>2, <1>4, ConcatType
<1>9. (fr[e].data \o pipe[Peer(e)]) \o tail \in Bytes
  BY <1>4, <1>8, ConcatType
<1>. QED
  BY <1>1, <1>4, <1>5, <1>7, <1>8, <1>9 DEF Flow, FlowRest, tail

\* What the frame reader finds at the start of its data.
Found(e) ==
    Taking(e, accepted[Peer(e)], sendReq[Peer(e)], received[e], fr[e].data, FlowRest(e), Linked(e),
           Payload(fr[e]),
           SubSeq(fr[e].data, sizeLen + 1, sizeLen + Payload(fr[e])),
           SubSeq(fr[e].data, sizeLen + Payload(fr[e]) + 1, Len(fr[e].data)))

LEMMA Finds ==
    ASSUME SafetyInv, NEW e \in Ends, HasHead(fr[e])
    PROVE  Found(e) /\ ~ BadFrame(fr[e]) /\ Payload(fr[e]) \in Nat
<1>. USE Zenon
<1>. DEFINE d == fr[e].data
            n == Payload(fr[e])
<1>1. /\ Types /\ Peer(e) \in Ends /\ Linked(e) \in BOOLEAN /\ FlowRest(e) \in Bytes
      /\ Flow(e) = d \o FlowRest(e)
  BY FlowParts DEF SafetyInv
<1>2. accepted[Peer(e)] \in Sends /\ sendReq[Peer(e)] \in Sends /\ received[e] \in Gots /\ d \in Bytes
  BY <1>1, FlowTypes
<1>3. Queue(accepted[Peer(e)], sendReq[Peer(e)])
  BY <1>1, Zenon DEF SafetyInv, Flows
<1>4. Sound(e, accepted[Peer(e)], sendReq[Peer(e)], received[e], d \o FlowRest(e), Linked(e))
  BY <1>1, Zenon DEF SafetyInv, Flows, Flowing
<1>5. Len(d) >= sizeLen
  BY Zenon DEF HasHead
<1>6. PartsOf(d, n, SubSeq(d, sizeLen + 1, sizeLen + n), SubSeq(d, sizeLen + n + 1, Len(d)))
  BY Zenon DEF PartsOf, Payload
<1>7. Found(e)
  BY <1>1, <1>2, <1>3, <1>4, <1>5, <1>6, SoundFrame DEF Found
<1>8. n > 0 /\ n + sizeLen <= MaxPacketSize /\ n \in Nat
  BY <1>7, Zenon DEF Found, Taking
<1>. HIDE DEF n
<1>9. n # 0 /\ ~(n + sizeLen > MaxPacketSize)
  BY <1>8, SizeTypes, SMT
<1>. QED
  BY <1>7, <1>8, <1>9 DEF BadFrame, n

LEMMA ReadFailsStep ==
    ASSUME SafetyInv, NEW x \in Ends, ReadFails(x)
    PROVE  SafetyInv'
<1>. USE Zenon
<1>1. Quiet /\ UNCHANGED <<sendpc, recvReq, die>>
  BY Zenon DEF ReadFails, Quiet, sendVars, closeVars
<1>2. ~ BadFrame(fr[x])
  BY Finds DEF BadFrame
<1>3. broken' = [broken EXCEPT ![x] = "connection"]
  BY <1>2, Zenon DEF ReadFails, Set
<1>4. faults' \in 0..program.faults
  BY Bumped, Zenon DEF SafetyInv, Types, ReadFails
<1>5. recvReq' \in [Ends -> BOOLEAN] /\ die' \in [Ends -> BOOLEAN]
  BY <1>1, Zenon DEF SafetyInv, Types
<1>6. recvpc[x] # "done"
  BY Phases, Zenon DEF ReadFails
<1>7. \E v \in RecvPhases : v # "handle" /\ recvpc' = [recvpc EXCEPT ![x] = v]
  BY Phases, Zenon DEF ReadFails, Set
<1>. QED
  BY <1>1, <1>3, <1>4, <1>5, <1>6, <1>7, RecvpcStep

\* The flow does not depend on the queue.
LEMMA FlowSame ==
    ASSUME NEW e \in Ends, UNCHANGED <<received, fr, pipe, buf, open>>
    PROVE  Flow(e)' = Flow(e) /\ Linked(e)' = Linked(e) /\ received'[e] = received[e]
BY Zenon DEF Flow, Linked

\* What Send does to the queue.
Queued ==
    /\ sendReq' \in [Ends -> Sends] /\ accepted' \in [Ends -> Sends]
    /\ \A e \in Ends : /\ Len(sendReq'[e]) <= SendChanSize
                       /\ Flowing(e)' /\ Queue(accepted'[e], sendReq'[e])

LEMMA EnqueueQueued ==
    ASSUME SafetyInv, NEW x \in Ends, NEW m \in Sendable, Enqueue(x, m),
           UNCHANGED <<received, fr, pipe, buf, open>>
    PROVE  Queued
<1>. USE Zenon
<1>. DEFINE a == Append(accepted[x], m)
            q == Append(sendReq[x], m)
<1>1. /\ Types /\ accepted \in [Ends -> Sends] /\ sendReq \in [Ends -> Sends]
      /\ accepted[x] \in Sends /\ sendReq[x] \in Sends
  BY Zenon DEF SafetyInv, Types
<1>2. a \in Sends /\ q \in Sends /\ Len(q) = Len(sendReq[x]) + 1
  BY <1>1, AppendSends
<1>3. accepted' = [accepted EXCEPT ![x] = a] /\ sendReq' = [sendReq EXCEPT ![x] = q] /\ Room(x)
  BY Zenon DEF Enqueue
<1>4. Len(q) <= SendChanSize
  <2>1. Len(sendReq[x]) \in Nat /\ Len(sendReq[x]) < SendChanSize
    BY <1>1, <1>3, SendsTypes DEF Room
  <2>. HIDE DEF q
  <2>. QED
    BY <1>2, <2>1, SizeTypes, SMT
<1>. HIDE DEF a, q
<1>5. /\ accepted' \in [Ends -> Sends] /\ sendReq' \in [Ends -> Sends]
      /\ accepted'[x] = a /\ sendReq'[x] = q
      /\ \A e \in Ends : e # x => accepted'[e] = accepted[e] /\ sendReq'[e] = sendReq[e]
  BY <1>1, <1>2, <1>3
<1>6. \A e \in Ends : Queue(accepted[e], sendReq[e]) /\ Flowing(e) /\ Len(sendReq[e]) <= SendChanSize
  BY Zenon DEF SafetyInv, Flows, Bounds
<1>7. ASSUME NEW e \in Ends, Peer(e) = x
      PROVE  Flowing(e)' /\ Queue(a, q)
  <2>1. Flow(e) \in Bytes /\ Linked(e) \in BOOLEAN
    BY <1>1, FlowParts
  <2>2. Sound(e, accepted[x], sendReq[x], received[e], Flow(e), Linked(e))
    BY <1>6, <1>7 DEF Flowing
  <2>3. Queue(a, q) /\ Sound(e, a, q, received[e], Flow(e), Linked(e))
    BY <1>1, <1>6, <2>1, <2>2, SoundEnqueue DEF a, q
  <2>. QED
    BY <1>5, <1>7, <2>3, FlowSame DEF Flowing
<1>8. ASSUME NEW e \in Ends, Peer(e) # x
      PROVE  Flowing(e)'
  <2>1. Peer(e) \in Ends
    BY Peers, Zenon
  <2>2. accepted'[Peer(e)] = accepted[Peer(e)] /\ sendReq'[Peer(e)] = sendReq[Peer(e)]
    BY <1>5, <1>8, <2>1
  <2>. QED
    BY <1>6, <2>2, FlowSame DEF Flowing
<1>9. Queue(a, q)
  BY <1>7, Peers
<1>10. \A e \in Ends : Len(sendReq'[e]) <= SendChanSize /\ Queue(accepted'[e], sendReq'[e])
  BY <1>4, <1>5, <1>6, <1>9
<1>. QED
  BY <1>5, <1>7, <1>8, <1>10 DEF Queued

LEMMA SendQueued ==
    ASSUME SafetyInv, NEW x \in Ends, NEW m \in Sendable, NEW deadline, Send(x, m, deadline),
           UNCHANGED <<received, fr, pipe, buf, open>>
    PROVE  Queued
<1>. USE Zenon
<1>1. CASE Enqueue(x, m)
  BY <1>1, EnqueueQueued
<1>2. CASE UNCHANGED <<sendReq, accepted>>
  BY <1>2, FlowSame, ZenonT(40) DEF Queued, SafetyInv, Types, Flows, Flowing, Bounds
<1>. QED
  BY <1>1, <1>2 DEF Send

LEMMA SendNextStep ==
    ASSUME SafetyInv, NEW x \in Ends, SendNext(x)
    PROVE  SafetyInv'
<1>. USE Zenon
<1>1. /\ UNCHANGED <<program, buf, sendpc, pipe, fr, recvReq, recvpc, packet, received, broken>>
      /\ UNCHANGED <<die, open, callbacks, faults>>
  BY Zenon DEF SendNext, recvVars, closeVars
<1>2. /\ program \in Programs /\ next \in [Ends -> Nat] /\ next[x] \in Nat
      /\ Len(program.sends[x]) \in Nat /\ next[x] < Len(program.sends[x])
  BY SocketAssumption, Zenon DEF SafetyInv, Types, SendNext
<1>3. next[x] + 1 \in 1..Len(program.sends[x]) /\ next[x] + 1 \in Nat
  BY <1>2, SMT
<1>4. program.sends[x][next[x] + 1].msg \in Sendable
  BY <1>2, <1>3, SocketAssumption
<1>5. Send(x, program.sends[x][next[x] + 1].msg, program.sends[x][next[x] + 1].deadline)
  BY Zenon DEF SendNext
<1>6. Queued
  BY <1>1, <1>4, <1>5, SendQueued
<1>7. next' = [next EXCEPT ![x] = next[x] + 1]
  BY Zenon DEF SendNext
<1>8. next' \in [Ends -> Nat]
  BY <1>2, <1>3, <1>7
<1>9. Types'
  BY <1>1, <1>6, <1>8 DEF SafetyInv, Types, Queued
<1>10. Bounds'
  BY <1>1, <1>6 DEF SafetyInv, Bounds, Queued
<1>11. CallbackLast'
  BY <1>1 DEF SafetyInv, CallbackLast
<1>12. Flows'
  BY <1>1, <1>6 DEF SafetyInv, Flows, Queued
<1>. QED
  BY <1>9, <1>10, <1>11, <1>12, Zenon DEF SafetyInv

\* With the handler's replies, and its return.
Handling ==
    /\ recvpc' \in [Ends -> RecvPhases] /\ recvReq' \in [Ends -> BOOLEAN]
    /\ packet' \in [Ends -> Handled \union {NoPacket}] /\ faults' \in 0..program.faults
    /\ \A e \in Ends : /\ recvpc[e] = "done" => recvpc'[e] = "done"
                       /\ recvpc'[e] = "handle" => packet'[e] \in Handled
    /\ Queued

LEMMA HandleStep ==
    ASSUME RepliesCanBeSent, SafetyInv, NEW x \in Ends, Handle(x)
    PROVE  SafetyInv'
<1>. USE Zenon
<1>1. /\ UNCHANGED <<program, next, buf, sendpc, pipe, fr, received, broken>>
      /\ UNCHANGED <<die, open, callbacks>>
  BY Zenon DEF Handle, closeVars
<1>2. /\ Types /\ Flows /\ recvpc \in [Ends -> RecvPhases] /\ recvReq \in [Ends -> BOOLEAN]
      /\ packet \in [Ends -> Handled \union {NoPacket}] /\ faults \in 0..program.faults
  BY Zenon DEF SafetyInv, Types
<1>3. recvpc[x] = "handle" /\ packet[x] \in Handled
  BY <1>2, Zenon DEF Handle, Flows
<1>4. ASSUME sendReq' = sendReq, accepted' = accepted
      PROVE  Queued
  BY <1>1, <1>4, FlowSame, ZenonT(40) DEF Queued, SafetyInv, Types, Flows, Flowing, Bounds
<1>5. ASSUME Rearm(x), faults' = faults, Queued
      PROVE  Handling
  <2>1. recvpc' = [recvpc EXCEPT ![x] = "select"]
    BY <1>5, Zenon DEF Rearm, Set
  <2>2. packet' = [packet EXCEPT ![x] = NoPacket]
    BY <1>5, Zenon DEF Rearm, Set
  <2>3. recvReq' = [recvReq EXCEPT ![x] = TRUE]
    BY <1>5, Zenon DEF Rearm, Set
  <2>4. recvpc' \in [Ends -> RecvPhases]
    BY <1>2, <2>1, Phases
  <2>5. packet' \in [Ends -> Handled \union {NoPacket}]
    BY <1>2, <2>2
  <2>6. recvReq' \in [Ends -> BOOLEAN]
    BY <1>2, <2>3
  <2>7. \A e \in Ends : recvpc[e] = "done" => recvpc'[e] = "done"
    BY <1>2, <1>3, <2>1, Phases
  <2>8. \A e \in Ends : recvpc'[e] = "handle" => recvpc[e] = "handle" /\ e # x
    BY <1>2, <2>1, Phases
  <2>9. \A e \in Ends : e # x => packet'[e] = packet[e]
    BY <1>2, <2>2
  <2>. QED
    BY <1>2, <1>5, <2>4, <2>5, <2>6, <2>7, <2>8, <2>9, Zenon DEF Handling, Flows
<1>6. ASSUME ReplyTo(packet[x]) # packet[x], Send(x, ReplyTo(packet[x]), "second"), Rearm(x), faults' = faults
      PROVE  Handling
  <2>1. ReplyTo(packet[x]) \in Sendable
    BY <1>3, <1>6 DEF RepliesCanBeSent
  <2>2. Queued
    BY <1>1, <1>6, <2>1, SendQueued
  <2>. QED
    BY <1>5, <1>6, <2>2
<1>7. ASSUME Rearm(x), sendReq' = sendReq, accepted' = accepted, faults' = faults
      PROVE  Handling
  BY <1>4, <1>5, <1>7
<1>8. ASSUME faults < program.faults, faults' = faults + 1, recvpc' = Set(recvpc, x, "close"),
             sendReq' = sendReq, accepted' = accepted, packet' = packet, recvReq' = recvReq
      PROVE  Handling
  <2>1. recvpc' = [recvpc EXCEPT ![x] = "close"]
    BY <1>8 DEF Set
  <2>2. recvpc' \in [Ends -> RecvPhases]
    BY <1>2, <2>1, Phases
  <2>3. faults' \in 0..program.faults
    BY <1>2, <1>8, Bumped
  <2>4. \A e \in Ends : recvpc[e] = "done" => recvpc'[e] = "done"
    BY <1>2, <1>3, <2>1, Phases
  <2>5. \A e \in Ends : recvpc'[e] = "handle" => recvpc[e] = "handle"
    BY <1>2, <2>1, Phases
  <2>. QED
    BY <1>2, <1>4, <1>8, <2>2, <2>3, <2>4, <2>5 DEF Handling, Flows
<1>9. Handling
  BY <1>6, <1>7, <1>8 DEF Handle
<1>10. Types'
  BY <1>1, <1>9 DEF SafetyInv, Types, Queued, Handling
<1>11. Bounds'
  BY <1>1, <1>9 DEF SafetyInv, Bounds, Queued, Handling
<1>12. CallbackLast'
  BY <1>1, <1>9 DEF SafetyInv, CallbackLast, Handling
<1>13. Flows'
  BY <1>1, <1>9 DEF SafetyInv, Flows, Queued, Handling
<1>. QED
  BY <1>10, <1>11, <1>12, <1>13 DEF SafetyInv

LEMMA NothingMore ==
    ASSUME NEW s \in Bytes
    PROVE  s \o <<>> = s
<1>1. s \o <<>> \in Bytes /\ Len(s \o <<>>) = Len(s) /\ \A i \in 1..Len(s \o <<>>) : (s \o <<>>)[i] = s[i]
  BY DEF Bytes
<1>. QED
  BY <1>1, SameBytes, Zenon

\* An end of the connection is closed: what is written may be lost, in part or in whole.
LEMMA LosesFlow ==
    ASSUME SafetyInv, NEW e \in Ends, ~ Linked(e)', UNCHANGED <<accepted, sendReq, received, fr, buf>>,
           pipe'[Peer(e)] \in {<<>>, pipe[Peer(e)]}
    PROVE  Flowing(e)'
<1>. USE Zenon
<1>. DEFINE d == fr[e].data
            p == pipe[Peer(e)]
            tail == IF Linked(e) THEN buf[Peer(e)] ELSE <<>>
            acc == accepted[Peer(e)]
            q == sendReq[Peer(e)]
            got == received[e]
<1>1. Types /\ Peer(e) \in Ends /\ d \o p \in Bytes /\ tail \in Bytes /\ FlowRest(e) \in Bytes
  BY FlowParts DEF SafetyInv
<1>2. acc \in Sends /\ d \in Bytes
  BY <1>1, FlowTypes
<1>3. Flow(e) = (d \o p) \o tail
  BY Zenon DEF Flow
<1>4. Flow(e) = d \o FlowRest(e)
  BY <1>1, FlowParts
<1>5. Sound(e, acc, q, got, Flow(e), Linked(e))
  BY Zenon DEF SafetyInv, Flows, Flowing
<1>6. Flow(e)' = (d \o pipe'[Peer(e)]) \o <<>>
  BY Zenon DEF Flow
<1>. HIDE DEF d, p, tail, acc, q, got
<1>7. Sound(e, acc, q, got, d \o p, FALSE)
  <2>1. Sound(e, acc, q, got, (d \o p) \o tail, Linked(e))
    BY <1>3, <1>5
  <2>. QED
    BY <1>1, <1>2, <2>1, SoundLose
<1>8. Sound(e, acc, q, got, d, FALSE)
  <2>1. Sound(e, acc, q, got, d \o FlowRest(e), Linked(e))
    BY <1>4, <1>5
  <2>. QED
    BY <1>1, <1>2, <2>1, SoundLose
<1>9. (d \o p) \o <<>> = d \o p /\ d \o <<>> = d
  BY <1>1, <1>2, NothingMore
<1>10. Sound(e, acc, q, got, Flow(e)', FALSE)
  <2>1. CASE pipe'[Peer(e)] = p
    BY <1>6, <1>7, <1>9, <2>1
  <2>2. CASE pipe'[Peer(e)] = <<>>
    BY <1>6, <1>8, <1>9, <2>2
  <2>. QED
    BY <2>1, <2>2 DEF p
<1>11. Linked(e)' = FALSE
  BY Zenon DEF Linked
<1>. QED
  BY <1>10, <1>11 DEF Flowing, acc, q, got

\* The connection is closed, by close or by finalize.
LEMMA ClosedStep ==
    ASSUME SafetyInv, NEW x \in Ends, open' = [open EXCEPT ![x] = FALSE],
           pipe' \in [Ends -> Bytes], \A e \in Ends : pipe'[e] \in {<<>>, pipe[e]},
           callbacks' \in [Ends -> 0..1],
           \A e \in Ends : callbacks'[e] > 0 =>
               callbacks[e] > 0 \/ (e = x /\ sendpc[e] = "done" /\ recvpc[e] = "done"),
           UNCHANGED <<program, sendVars, recvVars, die, faults>>
    PROVE  SafetyInv'
<1>. USE Zenon
<1>1. /\ UNCHANGED <<program, next, sendReq, buf, sendpc, accepted, die, faults>>
      /\ UNCHANGED <<fr, recvReq, recvpc, packet, received, broken>>
  BY Zenon DEF sendVars, recvVars
<1>2. Types /\ open \in [Ends -> BOOLEAN]
  BY Zenon DEF SafetyInv, Types
<1>3. open' \in [Ends -> BOOLEAN] /\ ~ open'[x] /\ \A e \in Ends : open'[e] => open[e]
  BY <1>2, Zenon
<1>4. Types'
  BY <1>1, <1>2, <1>3 DEF Types
<1>5. \A e \in Ends : Len(pipe'[e]) <= PipeSize
  <2>1. Len(<<>>) <= PipeSize
    <3>1. Len(<<>>) = 0 /\ 0 <= PipeSize
      BY SizeTypes, SMT
    <3>. QED
      BY <3>1, Zenon
  <2>. QED
    BY <2>1, Zenon DEF SafetyInv, Bounds
<1>6. Bounds'
  BY <1>1, <1>5 DEF SafetyInv, Bounds
<1>7. CallbackLast'
  BY <1>1, <1>3 DEF SafetyInv, CallbackLast
<1>8. ASSUME NEW e \in Ends
      PROVE  Flowing(e)'
  <2>1. Peer(e) \in Ends /\ (x = e \/ x = Peer(e))
    BY Peers
  <2>2. ~ Linked(e)'
    BY <1>3, <2>1 DEF Linked
  <2>. QED
    BY <1>1, <2>1, <2>2, LosesFlow
<1>9. Flows'
  BY <1>1, <1>8 DEF SafetyInv, Flows
<1>. QED
  BY <1>4, <1>6, <1>7, <1>9 DEF SafetyInv

LEMMA CloseConnStep ==
    ASSUME SafetyInv, NEW x \in Ends, CloseConn(x)
    PROVE  SafetyInv'
<1>. USE Zenon
<1>1. pipe \in [Ends -> Bytes] /\ callbacks \in [Ends -> 0..1]
  BY Zenon DEF SafetyInv, Types
<1>2. PICK kept \in {<<>>, pipe[x]} : pipe' = [pipe EXCEPT ![Peer(x)] = <<>>, ![x] = kept]
  BY Zenon DEF CloseConn
<1>3. Peer(x) \in Ends /\ kept \in Bytes /\ <<>> \in Bytes
  BY <1>1, Peers, NoBytes
<1>4. pipe' \in [Ends -> Bytes]
  BY <1>1, <1>2, <1>3, Zenon
<1>5. \A e \in Ends : pipe'[e] \in {<<>>, pipe[e]}
  BY <1>1, <1>2, <1>3
<1>6. open' = [open EXCEPT ![x] = FALSE] /\ callbacks' = callbacks
  BY Zenon DEF CloseConn, Set
<1>7. UNCHANGED <<program, sendVars, recvVars, die, faults>>
  BY Zenon DEF CloseConn
<1>. QED
  BY <1>1, <1>4, <1>5, <1>6, <1>7, ClosedStep

LEMMA FinalizeStep ==
    ASSUME SafetyInv, NEW x \in Ends, finalize(x)
    PROVE  SafetyInv'
<1>. USE Zenon
<1>1. pipe \in [Ends -> Bytes] /\ callbacks \in [Ends -> 0..1] /\ Peer(x) \in Ends /\ <<>> \in Bytes
  BY Peers, NoBytes DEF SafetyInv, Types
<1>2. pipe' = [pipe EXCEPT ![Peer(x)] = <<>>]
  BY Zenon DEF finalize, Set
<1>3. pipe' \in [Ends -> Bytes] /\ \A e \in Ends : pipe'[e] \in {<<>>, pipe[e]}
  BY <1>1, <1>2
<1>4. callbacks' = [callbacks EXCEPT ![x] = 1]
  <2>1. callbacks[x] = 0 /\ callbacks' = [callbacks EXCEPT ![x] = callbacks[x] + 1]
    BY Zenon DEF finalize
  <2>2. 0 + 1 = 1
    BY SMT
  <2>. QED
    BY <2>1, <2>2
<1>5. callbacks' \in [Ends -> 0..1]
  <2>1. 1 \in 0..1
    BY SMT
  <2>. QED
    BY <1>1, <1>4, <2>1
<1>6. \A e \in Ends : callbacks'[e] > 0 => callbacks[e] > 0 \/ (e = x /\ sendpc[e] = "done" /\ recvpc[e] = "done")
  BY <1>1, <1>4 DEF finalize, LoopsDone
<1>7. open' = [open EXCEPT ![x] = FALSE] /\ UNCHANGED <<program, sendVars, recvVars, die, faults>>
  BY Zenon DEF finalize, Set
<1>. QED
  BY <1>3, <1>5, <1>6, <1>7, ClosedStep

LEMMA QueueTail ==
    ASSUME NEW acc \in Sends, NEW q \in Sends, Queue(acc, q), q # <<>>
    PROVE  Queue(acc, Tail(q))
<1>. DEFINE t == Tail(q)
<1>1. Len(acc) \in Nat /\ Len(q) \in Nat /\ Len(q) # 0 /\ Len(t) = Len(q) - 1 /\ \A i \in 1..Len(t) : t[i] = q[i + 1]
  BY DEF Sends
<1>. HIDE DEF t
<1>2. Len(t) <= Len(acc)
  BY <1>1 DEF Queue
<1>3. ASSUME NEW i \in 1..Len(t)
      PROVE  t[i] = acc[Len(acc) - Len(t) + i]
  <2>1. i + 1 \in 1..Len(q) /\ Len(acc) - Len(q) + (i + 1) = Len(acc) - Len(t) + i
    BY <1>1
  <2>2. t[i] = q[i + 1] /\ q[i + 1] = acc[Len(acc) - Len(q) + (i + 1)]
    BY <1>1, <2>1, Zenon DEF Queue
  <2>. QED
    BY <2>1, <2>2, Zenon
<1>4. Queue(acc, t)
  BY <1>2, <1>3, Zenon DEF Queue
<1>. QED
  BY <1>4, Zenon DEF t

LEMMA SoundAnyQueue ==
    ASSUME NEW e, NEW acc, NEW q, NEW p, NEW got, NEW flow, Sound(e, acc, q, got, flow, FALSE)
    PROVE  Sound(e, acc, p, got, flow, FALSE)
BY Zenon DEF Sound, SoundFrom

LEMMA TakeMessageStep ==
    ASSUME SafetyInv, NEW x \in Ends, TakeMessage(x)
    PROVE  SafetyInv'
<1>. USE Zenon
<1>. DEFINE q == sendReq[x]
            m == Head(q)
            b == buf[x] \o Encode(m)
<1>1. /\ UNCHANGED <<program, next, accepted, pipe, fr, recvReq, recvpc, packet, received, broken>>
      /\ UNCHANGED <<die, open, callbacks, faults>>
  BY Zenon DEF TakeMessage, recvVars, closeVars
<1>2. /\ Types /\ sendReq \in [Ends -> Sends] /\ buf \in [Ends -> Bytes]
      /\ sendpc \in [Ends -> SendPhases] /\ accepted[x] \in Sends
  BY Zenon DEF SafetyInv, Types
<1>3. q \in Sends /\ q # <<>> /\ buf[x] \in Bytes
  BY <1>2, Zenon DEF TakeMessage
<1>4. m \in Sendable /\ Tail(q) \in Sends /\ Len(Tail(q)) = Len(q) - 1 /\ Len(q) \in Nat \ {0}
  BY <1>3, SendsParts
<1>5. Encode(m) \in Bytes
  BY <1>4, EncodeIs
<1>6. b \in Bytes
  BY <1>3, <1>5, ConcatType
<1>7. buf' = [buf EXCEPT ![x] = b] /\ sendReq' = [sendReq EXCEPT ![x] = Tail(q)]
  BY Zenon DEF TakeMessage, Set
<1>8. \E v \in SendPhases : v # "done" /\ sendpc' = [sendpc EXCEPT ![x] = v]
  BY Phases DEF TakeMessage
<1>9. sendpc[x] # "done"
  BY Phases DEF TakeMessage
<1>. HIDE DEF q, m, b
<1>10. /\ buf' \in [Ends -> Bytes] /\ buf'[x] = b
       /\ sendReq' \in [Ends -> Sends] /\ sendReq'[x] = Tail(q)
       /\ \A e \in Ends : e # x => buf'[e] = buf[e] /\ sendReq'[e] = sendReq[e]
  BY <1>2, <1>4, <1>6, <1>7
<1>11. sendpc' \in [Ends -> SendPhases] /\ \A e \in Ends : sendpc[e] = "done" => sendpc'[e] = "done"
  BY <1>2, <1>8, <1>9
<1>12. Types'
  BY <1>1, <1>2, <1>10, <1>11 DEF Types
<1>13. Bounds'
  <2>1. Len(q) <= SendChanSize
    BY Zenon DEF SafetyInv, Bounds, q
  <2>2. Len(Tail(q)) <= SendChanSize
    BY <1>4, <2>1, SizeTypes, SMT
  <2>. QED
    BY <1>1, <1>10, <2>2 DEF SafetyInv, Bounds
<1>14. CallbackLast'
  BY <1>1, <1>11 DEF SafetyInv, CallbackLast
<1>15. Queue(accepted[x], q)
  BY Zenon DEF SafetyInv, Flows, q
<1>16. Queue(accepted[x], Tail(q))
  BY <1>2, <1>3, <1>15, QueueTail
<1>17. ASSUME NEW e \in Ends, Peer(e) = x
       PROVE  Flowing(e)'
  <2>. DEFINE d == fr[e].data \o pipe[x]
  <2>1. Sound(e, accepted[x], q, received[e], Flow(e), Linked(e))
    BY <1>17 DEF SafetyInv, Flows, Flowing, q
  <2>2. Linked(e)' = Linked(e) /\ d \in Bytes /\ Linked(e) \in BOOLEAN /\ Flow(e) \in Bytes
    BY <1>1, <1>2, <1>17, FlowParts DEF Linked
  <2>3. Flow(e) = d \o (IF Linked(e) THEN buf[x] ELSE <<>>)
    BY <1>17, Zenon DEF Flow
  <2>4. Flow(e)' = d \o (IF Linked(e) THEN b ELSE <<>>)
    BY <1>1, <1>10, <1>17, <2>2 DEF Flow
  <2>. HIDE DEF d
  <2>5. CASE Linked(e)
    <3>1. Flow(e) = d \o buf[x] /\ Flow(e)' = d \o b
      BY <2>3, <2>4, <2>5
    <3>2. Assoc(d, buf[x], Encode(m))
      BY <1>3, <1>5, <2>2, Associative
    <3>3. Flow(e)' = (d \o buf[x]) \o Encode(m)
      BY <3>1, <3>2 DEF Assoc, b
    <3>4. Flow(e)' = Flow(e) \o Encode(Head(q))
      BY <3>1, <3>3 DEF m
    <3>5. Sound(e, accepted[x], q, received[e], Flow(e), TRUE)
      BY <2>1, <2>2, <2>5
    <3>6. Sound(e, accepted[x], Tail(q), received[e], Flow(e) \o Encode(Head(q)), TRUE)
      BY <1>2, <1>3, <1>15, <2>2, <3>5, SoundTake
    <3>7. Sound(e, accepted[x], Tail(q), received[e], Flow(e)', TRUE)
      BY <3>4, <3>6
    <3>8. Linked(e)' = TRUE
      BY <2>2, <2>5
    <3>. QED
      BY <1>1, <1>10, <1>17, <3>7, <3>8 DEF Flowing
  <2>6. CASE ~ Linked(e)
    <3>1. Flow(e)' = Flow(e) /\ Linked(e) = FALSE /\ Linked(e)' = FALSE
      BY <2>2, <2>3, <2>4, <2>6
    <3>2. Sound(e, accepted[x], q, received[e], Flow(e), FALSE)
      BY <2>1, <3>1
    <3>3. Sound(e, accepted[x], Tail(q), received[e], Flow(e), FALSE)
      BY <3>2, SoundAnyQueue
    <3>. QED
      BY <1>1, <1>10, <1>17, <3>1, <3>3 DEF Flowing
  <2>. QED
    BY <2>5, <2>6
<1>18. ASSUME NEW e \in Ends, Peer(e) # x
       PROVE  Flowing(e)'
  <2>1. Peer(e) \in Ends
    BY Peers
  <2>2. buf'[Peer(e)] = buf[Peer(e)] /\ sendReq'[Peer(e)] = sendReq[Peer(e)]
    BY <1>10, <1>18, <2>1
  <2>3. Linked(e)' = Linked(e)
    BY <1>1, Zenon DEF Linked
  <2>4. Flow(e)' = Flow(e)
    BY <1>1, <2>2, <2>3 DEF Flow
  <2>5. Flowing(e)
    BY Zenon DEF SafetyInv, Flows
  <2>. QED
    BY <1>1, <2>2, <2>3, <2>4, <2>5 DEF Flowing
<1>19. \A e \in Ends : Queue(accepted'[e], sendReq'[e])
  BY <1>1, <1>10, <1>16 DEF SafetyInv, Flows
<1>20. Flows'
  BY <1>1, <1>17, <1>18, <1>19 DEF SafetyInv, Flows
<1>. QED
  BY <1>12, <1>13, <1>14, <1>20, Zenon DEF SafetyInv

LEMMA SplitAt ==
    ASSUME NEW s \in Bytes, NEW n \in 0..Len(s)
    PROVE  /\ SubSeq(s, 1, n) \in Bytes /\ Len(SubSeq(s, 1, n)) = n
           /\ SubSeq(s, n + 1, Len(s)) \in Bytes /\ Len(SubSeq(s, n + 1, Len(s))) = Len(s) - n
           /\ SubSeq(s, 1, n) \o SubSeq(s, n + 1, Len(s)) = s
<1>. DEFINE a == SubSeq(s, 1, n)
            b == SubSeq(s, n + 1, Len(s))
<1>1. Len(s) \in Nat /\ n \in Nat /\ n <= Len(s)
  BY LenNat
<1>2. a \in Bytes /\ Len(a) = n /\ b \in Bytes /\ Len(b) = Len(s) - n
  BY <1>1 DEF Bytes
<1>3. \A i \in 1..n : a[i] = s[i]
  <2>1. 0 \in Nat /\ 0 + 1 = 1 /\ 0 + n = n /\ 0 + n <= Len(s) /\ \A i \in 1..n : 0 + i = i
    BY <1>1
  <2>2. \A i \in 1..n : SubSeq(s, 0 + 1, 0 + n)[i] = s[0 + i]
    BY <1>1, <2>1, SubSeqIs, Zenon
  <2>. QED
    BY <2>1, <2>2, Zenon
<1>4. \A i \in 1..(Len(s) - n) : b[i] = s[n + i]
  <2>1. Len(s) - n \in Nat /\ n + (Len(s) - n) = Len(s) /\ n + (Len(s) - n) <= Len(s)
    BY <1>1
  <2>2. \A i \in 1..(Len(s) - n) : SubSeq(s, n + 1, n + (Len(s) - n))[i] = s[n + i]
    BY <1>1, <2>1, SubSeqIs, Zenon
  <2>. QED
    BY <2>1, <2>2, Zenon
<1>. HIDE DEF a, b
<1>5. a \o b \in Bytes /\ Len(a \o b) = Len(a) + Len(b)
  BY <1>2, ConcatType, Zenon
<1>6. Len(a \o b) = Len(s) /\ 0 \in Nat /\ 0 + Len(a) = n
  BY <1>1, <1>2, <1>5
<1>7. At(s, 0, a)
  <2>1. 0 + Len(a) <= Len(s) /\ \A i \in 1..Len(a) : 0 + i = i
    BY <1>1, <1>6
  <2>. QED
    BY <1>2, <1>3, <2>1, Zenon DEF At
<1>8. At(s, n, b)
  <2>1. n + Len(b) <= Len(s)
    BY <1>1, <1>2
  <2>. QED
    BY <1>2, <1>4, <2>1, Zenon DEF At
<1>9. At(s, 0, a \o b)
  BY <1>2, <1>6, <1>7, <1>8, AtSplit, ZenonT(40)
<1>10. a \o b = s
  <2>1. At(s, 0, s)
    BY AtSelf, Zenon
  <2>. QED
    BY <1>5, <1>6, <1>9, <2>1, AtSame, Zenon
<1>. QED
  BY <1>2, <1>10, Zenon DEF a, b

LEMMA Fitting ==
    ASSUME NEW room \in Nat, NEW size \in Nat, NEW len \in Nat, room < size, NEW n,
           n = Least(size - room, len)
    PROVE  n \in 0..len /\ room + n <= size
BY DEF Least

\* Where sendloop goes on when the buffer is written.
LEMMA Written ==
    ASSUME NEW p \in {"write", "flushing", "last"}
    PROVE  (CASE p = "write" -> "select" [] p = "flushing" -> "flush" [] p = "last" -> "done") \in SendPhases
BY DEF SendPhases

LEMMA WriteStep ==
    ASSUME SafetyInv, NEW x \in Ends, Write(x)
    PROVE  SafetyInv'
<1>. USE Zenon
<1>. DEFINE s == buf[x]
            n == Least(PipeSize - Len(pipe[x]), Len(s))
            u == SubSeq(s, 1, n)
            v == SubSeq(s, n + 1, Len(s))
<1>1. /\ UNCHANGED <<program, next, sendReq, accepted, fr, recvReq, recvpc, packet, received, broken>>
      /\ UNCHANGED <<die, open, callbacks, faults>>
  BY Zenon DEF Write, recvVars, closeVars
<1>2. /\ Types /\ buf \in [Ends -> Bytes] /\ pipe \in [Ends -> Bytes]
      /\ sendpc \in [Ends -> SendPhases] /\ s \in Bytes /\ pipe[x] \in Bytes
  BY DEF SafetyInv, Types
<1>3. open[x] /\ open[Peer(x)] /\ Len(pipe[x]) < PipeSize
  BY Zenon DEF Write
<1>4. Len(s) \in Nat /\ Len(pipe[x]) \in Nat /\ PipeSize \in Nat
  BY <1>2, LenNat, SizeTypes
<1>5. n \in 0..Len(s) /\ Len(pipe[x]) + n <= PipeSize
  BY <1>3, <1>4, Fitting
<1>6. pipe' = [pipe EXCEPT ![x] = pipe[x] \o u] /\ buf' = [buf EXCEPT ![x] = v]
  BY Zenon DEF Write
<1>7. sendpc[x] \in {"write", "flushing", "last"}
  BY Zenon DEF Write, Writing
<1>8. \E p \in SendPhases : sendpc' = [sendpc EXCEPT ![x] = p]
  <2>1. sendpc' = [sendpc EXCEPT ![x] =
                 IF n < Len(s) THEN sendpc[x]
                 ELSE CASE sendpc[x] = "write" -> "select" [] sendpc[x] = "flushing" -> "flush"
                        [] sendpc[x] = "last" -> "done"]
    BY Zenon DEF Write
  <2>. HIDE DEF n, s
  <2>2. CASE n < Len(s)
    BY <1>2, <2>1, <2>2
  <2>3. CASE ~(n < Len(s))
    BY <1>7, <2>1, <2>3, Written
  <2>. QED
    BY <2>2, <2>3
<1>. HIDE DEF n
<1>9. u \in Bytes /\ Len(u) = n /\ v \in Bytes
  BY <1>2, <1>5, SplitAt
<1>. HIDE DEF s, u, v
<1>10. pipe[x] \o u \in Bytes /\ Len(pipe[x] \o u) = Len(pipe[x]) + n
  BY <1>2, <1>9, ConcatType
<1>11. Len(pipe[x] \o u) <= PipeSize
  BY <1>5, <1>10
<1>12. /\ buf' \in [Ends -> Bytes] /\ buf'[x] = v /\ pipe' \in [Ends -> Bytes] /\ pipe'[x] = pipe[x] \o u
       /\ \A e \in Ends : e # x => buf'[e] = buf[e] /\ pipe'[e] = pipe[e]
  BY <1>2, <1>6, <1>9, <1>10
<1>13. sendpc' \in [Ends -> SendPhases] /\ \A e \in Ends : sendpc[e] = "done" => sendpc'[e] = "done"
  BY <1>2, <1>7, <1>8, Phases
<1>14. Types'
  BY <1>1, <1>2, <1>12, <1>13 DEF Types
<1>15. Bounds'
  BY <1>1, <1>11, <1>12 DEF SafetyInv, Bounds
<1>16. CallbackLast'
  BY <1>1, <1>13, Zenon DEF SafetyInv, CallbackLast
<1>17. ASSUME NEW e \in Ends
       PROVE  Flow(e)' = Flow(e) /\ Linked(e)' = Linked(e)
  <2>1. Linked(e)' = Linked(e)
    BY <1>1, Zenon DEF Linked
  <2>2. CASE Peer(e) = x
    <3>. DEFINE d == fr[e].data
    <3>1. Linked(e)
      BY <1>3, <2>2, Peers DEF Linked
    <3>2. d \in Bytes
      BY <1>2, FlowTypes
    <3>3. Flow(e) = (d \o pipe[x]) \o s
      BY <2>2, <3>1 DEF Flow, s
    <3>4. Flow(e)' = (d \o (pipe[x] \o u)) \o v
      BY <1>1, <1>12, <2>1, <2>2, <3>1 DEF Flow
    <3>. HIDE DEF d
    <3>5. u \o v = s
      BY <1>2, <1>5, SplitAt DEF u, v
    <3>6. d \o pipe[x] \in Bytes
      BY <1>2, <3>2, ConcatType
    <3>7. Assoc(d, pipe[x], u) /\ Assoc(d \o pipe[x], u, v)
      BY <1>2, <1>9, <3>2, <3>6, Associative
    <3>8. (d \o pipe[x]) \o u = d \o (pipe[x] \o u)
      BY <3>7 DEF Assoc
    <3>9. ((d \o pipe[x]) \o u) \o v = (d \o pipe[x]) \o (u \o v)
      BY <3>7 DEF Assoc
    <3>10. Flow(e)' = (d \o pipe[x]) \o (u \o v)
      BY <3>4, <3>8, <3>9
    <3>11. Flow(e)' = Flow(e)
      BY <3>3, <3>5, <3>10
    <3>. QED
      BY <2>1, <3>11
  <2>3. CASE Peer(e) # x
    <3>1. buf'[Peer(e)] = buf[Peer(e)] /\ pipe'[Peer(e)] = pipe[Peer(e)]
      BY <1>12, <2>3, Peers
    <3>2. Flow(e)' = Flow(e)
      BY <1>1, <2>1, <3>1 DEF Flow
    <3>. QED
      BY <2>1, <3>2, Zenon
  <2>. QED
    BY <2>2, <2>3
<1>18. \A e \in Ends : Flowing(e)'
  BY <1>1, <1>17 DEF SafetyInv, Flows, Flowing
<1>19. Flows'
  BY <1>1, <1>18 DEF SafetyInv, Flows
<1>. QED
  BY <1>14, <1>15, <1>16, <1>19, Zenon DEF SafetyInv

\* The data after a read fits the buffer.
LEMMA ReadFits ==
    ASSUME NEW in \in Nat, NEW len \in Nat, NEW cap \in Nat, NEW n \in 1..Least(in, cap - 0 - len)
    PROVE  n \in 0..in /\ 0 + (len + n) <= cap
BY DEF Least

LEMMA CapFits ==
    ASSUME NEW cap \in BufSize..(BufSize + MaxPacketSize), NEW size \in Nat, size <= MaxPacketSize, size > cap
    PROVE  size \in BufSize..(BufSize + MaxPacketSize)
BY SizeTypes

LEMMA CompactedIs ==
    ASSUME SafetyInv, NEW e \in Ends
    PROVE  /\ Compacted(fr[e]).data = fr[e].data /\ Compacted(fr[e]).r = 0
           /\ Compacted(fr[e]).cap \in Nat /\ Compacted(fr[e]).cap \in BufSize..(BufSize + MaxPacketSize)
           /\ Compacted(fr[e]) \in Readers
<1>. USE Zenon
<1>. DEFINE f == Compacted(fr[e])
            size == Payload(fr[e]) + sizeLen
<1>1. /\ f.data = fr[e].data /\ f.r = 0
      /\ f.cap = IF HasHead(fr[e]) /\ size > fr[e].cap THEN size ELSE fr[e].cap
      /\ f = [data |-> f.data, r |-> f.r, cap |-> f.cap]
  BY Zenon DEF Compacted
<1>2. Types /\ fr[e].data \in Bytes
  BY FlowTypes, Zenon DEF SafetyInv
<1>3. fr[e].cap \in BufSize..(BufSize + MaxPacketSize)
  BY Zenon DEF SafetyInv, Bounds
<1>4. ASSUME HasHead(fr[e]), size > fr[e].cap
      PROVE  size \in BufSize..(BufSize + MaxPacketSize)
  <2>1. Payload(fr[e]) \in Nat /\ ~(size > MaxPacketSize)
    BY <1>4, Finds DEF BadFrame
  <2>2. size \in Nat /\ size <= MaxPacketSize
    BY <2>1, SizeTypes, SMT
  <2>. QED
    BY <1>3, <1>4, <2>2, CapFits
<1>. HIDE DEF f, size
<1>5. f.cap \in BufSize..(BufSize + MaxPacketSize)
  BY <1>1, <1>3, <1>4
<1>6. f.cap \in Nat /\ 0 \in Nat
  BY <1>5, SizeTypes, SMT
<1>7. f \in Readers
  BY <1>1, <1>2, <1>6 DEF Readers
<1>. QED
  BY <1>1, <1>5, <1>6, <1>7 DEF f

\* The frame reader's data grow by what is read.
LEMMA Reader ==
    ASSUME NEW f \in Readers, NEW d \in Bytes
    PROVE  /\ [f EXCEPT !.data = d] \in Readers /\ [f EXCEPT !.data = d].data = d
           /\ [f EXCEPT !.data = d].r = f.r /\ [f EXCEPT !.data = d].cap = f.cap
BY Zenon DEF Readers

LEMMA ReadStep ==
    ASSUME SafetyInv, NEW x \in Ends, Read(x)
    PROVE  SafetyInv'
<1>. USE Zenon
<1>. DEFINE y == Peer(x)
            in == pipe[y]
            f == Compacted(fr[x])
            d == fr[x].data
<1>1. /\ UNCHANGED <<program, next, sendReq, buf, sendpc, accepted, recvReq, recvpc, packet, received, broken>>
      /\ UNCHANGED <<die, open, callbacks, faults>>
  BY Zenon DEF Read, sendVars, closeVars
<1>2. /\ Types /\ pipe \in [Ends -> Bytes] /\ fr \in [Ends -> Readers] /\ y \in Ends /\ y # x
      /\ in \in Bytes /\ d \in Bytes
  BY FlowTypes, Peers DEF SafetyInv, Types
<1>3. PICK n \in 1..Least(Len(in), f.cap - f.r - Len(f.data)) :
        /\ fr' = [fr EXCEPT ![x] = [f EXCEPT !.data = f.data \o SubSeq(in, 1, n)]]
        /\ pipe' = [pipe EXCEPT ![y] = SubSeq(in, n + 1, Len(in))]
  BY Zenon DEF Read, Set
<1>4. /\ f.data = d /\ f.r = 0 /\ f.cap \in Nat /\ f.cap \in BufSize..(BufSize + MaxPacketSize)
      /\ f \in Readers
  BY CompactedIs, Zenon
<1>. DEFINE u == SubSeq(in, 1, n)
            v == SubSeq(in, n + 1, Len(in))
            g == [f EXCEPT !.data = d \o u]
<1>5. Len(in) \in Nat /\ Len(d) \in Nat
  BY <1>2, LenNat
<1>6. n \in 1..Least(Len(in), f.cap - 0 - Len(d))
  BY <1>3, <1>4
<1>. HIDE DEF y, in, f, d
<1>7. n \in 0..Len(in) /\ 0 + (Len(d) + n) <= f.cap
  BY <1>4, <1>5, <1>6, ReadFits
<1>8. u \in Bytes /\ Len(u) = n /\ v \in Bytes /\ Len(v) = Len(in) - n /\ u \o v = in
  BY <1>2, <1>7, SplitAt
<1>9. d \o u \in Bytes /\ Len(d \o u) = Len(d) + n
  BY <1>2, <1>8, ConcatType
<1>10. fr' = [fr EXCEPT ![x] = g] /\ pipe' = [pipe EXCEPT ![y] = v]
  BY <1>3, <1>4
<1>11. g \in Readers /\ g.data = d \o u /\ g.r = f.r /\ g.cap = f.cap
  BY <1>4, <1>9, Reader
<1>. HIDE DEF u, v, g
<1>12. /\ fr' \in [Ends -> Readers] /\ fr'[x] = g /\ pipe' \in [Ends -> Bytes] /\ pipe'[y] = v
       /\ \A e \in Ends : e # x => fr'[e] = fr[e]
       /\ \A e \in Ends : e # y => pipe'[e] = pipe[e]
  BY <1>2, <1>8, <1>10, <1>11
<1>13. Types'
  BY <1>1, <1>2, <1>12 DEF Types
<1>14. Bounds'
  <2>1. g.r + Len(g.data) <= g.cap /\ g.cap \in BufSize..(BufSize + MaxPacketSize)
    BY <1>4, <1>7, <1>9, <1>11
  <2>2. Len(in) <= PipeSize
    BY <1>2, Zenon DEF SafetyInv, Bounds, in
  <2>3. Len(v) <= PipeSize
    BY <1>5, <1>7, <1>8, <2>2, SizeTypes, SMTT(30)
  <2>. QED
    BY <1>1, <1>12, <2>1, <2>3 DEF SafetyInv, Bounds
<1>15. CallbackLast'
  BY <1>1, Zenon DEF SafetyInv, CallbackLast
<1>16. ASSUME NEW e \in Ends
       PROVE  fr'[e].data \o pipe'[Peer(e)] = fr[e].data \o pipe[Peer(e)]
  <2>1. CASE e = x
    <3>1. Assoc(d, u, v)
      BY <1>2, <1>8, Associative
    <3>2. (d \o u) \o v = d \o in
      BY <1>8, <3>1 DEF Assoc
    <3>3. fr'[e].data \o pipe'[Peer(e)] = (d \o u) \o v
      BY <1>11, <1>12, <2>1 DEF y
    <3>. QED
      BY <2>1, <3>2, <3>3 DEF d, in, y
  <2>2. CASE e # x
    <3>1. Peer(e) # y /\ Peer(e) \in Ends
      BY <2>2, Peers DEF y
    <3>. QED
      BY <1>12, <2>2, <3>1
  <2>. QED
    BY <2>1, <2>2
<1>17. \A e \in Ends : Flow(e)' = Flow(e) /\ Linked(e)' = Linked(e)
  BY <1>1, <1>16 DEF Flow, Linked
<1>18. \A e \in Ends : Flowing(e)'
  BY <1>1, <1>17 DEF SafetyInv, Flows, Flowing
<1>19. Flows'
  BY <1>1, <1>18 DEF SafetyInv, Flows
<1>. QED
  BY <1>13, <1>14, <1>15, <1>19 DEF SafetyInv

\* What is left of the data, and of the buffer, when a frame is taken.
LEMMA TakenIs ==
    ASSUME NEW f \in Readers, Payload(f) \in Nat, Payload(f) + sizeLen <= Len(f.data),
           f.r + Len(f.data) <= f.cap
    PROVE  /\ Taken(f) \in Readers /\ Taken(f).r + Len(Taken(f).data) <= Taken(f).cap
           /\ Taken(f).cap = f.cap
           /\ Taken(f).data = SubSeq(f.data, sizeLen + Payload(f) + 1, Len(f.data))
<1>. DEFINE d == f.data
            n == sizeLen + Payload(f)
            left == SubSeq(d, n + 1, Len(d))
            r == IF n = Len(d) THEN 0 ELSE f.r + n
            g == [f EXCEPT !.data = left, !.r = r]
<1>1. d \in Bytes /\ f.r \in Nat /\ f.cap \in Nat
  BY Zenon DEF Readers
<1>2. Len(d) \in Nat
  BY <1>1, LenNat, Zenon
<1>3. Taken(f) = g
  BY Zenon DEF Taken
<1>. HIDE DEF d
<1>4. n \in 0..Len(d)
  BY <1>2, SizeTypes DEF d
<1>. HIDE DEF n
<1>5. left \in Bytes /\ Len(left) = Len(d) - n
  BY <1>1, <1>4, SplitAt, Zenon
<1>. HIDE DEF left
<1>6. r \in Nat /\ r + Len(left) <= f.cap
  <2>1. f.r + Len(d) <= f.cap
    BY Zenon DEF d
  <2>. QED
    BY <1>1, <1>2, <1>4, <1>5, <2>1, SMTT(30)
<1>. HIDE DEF r
<1>7. g \in Readers /\ g.data = left /\ g.r = r /\ g.cap = f.cap
  BY <1>1, <1>5, <1>6, Zenon DEF Readers
<1>. QED
  BY <1>3, <1>6, <1>7, Zenon DEF left, d, n

LEMMA AppendGots ==
    ASSUME NEW s \in Gots, NEW m \in Handled
    PROVE  Append(s, m) \in Gots
BY SMTT(30) DEF Gots

LEMMA TakeFrameStep ==
    ASSUME SafetyInv, NEW x \in Ends, TakeFrame(x)
    PROVE  SafetyInv'
<1>. USE Zenon
<1>. DEFINE f == fr[x]
            d == f.data
            n == Payload(f)
            m == Decode(SelfAddr[x], SubSeq(d, sizeLen + 1, sizeLen + n))
            left == SubSeq(d, sizeLen + n + 1, Len(d))
            g == Taken(f)
            got == Append(received[x], m)
            y == Peer(x)
<1>1. /\ Types /\ fr \in [Ends -> Readers] /\ received \in [Ends -> Gots] /\ f \in Readers
      /\ d \in Bytes /\ received[x] \in Gots /\ recvpc \in [Ends -> RecvPhases]
      /\ packet \in [Ends -> Handled \union {NoPacket}]
  BY FlowTypes, Zenon DEF SafetyInv, Types
<1>2. recvpc[x] = "recv" /\ HasHead(f) /\ n + sizeLen <= Len(d)
  BY Zenon DEF TakeFrame, HasFrame
<1>3. Found(x) /\ n \in Nat
  BY <1>2, Finds, Zenon
<1>4. /\ m \in Handled /\ m # Invalid
      /\ Sound(x, accepted[y], sendReq[y], got, left \o FlowRest(x), Linked(x))
  BY <1>2, <1>3 DEF Found, Taking
<1>5. f.r + Len(d) <= f.cap /\ f.cap \in BufSize..(BufSize + MaxPacketSize)
  BY Zenon DEF SafetyInv, Bounds
<1>6. g \in Readers /\ g.r + Len(g.data) <= g.cap /\ g.cap = f.cap /\ g.data = left
  BY <1>1, <1>2, <1>3, <1>5, TakenIs
<1>7. got \in Gots
  BY <1>1, <1>4, AppendGots
<1>8. /\ fr' = [fr EXCEPT ![x] = g] /\ recvpc' = [recvpc EXCEPT ![x] = "handle"]
      /\ packet' = [packet EXCEPT ![x] = m] /\ received' = [received EXCEPT ![x] = got]
      /\ UNCHANGED <<program, next, sendReq, buf, sendpc, accepted, recvReq, pipe, broken>>
      /\ UNCHANGED <<die, open, callbacks, faults>>
  BY <1>4, Zenon DEF TakeFrame, Set, sendVars, closeVars
<1>9. left \in Bytes
  BY <1>6, Zenon DEF Readers
<1>. HIDE DEF f, d, n, m, left, g, got, y
<1>10. /\ fr' \in [Ends -> Readers] /\ fr'[x] = g /\ \A e \in Ends : e # x => fr'[e] = fr[e]
       /\ received' \in [Ends -> Gots] /\ received'[x] = got
       /\ \A e \in Ends : e # x => received'[e] = received[e]
  BY <1>1, <1>6, <1>7, <1>8
<1>11. /\ recvpc' \in [Ends -> RecvPhases]
       /\ \A e \in Ends : recvpc[e] = "done" => recvpc'[e] = "done"
       /\ \A e \in Ends : recvpc'[e] = "handle" => e = x \/ recvpc[e] = "handle"
  BY <1>1, <1>2, <1>8, Phases
<1>12. /\ packet' \in [Ends -> Handled \union {NoPacket}] /\ packet'[x] = m
       /\ \A e \in Ends : e # x => packet'[e] = packet[e]
  BY <1>1, <1>4, <1>8
<1>13. Types'
  BY <1>1, <1>8, <1>10, <1>11, <1>12 DEF Types
<1>14. Bounds'
  <2>1. g.cap \in BufSize..(BufSize + MaxPacketSize)
    BY <1>5, <1>6
  <2>. QED
    BY <1>6, <1>8, <1>10, <2>1 DEF SafetyInv, Bounds
<1>15. CallbackLast'
  BY <1>8, <1>11 DEF SafetyInv, CallbackLast
<1>16. \A e \in Ends : Linked(e)' = Linked(e)
  BY <1>8, Zenon DEF Linked
<1>17. Flowing(x)'
  <2>. DEFINE tail == IF Linked(x) THEN buf[y] ELSE <<>>
  <2>1. Flow(x)' = (left \o pipe[y]) \o tail
    BY <1>6, <1>8, <1>10, <1>16 DEF Flow, y
  <2>2. pipe[y] \in Bytes /\ tail \in Bytes
    BY <1>1, FlowParts, FlowTypes DEF y
  <2>3. FlowRest(x) = pipe[y] \o tail
    BY Zenon DEF FlowRest, y
  <2>. HIDE DEF tail
  <2>4. Assoc(left, pipe[y], tail)
    BY <1>9, <2>2, Associative
  <2>5. Flow(x)' = left \o FlowRest(x)
    BY <2>1, <2>3, <2>4 DEF Assoc
  <2>. QED
    BY <1>4, <1>8, <1>10, <1>16, <2>5 DEF Flowing, y
<1>18. ASSUME NEW e \in Ends, e # x
       PROVE  Flowing(e)'
  <2>1. fr'[e] = fr[e] /\ received'[e] = received[e] /\ Linked(e)' = Linked(e)
    BY <1>10, <1>16, <1>18
  <2>2. Flow(e)' = Flow(e)
    BY <1>8, <2>1 DEF Flow
  <2>3. Flowing(e)
    BY Zenon DEF SafetyInv, Flows
  <2>. QED
    BY <1>8, <2>1, <2>2, <2>3 DEF Flowing
<1>19. \A e \in Ends : recvpc'[e] = "handle" => packet'[e] \in Handled
  BY <1>4, <1>11, <1>12 DEF SafetyInv, Flows
<1>20. Flows'
  BY <1>8, <1>17, <1>18, <1>19 DEF SafetyInv, Flows
<1>. QED
  BY <1>13, <1>14, <1>15, <1>20, Zenon DEF SafetyInv

-----------------------------------------------------------------------------
(* The theorems *)

LEMMA StutterStep ==
    ASSUME SafetyInv, UNCHANGED vars
    PROVE  SafetyInv'
<1>. USE Zenon
<1>1. Quiet /\ UNCHANGED <<sendpc, recvpc, recvReq, die, broken, faults>>
  BY Zenon DEF vars, Quiet
<1>2. QuietTypes
  BY <1>1 DEF QuietTypes, SafetyInv, Types
<1>3. Ended /\ \A e \in Ends : broken'[e] # "frame"
  BY <1>1, Zenon DEF Ended, Quiet, SafetyInv, Flows
<1>. QED
  BY <1>1, <1>2, <1>3, QuietStep

LEMMA NextSafe ==
    ASSUME RepliesCanBeSent, SafetyInv, [Next]_vars
    PROVE  SafetyInv'
<1>. USE Zenon
<1>1. ASSUME NEW e \in Ends, sendloop(e)
      PROVE  SafetyInv'
  BY <1>1, TakeMessageStep, FlushStep, WriteStep, WriteFailsStep, SendCloseStep DEF sendloop
<1>2. ASSUME NEW e \in Ends, recvloop(e)
      PROVE  SafetyInv'
  BY <1>2, TakeRecvStep, ReadStep, TakeFrameStep, ReadFailsStep, HandleStep, RecvCloseStep DEF recvloop
<1>3. ASSUME NEW e \in Ends, closer(e)
      PROVE  SafetyInv'
  BY <1>3, CloseConnStep, FinalizeStep DEF closer
<1>. QED
  BY <1>1, <1>2, <1>3, SendNextStep, CallCloseStep, StutterStep DEF Next

LEMMA Safe ==
    ASSUME RepliesCanBeSent
    PROVE  Spec => []SafetyInv
<1>1. Init => SafetyInv
  BY InitAll, Zenon DEF SafetyInv
<1>2. SafetyInv /\ [Next]_vars => SafetyInv'
  BY NextSafe, Zenon
<1>. QED
  BY <1>1, <1>2, PTL DEF Spec

LEMMA TypesHold == SafetyInv => TypeOK
<1>. USE Zenon
<1>1. ASSUME SafetyInv, NEW e \in Ends
      PROVE  /\ fr[e].r \in Nat /\ {buf[e], pipe[e], fr[e].data} \subseteq Seq(Byte)
             /\ callbacks[e] \in 0..1
  BY <1>1, FlowTypes DEF SafetyInv, Types, Bytes
<1>. QED
  BY <1>1 DEF SafetyInv, TypeOK, Types, Bounds

LEMMA OrderHolds == SafetyInv => InOrder
<1>. USE Zenon
<1>. SUFFICES ASSUME SafetyInv, NEW e \in Ends
               PROVE  LET sent == Encoded(accepted[Peer(e)])
                      IN /\ Len(received[e]) <= Len(sent)
                         /\ \A i \in 1..Len(received[e]) : Arrives(e, sent[i], received[e][i])
                         /\ broken[e] # "frame"
  BY Zenon DEF InOrder
<1>. DEFINE acc == accepted[Peer(e)]
            got == received[e]
<1>2. Peer(e) \in Ends /\ Types
  BY Peers, Zenon DEF SafetyInv
<1>3. acc \in Sends
  BY <1>2, FlowTypes
<1>4. Flowing(e) /\ broken[e] # "frame"
  BY Zenon DEF SafetyInv, Flows
<1>5. PICK j \in 0..Len(acc) : Matches(e, EncodedUpTo(acc)[j], got)
  BY <1>4, Zenon DEF Flowing, Sound, SoundFrom
<1>6. Len(acc) \in j..Len(acc)
  <2>1. Len(acc) \in Nat
    BY <1>3, SendsTypes
  <2>. HIDE DEF acc
  <2>. QED
    BY <2>1, SMT
<1>. HIDE DEF acc, got
<1>7. StartsWith(EncodedUpTo(acc)[Len(acc)], EncodedUpTo(acc)[j])
  BY <1>3, <1>6, Grows
<1>8. StartsWith(Encoded(acc), EncodedUpTo(acc)[j])
  BY <1>7 DEF Encoded
<1>9. Len(got) <= Len(Encoded(acc)) /\ \A i \in 1..Len(got) : Arrives(e, Encoded(acc)[i], got[i])
  BY <1>5, <1>8 DEF StartsWith, Matches
<1>. QED
  BY <1>4, <1>9 DEF acc, got

\* The send queue, the connection and the frame reader's buffer stay within their limits
\* (MaxPacketSize more than the first buffer is enough for any packet), and the loops in
\* their phases.
THEOREM SocketTypes ==
    ASSUME RepliesCanBeSent
    PROVE  Spec => []TypeOK
BY Safe, TypesHold, PTL

\* What recvloop gives the handler is what Send took at the other end, without what
\* cannot be encoded: decoded again, or to be passed on with the same bytes, in order and
\* without gaps, however sendloop batches it and the connection cuts it up, until the
\* connection is closed.  The frame reader finds no wrong length.
THEOREM SocketInOrder ==
    ASSUME RepliesCanBeSent
    PROVE  Spec => []InOrder
BY Safe, OrderHolds, PTL

\* When the close callback is called, both loops have ended and the connection is closed.
THEOREM SocketCallbackLast ==
    ASSUME RepliesCanBeSent
    PROVE  Spec => []CallbackLast
<1>1. SafetyInv => CallbackLast
  BY Zenon DEF SafetyInv
<1>. QED
  BY <1>1, Safe, PTL
=============================================================================
