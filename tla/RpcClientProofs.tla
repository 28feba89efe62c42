-------------------------- MODULE RpcClientProofs --------------------------
(***************************************************************************)
(* Sequence numbers are unique, a caller is told its own answer once, and  *)
(* a pooled context is out of everyone's reach, for any sets of calls and  *)
(* contexts, as long as a second's calls do not use up the counter.        *)
(***************************************************************************)
EXTENDS RpcClient, FiniteSetTheorems, TLAPS

\* The calls that took a sequence number in second t.
CallsIn(t) == {a \in Calls : seq[a] # NoSeq /\ seq[a].ts = t}

\* No more calls are made in one second than the counter has values (2^32).
FewPerSecond == \A t \in 1..MaxClock : Cardinality(CallsIn(t)) <= SeqRange

Numbered(a) == pc[a] \notin {"idle", "sequence"}

\* The calls of the current second took 1, 2, ..., k, and 0 only after all others.
SeqInv ==
    /\ clock >= 1
    /\ \A a \in Calls :
         /\ pc[a] = "sequence" => read[a] >= 1
         /\ Numbered(a) <=> seq[a] # NoSeq
         /\ Numbered(a) => seq[a].ts \in 1..timestamp
    /\ IsFiniteSet(CallsIn(timestamp))
    /\ LET k == Cardinality(CallsIn(timestamp))
       IN /\ k \in 0..SeqRange
          /\ nextSequence = IF k = SeqRange THEN 0 ELSE k
          /\ \A a \in CallsIn(timestamp) :
               seq[a].n \in 1..k \/ (seq[a].n = 0 /\ k = SeqRange)
    /\ UniqueSeq

-----------------------------------------------------------------------------

\* A context was stored in the table for call a.
Stored(a) == Numbered(a) /\ pc[a] # "store"

\* Who may use the context of call a: whoever finds it in the table, ...
Listed(a) == Stored(a) /\ pendingCall[seq[a]] # Null

\* ... the caller whose request failed and who took it out, ...
Failing(a) == pc[a] \in {"deleted", "stopped"}

\* ... its timer's function, ...
Expiring(a) == a \in Async /\ timer[a] = "taken"

\* ... or the goroutine that handles its response.
Answering(a) == resp[a] \in {"taken", "fire", "firePut"}

\* A channel is also in use while its caller waits or a response is in it.
Waiting(a) == a \in Sync /\ pc[a] \in {"request", "wait"}
Unread(a) == \E c \in Chan : buffer[c] = a

Using(a) == Listed(a) \/ Failing(a) \/ Expiring(a) \/ Answering(a) \/ Waiting(a) \/ Unread(a)

\* Only one of them has the context.
OneUser(a) ==
    /\ Listed(a) => ~Failing(a) /\ ~Expiring(a) /\ ~Answering(a) /\ ~Unread(a)
    /\ Failing(a) => ~Expiring(a)
    /\ Expiring(a) => ~Answering(a)
    /\ Answering(a) => ~Unread(a)

\* A context in use is the one the call stored; it is not in the pool, and no
\* other call has been given it.
Owned(a) ==
    /\ Using(a) => obj[a] \notin pool /\ owner[obj[a]] = a
    /\ Listed(a) => pendingCall[seq[a]] = obj[a]
    /\ Answering(a) => held[a] = obj[a]
    /\ \A c \in Chan : buffer[c] = a => obj[a] = c

\* The server does not have the request.
NotAsked == {"request", "failed", "deleted", "stopped", "lost", "error"}

\* The phases of the goroutines that serve a call fit together.
Phases(a) ==
    /\ Stored(a) => obj[a] \in (IF a \in Async THEN Ctx ELSE Chan)
    /\ ~Stored(a) => /\ resp[a] = "none" /\ ~Unread(a)
                     /\ a \in Async => timer[a] = "off"
    /\ pc[a] \in NotAsked => resp[a] = "none" /\ ~Unread(a)
    /\ pc[a] \in {"failed", "deleted", "stopped", "lost", "error"} => a \in Async
    /\ pc[a] = "wait" => a \in Sync
    /\ resp[a] \in {"fire", "firePut"} => a \in Async

\* The caller has been told nothing as long as someone may still tell it, and
\* then one thing.
ToldOnce(a) ==
    /\ \/ result[a] = <<>>
       \/ \E r \in {"timeout", "error", a} : result[a] = <<r>>
    /\ ~Stored(a) => result[a] = <<>>
    /\ a \in Async /\ Using(a) => result[a] = <<>>
    /\ a \in Sync /\ pc[a] # "done" => result[a] = <<>>

CallInv(a) == OneUser(a) /\ Owned(a) /\ Phases(a) /\ ToldOnce(a)

\* The table holds the calls that were stored in it.
Listing == \A s \in Seqs : pendingCall[s] # Null => \E a \in Calls : Stored(a) /\ seq[a] = s

OwnInv == Listing /\ \A a \in Calls : CallInv(a)

Inv == TypeOK /\ SeqInv /\ OwnInv

-----------------------------------------------------------------------------
(* Types *)

LEMMA TypeInit == Init => TypeOK
<1>. SUFFICES ASSUME Init PROVE TypeOK
  BY Zenon
<1>1. NoSeq \in Seqs
  BY ClientAssumption DEF NoSeq, Seqs
<1>2. clock \in 0..MaxClock /\ timestamp \in 0..MaxClock /\ nextSequence \in 0..(SeqRange - 1)
      /\ read \in [Calls -> 0..MaxClock]
  BY ClientAssumption DEF Init
<1>. QED
  BY <1>1, <1>2 DEF Init, TypeOK, CallerPhases, TimerPhases, RespPhases

\* A stored call has a context of its kind.
LEMMA ObjFact ==
    ASSUME TypeOK, OwnInv, NEW a \in Calls, Stored(a)
    PROVE  /\ obj[a] \in Objs /\ obj[a] # Null
           /\ a \in Async => obj[a] \in Ctx
           /\ a \in Sync => obj[a] \in Chan
BY ClientAssumption DEF OwnInv, CallInv, Phases, Objs, Calls

\* Telling a caller something keeps the type of what callers were told.
LEMMA TellType ==
    ASSUME TypeOK, NEW a \in Calls, NEW r \in Results, Tell(a, r)
    PROVE  result' \in [Calls -> Seq(Results)]
BY DEF TypeOK, Tell

LEMMA StopType ==
    ASSUME TypeOK, NEW c, Stop(c)
    PROVE  timer' \in [Async -> TimerPhases]
<1>1. timer \in [Async -> TimerPhases]
  BY Zenon DEF TypeOK
<1>. QED
  BY <1>1, Zenon DEF Stop, TimerPhases

\* Whoever uses the context of a call finds that call in it.
LEMMA UsingFact ==
    ASSUME TypeOK, OwnInv, NEW a \in Calls, Using(a)
    PROVE  Stored(a) /\ owner[obj[a]] = a /\ obj[a] \notin pool
<1>1. owner[obj[a]] = a /\ obj[a] \notin pool
  BY Zenon DEF OwnInv, CallInv, Owned
<1>2. Phases(a)
  BY Zenon DEF OwnInv, CallInv
<1>. QED
  BY <1>1, <1>2, Zenon DEF Phases, Using, Listed, Failing, Expiring, Answering, Waiting, Stored, Numbered

LEMMA TypeStep ==
    ASSUME Inv, [Next]_vars
    PROVE  TypeOK'
<1>. TypeOK /\ OwnInv /\ SeqInv
  BY Zenon DEF Inv
<1>. USE Zenon
<1>1. CASE UNCHANGED vars
  BY <1>1, Zenon DEF TypeOK, vars
<1>2. CASE Tick
  BY <1>2, ClientAssumption, SMTT(30) DEF TypeOK, Tick
<1>3. ASSUME NEW a \in Calls, CallStep(a)
      PROVE  TypeOK'
  <2>1. CASE getTimeStamp(a)
    BY <2>1, Zenon DEF TypeOK, getTimeStamp, CallerPhases
  <2>2. CASE makeSequence(a)
    <3>1. Sequence(read[a]) \in Seqs
      BY ClientAssumption, SMTT(30) DEF TypeOK, Sequence, Seqs
    <3>2. Sequence(read[a]).ts \in 0..MaxClock /\ Sequence(read[a]).n \in 0..(SeqRange - 1)
      BY <3>1 DEF Seqs
    <3>. QED
      BY <2>2, <3>1, <3>2 DEF TypeOK, makeSequence, CallerPhases
  <2>3. CASE StoreAsync(a)
    BY <2>3, SMTT(30) DEF TypeOK, StoreAsync, CallerPhases, TimerPhases, Get, Objs, seqVars
  <2>4. CASE StoreSync(a)
    BY <2>4, SMTT(30) DEF TypeOK, StoreSync, CallerPhases, Get, Objs, seqVars
  <2>5. CASE RequestOK(a)
    BY <2>5, Zenon DEF TypeOK, RequestOK, CallerPhases, RespPhases, seqVars
  <2>12. CASE RequestFail(a)
    BY <2>12, Zenon DEF TypeOK, RequestFail, CallerPhases, seqVars
  <2>6. CASE FailDelete(a)
    BY <2>6, Zenon DEF TypeOK, FailDelete, Delete, CallerPhases, seqVars
  <2>7. CASE FailStop(a)
    <3>1. timer' \in [Async -> TimerPhases]
      BY <2>7, StopType, Zenon DEF FailStop
    <3>. QED
      BY <2>7, <3>1, Zenon DEF TypeOK, FailStop, CallerPhases, seqVars
  <2>8. CASE FailSwap(a)
    <3>1. Stored(a)
      BY <2>8, Zenon DEF FailSwap, Stored, Numbered
    <3>. QED
      BY <2>8, <3>1, ObjFact, Zenon DEF TypeOK, FailSwap, CallerPhases, seqVars
  <2>9. ASSUME NEW r \in {"error", "timeout"}, CallFail(a, r) PROVE TypeOK'
    <3>1. Stored(a)
      BY <2>9, Zenon DEF CallFail, Stored, Numbered
    <3>2. result' \in [Calls -> Seq(Results)]
      BY <2>9, TellType, Zenon DEF CallFail, Results
    <3>3. pool' \subseteq Objs
      BY <2>9, <3>1, ObjFact DEF TypeOK, CallFail
    <3>. QED
      BY <2>9, <3>2, <3>3 DEF TypeOK, CallFail, Delete, CallerPhases, seqVars
  <2>10. CASE CallReturn(a)
    <3>1. Stored(a)
      BY <2>10, Zenon DEF CallReturn, Stored, Numbered
    <3>2. pc[a] = "wait" /\ a \in Sync /\ obj[a] \in Chan
      BY <2>10, <3>1, ObjFact, Zenon DEF CallReturn, OwnInv, CallInv, Phases
    <3>3. buffer[obj[a]] \in Results
      BY <2>10, <3>2, Zenon DEF TypeOK, CallReturn, Results
    <3>4. result' \in [Calls -> Seq(Results)]
      BY <2>10, <3>3, TellType, Zenon DEF CallReturn
    <3>. QED
      BY <2>10, <3>1, <3>4, ObjFact DEF TypeOK, CallReturn, CallerPhases, seqVars
  <2>11. CASE CallTimeout(a)
    <3>1. Stored(a)
      BY <2>11, Zenon DEF CallTimeout, Stored, Numbered
    <3>2. result' \in [Calls -> Seq(Results)]
      BY <2>11, TellType, Zenon DEF CallTimeout, Results
    <3>. QED
      BY <2>11, <3>1, <3>2, ObjFact DEF TypeOK, CallTimeout, Delete, CallerPhases, seqVars
  <2>. QED
    BY <1>3, <2>1, <2>2, <2>3, <2>4, <2>5, <2>6, <2>7, <2>8, <2>9, <2>10, <2>11, <2>12, Zenon DEF CallStep
<1>4. ASSUME NEW a \in Calls, Answer(a) \/ RespStep(a)
      PROVE  TypeOK'
  <2>1. CASE Answer(a)
    BY <2>1, Zenon DEF TypeOK, Answer, RespPhases, seqVars
  <2>2. CASE RespDelete(a)
    <3>1. pendingCall[seq[a]] \in Objs \union {Null}
      BY Zenon DEF TypeOK
    <3>. QED
      BY <2>2, <3>1, Zenon DEF TypeOK, RespDelete, Delete, RespPhases, seqVars
  <2>4. CASE RespChan(a)
    BY <2>4, Zenon DEF TypeOK, RespChan, RespPhases, seqVars
  <2>5. CASE RespStop(a)
    <3>1. timer' \in [Async -> TimerPhases]
      BY <2>5, StopType, Zenon DEF RespStop
    <3>. QED
      BY <2>5, <3>1, Zenon DEF TypeOK, RespStop, RespPhases, seqVars
  <2>3. CASE RespFire(a)
    <3>1. resp[a] \in {"fire", "firePut"} /\ resp[a] # "none"
      BY <2>3, Zenon DEF RespFire
    <3>2. Stored(a) /\ owner[obj[a]] = a /\ held[a] = obj[a]
      BY <3>1, UsingFact, Zenon DEF OwnInv, CallInv, Owned, Answering, Using
    <3>3. UNCHANGED result \/ Tell(a, a)
      BY <2>3, <3>2, Zenon DEF RespFire, callOnResponse
    <3>4. result' \in [Calls -> Seq(Results)]
      BY <3>3, TellType, Zenon DEF TypeOK, Results
    <3>5. fired' \in [Ctx -> BOOLEAN]
      BY <2>3, Zenon DEF TypeOK, RespFire, callOnResponse
    <3>6. pool' \subseteq Objs
      BY <2>3, <3>2, ObjFact DEF TypeOK, RespFire
    <3>. QED
      BY <2>3, <3>4, <3>5, <3>6 DEF TypeOK, RespFire, RespPhases, seqVars
  <2>. QED
    BY <1>4, <2>1, <2>2, <2>3, <2>4, <2>5 DEF RespStep
<1>5. ASSUME NEW a \in Async, TimerStep(a)
      PROVE  TypeOK'
  <2>. a \in Calls
    BY Zenon DEF Calls
  <2>1. CASE TimerFire(a) \/ TimerDelete(a)
    BY <2>1 DEF TypeOK, TimerFire, TimerDelete, Delete, TimerPhases, seqVars
  <2>2. CASE onTimeout(a)
    <3>1. Stored(a) /\ owner[obj[a]] = a
      BY <2>2, UsingFact, Zenon DEF onTimeout, Expiring, Using
    <3>2. UNCHANGED result \/ Tell(a, "timeout")
      BY <2>2, <3>1, Zenon DEF onTimeout, callOnResponse
    <3>3. result' \in [Calls -> Seq(Results)]
      BY <3>2, TellType, Zenon DEF TypeOK, Results
    <3>4. fired' \in [Ctx -> BOOLEAN]
      BY <2>2, Zenon DEF TypeOK, onTimeout, callOnResponse
    <3>5. pool' \subseteq Objs
      BY <2>2, <3>1, ObjFact DEF TypeOK, onTimeout
    <3>. QED
      BY <2>2, <3>3, <3>4, <3>5, Zenon DEF TypeOK, onTimeout, TimerPhases, seqVars
  <2>. QED
    BY <1>5, <2>1, <2>2, Zenon DEF TimerStep
<1>. QED
  BY <1>1, <1>2, <1>3, <1>4, <1>5, Zenon DEF Next

-----------------------------------------------------------------------------
(* Sequence numbers *)

LEMMA SeqInit == Init => SeqInv
<1>. SUFFICES ASSUME Init PROVE SeqInv
  BY Zenon
<1>1. CallsIn(timestamp) = {}
  BY Zenon DEF Init, CallsIn
<1>2. IsFiniteSet(CallsIn(timestamp)) /\ Cardinality(CallsIn(timestamp)) = 0
  BY <1>1, FS_EmptySet, Zenon
<1>3. \A a \in Calls : ~Numbered(a) /\ seq[a] = NoSeq /\ pc[a] # "sequence"
  BY Zenon DEF Init, Numbered
<1>4. UniqueSeq
  BY <1>3, Zenon DEF UniqueSeq
<1>. QED
  BY <1>1, <1>2, <1>3, <1>4, ClientAssumption DEF Init, SeqInv

\* Adding one to the counter, which wraps only to 0.
LEMMA NextFact ==
    ASSUME NEW k \in Nat, k < SeqRange
    PROVE  (k + 1) % SeqRange = IF k + 1 = SeqRange THEN 0 ELSE k + 1
BY ClientAssumption

\* A step that gives out no number.
NoNumber ==
    /\ UNCHANGED <<timestamp, nextSequence, seq>> /\ clock' >= clock
    /\ \A a \in Calls : /\ Numbered(a)' <=> Numbered(a)
                        /\ pc'[a] = "sequence" => read'[a] >= 1

LEMMA SeqKept ==
    ASSUME TypeOK, TypeOK', SeqInv, NoNumber
    PROVE  SeqInv'
<1>1. CallsIn(timestamp)' = CallsIn(timestamp)
  BY Zenon DEF CallsIn, NoNumber
<1>2. UniqueSeq'
  BY Zenon DEF SeqInv, UniqueSeq, NoNumber
<1>3. clock' >= 1
  BY ClientAssumption DEF TypeOK, SeqInv, NoNumber
<1>4. UNCHANGED <<timestamp, nextSequence, seq>>
  BY Zenon DEF NoNumber
<1>5. \A a \in Calls : /\ pc'[a] = "sequence" => read'[a] >= 1
                       /\ Numbered(a)' <=> seq'[a] # NoSeq
                       /\ Numbered(a)' => seq'[a].ts \in 1..timestamp'
  BY <1>4, Zenon DEF NoNumber, SeqInv
<1>. QED
  BY <1>1, <1>2, <1>3, <1>4, <1>5, SMTT(30) DEF SeqInv

LEMMA SeqNew ==
    ASSUME TypeOK, SeqInv, FewPerSecond', NEW a \in Calls, makeSequence(a)
    PROVE  SeqInv'
<1>. DEFINE k == Cardinality(CallsIn(timestamp))
            s == Sequence(read[a])
<1>. USE ClientAssumption
<1>1. /\ timestamp \in 0..MaxClock /\ nextSequence \in Nat
      /\ read[a] \in 1..MaxClock /\ pc[a] = "sequence"
      /\ seq \in [Calls -> Seqs] /\ seq[a] = NoSeq
  BY DEF TypeOK, SeqInv, makeSequence, Numbered
<1>2. /\ timestamp' = s.ts /\ nextSequence' = s.n /\ clock' = clock /\ read' = read
      /\ seq'[a] = s /\ \A b \in Calls \ {a} : seq'[b] = seq[b]
  BY <1>1, Zenon DEF makeSequence
<1>3. /\ Numbered(a)'
      /\ \A b \in Calls \ {a} : Numbered(b)' = Numbered(b) /\ pc'[b] = pc[b]
  BY DEF makeSequence, Numbered, TypeOK
<1>4. s.ts \in 1..MaxClock /\ s.ts >= timestamp /\ s # NoSeq
  BY <1>1 DEF Sequence, NoSeq
<1>5. \A b \in Calls : /\ pc'[b] = "sequence" => read'[b] >= 1
                       /\ Numbered(b)' <=> seq'[b] # NoSeq
                       /\ Numbered(b)' => seq'[b].ts \in 1..timestamp'
  <2>1. pc'[a] = "store"
    BY Zenon DEF makeSequence, TypeOK
  <2>. QED
    BY <1>1, <1>2, <1>3, <1>4, <2>1 DEF SeqInv
<1>6. \A b \in Calls : seq[b] # NoSeq => seq[b].ts \in 1..timestamp /\ seq[b].n \in Nat
  BY <1>1 DEF SeqInv, Seqs
<1>7. /\ IsFiniteSet(CallsIn(timestamp)) /\ k \in 0..SeqRange
      /\ nextSequence = IF k = SeqRange THEN 0 ELSE k
      /\ \A b \in CallsIn(timestamp) : seq[b].n \in 1..k \/ (seq[b].n = 0 /\ k = SeqRange)
  BY Zenon DEF SeqInv
<1>8. UniqueSeq
  BY Zenon DEF SeqInv
<1>9. clock' >= 1
  BY <1>2, Zenon DEF SeqInv
<1>. HIDE DEF k, s
<1>10. CASE read[a] > timestamp
  <2>1. s = [ts |-> read[a], n |-> 1]
    BY <1>10, Zenon DEF s, Sequence
  <2>2. CallsIn(timestamp)' = {a}
    BY <1>10, <1>1, <1>2, <1>4, <1>6, <2>1 DEF CallsIn
  <2>3. IsFiniteSet(CallsIn(timestamp)') /\ Cardinality(CallsIn(timestamp)') = 1
    <3>1. IsFiniteSet({a}) /\ Cardinality({a}) = 1
      BY FS_Singleton, Zenon
    <3>. QED
      BY <2>2, <3>1, Zenon
  <2>4. UniqueSeq'
    BY <1>10, <1>1, <1>2, <1>6, <1>8, <2>1, SMTT(30) DEF UniqueSeq
  <2>. QED
    BY <1>2, <1>5, <1>9, <2>1, <2>2, <2>3, <2>4 DEF SeqInv
<1>11. CASE ~(read[a] > timestamp)
  <2>1. s = [ts |-> timestamp, n |-> (nextSequence + 1) % SeqRange]
    BY <1>11 DEF s, Sequence
  <2>2. CallsIn(timestamp)' = CallsIn(timestamp) \union {a} /\ a \notin CallsIn(timestamp)
    BY <1>1, <1>2, <1>4, <2>1 DEF CallsIn
  <2>3. IsFiniteSet(CallsIn(timestamp)') /\ Cardinality(CallsIn(timestamp)') = k + 1
    BY <1>7, <2>2, FS_AddElement DEF k
  <2>4. k + 1 <= SeqRange
    <3>1. \A t \in 1..MaxClock : Cardinality(CallsIn(t)') <= SeqRange
      BY Zenon DEF FewPerSecond
    <3>2. timestamp \in 1..MaxClock /\ timestamp' = timestamp
      BY <1>2, <1>4, <2>1
    <3>3. CallsIn(timestamp)' = {b \in Calls : seq'[b] # NoSeq /\ seq'[b].ts = timestamp'}
      BY Zenon DEF CallsIn
    <3>4. Cardinality({b \in Calls : seq'[b] # NoSeq /\ seq'[b].ts = timestamp}) <= SeqRange
      BY <3>1, <3>2, Zenon DEF CallsIn
    <3>. QED
      BY <2>3, <3>2, <3>3, <3>4, Zenon
  <2>5. nextSequence = k /\ s.n = IF k + 1 = SeqRange THEN 0 ELSE k + 1
    BY <1>7, <2>1, <2>4, NextFact
  <2>6. \A b \in Calls \ {a} : seq[b] # s
    <3>. SUFFICES ASSUME NEW b \in Calls \ {a}, seq[b] = s PROVE FALSE
      BY Zenon
    <3>1. b \in CallsIn(timestamp)
      BY <1>4, <2>1 DEF CallsIn
    <3>2. seq[b].n \in 1..k
      BY <3>1, <1>7, <2>4
    <3>. QED
      BY <3>2, <2>5, <1>7
  <2>7. UniqueSeq'
    BY <1>1, <1>2, <1>8, <2>6 DEF UniqueSeq
  <2>8. \A b \in CallsIn(timestamp)' :
           seq'[b].n \in 1..(k + 1) \/ (seq'[b].n = 0 /\ k + 1 = SeqRange)
    <3>. SUFFICES ASSUME NEW b \in CallsIn(timestamp)'
                  PROVE  seq'[b].n \in 1..(k + 1) \/ (seq'[b].n = 0 /\ k + 1 = SeqRange)
      BY Zenon
    <3>1. CASE b = a
      BY <3>1, <1>2, <1>7, <2>4, <2>5
    <3>2. CASE b # a
      <4>1. b \in CallsIn(timestamp) /\ seq'[b] = seq[b]
        BY <3>2, <2>2, <1>2, Zenon DEF CallsIn
      <4>. QED
        BY <4>1, <1>7, <2>4
    <3>. QED
      BY <3>1, <3>2
  <2>9. nextSequence' = IF k + 1 = SeqRange THEN 0 ELSE k + 1
    BY <1>2, <2>5
  <2>. QED
    BY <1>5, <1>7, <1>9, <2>3, <2>4, <2>7, <2>8, <2>9 DEF SeqInv
<1>. QED
  BY <1>10, <1>11, Zenon

LEMMA SeqStep ==
    ASSUME Inv, TypeOK', FewPerSecond', [Next]_vars
    PROVE  SeqInv'
<1>. USE Zenon
<1>. TypeOK /\ SeqInv
  BY DEF Inv
<1>1. clock \in Nat /\ clock' \in Nat
  BY ClientAssumption, SMTT(30) DEF TypeOK
<1>2. clock' = clock => clock' >= clock
  BY <1>1, SMTT(30)
<1>3. \A a \in Calls : pc[a] = "sequence" => read[a] >= 1
  BY DEF SeqInv
<1>4. CASE UNCHANGED <<seqVars, pc>>
  <2>1. NoNumber
    BY <1>2, <1>3, <1>4 DEF NoNumber, seqVars, Numbered
  <2>. QED
    BY <2>1, SeqKept
<1>5. CASE Tick
  <2>1. clock' >= clock
    BY <1>1, <1>5, SMTT(30) DEF Tick
  <2>2. NoNumber
    BY <1>3, <1>5, <2>1 DEF NoNumber, Tick, Numbered
  <2>. QED
    BY <2>2, SeqKept, Zenon
<1>6. ASSUME NEW a \in Calls, getTimeStamp(a)
      PROVE  SeqInv'
  <2>1. \A b \in Calls : Numbered(b)' <=> Numbered(b)
    BY <1>6 DEF getTimeStamp, Numbered, TypeOK
  <2>2. \A b \in Calls : pc'[b] = "sequence" => read'[b] >= 1
    BY <1>3, <1>6 DEF getTimeStamp, TypeOK, SeqInv
  <2>3. NoNumber
    BY <1>2, <1>6, <2>1, <2>2 DEF NoNumber, getTimeStamp
  <2>. QED
    BY <2>3, SeqKept
<1>7. ASSUME NEW a \in Calls, makeSequence(a)
      PROVE  SeqInv'
  BY <1>7, SeqNew
<1>8. ASSUME NEW a \in Calls, UNCHANGED seqVars, NEW p, pc' = [pc EXCEPT ![a] = p], Numbered(a),
             p \notin {"idle", "sequence"}
      PROVE  SeqInv'
  <2>1. \A b \in Calls : (Numbered(b)' <=> Numbered(b)) /\ (pc'[b] = "sequence" => pc[b] = "sequence")
    BY <1>8 DEF TypeOK, Numbered
  <2>2. NoNumber
    BY <1>2, <1>3, <1>8, <2>1 DEF NoNumber, seqVars
  <2>. QED
    BY <2>2, SeqKept, Zenon
<1>9. ASSUME NEW a \in Calls, CallStep(a)
      PROVE  SeqInv'
  <2>1. CASE StoreAsync(a) \/ StoreSync(a)
    BY <2>1, <1>8, ZenonT(30) DEF StoreAsync, StoreSync, Numbered
  <2>2. CASE RequestOK(a)
    <3>1. PICK p \in {"done", "wait"} : pc' = [pc EXCEPT ![a] = p]
      BY <2>2, Zenon DEF RequestOK
    <3>. QED
      BY <2>2, <3>1, <1>8, Zenon DEF RequestOK, Numbered
  <2>3. CASE RequestFail(a) \/ FailSwap(a)
    BY <2>3, <1>8, SMTT(30) DEF RequestFail, FailSwap, Numbered
  <2>4. CASE FailDelete(a) \/ FailStop(a)
    BY <2>4, <1>8, SMTT(30) DEF FailDelete, FailStop, Numbered
  <2>5. CASE (\E r \in {"error", "timeout"} : CallFail(a, r)) \/ CallReturn(a) \/ CallTimeout(a)
    BY <2>5, <1>8, ZenonT(30) DEF CallFail, CallReturn, CallTimeout, Numbered
  <2>. QED
    BY <1>6, <1>7, <1>9, <2>1, <2>2, <2>3, <2>4, <2>5 DEF CallStep
<1>10. ASSUME NEW a \in Calls, Answer(a) \/ RespStep(a)
       PROVE  SeqInv'
  BY <1>10, <1>4, Zenon DEF Answer, RespStep, RespDelete, RespChan, RespStop, RespFire
<1>11. ASSUME NEW a \in Async, TimerStep(a)
       PROVE  SeqInv'
  BY <1>11, <1>4, Zenon DEF TimerStep, TimerFire, TimerDelete, onTimeout
<1>12. CASE UNCHANGED vars
  BY <1>12, <1>4, Zenon DEF vars, seqVars
<1>. QED
  BY <1>5, <1>9, <1>10, <1>11, <1>12 DEF Next

-----------------------------------------------------------------------------
(* The contexts *)

\* What a step of one call leaves of another call b.
Apart(b) ==
    /\ pc'[b] = pc[b] /\ seq'[b] = seq[b] /\ obj'[b] = obj[b]
    /\ resp'[b] = resp[b] /\ held'[b] = held[b] /\ result'[b] = result[b]
    /\ b \in Async => timer'[b] = timer[b]
    /\ Stored(b) => pendingCall'[seq[b]] = pendingCall[seq[b]]
    /\ \A c \in Chan : buffer'[c] = b <=> buffer[c] = b
    /\ Using(b) => obj[b] \notin pool' /\ owner'[obj[b]] = b

Others(a) == \A b \in Calls \ {a} : Apart(b)

LEMMA ApartSafe ==
    ASSUME NEW b \in Calls, CallInv(b), Apart(b)
    PROVE  CallInv(b)'
<1>. USE Zenon
<1>1. /\ Stored(b)' = Stored(b) /\ Failing(b)' = Failing(b) /\ Expiring(b)' = Expiring(b)
      /\ Answering(b)' = Answering(b) /\ Waiting(b)' = Waiting(b)
  BY Zenon DEF Apart, Stored, Numbered, Failing, Expiring, Answering, Waiting
<1>2. Unread(b)' = Unread(b)
  BY Zenon DEF Apart, Unread
<1>3. Listed(b)' = Listed(b)
  BY <1>1 DEF Apart, Listed
<1>4. Using(b)' = Using(b)
  BY <1>1, <1>2, <1>3 DEF Using
<1>5. OneUser(b)'
  BY <1>1, <1>2, <1>3 DEF CallInv, OneUser
<1>6. Owned(b)'
  BY <1>1, <1>3, <1>4 DEF CallInv, Owned, Apart, Listed
<1>7. Phases(b)'
  BY <1>1, <1>2 DEF CallInv, Phases, Apart
<1>8. ToldOnce(b)'
  BY <1>1, <1>4 DEF CallInv, ToldOnce, Apart
<1>. QED
  BY <1>5, <1>6, <1>7, <1>8, Zenon DEF CallInv

LEMMA OwnFromCall ==
    ASSUME OwnInv, NEW a \in Calls, Others(a), CallInv(a)', Listing'
    PROVE  OwnInv'
<1>1. \A b \in Calls \ {a} : CallInv(b)'
  BY ApartSafe DEF OwnInv, Others
<1>. QED
  BY <1>1 DEF OwnInv

\* Two calls never use the same context.
LEMMA UsersDiffer ==
    ASSUME TypeOK, OwnInv, NEW a \in Calls, NEW b \in Calls, a # b, Using(b), owner[obj[a]] = a
    PROVE  obj[b] # obj[a]
BY UsingFact

\* Two calls have different entries of the table.
LEMMA EntriesDiffer ==
    ASSUME SeqInv, NEW a \in Calls, NEW b \in Calls, a # b, Stored(b)
    PROVE  seq[b] # seq[a] /\ seq[b] # NoSeq
BY Zenon DEF SeqInv, UniqueSeq, Stored

\* What is in the table under a call's number is its context.
LEMMA ListedFact ==
    ASSUME TypeOK, OwnInv, NEW a \in Calls, Stored(a), InTable(a)
    PROVE  Listed(a) /\ pendingCall[seq[a]] = obj[a]
BY Zenon DEF OwnInv, CallInv, Owned, Listed, InTable

\* Taking the entry of a stored call out of the table.
LEMMA DeleteFact ==
    ASSUME TypeOK, SeqInv, OwnInv, NEW a \in Calls, Stored(a), Delete(a), seq' = seq,
           \A b \in Calls : Stored(b)' = Stored(b)
    PROVE  /\ Listing' /\ ~Listed(a)'
           /\ \A b \in Calls \ {a} : Stored(b) => pendingCall'[seq[b]] = pendingCall[seq[b]]
<1>. USE Zenon
<1>1. seq[a] \in Seqs /\ pendingCall \in [Seqs -> Objs \union {Null}]
  BY Zenon DEF TypeOK
<1>2. Listing'
  BY <1>1 DEF OwnInv, Listing, Delete
<1>3. \A b \in Calls \ {a} : Stored(b) => pendingCall'[seq[b]] = pendingCall[seq[b]]
  BY <1>1, EntriesDiffer DEF Delete, TypeOK
<1>. QED
  BY <1>1, <1>2, <1>3 DEF Delete, Listed

\* Only the calls of channels have unread responses, in their own channel.
LEMMA UnreadFact ==
    ASSUME TypeOK, OwnInv, NEW a \in Calls, Unread(a)
    PROVE  a \in Sync /\ buffer[obj[a]] = a
<1>. USE Zenon
<1>1. Stored(a)
  BY UsingFact DEF Using
<1>2. PICK c \in Chan : buffer[c] = a
  BY Zenon DEF Unread
<1>3. obj[a] = c
  BY <1>2 DEF OwnInv, CallInv, Owned
<1>. QED
  BY <1>1, <1>2, <1>3, ObjFact, ClientAssumption DEF Calls

\* The parts of the invariant of a call, before a step of it.
LEMMA CallParts ==
    ASSUME OwnInv, NEW a \in Calls
    PROVE  OneUser(a) /\ Owned(a) /\ Phases(a) /\ ToldOnce(a)
BY DEF OwnInv, CallInv

LEMMA OwnInit == Init => OwnInv
<1>. USE Zenon
<1>. SUFFICES ASSUME Init PROVE OwnInv
  BY Zenon
<1>1. Listing
  BY Zenon DEF Init, Listing
<1>2. ASSUME NEW a \in Calls PROVE CallInv(a)
  <2>1. /\ ~Stored(a) /\ ~Listed(a) /\ ~Failing(a) /\ ~Expiring(a) /\ ~Answering(a) /\ ~Waiting(a)
        /\ \A c \in Chan : buffer[c] # a
    BY ClientAssumption DEF Init, Stored, Numbered, Listed, Failing, Expiring, Answering, Waiting
  <2>2. ~Unread(a)
    BY <2>1 DEF Unread
  <2>3. ~Using(a)
    BY <2>1, <2>2 DEF Using
  <2>. QED
    BY <2>1, <2>2, <2>3 DEF Init, CallInv, OneUser, Owned, Phases, ToldOnce
<1>. QED
  BY <1>1, <1>2, Zenon DEF OwnInv

LEMMA OwnStore ==
    ASSUME TypeOK, SeqInv, OwnInv, NEW a \in Calls, StoreAsync(a) \/ StoreSync(a)
    PROVE  OwnInv'
<1>. USE Zenon
<1>. USE ClientAssumption
<1>1. pc[a] = "store" /\ ~Stored(a) /\ Numbered(a)
  BY Zenon DEF StoreAsync, StoreSync, Stored, Numbered
<1>2. PICK c \in Objs :
        /\ c \in (IF a \in Async THEN Ctx ELSE Chan) /\ (c \in pool \/ owner[c] = Null)
        /\ pool' = pool \ {c}
        /\ obj' = [obj EXCEPT ![a] = c]
        /\ owner' = [owner EXCEPT ![c] = a]
        /\ pendingCall' = [pendingCall EXCEPT ![seq[a]] = c]
  BY Zenon DEF StoreAsync, StoreSync, Get, Objs, Calls
<1>3. /\ pc' = [pc EXCEPT ![a] = "request"]
      /\ UNCHANGED <<seq, buffer, resp, held, result>>
      /\ a \in Async => timer' = [timer EXCEPT ![a] = "armed"]
      /\ a \notin Async => UNCHANGED timer
  BY DEF StoreAsync, StoreSync, seqVars
<1>4. seq[a] \in Seqs /\ seq[a] # NoSeq
  BY <1>1 DEF TypeOK, SeqInv
<1>5. Others(a)
  <2>. SUFFICES ASSUME NEW b \in Calls \ {a} PROVE Apart(b)
    BY Zenon DEF Others
  <2>1. Stored(b) => seq[b] # seq[a]
    BY EntriesDiffer
  <2>2. Using(b) => owner[obj[b]] = b /\ obj[b] \notin pool /\ obj[b] \in Objs
    BY UsingFact, ObjFact
  <2>3. Using(b) => obj[b] \notin pool' /\ owner'[obj[b]] = b
    BY <1>2, <2>2 DEF TypeOK
  <2>4. Stored(b) => pendingCall'[seq[b]] = pendingCall[seq[b]]
    BY <1>2, <1>4, <2>1, Zenon DEF TypeOK
  <2>. QED
    BY <1>2, <1>3, <2>3, <2>4 DEF Apart, TypeOK
<1>6. /\ pc'[a] = "request" /\ seq'[a] = seq[a] /\ obj'[a] = c /\ resp'[a] = resp[a]
      /\ held'[a] = held[a] /\ result'[a] = result[a] /\ owner'[c] = a
      /\ a \in Async => timer'[a] = "armed"
      /\ pendingCall'[seq[a]] = c /\ c \notin pool' /\ c # Null
  BY <1>2, <1>3, <1>4 DEF TypeOK
<1>7. resp[a] = "none" /\ ~Unread(a) /\ result[a] = <<>>
  BY <1>1, Zenon DEF OwnInv, CallInv, Phases, ToldOnce
<1>8. CallInv(a)'
  <2>1. /\ Stored(a)' /\ Listed(a)' /\ ~Failing(a)' /\ ~Expiring(a)' /\ ~Answering(a)'
    BY <1>6, <1>7 DEF Stored, Numbered, Listed, Failing, Expiring, Answering
  <2>2. ~Unread(a)' /\ \A d \in Chan : buffer'[d] # a
    BY <1>3, <1>7 DEF Unread
  <2>3. OneUser(a)'
    BY <2>1, <2>2 DEF OneUser
  <2>4. Owned(a)'
    BY <1>6, <2>1, <2>2 DEF Owned
  <2>5. Phases(a)'
    BY <1>2, <1>6, <1>7, <2>1, <2>2 DEF Phases, NotAsked
  <2>6. ToldOnce(a)'
    BY <1>6, <1>7 DEF ToldOnce
  <2>. QED
    BY <2>3, <2>4, <2>5, <2>6 DEF CallInv
<1>9. Listing'
  <2>1. \A b \in Calls \ {a} : Stored(b)' = Stored(b)
    BY <1>3 DEF TypeOK, Stored, Numbered
  <2>2. Stored(a)'
    BY <1>6, Zenon DEF Stored, Numbered
  <2>. QED
    BY <1>1, <1>2, <1>3, <1>4, <2>1, <2>2 DEF TypeOK, OwnInv, Listing
<1>. QED
  BY <1>5, <1>8, <1>9, OwnFromCall

\* A step that changes nothing but the phases of one call's goroutines.
LEMMA OwnQuiet ==
    ASSUME TypeOK, SeqInv, OwnInv, NEW a \in Calls,
           \/ getTimeStamp(a) \/ makeSequence(a) \/ RequestOK(a) \/ RequestFail(a)
           \/ Answer(a) \/ (a \in Async /\ TimerFire(a))
    PROVE  OwnInv'
<1>. USE Zenon
<1>. USE ClientAssumption
<1>1. UNCHANGED <<pendingCall, pool, obj, owner, buffer, held, result>>
  BY DEF getTimeStamp, makeSequence, RequestOK, RequestFail, Answer, TimerFire, seqVars
<1>2. \A b \in Calls \ {a} :
        /\ pc'[b] = pc[b] /\ seq'[b] = seq[b] /\ resp'[b] = resp[b]
        /\ b \in Async => timer'[b] = timer[b]
  BY SMTT(30) DEF getTimeStamp, makeSequence, RequestOK, RequestFail, Answer, TimerFire, seqVars, TypeOK
<1>3. Others(a)
  BY <1>1, <1>2, UsingFact DEF Others, Apart
<1>4. /\ Stored(a)' = Stored(a)
      /\ Stored(a) => seq'[a] = seq[a]
      /\ Failing(a)' = Failing(a) /\ Expiring(a)' = Expiring(a) /\ Answering(a)' = Answering(a)
      /\ Waiting(a)' => Waiting(a)
      /\ ~Stored(a) => resp'[a] = resp[a] /\ (a \in Async => timer'[a] = timer[a])
      /\ pc[a] = "done" => pc'[a] = "done"
      /\ pc'[a] \in NotAsked => pc[a] \in NotAsked /\ resp'[a] = resp[a]
      /\ resp'[a] \in {"fire", "firePut"} => resp[a] = resp'[a]
      /\ pc'[a] \in {"failed", "deleted", "stopped", "lost", "error"} => a \in Async
      /\ pc'[a] = "wait" => a \in Sync
  <2>. USE DEF Stored, Numbered, Failing, Expiring, Answering, Waiting, NotAsked
  <2>1. CASE getTimeStamp(a)
    <3>1. pc[a] = "idle" /\ pc'[a] = "sequence" /\ UNCHANGED <<seq, resp, timer>>
      BY <2>1 DEF getTimeStamp, TypeOK
    <3>. QED
      BY <3>1, SMTT(30)
  <2>2. CASE makeSequence(a)
    <3>1. pc[a] = "sequence" /\ pc'[a] = "store" /\ UNCHANGED <<resp, timer>>
      BY <2>2 DEF makeSequence, TypeOK
    <3>. QED
      BY <3>1, SMTT(30)
  <2>3. CASE RequestOK(a)
    <3>1. pc[a] = "request" /\ resp[a] = "none"
      BY <2>3 DEF RequestOK, OwnInv, CallInv, Phases
    <3>2. /\ pc'[a] \in {"done", "wait"} /\ resp'[a] = "due" /\ UNCHANGED <<seq, timer>>
          /\ (pc'[a] = "wait" => a \in Sync)
      BY <2>3 DEF RequestOK, seqVars, Calls, TypeOK
    <3>. QED
      BY <3>1, <3>2, SMTT(30)
  <2>4. CASE RequestFail(a)
    <3>1. pc[a] = "request" /\ pc'[a] = "failed" /\ a \in Async /\ UNCHANGED <<seq, resp, timer>>
      BY <2>4 DEF RequestFail, seqVars, TypeOK
    <3>. QED
      BY <3>1, ClientAssumption, SMTT(30)
  <2>5. CASE Answer(a)
    <3>1. resp[a] = "due" /\ resp'[a] = "sent" /\ UNCHANGED <<seq, pc, timer>>
      BY <2>5 DEF Answer, seqVars, TypeOK
    <3>2. Phases(a)
      BY CallParts
    <3>. QED
      BY <3>1, <3>2, SMTT(30) DEF Phases
  <2>6. CASE a \in Async /\ TimerFire(a)
    <3>1. timer[a] = "armed" /\ timer'[a] = "running" /\ UNCHANGED <<seq, pc, resp>>
      BY <2>6 DEF TimerFire, seqVars, TypeOK
    <3>2. Phases(a)
      BY CallParts, Zenon
    <3>. QED
      BY <2>6, <3>1, <3>2, SMTT(30) DEF Phases
  <2>. QED
    BY <2>1, <2>2, <2>3, <2>4, <2>5, <2>6
<1>5. (\A c \in Chan : buffer'[c] = buffer[c]) /\ Unread(a)' = Unread(a)
  BY <1>1 DEF Unread
<1>6. Listed(a)' = Listed(a) /\ (Using(a)' => Using(a))
  BY <1>1, <1>4, <1>5 DEF Listed, Using
<1>7. CallInv(a)
  BY Zenon DEF OwnInv
<1>8. CallInv(a)'
  <2>1. OneUser(a)'
    BY <1>4, <1>5, <1>6, <1>7 DEF CallInv, OneUser
  <2>2. Owned(a)'
    BY <1>1, <1>4, <1>6, <1>7 DEF CallInv, Owned, Listed
  <2>3. Phases(a)'
    BY <1>1, <1>4, <1>5, <1>7 DEF CallInv, Phases
  <2>4. ToldOnce(a)'
    BY <1>1, <1>4, <1>6, <1>7 DEF CallInv, ToldOnce
  <2>. QED
    BY <2>1, <2>2, <2>3, <2>4 DEF CallInv
<1>9. Listing'
  <2>1. \A b \in Calls : Stored(b) => Stored(b)' /\ seq'[b] = seq[b]
    BY <1>2, <1>4 DEF Stored, Numbered
  <2>. QED
    BY <1>1, <2>1 DEF OwnInv, Listing
<1>. QED
  BY <1>3, <1>8, <1>9, OwnFromCall

\* A step of a stored call touches its own state only, and puts its context in
\* the pool only when it no longer uses it.
Local(a) ==
    /\ Stored(a) /\ Stored(a)'
    /\ UNCHANGED <<seq, obj, owner>>
    /\ \A b \in Calls \ {a} :
         /\ pc'[b] = pc[b] /\ resp'[b] = resp[b] /\ held'[b] = held[b] /\ result'[b] = result[b]
         /\ b \in Async => timer'[b] = timer[b]
         /\ \A c \in Chan : buffer'[c] = b <=> buffer[c] = b
    /\ UNCHANGED pendingCall \/ Delete(a)
    /\ UNCHANGED pool \/ (pool' = pool \union {obj[a]} /\ owner[obj[a]] = a)

LEMMA OwnLocal ==
    ASSUME TypeOK, SeqInv, OwnInv, NEW a \in Calls, Local(a), CallInv(a)'
    PROVE  OwnInv'
<1>. USE Zenon
<1>1. \A b \in Calls : Stored(b)' = Stored(b)
  BY DEF Local, Stored, Numbered
<1>2. /\ Listing'
      /\ \A b \in Calls \ {a} : Stored(b) => pendingCall'[seq[b]] = pendingCall[seq[b]]
  <2>1. CASE UNCHANGED pendingCall
    BY <1>1, <2>1 DEF OwnInv, Listing, Local
  <2>2. CASE Delete(a)
    BY <1>1, <2>2, DeleteFact DEF Local
  <2>. QED
    BY <2>1, <2>2, Zenon DEF Local
<1>3. ASSUME NEW b \in Calls \ {a} PROVE Apart(b)
  <2>1. Using(b) => obj[b] \notin pool' /\ owner'[obj[b]] = b
    BY UsersDiffer, UsingFact, SMTT(30) DEF Local
  <2>. QED
    BY <1>2, <2>1 DEF Apart, Local
<1>. QED
  BY <1>2, <1>3, OwnFromCall DEF Others

\* Taking the context out of the table moves it from the table to the taker.
LEMMA OwnFailDelete ==
    ASSUME TypeOK, SeqInv, OwnInv, NEW a \in Calls, FailDelete(a)
    PROVE  OwnInv'
<1>. USE Zenon
<1>1. pc[a] = "failed" /\ Stored(a) /\ Delete(a)
  BY Zenon DEF FailDelete, Stored, Numbered
<1>2. /\ pc' = [pc EXCEPT ![a] = IF InTable(a) THEN "deleted" ELSE "lost"]
      /\ UNCHANGED <<seq, pool, obj, owner, buffer, timer, resp, held, result>>
  BY Zenon DEF FailDelete, seqVars
<1>3. /\ pc'[a] = (IF Listed(a) THEN "deleted" ELSE "lost") /\ \A b \in Calls \ {a} : pc'[b] = pc[b]
      /\ Stored(a)'
  BY <1>1, <1>2 DEF TypeOK, Listed, InTable, Stored, Numbered
<1>4. Local(a)
  BY <1>1, <1>2, <1>3 DEF Local
<1>5. a \in Async /\ resp[a] = "none" /\ ~Unread(a)
  BY <1>1, CallParts DEF Phases, NotAsked
<1>6. /\ ~Listed(a)' /\ (Failing(a)' <=> Listed(a)) /\ (Expiring(a)' <=> Expiring(a))
      /\ ~Answering(a)' /\ ~Unread(a)' /\ ~Waiting(a)'
  <2>1. ~Listed(a)'
    BY <1>1, <1>2 DEF Delete, Listed, TypeOK
  <2>. QED
    BY <1>2, <1>3, <1>5, <2>1, SMTT(30) DEF Failing, Expiring, Answering, Unread, Waiting
<1>7. CallInv(a)'
  <2>1. OneUser(a)'
    BY <1>6, CallParts DEF OneUser
  <2>2. Using(a)' => Using(a)
    BY <1>6 DEF Using
  <2>3. Owned(a)'
    BY <1>2, <1>6, <2>2, CallParts DEF Owned
  <2>4. Phases(a)'
    <3>1. pc'[a] # "wait" /\ resp'[a] = "none" /\ resp'[a] \notin {"fire", "firePut"}
      BY <1>2, <1>3, <1>5, SMT
    <3>. QED
      BY <1>1, <1>2, <1>3, <1>5, <1>6, <3>1, CallParts DEF Phases
  <2>5. ToldOnce(a)'
    BY <1>1, <1>2, <1>3, <1>5, <2>2, CallParts, ClientAssumption DEF ToldOnce
  <2>. QED
    BY <2>1, <2>3, <2>4, <2>5 DEF CallInv
<1>. QED
  BY <1>4, <1>7, OwnLocal

LEMMA OwnTimerDelete ==
    ASSUME TypeOK, SeqInv, OwnInv, NEW a \in Async, TimerDelete(a)
    PROVE  OwnInv'
<1>. USE Zenon
<1>. a \in Calls
  BY Zenon DEF Calls
<1>1. timer[a] = "running" /\ Delete(a) /\ Stored(a)
  BY CallParts, Zenon DEF TimerDelete, Phases
<1>2. /\ timer' = [timer EXCEPT ![a] = IF InTable(a) THEN "taken" ELSE "done"]
      /\ UNCHANGED <<seq, pool, obj, owner, buffer, pc, resp, held, result>>
  BY Zenon DEF TimerDelete, seqVars
<1>3. /\ timer'[a] = (IF Listed(a) THEN "taken" ELSE "done")
      /\ \A b \in Async \ {a} : timer'[b] = timer[b]
      /\ Stored(a)'
  BY <1>1, <1>2 DEF TypeOK, Listed, InTable, Stored, Numbered
<1>4. Local(a)
  BY <1>1, <1>2, <1>3 DEF Local
<1>5. ~Unread(a) /\ ~Waiting(a)
  BY UnreadFact, ClientAssumption DEF Waiting
<1>6. /\ ~Listed(a)' /\ (Failing(a)' <=> Failing(a)) /\ (Expiring(a)' <=> Listed(a))
      /\ (Answering(a)' <=> Answering(a)) /\ ~Unread(a)' /\ ~Waiting(a)'
  <2>1. ~Listed(a)'
    BY <1>1, <1>2 DEF Delete, Listed, TypeOK
  <2>. QED
    BY <1>2, <1>3, <1>5, <2>1, SMTT(30) DEF Failing, Expiring, Answering, Unread, Waiting
<1>7. CallInv(a)'
  <2>1. OneUser(a)'
    BY <1>6, CallParts DEF OneUser
  <2>2. Using(a)' => Using(a)
    BY <1>6 DEF Using
  <2>3. Owned(a)'
    BY <1>2, <1>6, <2>2, CallParts DEF Owned
  <2>4. Phases(a)'
    BY <1>1, <1>2, <1>3, <1>6, CallParts DEF Phases
  <2>5. ToldOnce(a)'
    BY <1>1, <1>2, <1>3, <2>2, CallParts DEF ToldOnce
  <2>. QED
    BY <2>1, <2>3, <2>4, <2>5 DEF CallInv
<1>. QED
  BY <1>4, <1>7, OwnLocal

LEMMA OwnRespDelete ==
    ASSUME TypeOK, SeqInv, OwnInv, NEW a \in Calls, RespDelete(a)
    PROVE  OwnInv'
<1>. USE Zenon
<1>1. resp[a] = "sent" /\ Delete(a) /\ Stored(a) /\ pc[a] \notin NotAsked
  BY CallParts DEF RespDelete, Phases
<1>2. /\ resp' = [resp EXCEPT ![a] = IF InTable(a) THEN "taken" ELSE "done"]
      /\ held' = [held EXCEPT ![a] = pendingCall[seq[a]]]
      /\ UNCHANGED <<seq, pool, obj, owner, buffer, pc, timer, result>>
  BY DEF RespDelete, seqVars
<1>3. /\ resp'[a] = (IF Listed(a) THEN "taken" ELSE "done") /\ held'[a] = pendingCall[seq[a]]
      /\ \A b \in Calls \ {a} : resp'[b] = resp[b] /\ held'[b] = held[b]
      /\ Stored(a)'
  BY <1>1, <1>2 DEF TypeOK, Listed, InTable, Stored, Numbered
<1>4. Local(a)
  BY <1>1, <1>2, <1>3 DEF Local
<1>5. /\ ~Listed(a)' /\ ~Failing(a)' /\ (Expiring(a)' <=> Expiring(a))
      /\ (Answering(a)' <=> Listed(a)) /\ (Unread(a)' <=> Unread(a)) /\ (Waiting(a)' <=> Waiting(a))
  <2>1. ~Listed(a)'
    BY <1>1, <1>2 DEF Delete, Listed, TypeOK
  <2>. QED
    <3>1. ~Failing(a)'
      BY <1>1, <1>2 DEF Failing, NotAsked
    <3>2. Answering(a)' <=> Listed(a)
      BY <1>3 DEF Answering
    <3>. QED
      BY <1>2, <2>1, <3>1, <3>2 DEF Expiring, Unread, Waiting
<1>6. CallInv(a)'
  <2>1. OneUser(a)'
    BY <1>5, CallParts DEF OneUser
  <2>2. Using(a)' => Using(a)
    BY <1>5 DEF Using
  <2>3. Owned(a)'
    BY <1>2, <1>3, <1>5, <2>2, CallParts DEF Owned
  <2>4. Phases(a)'
    <3>1. resp'[a] \notin {"fire", "firePut"}
      BY <1>3
    <3>. QED
      BY <1>1, <1>2, <1>3, <1>5, <3>1, CallParts DEF Phases
  <2>5. ToldOnce(a)'
    BY <1>1, <1>2, <1>3, <2>2, CallParts DEF ToldOnce
  <2>. QED
    BY <2>1, <2>3, <2>4, <2>5, Zenon DEF CallInv
<1>. QED
  BY <1>4, <1>6, OwnLocal, Zenon

\* Stopping the timer does not take the context from its user.
LEMMA OwnStop ==
    ASSUME TypeOK, SeqInv, OwnInv, NEW a \in Calls, FailStop(a) \/ RespStop(a)
    PROVE  OwnInv'
<1>. USE Zenon
<1>1. /\ Stored(a) /\ owner[obj[a]] = a /\ Using(a)
      /\ Failing(a) \/ Answering(a)
  BY UsingFact DEF FailStop, RespStop, Failing, Answering, Using
<1>2. a \in Async /\ ~Unread(a) /\ ~Waiting(a)
  <2>1. CASE FailStop(a)
    BY <2>1, CallParts, UnreadFact, ClientAssumption DEF FailStop, Phases, Waiting
  <2>2. CASE RespStop(a)
    <3>1. obj[a] \in Ctx
      BY <2>2, CallParts DEF RespStop, Owned, Answering
    <3>2. a \in Async
      BY <3>1, <1>1, ObjFact, ClientAssumption DEF Calls
    <3>. QED
      BY <3>2, UnreadFact, ClientAssumption DEF Waiting
  <2>. QED
    BY <2>1, <2>2
<1>3. UNCHANGED <<seq, pendingCall, pool, obj, owner, buffer, held, result>>
  BY DEF FailStop, RespStop, seqVars
<1>4. timer' = timer \/ (timer[a] = "armed" /\ timer' = [timer EXCEPT ![a] = "done"])
  BY <1>1, CallParts DEF FailStop, RespStop, Stop, Stoppable, Owned, Answering
<1>5. \/ /\ pc[a] = "deleted" /\ pc' = [pc EXCEPT ![a] = pc'[a]] /\ pc'[a] \in {"stopped", "lost"}
         /\ resp' = resp
      \/ /\ resp[a] = "taken" /\ resp' = [resp EXCEPT ![a] = resp'[a]] /\ resp'[a] \in {"fire", "firePut"}
         /\ pc' = pc
  BY DEF FailStop, RespStop, TypeOK
<1>6. Stored(a)' /\ \A b \in Calls \ {a} : pc'[b] = pc[b] /\ resp'[b] = resp[b]
  BY <1>1, <1>5 DEF TypeOK, Stored, Numbered
<1>7. \A b \in Async \ {a} : timer'[b] = timer[b]
  BY <1>4 DEF TypeOK
<1>8. Local(a)
  BY <1>1, <1>3, <1>6, <1>7 DEF Local
<1>9. /\ (Listed(a)' <=> Listed(a)) /\ (Failing(a)' => Failing(a)) /\ (Expiring(a)' <=> Expiring(a))
      /\ (Answering(a)' <=> Answering(a)) /\ ~Unread(a)' /\ ~Waiting(a)'
  <2>1. Expiring(a)' <=> Expiring(a)
    BY <1>2, <1>4 DEF TypeOK, Expiring
  <2>2. (Failing(a)' => Failing(a)) /\ (Answering(a)' <=> Answering(a))
    BY <1>5 DEF Failing, Answering
  <2>3. ~Unread(a)' /\ ~Waiting(a)'
    BY <1>2, <1>3, ClientAssumption DEF Unread, Waiting
  <2>. QED
    BY <1>1, <1>3, <1>6, <2>1, <2>2, <2>3 DEF Listed
<1>10. CallInv(a)'
  <2>1. OneUser(a)'
    BY <1>9, CallParts DEF OneUser
  <2>2. Using(a)' => Using(a)
    BY <1>9 DEF Using
  <2>3. Owned(a)'
    BY <1>3, <1>9, <2>2, CallParts DEF Owned
  <2>4. Phases(a)'
    <3>1. pc'[a] \in NotAsked => pc[a] \in NotAsked /\ resp'[a] = resp[a]
      BY <1>5, CallParts DEF Phases, NotAsked
    <3>. QED
      BY <1>1, <1>2, <1>3, <1>5, <1>6, <1>9, <3>1, CallParts DEF Phases
  <2>5. ToldOnce(a)'
    BY <1>2, <1>3, <1>6, <1>1, <2>2, CallParts, ClientAssumption DEF ToldOnce
  <2>. QED
    BY <2>1, <2>3, <2>4, <2>5 DEF CallInv
<1>. QED
  BY <1>8, <1>10, OwnLocal

LEMMA OwnRespChan ==
    ASSUME TypeOK, SeqInv, OwnInv, NEW a \in Calls, RespChan(a)
    PROVE  OwnInv'
<1>. USE Zenon
<1>1. /\ Answering(a) /\ Using(a) /\ Stored(a) /\ owner[obj[a]] = a /\ held[a] = obj[a]
      /\ pc[a] \notin NotAsked
  BY UsingFact, CallParts DEF RespChan, Answering, Using, Owned, Phases
<1>2. obj[a] \in Chan /\ buffer[obj[a]] = Null /\ a \in Sync
  BY <1>1, ObjFact, ClientAssumption DEF RespChan, Calls
<1>3. /\ buffer' = [buffer EXCEPT ![obj[a]] = a] /\ resp' = [resp EXCEPT ![a] = "done"]
      /\ UNCHANGED <<seq, pendingCall, pool, obj, owner, pc, timer, held, result>>
  BY <1>1 DEF RespChan, seqVars
<1>4. /\ resp'[a] = "done" /\ Stored(a)'
      /\ \A b \in Calls \ {a} : /\ resp'[b] = resp[b]
                                /\ \A c \in Chan : buffer'[c] = b <=> buffer[c] = b
  BY <1>1, <1>2, <1>3, ClientAssumption, SMTT(30) DEF TypeOK, Stored, Numbered
<1>5. \A c \in Chan : buffer'[c] = a => c = obj[a]
  BY <1>2, <1>3, CallParts DEF TypeOK, Owned
<1>6. Local(a)
  BY <1>1, <1>3, <1>4 DEF Local
<1>7. /\ ~Listed(a)' /\ ~Failing(a)' /\ ~Expiring(a)' /\ ~Answering(a)'
      /\ (Waiting(a)' <=> Waiting(a))
  <2>1. ~Listed(a)'
    BY <1>1, <1>3, <1>4, CallParts DEF OneUser, Listed
  <2>. QED
    BY <1>1, <1>2, <1>3, <1>4, <2>1, ClientAssumption DEF Failing, Expiring, Answering, Waiting, NotAsked
<1>8. CallInv(a)'
  <2>1. OneUser(a)'
    BY <1>7, Zenon DEF OneUser
  <2>2. Owned(a)'
    BY <1>1, <1>3, <1>5, <1>7, CallParts DEF Owned
  <2>3. Phases(a)'
    BY <1>1, <1>2, <1>3, <1>4, CallParts DEF Phases
  <2>4. ToldOnce(a)'
    BY <1>1, <1>2, <1>3, <1>4, CallParts, ClientAssumption DEF ToldOnce
  <2>. QED
    BY <2>1, <2>2, <2>3, <2>4, Zenon DEF CallInv
<1>. QED
  BY <1>6, <1>8, OwnLocal, Zenon

\* The last user of an asynchronous call's context, who may tell the caller and
\* put the context in the pool, leaves it without a user.
LEMMA OwnLast ==
    ASSUME TypeOK, SeqInv, OwnInv, NEW a \in Async, onTimeout(a) \/ RespFire(a)
    PROVE  OwnInv'
<1>. USE Zenon
<1>. a \in Calls
  BY Zenon DEF Calls
<1>1. /\ Stored(a) /\ owner[obj[a]] = a /\ Using(a) /\ result[a] = <<>>
      /\ ~Listed(a) /\ ~Failing(a) /\ ~Unread(a) /\ ~Waiting(a)
  <2>1. Expiring(a) \/ Answering(a)
    BY Zenon DEF onTimeout, RespFire, Expiring, Answering
  <2>2. ~Failing(a)
    BY <2>1, CallParts DEF OneUser, Phases, Failing, Answering, NotAsked
  <2>. QED
    BY <2>1, <2>2, UsingFact, UnreadFact, CallParts, ClientAssumption DEF OneUser, ToldOnce, Using, Waiting
<1>2. Answering(a) => held[a] = obj[a]
  BY CallParts DEF Owned
<1>3. PICK r \in {"timeout", a} : UNCHANGED result \/ Tell(a, r)
  BY <1>1, <1>2 DEF onTimeout, RespFire, callOnResponse, Answering
<1>4. pool' = pool \/ pool' = pool \union {obj[a]}
  BY <1>2, Zenon DEF onTimeout, RespFire, Answering
<1>5. UNCHANGED <<seq, pendingCall, obj, owner, buffer, pc, held>>
  BY Zenon DEF onTimeout, RespFire, seqVars
<1>6. \/ timer[a] = "taken" /\ timer' = [timer EXCEPT ![a] = "done"] /\ resp' = resp
      \/ Answering(a) /\ resp' = [resp EXCEPT ![a] = "done"] /\ timer' = timer
  BY Zenon DEF onTimeout, RespFire, Answering
<1>7. /\ Stored(a)' /\ resp'[a] \in {resp[a], "done"} /\ timer'[a] \in {timer[a], "done"}
      /\ ~Expiring(a)' /\ ~Answering(a)'
  BY <1>1, <1>5, <1>6, CallParts DEF TypeOK, Stored, Numbered, OneUser, Expiring, Answering
<1>8. \A b \in Calls \ {a} : /\ resp'[b] = resp[b] /\ (b \in Async => timer'[b] = timer[b])
                             /\ result'[b] = result[b]
  BY <1>3, <1>6 DEF TypeOK, Tell
<1>9. result'[a] \in {<<>>, <<r>>}
  BY <1>1, <1>3, SMTT(30) DEF TypeOK, Tell
<1>10. Local(a)
  BY <1>1, <1>4, <1>5, <1>7, <1>8 DEF Local
<1>11. ~Listed(a)' /\ ~Failing(a)' /\ ~Unread(a)' /\ ~Waiting(a)'
  BY <1>1, <1>5, <1>7 DEF Listed, Failing, Unread, Waiting
<1>12. ~Using(a)'
  BY <1>7, <1>11 DEF Using
<1>13. CallInv(a)'
  <2>1. OneUser(a)'
    BY <1>7, <1>11 DEF OneUser
  <2>2. Owned(a)'
    BY <1>5, <1>7, <1>11, <1>12, CallParts DEF Owned
  <2>3. Phases(a)'
    BY <1>1, <1>5, <1>7, <1>6, <1>11, CallParts DEF Phases, Answering
  <2>4. ToldOnce(a)'
    BY <1>7, <1>9, <1>12, ClientAssumption DEF ToldOnce
  <2>. QED
    BY <2>1, <2>2, <2>3, <2>4 DEF CallInv
<1>. QED
  BY <1>10, <1>13, OwnLocal

\* The error path gives the context back only if the timer was stopped in time.
LEMMA OwnFailSwap ==
    ASSUME TypeOK, SeqInv, OwnInv, NEW a \in Calls, FailSwap(a)
    PROVE  OwnInv'
<1>. USE Zenon
<1>1. pc[a] \in {"stopped", "lost"} /\ Stored(a) /\ (Failing(a) <=> pc[a] = "stopped")
  BY Zenon DEF FailSwap, Stored, Numbered, Failing
<1>2. a \in Async /\ resp[a] = "none" /\ ~Unread(a)
  BY <1>1, CallParts DEF Phases, NotAsked
<1>3. /\ pc' = [pc EXCEPT ![a] = "error"]
      /\ UNCHANGED <<seq, pendingCall, obj, owner, buffer, timer, resp, held, result>>
      /\ pool' = pool \/ (Failing(a) /\ pool' = pool \union {obj[a]})
  BY <1>1 DEF FailSwap, seqVars
<1>4. pc'[a] = "error" /\ Stored(a)' /\ \A b \in Calls \ {a} : pc'[b] = pc[b]
  BY <1>3 DEF TypeOK, Stored, Numbered
<1>5. Failing(a) => owner[obj[a]] = a
  BY UsingFact DEF Using
<1>6. Local(a)
  BY <1>1, <1>3, <1>4, <1>5 DEF Local
<1>7. /\ (Listed(a)' <=> Listed(a)) /\ ~Failing(a)' /\ (Expiring(a)' <=> Expiring(a))
      /\ ~Answering(a)' /\ ~Unread(a)' /\ ~Waiting(a)'
  BY <1>1, <1>2, <1>3, <1>4 DEF Listed, Failing, Expiring, Answering, Unread, Waiting
<1>8. (Using(a)' => Using(a)) /\ (Failing(a) => ~Using(a)')
  BY <1>7, CallParts DEF Using, OneUser
<1>9. CallInv(a)'
  <2>1. OneUser(a)'
    BY <1>7, CallParts, Zenon DEF OneUser
  <2>2. Owned(a)'
    BY <1>3, <1>7, <1>8, CallParts DEF Owned
  <2>3. Phases(a)'
    BY <1>1, <1>2, <1>3, <1>4, <1>7, CallParts DEF Phases
  <2>4. ToldOnce(a)'
    BY <1>1, <1>2, <1>3, <1>4, <1>8, CallParts, ClientAssumption DEF ToldOnce
  <2>. QED
    BY <2>1, <2>2, <2>3, <2>4, Zenon DEF CallInv
<1>. QED
  BY <1>6, <1>9, OwnLocal, Zenon

\* A response in the channel of a waiting call is the call's own.
LEMMA OwnResponse ==
    ASSUME TypeOK, OwnInv, NEW a \in Calls, pc[a] = "wait", buffer[obj[a]] # Null
    PROVE  buffer[obj[a]] = a /\ Unread(a)
<1>. USE Zenon
<1>1. a \in Sync /\ Waiting(a)
  BY CallParts DEF Phases, Waiting
<1>2. Stored(a) /\ owner[obj[a]] = a
  BY <1>1, UsingFact DEF Using
<1>3. obj[a] \in Chan /\ buffer[obj[a]] \in Calls
  BY <1>1, <1>2, ObjFact DEF TypeOK
<1>4. PICK b \in Calls : b = buffer[obj[a]]
  BY <1>3, Zenon
<1>5. obj[b] = obj[a] /\ Unread(b)
  BY <1>3, <1>4, CallParts DEF Owned, Unread
<1>6. owner[obj[b]] = b
  BY <1>5, UsingFact DEF Using
<1>. QED
  BY <1>2, <1>4, <1>5, <1>6

\* A synchronous call that returns puts its channel in the pool only if no
\* response can come any more.
LEMMA OwnReturn ==
    ASSUME TypeOK, SeqInv, OwnInv, NEW a \in Calls,
           (\E r \in {"error", "timeout"} : CallFail(a, r)) \/ CallReturn(a) \/ CallTimeout(a)
    PROVE  OwnInv'
<1>. USE Zenon
<1>1. pc[a] \in {"request", "wait"} /\ a \in Sync
  BY CallParts, Zenon DEF CallFail, CallReturn, CallTimeout, Phases
<1>2. /\ Stored(a) /\ Using(a) /\ owner[obj[a]] = a /\ ~Failing(a) /\ ~Expiring(a) /\ result[a] = <<>>
      /\ obj[a] \in Chan
  <2>1. Waiting(a)
    BY <1>1, Zenon DEF Waiting
  <2>2. Using(a)
    BY <2>1, Zenon DEF Using
  <2>. QED
    BY <1>1, <2>2, UsingFact, ObjFact, CallParts, ClientAssumption DEF Failing, Expiring, ToldOnce
<1>3. /\ pc' = [pc EXCEPT ![a] = "done"]
      /\ UNCHANGED <<seq, obj, owner, timer, resp, held>>
  BY Zenon DEF CallFail, CallReturn, CallTimeout, seqVars
<1>4. PICK r \in {"timeout", "error", a} : Tell(a, r)
  BY OwnResponse DEF CallFail, CallReturn, CallTimeout
<1>5. /\ pc'[a] = "done" /\ Stored(a)' /\ result'[a] = <<r>>
      /\ \A b \in Calls \ {a} : pc'[b] = pc[b] /\ result'[b] = result[b]
  <2>1. result \in [Calls -> Seq(Results)] /\ pc \in [Calls -> CallerPhases]
    BY Zenon DEF TypeOK
  <2>. QED
    <3>1. result'[a] = Append(<<>>, r) /\ \A b \in Calls \ {a} : result'[b] = result[b]
      BY <1>2, <1>4, <2>1 DEF Tell
    <3>2. Append(<<>>, r) = <<r>>
      BY SMT
    <3>. QED
      BY <1>3, <2>1, <3>1, <3>2 DEF Stored, Numbered
<1>6. /\ UNCHANGED pendingCall \/ Delete(a)
      /\ UNCHANGED pool \/ pool' = pool \union {obj[a]}
      /\ UNCHANGED buffer \/ (buffer[obj[a]] = a /\ buffer' = [buffer EXCEPT ![obj[a]] = Null])
  BY OwnResponse, Zenon DEF CallFail, CallReturn, CallTimeout
<1>7. /\ \A b \in Calls \ {a}, c \in Chan : buffer'[c] = b <=> buffer[c] = b
      /\ \A c \in Chan : buffer'[c] = a => buffer[c] = a
  <2>1. buffer \in [Chan -> Calls \union {Null}] /\ Null \notin Calls
    BY ClientAssumption DEF TypeOK
  <2>. QED
    BY <1>2, <1>6, <2>1
<1>8. Local(a)
  BY <1>2, <1>3, <1>5, <1>6, <1>7 DEF Local
<1>9. /\ ~Listed(a)' /\ ~Failing(a)' /\ ~Expiring(a)' /\ (Answering(a)' <=> Answering(a))
      /\ ~Waiting(a)' /\ (Unread(a)' => Unread(a))
  <2>1. ~Listed(a)'
    <3>1. CASE Delete(a)
      BY <1>3, <3>1 DEF Delete, Listed, TypeOK
    <3>2. CASE CallReturn(a)
      BY <1>2, <1>3, <3>2, OwnResponse, CallParts DEF CallReturn, OneUser, Listed
    <3>. QED
      BY <3>1, <3>2 DEF CallFail, CallTimeout
  <2>2. Unread(a)' => Unread(a)
    BY <1>7 DEF Unread
  <2>. QED
    BY <1>1, <1>3, <1>5, <2>1, <2>2, ClientAssumption DEF Failing, Expiring, Answering, Waiting
<1>10. UNCHANGED pool \/ ~Using(a)'
  <2>1. ASSUME NEW q \in {"error", "timeout"}, CallFail(a, q) PROVE ~Using(a)'
    BY <1>9, <2>1, CallParts DEF CallFail, Phases, NotAsked, Answering, Using
  <2>2. CASE CallReturn(a)
    <3>1. ~Answering(a)
      BY <2>2, OwnResponse, CallParts DEF CallReturn, OneUser
    <3>2. \A c \in Chan : buffer'[c] # a
      BY <2>2, <1>2, CallParts, ClientAssumption, ZenonT(30) DEF CallReturn, Owned, TypeOK
    <3>. QED
      BY <1>9, <3>1, <3>2 DEF Using, Unread
  <2>3. CASE CallTimeout(a) /\ InTable(a)
    BY <1>2, <1>9, <2>3, ListedFact, CallParts, Zenon DEF OneUser, Using
  <2>. QED
    BY <2>1, <2>2, <2>3 DEF CallTimeout
<1>11. CallInv(a)'
  <2>1. OneUser(a)'
    BY <1>9, CallParts DEF OneUser
  <2>2. Using(a)' => obj[a] \notin pool'
    BY <1>2, <1>10, UsingFact
  <2>3. Owned(a)'
    BY <1>2, <1>3, <1>7, <1>9, <2>2, CallParts DEF Owned
  <2>4. Phases(a)'
    BY <1>1, <1>2, <1>3, <1>5, CallParts DEF Phases, NotAsked
  <2>5. ToldOnce(a)'
    BY <1>1, <1>5, ClientAssumption DEF ToldOnce
  <2>. QED
    BY <2>1, <2>3, <2>4, <2>5 DEF CallInv
<1>. QED
  BY <1>8, <1>11, OwnLocal

LEMMA OwnStep ==
    ASSUME Inv, [Next]_vars
    PROVE  OwnInv'
<1>. USE Zenon
<1>. TypeOK /\ SeqInv /\ OwnInv
  BY Zenon DEF Inv
<1>1. CASE Tick \/ UNCHANGED vars
  <2>1. UNCHANGED <<seq, pendingCall, pool, obj, owner, buffer, pc, timer, resp, held, result>>
    BY <1>1, Zenon DEF Tick, vars
  <2>2. Listing'
    BY <2>1 DEF OwnInv, Listing, Stored, Numbered
  <2>3. \A a \in Calls : Apart(a)
    BY <2>1, UsingFact, Zenon DEF Apart
  <2>4. \A a \in Calls : CallInv(a)'
    BY <2>3, ApartSafe DEF OwnInv
  <2>. QED
    BY <2>2, <2>4, Zenon DEF OwnInv
<1>2. ASSUME NEW a \in Calls, CallStep(a) \/ Answer(a)
      PROVE  OwnInv'
  BY <1>2, OwnQuiet, OwnStore, OwnFailDelete, OwnStop, OwnFailSwap, OwnReturn DEF CallStep
<1>3. ASSUME NEW a \in Calls, RespStep(a)
      PROVE  OwnInv'
  <2>1. CASE RespFire(a)
    <3>1. a \in Async
      BY <2>1, CallParts DEF RespFire, Phases
    <3>. QED
      BY <2>1, <3>1, OwnLast
  <2>. QED
    BY <1>3, <2>1, OwnRespDelete, OwnRespChan, OwnStop DEF RespStep
<1>4. ASSUME NEW a \in Async, TimerStep(a)
      PROVE  OwnInv'
  BY <1>4, OwnQuiet, OwnTimerDelete, OwnLast DEF TimerStep, Calls
<1>. QED
  BY <1>1, <1>2, <1>3, <1>4 DEF Next

-----------------------------------------------------------------------------
(* The theorems *)

\* As long as no second sees more calls than the counter has values, the sequence
\* numbers, the table and the pools of client.go stay consistent: Inv is inductive.
THEOREM ClientCorrect == Spec /\ []FewPerSecond => []Inv
<1>1. Init => Inv
  BY TypeInit, SeqInit, OwnInit DEF Inv
<1>2. Inv /\ FewPerSecond' /\ [Next]_vars => Inv'
  BY TypeStep, SeqStep, OwnStep DEF Inv
<1>. QED
  BY <1>1, <1>2, PTL DEF Spec

\* Two calls never use the same sequence number.
THEOREM SequencesUnique == Spec /\ []FewPerSecond => []UniqueSeq
<1>1. Inv => UniqueSeq
  BY DEF Inv, SeqInv
<1>. QED
  BY <1>1, ClientCorrect, PTL

\* A caller is told the outcome at most once, and only its own response.
THEOREM AnswerIsOwn == Spec /\ []FewPerSecond => []OwnAnswerOnce
<1>1. Inv => OwnAnswerOnce
  <2>. SUFFICES ASSUME Inv, NEW a \in Calls
                PROVE  Len(result[a]) <= 1 /\ Told(a) \intersect Calls \subseteq {a}
    BY Zenon DEF OwnAnswerOnce
  <2>1. result[a] = <<>> \/ \E r \in {"timeout", "error", a} : result[a] = <<r>>
    BY Zenon DEF Inv, OwnInv, CallInv, ToldOnce
  <2>2. CASE result[a] = <<>>
    BY <2>2 DEF Told
  <2>3. ASSUME NEW r \in {"timeout", "error", a}, result[a] = <<r>>
        PROVE  Len(result[a]) <= 1 /\ Told(a) \intersect Calls \subseteq {a}
    <3>1. Len(result[a]) = 1 /\ Told(a) = {r}
      BY <2>3 DEF Told
    <3>. QED
      BY <3>1, ClientAssumption
  <2>. QED
    BY <2>1, <2>2, <2>3, Zenon
<1>. QED
  BY <1>1, ClientCorrect, PTL

\* What is in a pool is in the hands of nobody.
THEOREM PooledIsFree == Spec /\ []FewPerSecond => []PoolFree
<1>1. Inv => PoolFree
  <2>. USE Zenon
  <2>. SUFFICES ASSUME Inv, NEW c \in pool
                PROVE  /\ \A s \in Seqs : pendingCall[s] # c
                       /\ c \in Chan => buffer[c] = Null
                       /\ \A a \in Calls : resp[a] \in {"taken", "fire", "firePut"} => held[a] # c
                       /\ \A a \in Async : timer[a] = "taken" => obj[a] # c
    BY Zenon DEF PoolFree
  <2>. TypeOK /\ OwnInv
    BY Zenon DEF Inv
  <2>0. c \in Objs /\ c # Null
    BY ClientAssumption DEF TypeOK
  <2>1. ASSUME NEW s \in Seqs, pendingCall[s] = c PROVE FALSE
    <3>1. PICK a \in Calls : Stored(a) /\ seq[a] = s
      BY <2>0, <2>1, Zenon DEF OwnInv, Listing
    <3>2. Listed(a) /\ obj[a] = c
      BY <2>0, <2>1, <3>1, ListedFact DEF InTable
    <3>. QED
      BY <3>2, UsingFact, Zenon DEF Using
  <2>2. ASSUME c \in Chan, buffer[c] # Null PROVE FALSE
    <3>1. PICK a \in Calls : buffer[c] = a
      BY <2>2, Zenon DEF TypeOK
    <3>2. Unread(a) /\ obj[a] = c
      BY <2>2, <3>1, CallParts, Zenon DEF Unread, Owned
    <3>. QED
      BY <3>2, UsingFact, Zenon DEF Using
  <2>3. ASSUME NEW a \in Calls, Answering(a) PROVE held[a] # c
    <3>1. obj[a] \notin pool
      BY <2>3, UsingFact, Zenon DEF Using
    <3>. QED
      BY <2>3, <3>1, CallParts DEF Owned
  <2>4. ASSUME NEW a \in Async, timer[a] = "taken" PROVE obj[a] # c
    BY <2>4, UsingFact, Zenon DEF Using, Expiring, Calls
  <2>. QED
    BY <2>1, <2>2, <2>3, <2>4, Zenon DEF Answering
<1>. QED
  BY <1>1, ClientCorrect, PTL
=============================================================================
