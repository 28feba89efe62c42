----------------------------- MODULE RpcClient -----------------------------
(***************************************************************************)
(* The RPC client (rpc/client.go): sequence numbers, the table of pending  *)
(* calls, and the races between a response, the deadline of the call and   *)
(* a request that fails, over call contexts that are recycled in pools.    *)
(*                                                                         *)
(* A call runs in its own goroutine.  The deadline of an asynchronous call *)
(* runs the timer's function in another one, and a response is handled by  *)
(* a third.  Each atomic operation on shared state is a step: the table's  *)
(* LoadAndDelete, Timer.Stop, the compare-and-swap of `fired', Pool.Put.   *)
(***************************************************************************)
EXTENDS Naturals, FiniteSets, Sequences

CONSTANTS
    Async, Sync,    \* calls made with AsyncCall and with Call
    Ctx, Chan,      \* the asynContext objects and syncContext channels
    Null,           \* no context
    MayFail,        \* calls whose Request may return an error
    MaxClock,       \* bound: seconds that pass
    SeqRange        \* number of values of nextSequence (2^32)

Calls == Async \union Sync
Objs == Ctx \union Chan

ASSUME ClientAssumption ==
    /\ Async \intersect Sync = {}
    /\ Ctx \intersect Chan = {}
    /\ Null \notin Objs \union Calls
    /\ {"timeout", "error"} \intersect Calls = {}
    /\ MayFail \subseteq Calls
    /\ MaxClock \in Nat \ {0} /\ SeqRange \in Nat \ {0, 1}

\* timestamp<<32 + nextSequence
Seqs == [ts : 0..MaxClock, n : 0..(SeqRange - 1)]
NoSeq == [ts |-> 0, n |-> 0]

VARIABLES
    clock,          \* seconds since the client's epoch
    timestamp,      \* Client.timestamp
    nextSequence,   \* Client.nextSequence
    read,           \* the time a call read before it took the lock
    seq,            \* RequestMsg.Seq of each call
    pendingCall,    \* the sharded table: sequence number -> context
    pool,           \* contexts in asynCtxPool and syncCtxPool
    obj,            \* the context a call works with
    owner,          \* the call whose callback, result and request a context holds
    fired,          \* asynContext.fired
    buffer,         \* the response a channel holds
    pc,             \* the calling goroutine
    timer,          \* the call's timer and its function
    resp,           \* the response to the call and the goroutine that handles it
    held,           \* the context that goroutine took from the table
    result          \* what the caller was told, in order

vars == <<clock, timestamp, nextSequence, read, seq, pendingCall, pool, obj, owner,
          fired, buffer, pc, timer, resp, held, result>>

seqVars == <<clock, timestamp, nextSequence, read, seq>>

\* After a failed request: "deleted" the call was still in the table; "stopped"
\* its timer was stopped; "lost" one of the two was not the case.
CallerPhases == {"idle", "sequence", "store", "request", "wait",
                 "failed", "deleted", "stopped", "lost", "done", "error"}
TimerPhases == {"off", "armed", "running", "taken", "done"}
\* "due": the server has the request; "fire", "firePut": the timer's fate is known.
RespPhases == {"none", "due", "sent", "taken", "fire", "firePut", "done"}

\* A response is named by the call it answers.
Results == {"timeout", "error"} \union Calls

TypeOK ==
    /\ clock \in 0..MaxClock /\ timestamp \in 0..MaxClock
    /\ nextSequence \in 0..(SeqRange - 1)
    /\ read \in [Calls -> 0..MaxClock]
    /\ seq \in [Calls -> Seqs]
    /\ pendingCall \in [Seqs -> Objs \union {Null}]
    /\ pool \subseteq Objs
    /\ obj \in [Calls -> Objs \union {Null}]
    /\ owner \in [Objs -> Calls \union {Null}]
    /\ fired \in [Ctx -> BOOLEAN]
    /\ buffer \in [Chan -> Calls \union {Null}]
    /\ pc \in [Calls -> CallerPhases]
    /\ timer \in [Async -> TimerPhases]
    /\ resp \in [Calls -> RespPhases]
    /\ held \in [Calls -> Objs \union {Null}]
    /\ result \in [Calls -> Seq(Results)]

Init ==
    /\ clock = 1 /\ timestamp = 0 /\ nextSequence = 0
    /\ read = [a \in Calls |-> 0]
    /\ seq = [a \in Calls |-> NoSeq]
    /\ pendingCall = [s \in Seqs |-> Null]
    /\ pool = {}
    /\ obj = [a \in Calls |-> Null]
    /\ owner = [c \in Objs |-> Null]
    /\ fired = [c \in Ctx |-> FALSE]
    /\ buffer = [c \in Chan |-> Null]
    /\ pc = [a \in Calls |-> "idle"]
    /\ timer = [a \in Async |-> "off"]
    /\ resp = [a \in Calls |-> "none"]
    /\ held = [a \in Calls |-> Null]
    /\ result = [a \in Calls |-> <<>>]

-----------------------------------------------------------------------------
(* Sequence numbers *)

Tick ==
    /\ clock < MaxClock
    /\ clock' = clock + 1
    /\ UNCHANGED <<timestamp, nextSequence, read, seq, pendingCall, pool, obj, owner,
                   fired, buffer, pc, timer, resp, held, result>>

\* getTimeStamp, outside the lock.
getTimeStamp(a) ==
    /\ pc[a] = "idle"
    /\ read' = [read EXCEPT ![a] = clock]
    /\ pc' = [pc EXCEPT ![a] = "sequence"]
    /\ UNCHANGED <<clock, timestamp, nextSequence, seq, pendingCall, pool, obj, owner,
                   fired, buffer, timer, resp, held, result>>

\* Mutant: a second that is not newer starts again.
Sequence_Restarts(t) ==
    IF t >= timestamp
    THEN [ts |-> t, n |-> 1]
    ELSE [ts |-> timestamp, n |-> (nextSequence + 1) % SeqRange]

\* A new second starts at 1, a second that is not newer goes on (uint32).
Sequence(t) ==
    IF t > timestamp
    THEN [ts |-> t, n |-> 1]
    ELSE [ts |-> timestamp, n |-> (nextSequence + 1) % SeqRange]

makeSequence(a) ==
    /\ pc[a] = "sequence"
    /\ LET s == Sequence(read[a])
       IN /\ timestamp' = s.ts
          /\ nextSequence' = s.n
          /\ seq' = [seq EXCEPT ![a] = s]
    /\ pc' = [pc EXCEPT ![a] = "store"]
    /\ UNCHANGED <<clock, read, pendingCall, pool, obj, owner, fired, buffer, timer,
                   resp, held, result>>

-----------------------------------------------------------------------------
(* Helpers *)

\* sync.Pool.Get: a context of the pool, or a new one.
Get(kind) == {c \in kind : c \in pool \/ owner[c] = Null}

InTable(a) == pendingCall[seq[a]] # Null

Delete(a) == pendingCall' = [pendingCall EXCEPT ![seq[a]] = Null]

Tell(a, r) == result' = [result EXCEPT ![a] = Append(@, r)]

\* callOnResponse: the winner of the swap calls the callback the context holds.
callOnResponse(c, r) ==
    IF fired[c]
    THEN UNCHANGED <<fired, result>>
    ELSE fired' = [fired EXCEPT ![c] = TRUE] /\ Tell(owner[c], r)

\* Timer.Stop: it has not run its function.
Stoppable(c) == timer[owner[c]] = "armed"

Stop(c) == timer' = IF Stoppable(c) THEN [timer EXCEPT ![owner[c]] = "done"] ELSE timer

-----------------------------------------------------------------------------
(* AsyncCall *)

\* Mutant: a recycled context keeps its mark.
StoreAsync_NoReset(a) ==
    /\ pc[a] = "store" /\ a \in Async
    /\ \E c \in Get(Ctx) :
         /\ pool' = pool \ {c}
         /\ obj' = [obj EXCEPT ![a] = c]
         /\ owner' = [owner EXCEPT ![c] = a]
         /\ pendingCall' = [pendingCall EXCEPT ![seq[a]] = c]
    /\ timer' = [timer EXCEPT ![a] = "armed"]
    /\ pc' = [pc EXCEPT ![a] = "request"]
    /\ UNCHANGED <<seqVars, fired, buffer, resp, held, result>>

\* A context is taken and filled in, stored in the table, and its timer set.
StoreAsync(a) ==
    /\ pc[a] = "store" /\ a \in Async
    /\ \E c \in Get(Ctx) :
         /\ pool' = pool \ {c}
         /\ obj' = [obj EXCEPT ![a] = c]
         /\ owner' = [owner EXCEPT ![c] = a]
         /\ fired' = [fired EXCEPT ![c] = FALSE]
         /\ pendingCall' = [pendingCall EXCEPT ![seq[a]] = c]
    /\ timer' = [timer EXCEPT ![a] = "armed"]
    /\ pc' = [pc EXCEPT ![a] = "request"]
    /\ UNCHANGED <<seqVars, buffer, resp, held, result>>

\* channel.Request succeeds; the server has the request.
RequestOK(a) ==
    /\ pc[a] = "request"
    /\ pc' = [pc EXCEPT ![a] = IF a \in Async THEN "done" ELSE "wait"]
    /\ resp' = [resp EXCEPT ![a] = "due"]
    /\ UNCHANGED <<seqVars, pendingCall, pool, obj, owner, fired, buffer, timer, held, result>>

RequestFail(a) ==
    /\ pc[a] = "request" /\ a \in Async \intersect MayFail
    /\ pc' = [pc EXCEPT ![a] = "failed"]
    /\ UNCHANGED <<seqVars, pendingCall, pool, obj, owner, fired, buffer, timer, resp, held, result>>

FailDelete(a) ==
    /\ pc[a] = "failed"
    /\ pc' = [pc EXCEPT ![a] = IF InTable(a) THEN "deleted" ELSE "lost"]
    /\ Delete(a)
    /\ UNCHANGED <<seqVars, pool, obj, owner, fired, buffer, timer, resp, held, result>>

FailStop(a) ==
    /\ pc[a] = "deleted"
    /\ pc' = [pc EXCEPT ![a] = IF Stoppable(obj[a]) THEN "stopped" ELSE "lost"]
    /\ Stop(obj[a])
    /\ UNCHANGED <<seqVars, pendingCall, pool, obj, owner, fired, buffer, resp, held, result>>

\* The swap decides whether the timeout was first; AsyncCall returns the error.
FailSwap(a) ==
    /\ pc[a] \in {"stopped", "lost"}
    /\ pc' = [pc EXCEPT ![a] = "error"]
    /\ fired' = [fired EXCEPT ![obj[a]] = TRUE]
    /\ pool' = IF pc[a] = "stopped" /\ ~fired[obj[a]] THEN pool \union {obj[a]} ELSE pool
    /\ UNCHANGED <<seqVars, pendingCall, obj, owner, buffer, timer, resp, held, result>>

\* The deadline: the timer's function starts.
TimerFire(a) ==
    /\ timer[a] = "armed"
    /\ timer' = [timer EXCEPT ![a] = "running"]
    /\ UNCHANGED <<seqVars, pendingCall, pool, obj, owner, fired, buffer, pc, resp, held, result>>

TimerDelete(a) ==
    /\ timer[a] = "running"
    /\ timer' = [timer EXCEPT ![a] = IF InTable(a) THEN "taken" ELSE "done"]
    /\ Delete(a)
    /\ UNCHANGED <<seqVars, pool, obj, owner, fired, buffer, pc, resp, held, result>>

onTimeout(a) ==
    /\ timer[a] = "taken"
    /\ timer' = [timer EXCEPT ![a] = "done"]
    /\ callOnResponse(obj[a], "timeout")
    /\ pool' = IF fired[obj[a]] THEN pool ELSE pool \union {obj[a]}
    /\ UNCHANGED <<seqVars, pendingCall, obj, owner, buffer, pc, resp, held>>

-----------------------------------------------------------------------------
(* Call *)

StoreSync(a) ==
    /\ pc[a] = "store" /\ a \in Sync
    /\ \E c \in Get(Chan) :
         /\ pool' = pool \ {c}
         /\ obj' = [obj EXCEPT ![a] = c]
         /\ owner' = [owner EXCEPT ![c] = a]
         /\ pendingCall' = [pendingCall EXCEPT ![seq[a]] = c]
    /\ pc' = [pc EXCEPT ![a] = "request"]
    /\ UNCHANGED <<seqVars, fired, buffer, timer, resp, held, result>>

\* The request fails for good, or fails and the context is done before the next
\* attempt; a retry changes nothing.
CallFail(a, r) ==
    /\ pc[a] = "request" /\ a \in Sync \intersect MayFail
    /\ r \in {"error", "timeout"}
    /\ Delete(a)
    /\ pool' = pool \union {obj[a]}
    /\ Tell(a, r)
    /\ pc' = [pc EXCEPT ![a] = "done"]
    /\ UNCHANGED <<seqVars, obj, owner, fired, buffer, timer, resp, held>>

CallReturn(a) ==
    /\ pc[a] = "wait"
    /\ buffer[obj[a]] # Null
    /\ Tell(a, buffer[obj[a]])
    /\ buffer' = [buffer EXCEPT ![obj[a]] = Null]
    /\ pool' = pool \union {obj[a]}
    /\ pc' = [pc EXCEPT ![a] = "done"]
    /\ UNCHANGED <<seqVars, pendingCall, obj, owner, fired, timer, resp, held>>

\* Mutant: the channel goes back to the pool although a response is on its way.
CallTimeout_Puts(a) ==
    /\ pc[a] = "wait"
    /\ pool' = pool \union {obj[a]}
    /\ Delete(a)
    /\ Tell(a, "timeout")
    /\ pc' = [pc EXCEPT ![a] = "done"]
    /\ UNCHANGED <<seqVars, obj, owner, fired, buffer, timer, resp, held>>

\* ctx.Done: the channel is reused only if no response can be sent to it.
CallTimeout(a) ==
    /\ pc[a] = "wait"
    /\ pool' = IF InTable(a) THEN pool \union {obj[a]} ELSE pool
    /\ Delete(a)
    /\ Tell(a, "timeout")
    /\ pc' = [pc EXCEPT ![a] = "done"]
    /\ UNCHANGED <<seqVars, obj, owner, fired, buffer, timer, resp, held>>

-----------------------------------------------------------------------------
(* OnMessage *)

\* The server answers; a lost answer is one that is never sent.
Answer(a) ==
    /\ resp[a] = "due"
    /\ resp' = [resp EXCEPT ![a] = "sent"]
    /\ UNCHANGED <<seqVars, pendingCall, pool, obj, owner, fired, buffer, pc, timer, held, result>>

\* Mutant: the entry is read and left in the table.
RespDelete_Load(a) ==
    /\ resp[a] = "sent"
    /\ resp' = [resp EXCEPT ![a] = IF InTable(a) THEN "taken" ELSE "done"]
    /\ held' = [held EXCEPT ![a] = pendingCall[seq[a]]]
    /\ UNCHANGED <<seqVars, pendingCall, pool, obj, owner, fired, buffer, pc, timer, result>>

RespDelete(a) ==
    /\ resp[a] = "sent"
    /\ resp' = [resp EXCEPT ![a] = IF InTable(a) THEN "taken" ELSE "done"]
    /\ held' = [held EXCEPT ![a] = pendingCall[seq[a]]]
    /\ Delete(a)
    /\ UNCHANGED <<seqVars, pool, obj, owner, fired, buffer, pc, timer, result>>

RespChan(a) ==
    /\ resp[a] = "taken" /\ held[a] \in Chan
    /\ buffer[held[a]] = Null
    /\ buffer' = [buffer EXCEPT ![held[a]] = a]
    /\ resp' = [resp EXCEPT ![a] = "done"]
    /\ UNCHANGED <<seqVars, pendingCall, pool, obj, owner, fired, pc, timer, held, result>>

RespStop(a) ==
    /\ resp[a] = "taken" /\ held[a] \in Ctx
    /\ resp' = [resp EXCEPT ![a] = IF Stoppable(held[a]) THEN "firePut" ELSE "fire"]
    /\ Stop(held[a])
    /\ UNCHANGED <<seqVars, pendingCall, pool, obj, owner, fired, buffer, pc, held, result>>

RespFire(a) ==
    /\ resp[a] \in {"fire", "firePut"}
    /\ callOnResponse(held[a], a)
    /\ pool' = IF resp[a] = "firePut" THEN pool \union {held[a]} ELSE pool
    /\ resp' = [resp EXCEPT ![a] = "done"]
    /\ UNCHANGED <<seqVars, pendingCall, obj, owner, buffer, pc, timer, held>>

-----------------------------------------------------------------------------
(* The specification *)

CallStep(a) ==
    \/ getTimeStamp(a) \/ makeSequence(a) \/ StoreAsync(a) \/ StoreSync(a)
    \/ RequestOK(a) \/ RequestFail(a) \/ FailDelete(a) \/ FailStop(a) \/ FailSwap(a)
    \/ \E r \in {"error", "timeout"} : CallFail(a, r)
    \/ CallReturn(a) \/ CallTimeout(a)

TimerStep(a) == TimerFire(a) \/ TimerDelete(a) \/ onTimeout(a)

RespStep(a) == RespDelete(a) \/ RespChan(a) \/ RespStop(a) \/ RespFire(a)

Next ==
    \/ Tick
    \/ \E a \in Calls : CallStep(a) \/ Answer(a) \/ RespStep(a)
    \/ \E a \in Async : TimerStep(a)

Spec == Init /\ [][Next]_vars

\* Some goroutine runs as long as one can, and deadlines come; the server need not
\* answer, and no request need be made.
Fairness ==
    WF_vars(\/ \E a \in Calls : (CallStep(a) /\ pc[a] # "idle") \/ RespStep(a)
            \/ \E a \in Async : TimerStep(a))

FairSpec == Spec /\ Fairness

-----------------------------------------------------------------------------
(* Properties *)

Told(a) == {result[a][i] : i \in DOMAIN result[a]}

\* Two calls never use the same sequence number, although the clock is read
\* outside the lock and calls of the same second overtake each other.
UniqueSeq ==
    \A a, b \in Calls : a # b /\ seq[a] # NoSeq => seq[a] # seq[b]

\* A caller is told the outcome at most once, and a response only reaches the
\* call it answers: contexts and channels are recycled while the response, the
\* deadline and the error path may still hold them.
OwnAnswerOnce ==
    \A a \in Calls : Len(result[a]) <= 1 /\ Told(a) \intersect Calls \subseteq {a}

\* What is in a pool is out of the table, holds no stale response, and no timer
\* or response goroutine is about to use it.
PoolFree ==
    \A c \in pool :
        /\ \A s \in Seqs : pendingCall[s] # c
        /\ c \in Chan => buffer[c] = Null
        /\ \A a \in Calls : resp[a] \in {"taken", "fire", "firePut"} => held[a] # c
        /\ \A a \in Async : timer[a] = "taken" => obj[a] # c

\* Every asynchronous call that was accepted gets its callback, and every
\* synchronous call returns.
Answered ==
    /\ \A a \in Async : pc[a] = "done" ~> result[a] # <<>>
    /\ \A a \in Sync : pc[a] = "wait" ~> result[a] # <<>>
=============================================================================
