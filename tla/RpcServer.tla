----------------------------- MODULE RpcServer -----------------------------
(***************************************************************************)
(* The RPC server of a node (rpc/server.go), the interceptor that counts   *)
(* unanswered requests (RPCServer in rpc.go) and the graceful stop that    *)
(* waits for that count (Node.Stop in cluster.go).                         *)
(*                                                                         *)
(* A request is handled by the goroutine that received it.  A method may   *)
(* hand its Replyer to another goroutine, so that two of them may call     *)
(* Reply or Error.  The steps are the atomic operations on shared state:   *)
(* the load of stoped, the method lookup, the counter's Add, the swap of   *)
(* replyed, the send of the response.                                      *)
(***************************************************************************)
EXTENDS Integers, FiniteSets

CONSTANTS
    Reqs,           \* requests that reach the server
    Oneway,         \* those that want no response
    Silent,         \* those whose method may return and never reply
    Names,          \* method names
    MaxRegister     \* bound: registrations and removals of methods

ASSUME ServerAssumption ==
    /\ IsFiniteSet(Reqs)
    /\ Oneway \subseteq Reqs /\ Silent \subseteq Reqs
    /\ MaxRegister \in Nat

VARIABLES
    methods,        \* Server.methods
    registered,     \* registrations and removals so far
    stoped,         \* Server.stoped
    count,          \* RPCServer.pendingRespCount
    name,           \* RequestMsg.Method
    at,             \* the goroutine that handles the request
    worker,         \* a goroutine the method started has the Replyer
    counted,        \* the Replyer has the interceptor that takes the request off the count
    replyed,        \* Replyer.replyed
    call,           \* where each goroutine is in Reply or Error
    answers,        \* responses handed to the channel
    lost,           \* responses the channel could not send
    stop            \* Node.Stop

vars == <<methods, registered, stoped, count, name, at, worker, counted, replyed,
          call, answers, lost, stop>>

reqVars == <<methods, registered, stoped, stop>>

Goroutines == {"handler", "worker"}
Phases == {"idle", "check", "lookup", "decode", "intercept", "method", "error", "done"}

TypeOK ==
    /\ methods \subseteq Names /\ registered \in 0..MaxRegister
    /\ stoped \in BOOLEAN
    /\ count \in Nat
    /\ name \in [Reqs -> Names]
    /\ at \in [Reqs -> Phases]
    /\ worker \in [Reqs -> BOOLEAN]
    /\ counted \in [Reqs -> BOOLEAN]
    /\ replyed \in [Reqs -> BOOLEAN]
    /\ call \in [Reqs -> [Goroutines -> {"no", "swapped", "intercepted"}]]
    /\ answers \in [Reqs -> Nat]
    /\ lost \in [Reqs -> BOOLEAN]
    /\ stop \in {"running", "draining", "closed", "dead"}

Init ==
    /\ methods = {} /\ registered = 0
    /\ stoped = FALSE
    /\ count = 0
    /\ name \in [Reqs -> Names]
    /\ at = [r \in Reqs |-> "idle"]
    /\ worker = [r \in Reqs |-> FALSE]
    /\ counted = [r \in Reqs |-> FALSE]
    /\ replyed = [r \in Reqs |-> FALSE]
    /\ call = [r \in Reqs |-> [g \in Goroutines |-> "no"]]
    /\ answers = [r \in Reqs |-> 0]
    /\ lost = [r \in Reqs |-> FALSE]
    /\ stop = "running"

-----------------------------------------------------------------------------
(* Methods come and go *)

Register(m) ==
    /\ registered < MaxRegister
    /\ m \notin methods
    /\ methods' = methods \union {m}
    /\ registered' = registered + 1
    /\ UNCHANGED <<stoped, count, name, at, worker, counted, replyed, call, answers, lost, stop>>

UnRegister(m) ==
    /\ registered < MaxRegister
    /\ m \in methods
    /\ methods' = methods \ {m}
    /\ registered' = registered + 1
    /\ UNCHANGED <<stoped, count, name, at, worker, counted, replyed, call, answers, lost, stop>>

-----------------------------------------------------------------------------
(* OnMessage *)

Goto(r, p) == at' = [at EXCEPT ![r] = p]

\* A request is read from a socket that is still open.
Receive(r) ==
    /\ at[r] = "idle"
    /\ stop \in {"running", "draining"}
    /\ Goto(r, "check")
    /\ UNCHANGED <<reqVars, count, name, worker, counted, replyed, call, answers, lost>>

CheckStoped(r) ==
    /\ at[r] = "check"
    /\ Goto(r, IF stoped THEN "error" ELSE "lookup")
    /\ UNCHANGED <<reqVars, count, name, worker, counted, replyed, call, answers, lost>>

Lookup(r) ==
    /\ at[r] = "lookup"
    /\ Goto(r, IF name[r] \in methods THEN "decode" ELSE "error")
    /\ UNCHANGED <<reqVars, count, name, worker, counted, replyed, call, answers, lost>>

\* Mutant: a request with a bad argument is dropped.
Decode_Drops(r) ==
    /\ at[r] = "decode"
    /\ Goto(r, "intercept") \/ Goto(r, "done")
    /\ UNCHANGED <<reqVars, count, name, worker, counted, replyed, call, answers, lost>>

\* The argument can be decoded or not.
Decode(r) ==
    /\ at[r] = "decode"
    /\ Goto(r, "intercept") \/ Goto(r, "error")
    /\ UNCHANGED <<reqVars, count, name, worker, counted, replyed, call, answers, lost>>

\* The in-interceptor of the node: the request is counted, and the Replyer is
\* told to take it off the count.
Intercept(r) ==
    /\ at[r] = "intercept"
    /\ count' = count + 1
    /\ counted' = [counted EXCEPT ![r] = TRUE]
    /\ Goto(r, "method")
    /\ UNCHANGED <<reqVars, name, worker, replyed, call, answers, lost>>

InCall(r, g) == call[r][g] # "no"

\* The method gives its Replyer to another goroutine.
MethodSpawn(r) ==
    /\ at[r] = "method" /\ ~InCall(r, "handler")
    /\ ~worker[r]
    /\ worker' = [worker EXCEPT ![r] = TRUE]
    /\ UNCHANGED <<reqVars, count, name, at, counted, replyed, call, answers, lost>>

\* The method returns: it has replied or someone has the Replyer, unless it is silent.
MethodReturn(r) ==
    /\ at[r] = "method" /\ ~InCall(r, "handler")
    /\ replyed[r] \/ worker[r] \/ r \in Silent
    /\ Goto(r, "done")
    /\ UNCHANGED <<reqVars, count, name, worker, counted, replyed, call, answers, lost>>

\* The deferred recover turns a panic into an error.
MethodPanic(r) ==
    /\ at[r] = "method" /\ ~InCall(r, "handler")
    /\ Goto(r, "error")
    /\ UNCHANGED <<reqVars, count, name, worker, counted, replyed, call, answers, lost>>

-----------------------------------------------------------------------------
(* Replyer.Reply and Replyer.Error *)

\* Mutant: every caller goes on, whoever was first.
Swap_Always(r, g) ==
    /\ replyed' = [replyed EXCEPT ![r] = TRUE]
    /\ call' = [call EXCEPT ![r][g] = "swapped"]

\* The compare-and-swap: only the first caller goes on.
Swap(r, g) ==
    /\ replyed' = [replyed EXCEPT ![r] = TRUE]
    /\ call' = IF replyed[r] THEN call ELSE [call EXCEPT ![r][g] = "swapped"]

\* The method, or the goroutine it gave the Replyer to, replies.
Reply(r, g) ==
    /\ ~InCall(r, g)
    /\ g = "handler" => at[r] = "method"
    /\ g = "worker" => worker[r]
    /\ Swap(r, g)
    /\ worker' = [worker EXCEPT ![r] = IF g = "worker" THEN FALSE ELSE worker[r]]
    /\ UNCHANGED <<reqVars, count, name, at, counted, answers, lost>>

\* Mutant: the error is sent without the out-interceptors.
Error_NoIntercept(r) ==
    /\ at[r] = "error" /\ ~InCall(r, "handler")
    /\ replyed' = [replyed EXCEPT ![r] = TRUE]
    /\ call' = IF replyed[r] THEN call ELSE [call EXCEPT ![r]["handler"] = "intercepted"]
    /\ Goto(r, "done")
    /\ UNCHANGED <<reqVars, count, name, worker, counted, answers, lost>>

\* An interceptor of the application comes before the one that counts: it replies
\* and ends the request, or panics.
Reject(r) ==
    /\ at[r] = "intercept"
    /\ \/ Swap(r, "handler") /\ Goto(r, "done")
       \/ Goto(r, "error") /\ UNCHANGED <<replyed, call>>
    /\ UNCHANGED <<reqVars, count, name, worker, counted, answers, lost>>

\* OnMessage replies with the error.
Error(r) ==
    /\ at[r] = "error" /\ ~InCall(r, "handler")
    /\ Swap(r, "handler")
    /\ Goto(r, "done")
    /\ UNCHANGED <<reqVars, count, name, worker, counted, answers, lost>>

\* Mutant: the count goes down for a request that was not counted, too.
callOutInterceptor_All(r, g) ==
    /\ call[r][g] = "swapped"
    /\ count' = count - 1
    /\ call' = [call EXCEPT ![r][g] = "intercepted"]
    /\ UNCHANGED <<reqVars, name, at, worker, counted, replyed, answers, lost>>

\* The out-interceptors; one of them takes the request off the count.
callOutInterceptor(r, g) ==
    /\ call[r][g] = "swapped"
    /\ count' = IF counted[r] THEN count - 1 ELSE count
    /\ call' = [call EXCEPT ![r][g] = "intercepted"]
    /\ UNCHANGED <<reqVars, name, at, worker, counted, replyed, answers, lost>>

Open == stop \in {"running", "draining"}

\* channel.Reply, unless the request is one-way; what is sent after the
\* sockets were closed may be lost.
Send(r, g) ==
    /\ call[r][g] = "intercepted"
    /\ call' = [call EXCEPT ![r][g] = "no"]
    /\ IF r \in Oneway
       THEN UNCHANGED <<answers, lost>>
       ELSE /\ answers' = [answers EXCEPT ![r] = @ + 1]
            /\ \E gone \in {FALSE, ~Open} : lost' = [lost EXCEPT ![r] = @ \/ gone]
    /\ UNCHANGED <<reqVars, count, name, at, worker, counted, replyed>>

-----------------------------------------------------------------------------
(* Node.Stop *)

StopServer ==
    /\ stop = "running"
    /\ stop' = "draining"
    /\ stoped' = TRUE
    /\ UNCHANGED <<methods, registered, count, name, at, worker, counted, replyed, call,
                   answers, lost>>

\* The loop leaves when it loads a count that is not positive; nodeCache.close.
StopClose ==
    /\ stop = "draining"
    /\ ~(count > 0)
    /\ stop' = "closed"
    /\ UNCHANGED <<methods, registered, stoped, count, name, at, worker, counted, replyed,
                   call, answers, lost>>

StopDie ==
    /\ stop = "closed"
    /\ stop' = "dead"
    /\ UNCHANGED <<methods, registered, stoped, count, name, at, worker, counted, replyed,
                   call, answers, lost>>

-----------------------------------------------------------------------------
(* The specification *)

HandlerStep(r) ==
    \/ CheckStoped(r) \/ Lookup(r) \/ Decode(r) \/ Intercept(r) \/ Reject(r) \/ Error(r)

MethodStep(r) ==
    \/ MethodSpawn(r) \/ MethodReturn(r) \/ MethodPanic(r)
    \/ \E g \in Goroutines : Reply(r, g)

ReplyerStep(r, g) == callOutInterceptor(r, g) \/ Send(r, g)

StopStep == StopServer \/ StopClose \/ StopDie

Next ==
    \/ \E m \in Names : Register(m) \/ UnRegister(m)
    \/ \E r \in Reqs :
         \/ Receive(r) \/ HandlerStep(r) \/ MethodStep(r)
         \/ \E g \in Goroutines : ReplyerStep(r, g)
    \/ StopStep

Spec == Init /\ [][Next]_vars

\* Goroutines run; a method, and a goroutine that has its Replyer, end with a
\* reply (a method may give the Replyer away only once before it returns).
FairSpec ==
    /\ Spec
    /\ \A r \in Reqs :
         /\ WF_vars(HandlerStep(r))
         /\ WF_vars(MethodReturn(r)) /\ WF_vars(Reply(r, "handler") /\ ~replyed[r])
         /\ WF_vars(Reply(r, "worker"))
         /\ \A g \in Goroutines : WF_vars(ReplyerStep(r, g))
    /\ WF_vars(StopClose) /\ WF_vars(StopDie)

-----------------------------------------------------------------------------
(* Properties *)

\* Requests that were counted and whose reply has not been taken off the count.
InFlight ==
    {r \in Reqs :
        counted[r] /\ (~replyed[r] \/ \E g \in Goroutines : call[r][g] = "swapped")}

\* pendingRespCount is the number of counted requests still to be answered,
\* whatever goroutines reply, panic or fail: no request is taken off twice or
\* left on.
CountExact == count = Cardinality(InFlight)

\* A request is answered at most once, although the method, a goroutine it
\* started and the error path after a panic may all call the Replyer.
ReplyOnce == \A r \in Reqs : answers[r] <= 1

\* When Stop closes the sockets, no method that was counted is still to reply.
CloseWaits ==
    [][stop = "draining" /\ stop' = "closed" =>
         \A r \in Reqs : counted[r] => replyed[r]]_vars

\* Stop ends, unless it waits for a method that never replies.
StopEnds ==
    stop = "draining" ~> stop = "dead" \/ InFlight \intersect Silent # {}

\* Every request that is not one-way is answered if its method replies, an
\* unknown method, a bad argument, a panic and a stopped server included.
Answered ==
    \A r \in Reqs \ (Oneway \union Silent) : at[r] = "check" ~> answers[r] > 0

\* The sockets are closed after all requests returned: no response is lost.
AllReturned == \A r \in Reqs : ~lost[r]
=============================================================================
