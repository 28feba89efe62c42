-------------------------- MODULE RpcServerProofs --------------------------
(***************************************************************************)
(* The count that a graceful stop waits for is exact, and no request is    *)
(* answered twice, for any finite set of requests.                         *)
(***************************************************************************)
EXTENDS RpcServer, FiniteSetTheorems, TLAPS

\* The type of every variable but the count, which is a number because it
\* counts requests.
Types ==
    /\ methods \subseteq Names /\ registered \in 0..MaxRegister
    /\ stoped \in BOOLEAN
    /\ name \in [Reqs -> Names]
    /\ at \in [Reqs -> Phases]
    /\ worker \in [Reqs -> BOOLEAN]
    /\ counted \in [Reqs -> BOOLEAN]
    /\ replyed \in [Reqs -> BOOLEAN]
    /\ call \in [Reqs -> [Goroutines -> {"no", "swapped", "intercepted"}]]
    /\ answers \in [Reqs -> Nat]
    /\ lost \in [Reqs -> BOOLEAN]
    /\ stop \in {"running", "draining", "closed", "dead"}

Early == {"idle", "check", "lookup", "decode", "intercept"}

\* Only the winner of the swap is in the Replyer, and its answer comes last.
Winner(r) ==
    /\ \A g \in Goroutines : call[r][g] # "no" => replyed[r] /\ answers[r] = 0
    /\ \A g, h \in Goroutines : g # h /\ call[r][g] # "no" => call[r][h] = "no"
    /\ answers[r] \in {0, 1}
    /\ ~replyed[r] => answers[r] = 0

\* No request is counted or answered before its turn.
OneReplyer(r) ==
    /\ Winner(r)
    /\ at[r] \in Early =>
         ~counted[r] /\ ~replyed[r] /\ ~worker[r]

Replyers == \A r \in Reqs : OneReplyer(r)

Inv == Types /\ Replyers /\ CountExact

-----------------------------------------------------------------------------

LEMMA FiniteFact ==
    ASSUME Types
    PROVE  IsFiniteSet(InFlight) /\ Cardinality(InFlight) \in Nat
<1>1. InFlight \subseteq Reqs
  BY Zenon DEF InFlight
<1>2. IsFiniteSet(InFlight)
  BY <1>1, ServerAssumption, FS_Subset, Zenon
<1>. QED
  BY <1>2, FS_CardinalityType, Zenon

LEMMA TypesStep ==
    ASSUME Types, [Next]_vars
    PROVE  Types'
<1>. USE DEF Types
<1>1. ASSUME NEW m \in Names, Register(m) \/ UnRegister(m)
      PROVE  Types'
  BY <1>1, ServerAssumption DEF Register, UnRegister
<1>2. ASSUME NEW r \in Reqs, Receive(r) \/ HandlerStep(r)
      PROVE  Types'
  <2>1. CASE Receive(r)
    BY <2>1, Zenon DEF Receive, Goto, reqVars, Phases
  <2>2. CASE CheckStoped(r)
    BY <2>2, Zenon DEF CheckStoped, Goto, reqVars, Phases
  <2>3. CASE Lookup(r)
    BY <2>3, Zenon DEF Lookup, Goto, reqVars, Phases
  <2>4. CASE Decode(r)
    BY <2>4, Zenon DEF Decode, Goto, reqVars, Phases
  <2>5. CASE Intercept(r)
    BY <2>5, Zenon DEF Intercept, Goto, reqVars, Phases
  <2>6. CASE Reject(r)
    <3>1. CASE Swap(r, "handler") /\ Goto(r, "done")
      BY <2>6, <3>1, Zenon DEF Reject, Swap, Goto, reqVars, Phases, Goroutines
    <3>2. CASE Goto(r, "error") /\ UNCHANGED <<replyed, call>>
      BY <2>6, <3>2, Zenon DEF Reject, Goto, reqVars, Phases
    <3>. QED
      BY <2>6, <3>1, <3>2, Zenon DEF Reject
  <2>7. CASE Error(r)
    BY <2>7, Zenon DEF Error, Swap, Goto, reqVars, Phases, Goroutines
  <2>. QED
    BY <1>2, <2>1, <2>2, <2>3, <2>4, <2>5, <2>6, <2>7, Zenon DEF HandlerStep
<1>3. ASSUME NEW r \in Reqs, MethodStep(r)
      PROVE  Types'
  <2>1. CASE MethodSpawn(r)
    BY <2>1, Zenon DEF MethodSpawn, reqVars
  <2>2. CASE MethodReturn(r)
    BY <2>2, Zenon DEF MethodReturn, Goto, reqVars, Phases
  <2>3. CASE MethodPanic(r)
    BY <2>3, Zenon DEF MethodPanic, Goto, reqVars, Phases
  <2>4. ASSUME NEW g \in Goroutines, Reply(r, g)
        PROVE  Types'
    BY Zenon, <2>4 DEF Reply, Swap, reqVars
  <2>. QED
    BY <1>3, <2>1, <2>2, <2>3, <2>4, Zenon DEF MethodStep
<1>4. ASSUME NEW r \in Reqs, NEW g \in Goroutines, ReplyerStep(r, g)
      PROVE  Types'
  <2>1. CASE callOutInterceptor(r, g)
    BY <2>1, Zenon DEF callOutInterceptor, reqVars
  <2>2. CASE Send(r, g)
    <3>1. call' \in [Reqs -> [Goroutines -> {"no", "swapped", "intercepted"}]]
      BY <2>2, Zenon DEF Send
    <3>2. answers' \in [Reqs -> Nat]
      BY <2>2 DEF Send
    <3>3. lost' \in [Reqs -> BOOLEAN]
      BY Zenon, <2>2 DEF Send, Open
    <3>. QED
      BY <2>2, <3>1, <3>2, <3>3, Zenon DEF Send, reqVars
  <2>. QED
    BY <1>4, <2>1, <2>2, Zenon DEF ReplyerStep
<1>5. CASE StopStep
  BY Zenon, <1>5 DEF StopStep, StopServer, StopClose, StopDie
<1>6. CASE UNCHANGED vars
  BY <1>6, Zenon DEF vars
<1>. QED
  BY <1>1, <1>2, <1>3, <1>4, <1>5, <1>6, Zenon DEF Next

\* The swap has one winner.
LEMMA SwapWinner ==
    ASSUME Types, Replyers, NEW r \in Reqs, NEW g \in Goroutines, NEW q \in Reqs,
           Swap(r, g), UNCHANGED answers
    PROVE  Winner(q)'
<1>. Winner(q)
  BY Zenon DEF Replyers, OneReplyer
<1>. USE DEF Types, Winner
<1>1. CASE q # r
  BY <1>1, Zenon DEF Swap
<1>2. CASE q = r /\ replyed[r]
  BY <1>2, Zenon DEF Swap
<1>3. CASE q = r /\ ~replyed[r]
  <2>1. replyed'[q] /\ call'[q] = [call[q] EXCEPT ![g] = "swapped"]
    BY <1>3, Zenon DEF Swap
  <2>2. \A h \in Goroutines : call[q][h] = "no"
    BY <1>3, Zenon
  <2>3. \A h \in Goroutines : h # g => call'[q][h] = "no"
    BY <2>1, <2>2
  <2>4. answers'[q] = 0
    BY <1>3, Zenon
  <2>. QED
    BY <2>1, <2>3, <2>4
<1>. QED
  BY <1>1, <1>2, <1>3, Zenon

LEMMA ReplyersStep ==
    ASSUME Types, Replyers, [Next]_vars
    PROVE  Replyers'
<1>. SUFFICES ASSUME NEW q \in Reqs
              PROVE  OneReplyer(q)'
  BY Zenon DEF Replyers
<1>0. OneReplyer(q)
  BY Zenon DEF Replyers
<1>. USE <1>0 DEF Types, OneReplyer
<1>1. ASSUME NEW m \in Names, Register(m) \/ UnRegister(m)
      PROVE  OneReplyer(q)'
  BY <1>1 DEF Winner, Register, UnRegister
<1>2. ASSUME NEW r \in Reqs, Receive(r) \/ HandlerStep(r)
      PROVE  OneReplyer(q)'
  <2>1. CASE Receive(r) \/ CheckStoped(r) \/ Lookup(r) \/ Decode(r)
    BY <2>1 DEF Receive, CheckStoped, Lookup, Decode, Goto, Winner, Early
  <2>2. CASE Intercept(r)
    BY <2>2, Zenon DEF Intercept, Goto, Winner, Early
  <2>3. CASE Reject(r)
    <3>1. CASE Swap(r, "handler") /\ Goto(r, "done")
      <4>1. Winner(q)'
        BY <2>3, <3>1, SwapWinner, Zenon DEF Reject, Goroutines
      <4>2. q # r => replyed'[q] = replyed[q]
        BY <3>1, Zenon DEF Swap
      <4>. QED
        BY <2>3, <3>1, <4>1, <4>2, Zenon DEF Reject, Goto, Early
    <3>2. CASE Goto(r, "error") /\ UNCHANGED <<replyed, call>>
      BY <2>3, <3>2, Zenon DEF Reject, Goto, Winner, Early
    <3>. QED
      BY <2>3, <3>1, <3>2, Zenon DEF Reject
  <2>4. CASE Error(r)
    <3>1. Winner(q)'
      BY <2>4, SwapWinner, Zenon DEF Error, Goroutines
    <3>2. q # r => replyed'[q] = replyed[q]
      BY <2>4, Zenon DEF Error, Swap
    <3>. QED
      BY <2>4, <3>1, <3>2, Zenon DEF Error, Goto, Early
  <2>. QED
    BY <1>2, <2>1, <2>2, <2>3, <2>4, Zenon DEF HandlerStep
<1>3. ASSUME NEW r \in Reqs, MethodStep(r)
      PROVE  OneReplyer(q)'
  <2>1. CASE MethodSpawn(r)
    BY <2>1, Zenon DEF MethodSpawn, Winner, Early
  <2>2. CASE MethodReturn(r) \/ MethodPanic(r)
    BY <2>2 DEF MethodReturn, MethodPanic, Goto, Winner, Early
  <2>3. ASSUME NEW g \in Goroutines, Reply(r, g)
        PROVE  OneReplyer(q)'
    <3>1. Winner(q)'
      BY <2>3, SwapWinner, Zenon DEF Reply
    <3>2. at'[q] \in Early => ~counted'[q] /\ ~replyed'[q] /\ ~worker'[q]
      <4>1. CASE q = r
        <5>1. g = "handler" \/ worker[q]
          BY <2>3, <4>1, Zenon DEF Reply, Goroutines
        <5>2. at[q] \notin Early
          BY <2>3, <4>1, <5>1, Zenon DEF Reply, Early
        <5>. QED
          BY <2>3, <5>2, Zenon DEF Reply
      <4>2. CASE q # r
        BY <2>3, <4>2, Zenon DEF Reply, Swap
      <4>. QED
        BY <4>1, <4>2, Zenon
    <3>. QED
      BY <3>1, <3>2, Zenon
  <2>. QED
    BY <1>3, <2>1, <2>2, <2>3, Zenon DEF MethodStep
<1>4. ASSUME NEW r \in Reqs, NEW g \in Goroutines, ReplyerStep(r, g)
      PROVE  OneReplyer(q)'
  <2>1. CASE callOutInterceptor(r, g)
    BY <2>1 DEF callOutInterceptor, Winner
  <2>2. CASE Send(r, g)
    BY <2>2 DEF Send, Winner
  <2>. QED
    BY <1>4, <2>1, <2>2, Zenon DEF ReplyerStep
<1>5. CASE StopStep
  BY <1>5 DEF StopStep, StopServer, StopClose, StopDie, Winner
<1>6. CASE UNCHANGED vars
  BY <1>6, Zenon DEF vars, Winner
<1>. QED
  BY <1>1, <1>2, <1>3, <1>4, <1>5, <1>6, Zenon DEF Next

-----------------------------------------------------------------------------

\* A request whose replies go on as they were stays where it was.
LEMMA SameFlight ==
    ASSUME Types, UNCHANGED <<counted, replyed, call>>
    PROVE  InFlight' = InFlight
BY Zenon DEF InFlight

\* The swap keeps a counted request in flight, until the interceptors have run.
LEMMA SwapFlight ==
    ASSUME Types, Replyers, NEW r \in Reqs, NEW g \in Goroutines,
           Swap(r, g), UNCHANGED counted
    PROVE  InFlight' = InFlight
<1>1. CASE replyed[r]
  <2>1. call' = call /\ replyed' = replyed
    BY <1>1, Zenon DEF Swap, Types
  <2>. QED
    BY <2>1, Zenon DEF InFlight
<1>2. CASE ~replyed[r]
  <2>1. replyed' = [replyed EXCEPT ![r] = TRUE]
        /\ call' = [call EXCEPT ![r] = [@ EXCEPT ![g] = "swapped"]]
    BY <1>2, Zenon DEF Swap
  <2>2. call'[r][g] = "swapped"
    BY <2>1, Zenon DEF Types
  <2>3. \A q \in Reqs : q # r => call'[q] = call[q] /\ replyed'[q] = replyed[q]
    BY <2>1, Zenon DEF Types
  <2>4. ASSUME NEW q \in Reqs
        PROVE  q \in InFlight' <=> q \in InFlight
    <3>1. CASE q = r
      BY <1>2, <2>2, <3>1, Zenon DEF InFlight
    <3>2. CASE q # r
      BY <2>3, <3>2, Zenon DEF InFlight
    <3>. QED
      BY <3>1, <3>2, Zenon
  <2>5. InFlight \subseteq Reqs /\ InFlight' \subseteq Reqs
    BY Zenon DEF InFlight
  <2>. QED
    BY <2>4, <2>5, Zenon
<1>. QED
  BY <1>1, <1>2, Zenon

LEMMA CountStep ==
    ASSUME Inv, [Next]_vars
    PROVE  CountExact'
<1>. USE DEF Inv
<1>0. Types /\ Replyers /\ CountExact
  BY Zenon
<1>1. ASSUME UNCHANGED <<count, counted, replyed, call>>
      PROVE  CountExact'
  BY <1>0, <1>1, SameFlight, Zenon DEF CountExact
<1>2. ASSUME NEW r \in Reqs, NEW g \in Goroutines, Swap(r, g), UNCHANGED <<count, counted>>
      PROVE  CountExact'
  BY <1>0, <1>2, SwapFlight, Zenon DEF CountExact
<1>3. ASSUME NEW r \in Reqs, Intercept(r)
      PROVE  CountExact'
  <2>1. r \notin InFlight
    BY <1>0, <1>3, Zenon DEF Intercept, Replyers, OneReplyer, Early, InFlight
  <2>2. counted' = [counted EXCEPT ![r] = TRUE] /\ UNCHANGED <<replyed, call>>
    BY <1>3, Zenon DEF Intercept
  <2>3. ~replyed[r]
    BY <1>0, <1>3, Zenon DEF Intercept, Replyers, OneReplyer, Early
  <2>4. InFlight' = InFlight \union {r}
    BY <1>0, <2>2, <2>3, Zenon DEF InFlight, Types
  <2>5. Cardinality(InFlight') = Cardinality(InFlight) + 1
    BY <1>0, <2>1, <2>4, FiniteFact, FS_AddElement, Zenon
  <2>. QED
    BY <1>0, <1>3, <2>5, Zenon DEF Intercept, CountExact
<1>4. ASSUME NEW r \in Reqs, NEW g \in Goroutines, callOutInterceptor(r, g)
      PROVE  CountExact'
  <2>1. call' = [call EXCEPT ![r] = [@ EXCEPT ![g] = "intercepted"]]
        /\ call[r][g] = "swapped" /\ UNCHANGED <<counted, replyed>>
    BY <1>4, Zenon DEF callOutInterceptor, reqVars
  <2>2. replyed[r] /\ \A h \in Goroutines : h # g => call[r][h] = "no"
    BY <1>0, <2>1, Zenon DEF Replyers, OneReplyer, Winner
  <2>3. \A h \in Goroutines : call'[r][h] # "swapped"
    BY <1>0, <2>1, <2>2, Zenon DEF Types
  <2>4. \A q \in Reqs : q # r => call'[q] = call[q]
    BY <1>0, <2>1, Zenon DEF Types
  <2>5. InFlight' = InFlight \ {r}
    BY <2>1, <2>2, <2>3, <2>4 DEF InFlight
  <2>6. CASE counted[r]
    <3>1. r \in InFlight
      BY <2>1, <2>6, Zenon DEF InFlight
    <3>2. Cardinality(InFlight') = Cardinality(InFlight) - 1
      BY Zenon, <1>0, <2>5, <3>1, FiniteFact, FS_RemoveElement
    <3>. QED
      BY <1>0, <1>4, <2>6, <3>2, Zenon DEF callOutInterceptor, CountExact
  <2>7. CASE ~counted[r]
    <3>1. InFlight' = InFlight
      BY <2>5, <2>7, Zenon DEF InFlight
    <3>. QED
      BY <1>0, <1>4, <2>7, <3>1, Zenon DEF callOutInterceptor, CountExact
  <2>. QED
    BY <2>6, <2>7, Zenon
<1>5. ASSUME NEW r \in Reqs, NEW g \in Goroutines, Send(r, g)
      PROVE  CountExact'
  <2>1. call' = [call EXCEPT ![r] = [@ EXCEPT ![g] = "no"]]
        /\ call[r][g] = "intercepted" /\ UNCHANGED <<count, counted, replyed>>
    BY <1>5, Zenon DEF Send, reqVars
  <2>2. \A q \in Reqs, h \in Goroutines : call'[q][h] = "swapped" <=> call[q][h] = "swapped"
    BY <1>0, <2>1, Zenon DEF Types
  <2>3. InFlight' = InFlight
    BY <2>1, <2>2, Zenon DEF InFlight
  <2>. QED
    BY <1>0, <2>1, <2>3, Zenon DEF CountExact
<1>6. ASSUME NEW m \in Names, Register(m) \/ UnRegister(m)
      PROVE  CountExact'
  BY <1>1, <1>6, Zenon DEF Register, UnRegister
<1>7. ASSUME NEW r \in Reqs, Receive(r) \/ HandlerStep(r)
      PROVE  CountExact'
  <2>1. CASE Receive(r) \/ CheckStoped(r) \/ Lookup(r) \/ Decode(r)
    BY <1>1, <2>1, Zenon DEF Receive, CheckStoped, Lookup, Decode
  <2>2. CASE Reject(r)
    BY <1>1, <1>2, <2>2, Zenon DEF Reject, Goroutines
  <2>3. CASE Error(r)
    BY <1>2, <2>3, Zenon DEF Error, Goroutines
  <2>. QED
    BY <1>3, <1>7, <2>1, <2>2, <2>3, Zenon DEF HandlerStep
<1>8. ASSUME NEW r \in Reqs, MethodStep(r)
      PROVE  CountExact'
  <2>1. CASE MethodSpawn(r) \/ MethodReturn(r) \/ MethodPanic(r)
    BY <1>1, <2>1, Zenon DEF MethodSpawn, MethodReturn, MethodPanic
  <2>2. ASSUME NEW g \in Goroutines, Reply(r, g)
        PROVE  CountExact'
    BY <1>2, <2>2, Zenon DEF Reply
  <2>. QED
    BY <1>8, <2>1, <2>2, Zenon DEF MethodStep
<1>9. CASE StopStep
  BY <1>1, <1>9, Zenon DEF StopStep, StopServer, StopClose, StopDie
<1>10. CASE UNCHANGED vars
  BY <1>1, <1>10, Zenon DEF vars
<1>. QED
  BY <1>4, <1>5, <1>6, <1>7, <1>8, <1>9, <1>10 DEF Next, ReplyerStep

-----------------------------------------------------------------------------

LEMMA InvInductive == Spec => []Inv
<1>1. Init => Inv
  <2>. SUFFICES ASSUME Init
                PROVE  Inv
    BY Zenon
  <2>1. Types
    <3>1. registered \in 0..MaxRegister
      BY ServerAssumption DEF Init
    <3>2. call \in [Reqs -> [Goroutines -> {"no", "swapped", "intercepted"}]]
      BY Zenon DEF Init
    <3>. QED
      BY Zenon, <3>1, <3>2 DEF Init, Types, Phases
  <2>2. Replyers
    BY Zenon DEF Init, Replyers, OneReplyer, Winner
  <2>3. InFlight = {}
    BY Zenon DEF Init, InFlight
  <2>4. CountExact
    BY <2>3, FS_EmptySet, Zenon DEF Init, CountExact
  <2>. QED
    BY <2>1, <2>2, <2>4, Zenon DEF Inv
<1>2. Inv /\ [Next]_vars => Inv'
  BY TypesStep, ReplyersStep, CountStep, Zenon DEF Inv
<1>. QED
  BY <1>1, <1>2, PTL DEF Spec

\* pendingRespCount is exactly the number of counted requests that are still to
\* be answered (RPCServer.SetInInterceptor, Replyer.callOutInterceptor), so the
\* loop of Node.Stop neither leaves early for one of them nor waits for nothing.
THEOREM CountIsExact == Spec => [](TypeOK /\ CountExact)
<1>1. Inv => TypeOK /\ CountExact
  BY FiniteFact, Zenon DEF Inv, Types, TypeOK, CountExact
<1>. QED
  BY <1>1, InvInductive, PTL

\* Replyer.Reply and Replyer.Error send at most one response for a request.
THEOREM RepliedOnce == Spec => []ReplyOnce
<1>1. Inv => ReplyOnce
  BY DEF Inv, Replyers, OneReplyer, Winner, ReplyOnce
<1>. QED
  BY <1>1, InvInductive, PTL

\* Node.Stop closes the sockets only when every counted request has its reply.
THEOREM StopWaits == Spec => CloseWaits
<1>1. ASSUME Inv, [Next]_vars, stop = "draining", stop' = "closed"
      PROVE  \A r \in Reqs : counted[r] => replyed[r]
  <2>1. ~(count > 0)
    BY <1>1 DEF Next, vars, Register, UnRegister, Receive, HandlerStep, MethodStep, ReplyerStep,
       StopStep, CheckStoped, Lookup, Decode, Intercept, Reject, Error, MethodSpawn, MethodReturn,
       MethodPanic, Reply, callOutInterceptor, Send, StopServer, StopClose, StopDie, reqVars
  <2>2. InFlight = {}
    BY <1>1, <2>1, FiniteFact, FS_EmptySet DEF Inv, CountExact
  <2>. QED
    BY <2>2, Zenon DEF InFlight
<1>2. Inv /\ [Next]_vars =>
        [stop = "draining" /\ stop' = "closed" => \A r \in Reqs : counted[r] => replyed[r]]_vars
  BY <1>1, Zenon
<1>. QED
  BY <1>2, InvInductive, PTL DEF Spec, CloseWaits
=============================================================================
