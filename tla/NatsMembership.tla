--------------------------- MODULE NatsMembership ---------------------------
(***************************************************************************)
(* The JetStream membership (membership/natsjet).  A full fetch of the     *)
(* members lists the keys and then reads them one by one, while others     *)
(* write.  A watch begins with the last value of every key; when it is     *)
(* stopped its channel closes.  A heartbeat that expires may disappear     *)
(* without an event.                                                       *)
(***************************************************************************)
EXTENDS KvStore

-----------------------------------------------------------------------------
(* The operations of other nodes and of the operator *)

UpdateMember(n, v) == v # "none" /\ WriteConfig(n, v)

\* A deletion leaves a marker, whether the key existed or not.
RemoveMember(n) == WriteConfig(n, "none")

KeepAlive(n) == WriteBeat(n, TRUE, TRUE)

BeatExpires(n) == n \in beat /\ \E told \in BOOLEAN : WriteBeat(n, FALSE, told)

-----------------------------------------------------------------------------
(* Full fetches *)

\* Mutant: the keys are not read again, and a value from before is used.
Read_Skip(n) == got' = got

\* Get: the value of this moment, if the key is still there and can be read.
Read(n) == got' = [got EXCEPT ![n] = KvReadable(config[n])]

\* Keys of the members bucket, in Subscribe or on a tick.
ListKeys ==
    /\ \/ kvPc = "subscribe" /\ KvGoto("subGets")
       \/ kvPc = "loop" /\ ~cancelled /\ KvGoto("gets")
    /\ synced' = (configCh.state = "open")
    /\ todo' = {n \in KvNodes : config[n] # "none"}
    /\ got' = [n \in KvNodes |-> "none"]
    /\ UNCHANGED <<kvStoreVars, chanVars, tableVars, kvTickErr, kvHadError, cancelled, kvFaults>>

\* A key whose Get fails, as it does once the connection is closed, is left out
\* as if it were not there.
GetKey(n) ==
    /\ kvPc \in {"subGets", "gets"} /\ n \in todo
    /\ todo' = todo \ {n}
    /\ \/ Read(n) /\ UNCHANGED <<kvFaults, synced>>
       \/ (KvFail \/ (cancelled /\ UNCHANGED kvFaults)) /\ synced' = FALSE /\ UNCHANGED got
    /\ UNCHANGED <<kvStoreVars, chanVars, tableVars, kvPc, kvTickErr, kvHadError, cancelled>>

\* The rest of getMembers, when all keys were read.
getMembers ==
    /\ kvPc \in {"subGets", "gets"} /\ todo = {}
    /\ DiffMembers(got)
    /\ got' = [n \in KvNodes |-> "none"]
    /\ KvGoto(IF kvPc = "subGets" THEN "alives" ELSE "tick")
    /\ UNCHANGED <<kvStoreVars, chanVars, todo, kvTickErr, kvHadError, cancelled, synced, kvFaults>>

getAlives == DiffAlives(beat)

-----------------------------------------------------------------------------
(* Entries of the watches; the nil entry at the end of a snapshot is skipped *)

\* Mutant: a put is always an addition.
handleConfigEntry_Adds(n, v) ==
    LET known == members[n] # "none"
    IN /\ members' = IF v = "bad" THEN members ELSE [members EXCEPT ![n] = v]
       /\ KvTell(IF v \in {"on", "off"} THEN {n} ELSE {}, IF known /\ v = "none" THEN {n} ELSE {}, {},
               IF v = "on" THEN kvAlive ELSE {})
       /\ UNCHANGED kvAlive

handleConfigEntry(n, v) ==
    LET known == members[n] # "none"
        put == v \in {"on", "off"}
    IN /\ members' = IF v = "bad" THEN members ELSE [members EXCEPT ![n] = v]
       /\ KvTell(IF put /\ ~known THEN {n} ELSE {}, IF known /\ v = "none" THEN {n} ELSE {},
               IF put /\ known THEN {n} ELSE {}, IF v = "on" THEN kvAlive ELSE {})
       /\ UNCHANGED kvAlive

handleAliveEntry(n, v) ==
    LET new == v = "beat" /\ n \notin kvAlive
        gone == v # "beat" /\ n \in kvAlive
    IN /\ kvAlive' = IF new THEN kvAlive \union {n} ELSE IF gone THEN kvAlive \ {n} ELSE kvAlive
       /\ KvTell({}, {}, IF (new /\ members[n] = "on") \/ (gone /\ members[n] # "none") THEN {n} ELSE {},
               IF new THEN {n} ELSE {})
       /\ UNCHANGED members

-----------------------------------------------------------------------------
(* Subscribe and watch *)

SubscribeAlives ==
    /\ kvPc = "alives" /\ getAlives /\ KvGoto("watch")
    /\ UNCHANGED <<kvStoreVars, chanVars, todo, got, kvTickErr, kvHadError, cancelled, synced, kvFaults>>

\* Connecting, creating the buckets or the first fetch fails: the connection is
\* closed again, the error returned, and nothing watches.  A bucket that is
\* missing when it is listed counts as success.
SubscribeFail ==
    /\ KvFail
    /\ \/ kvPc = "subscribe" /\ kvPc' \in {"returned", "alives"}
       \/ kvPc = "alives" /\ kvPc' \in {"returned", "watch"}
    /\ UNCHANGED <<kvStoreVars, chanVars, tableVars, todo, got, kvTickErr, kvHadError, cancelled, synced>>

\* WatchAll: what exists, or was deleted, comes first, in any order.
Snapshot(vals) ==
    {q \in [1..Cardinality(DOMAIN vals) -> [node : DOMAIN vals, val : {vals[n] : n \in DOMAIN vals}]] :
        /\ \A i, j \in DOMAIN q : q[i].node = q[j].node => i = j
        /\ \A i \in DOMAIN q : q[i].val = vals[q[i].node]}

OpenConfig ==
    \E q \in Snapshot(config) : configCh' = [state |-> "open", queue |-> q]

OpenAlive ==
    \E q \in Snapshot([n \in beat |-> "beat"]) : aliveCh' = [state |-> "open", queue |-> q]

\* A watch that cannot be opened leaves its channel as it is: nil at first, and
\* closed when it was stopped before.
WatchConfig ==
    /\ \/ kvPc = "watch" /\ KvGoto("watchAlive")
       \/ kvPc = "recover" /\ KvGoto("recoverAlive")
    /\ \/ OpenConfig /\ synced' = TRUE /\ UNCHANGED kvFaults
       \/ (KvFail \/ (cancelled /\ UNCHANGED kvFaults)) /\ UNCHANGED <<configCh, synced>>
    /\ UNCHANGED <<kvStoreVars, aliveCh, tableVars, todo, got, kvTickErr, kvHadError, cancelled>>

WatchAlive ==
    /\ kvPc \in {"watchAlive", "recoverAlive"} /\ KvGoto("loop")
    /\ \/ OpenAlive /\ UNCHANGED kvFaults
       \/ (KvFail \/ (cancelled /\ UNCHANGED kvFaults)) /\ UNCHANGED aliveCh
    /\ kvHadError' = FALSE
    /\ UNCHANGED <<kvStoreVars, configCh, tableVars, todo, got, kvTickErr, cancelled, synced>>

OnConfig ==
    /\ kvPc = "loop" /\ configCh.queue # <<>>
    /\ handleConfigEntry(Head(configCh.queue).node, Head(configCh.queue).val)
    /\ configCh' = [configCh EXCEPT !.queue = Tail(@)]
    /\ UNCHANGED <<kvStoreVars, aliveCh, kvWatchVars, kvFaults>>

OnAlive ==
    /\ kvPc = "loop" /\ aliveCh.queue # <<>>
    /\ handleAliveEntry(Head(aliveCh.queue).node, Head(aliveCh.queue).val)
    /\ aliveCh' = [aliveCh EXCEPT !.queue = Tail(@)]
    /\ UNCHANGED <<kvStoreVars, configCh, kvWatchVars, kvFaults>>

\* A closed channel, or the cancelled context, ends the goroutine.
Return ==
    /\ kvPc = "loop"
    /\ \/ cancelled
       \/ configCh.state = "closed" \/ aliveCh.state = "closed"
    /\ KvGoto("returned")
    /\ UNCHANGED <<kvStoreVars, chanVars, tableVars, todo, got, kvTickErr, kvHadError, cancelled, synced, kvFaults>>

\* The listing of the members fails: with an error, or because the bucket is
\* missing, which counts as success and changes nothing.
TickFail ==
    /\ kvPc = "loop" /\ KvGoto("tick")
    /\ \/ cancelled /\ kvTickErr' = TRUE /\ UNCHANGED kvFaults
       \/ KvFail /\ kvTickErr' \in BOOLEAN
    /\ UNCHANGED <<kvStoreVars, chanVars, tableVars, todo, got, kvHadError, cancelled, synced>>

\* The end of a tick.  A first one without errors after one with an error stops
\* the watches, which closes their channels, to open them again.
EndTick(err) ==
    IF err THEN kvHadError' = TRUE /\ KvGoto("loop") /\ UNCHANGED chanVars
    ELSE IF kvHadError
    THEN /\ KvGoto("recover")
         /\ configCh' = IF configCh.state = "nil" THEN configCh ELSE Closed
         /\ aliveCh' = IF aliveCh.state = "nil" THEN aliveCh ELSE Closed
         /\ UNCHANGED kvHadError
    ELSE KvGoto("loop") /\ UNCHANGED <<kvHadError, chanVars>>

\* Mutant: a tick leaves the heartbeats to the watch.
TickAlives_Skip ==
    /\ kvPc = "tick" /\ kvTickErr' = FALSE
    /\ EndTick(kvTickErr)
    /\ UNCHANGED <<kvStoreVars, tableVars, todo, got, cancelled, synced, kvFaults>>

TickAlives ==
    /\ kvPc = "tick" /\ kvTickErr' = FALSE
    /\ \/ ~cancelled /\ getAlives /\ EndTick(kvTickErr) /\ UNCHANGED kvFaults
       \/ KvFail /\ UNCHANGED tableVars /\ \E err \in {kvTickErr, TRUE} : EndTick(err)
       \/ cancelled /\ EndTick(TRUE) /\ UNCHANGED <<tableVars, kvFaults>>
    /\ UNCHANGED <<kvStoreVars, todo, got, cancelled, synced>>

Close ==
    /\ kvPc \in {"watch", "watchAlive", "loop", "gets", "tick", "recover", "recoverAlive"} /\ ~cancelled
    /\ cancelled' = TRUE
    /\ UNCHANGED <<kvStoreVars, chanVars, tableVars, kvPc, todo, got, kvTickErr, kvHadError, synced, kvFaults>>

-----------------------------------------------------------------------------
(* The specification *)

StoreStep ==
    \E n \in KvNodes :
        \/ \E v \in Values : UpdateMember(n, v)
        \/ RemoveMember(n) \/ KeepAlive(n) \/ BeatExpires(n)

FetchStep == ListKeys \/ getMembers \/ \E n \in KvNodes : GetKey(n)

WatchStep ==
    \/ FetchStep \/ SubscribeAlives \/ WatchConfig \/ WatchAlive
    \/ OnConfig \/ OnAlive \/ Return \/ TickAlives

Next == StoreStep \/ WatchStep \/ TickFail \/ SubscribeFail \/ Close

Spec == KvInit /\ [][Next]_kvVars

\* The goroutine runs and its ticker ticks; select picks at random among what is
\* ready, so a tick does not keep it from returning for ever.
FairSpec == Spec /\ WF_kvVars(WatchStep) /\ SF_kvVars(Return)
=============================================================================
