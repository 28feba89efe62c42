--------------------------- MODULE EtcdMembership ---------------------------
(***************************************************************************)
(* The etcd membership (membership/etcd/etcd.go).  A full fetch is one     *)
(* atomic range read.  The watches begin at the current revision when they *)
(* are opened, after the first fetch; a response carries one or more       *)
(* consecutive events, and an error is followed by the close of the        *)
(* channel.                                                                *)
(***************************************************************************)
EXTENDS KvStore

CONSTANT MaxBatch       \* bound: events in one watch response

-----------------------------------------------------------------------------
(* The operations of other nodes and of the operator *)

UpdateMember(n, v) == v # "none" /\ WriteConfig(n, v)

\* Deleting a key that does not exist is no event.
RemoveMember(n) == config[n] # "none" /\ WriteConfig(n, "none")

\* The key moves to the new lease, so that only the latest one can delete it.
KeepAlive(n) == WriteBeat(n, TRUE, TRUE)

LeaseExpires(n) == n \in beat /\ WriteBeat(n, FALSE, TRUE)

-----------------------------------------------------------------------------
(* Events *)

\* One turn of the loop of handleConfigEvents.
ConfigEvent(acc, e) ==
    IF e.val = "bad" \/ (e.val = "none" /\ acc.members[e.node] = "none") THEN acc
    ELSE IF e.val = "none"
    THEN [acc EXCEPT !.members[e.node] = "none", !.remove = @ \union {e.node}]
    ELSE LET known == acc.members[e.node] # "none"
         IN [acc EXCEPT
               !.members[e.node] = e.val,
               !.add = IF known THEN @ ELSE @ \union {e.node},
               !.update = IF known THEN @ \union {e.node} ELSE @,
               !.up = IF e.val = "on" /\ e.node \in kvAlive THEN @ \union {e.node} ELSE @ \ {e.node}]

\* After 0, 1, ... events.
ConfigLoop(events) ==
    LET upTo[i \in 0..Len(events)] ==
            IF i = 0 THEN [members |-> members, add |-> {}, remove |-> {}, update |-> {}, up |-> {}]
            ELSE ConfigEvent(upTo[i - 1], events[i])
    IN upTo

handleConfigEvents(events) ==
    LET r == ConfigLoop(events)[Len(events)]
    IN members' = r.members /\ KvTell(r.add, r.remove, r.update, r.up) /\ UNCHANGED kvAlive

\* Mutant: an alive node is told to be available though it is configured off.
AliveEvent_IgnoresConfig(acc, e) ==
    IF e.val = "beat"
    THEN IF e.node \in acc.alive THEN acc
         ELSE [alive |-> acc.alive \union {e.node},
               update |-> IF members[e.node] # "none" THEN acc.update \union {e.node} ELSE acc.update,
               up |-> acc.up \union {e.node}]
    ELSE IF e.node \notin acc.alive THEN acc
    ELSE [alive |-> acc.alive \ {e.node},
          update |-> IF members[e.node] # "none" THEN acc.update \union {e.node} ELSE acc.update,
          up |-> acc.up \ {e.node}]

\* One turn of the loop of handleAliveEvents.
AliveEvent(acc, e) ==
    IF e.val = "beat"
    THEN IF e.node \in acc.alive THEN acc
         ELSE [alive |-> acc.alive \union {e.node},
               update |-> IF members[e.node] = "on" THEN acc.update \union {e.node} ELSE acc.update,
               up |-> acc.up \union {e.node}]
    ELSE IF e.node \notin acc.alive THEN acc
    ELSE [alive |-> acc.alive \ {e.node},
          update |-> IF members[e.node] # "none" THEN acc.update \union {e.node} ELSE acc.update,
          up |-> acc.up \ {e.node}]

AliveLoop(events) ==
    LET upTo[i \in 0..Len(events)] ==
            IF i = 0 THEN [alive |-> kvAlive, update |-> {}, up |-> {}]
            ELSE AliveEvent(upTo[i - 1], events[i])
    IN upTo

handleAliveEvents(events) ==
    LET r == AliveLoop(events)[Len(events)]
    IN kvAlive' = r.alive /\ KvTell({}, {}, r.update, r.up) /\ UNCHANGED members

-----------------------------------------------------------------------------
(* Subscribe and watch *)

getMembers == DiffMembers([n \in KvNodes |-> KvReadable(config[n])])

getAlives == DiffAlives(beat)

Subscribe ==
    /\ kvPc = "subscribe" /\ getMembers /\ KvGoto("alives")
    /\ UNCHANGED <<kvStoreVars, chanVars, todo, got, kvTickErr, kvHadError, cancelled, synced, kvFaults>>

SubscribeAlives ==
    /\ kvPc = "alives" /\ getAlives /\ KvGoto("watch")
    /\ UNCHANGED <<kvStoreVars, chanVars, todo, got, kvTickErr, kvHadError, cancelled, synced, kvFaults>>

\* The error is returned, and nothing watches.
SubscribeFail ==
    /\ kvPc \in {"subscribe", "alives"} /\ KvFail /\ KvGoto("returned")
    /\ UNCHANGED <<kvStoreVars, chanVars, tableVars, todo, got, kvTickErr, kvHadError, cancelled, synced>>

\* Changes from here on are events.
Open(ch) == [ch EXCEPT !.state = "open"]

WatchConfig ==
    /\ kvPc = "watch" /\ KvGoto("watchAlive")
    /\ configCh' = Open(configCh)
    /\ UNCHANGED <<kvStoreVars, aliveCh, tableVars, todo, got, kvTickErr, kvHadError, cancelled, synced, kvFaults>>

WatchAlive ==
    /\ kvPc = "watchAlive" /\ KvGoto("loop")
    /\ aliveCh' = Open(aliveCh)
    /\ UNCHANGED <<kvStoreVars, configCh, tableVars, todo, got, kvTickErr, kvHadError, cancelled, synced, kvFaults>>

\* A response with the first k waiting events.
OnConfig(k) ==
    /\ kvPc = "loop" /\ k \in 1..Len(configCh.queue)
    /\ handleConfigEvents(SubSeq(configCh.queue, 1, k))
    /\ configCh' = [configCh EXCEPT !.queue = SubSeq(@, k + 1, Len(@))]
    /\ UNCHANGED <<kvStoreVars, aliveCh, kvWatchVars, kvFaults>>

OnAlive(k) ==
    /\ kvPc = "loop" /\ k \in 1..Len(aliveCh.queue)
    /\ handleAliveEvents(SubSeq(aliveCh.queue, 1, k))
    /\ aliveCh' = [aliveCh EXCEPT !.queue = SubSeq(@, k + 1, Len(@))]
    /\ UNCHANGED <<kvStoreVars, configCh, kvWatchVars, kvFaults>>

\* The response of a watch is an error, which is noted; then its channel closes.
WatchError ==
    /\ kvPc = "loop" /\ KvFail /\ kvHadError' = TRUE
    /\ \/ configCh.queue = <<>> /\ configCh' = Closed /\ UNCHANGED aliveCh
       \/ aliveCh.queue = <<>> /\ aliveCh' = Closed /\ UNCHANGED configCh
    /\ UNCHANGED <<kvStoreVars, tableVars, kvPc, todo, got, kvTickErr, cancelled, synced>>

\* A closed channel, or the cancelled context, ends the goroutine.
Return ==
    /\ kvPc = "loop"
    /\ cancelled \/ "closed" \in {configCh.state, aliveCh.state}
    /\ KvGoto("returned")
    /\ UNCHANGED <<kvStoreVars, chanVars, tableVars, todo, got, kvTickErr, kvHadError, cancelled, synced, kvFaults>>

\* The ticker: a fetch that fails is noted, and the next tick clears the note.
TickMembers ==
    /\ kvPc = "loop" /\ KvGoto("tick")
    /\ \/ ~cancelled /\ getMembers /\ kvTickErr' = FALSE /\ synced' = TRUE /\ UNCHANGED kvFaults
       \/ KvFail /\ kvTickErr' = TRUE /\ UNCHANGED <<tableVars, synced>>
       \/ cancelled /\ kvTickErr' = TRUE /\ UNCHANGED <<tableVars, synced, kvFaults>>
    /\ UNCHANGED <<kvStoreVars, chanVars, todo, got, kvHadError, cancelled>>

TickAlives ==
    /\ kvPc = "tick" /\ KvGoto("loop") /\ kvTickErr' = FALSE
    /\ \/ ~cancelled /\ getAlives /\ kvHadError' = kvTickErr /\ UNCHANGED kvFaults
       \/ KvFail /\ kvHadError' = TRUE /\ UNCHANGED tableVars
       \/ cancelled /\ kvHadError' = TRUE /\ UNCHANGED <<tableVars, kvFaults>>
    /\ UNCHANGED <<kvStoreVars, chanVars, todo, got, cancelled, synced>>

\* The function that Subscribe returned; what is in the channels may still be
\* handled before the goroutine notices.
Close ==
    /\ kvPc \in {"watch", "watchAlive", "loop", "tick"} /\ ~cancelled
    /\ cancelled' = TRUE
    /\ UNCHANGED <<kvStoreVars, chanVars, tableVars, kvPc, todo, got, kvTickErr, kvHadError, synced, kvFaults>>

-----------------------------------------------------------------------------
(* The specification *)

StoreStep ==
    \E n \in KvNodes :
        \/ \E v \in Values : UpdateMember(n, v)
        \/ RemoveMember(n) \/ KeepAlive(n) \/ LeaseExpires(n)

WatchStep ==
    \/ Subscribe \/ SubscribeAlives \/ WatchConfig \/ WatchAlive
    \/ \E k \in 1..MaxBatch : OnConfig(k) \/ OnAlive(k)
    \/ TickMembers \/ TickAlives \/ Return

Next == StoreStep \/ WatchStep \/ SubscribeFail \/ WatchError \/ Close

Spec == KvInit /\ [][Next]_kvVars

\* The goroutine runs and its ticker ticks; select picks at random among what is
\* ready, so a tick does not keep it from returning for ever.
FairSpec == Spec /\ WF_kvVars(WatchStep) /\ SF_kvVars(Return)
=============================================================================
