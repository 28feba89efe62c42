------------------------------ MODULE KvStore ------------------------------
(***************************************************************************)
(* What the memberships over a key-value store with watches share: the     *)
(* store, with a range of keys for the configuration of the nodes and one  *)
(* for their heartbeats, the two watch channels, and the tables of one     *)
(* subscriber.  EtcdMembership and NatsMembership add what each of them    *)
(* does with these.                                                        *)
(***************************************************************************)
EXTENDS Naturals, Sequences, FiniteSets

CONSTANTS
    KvNodes,        \* logical addresses
    MaxChanges,     \* bound: changes of the store
    KvMaxFaults     \* bound: failed requests and broken watches

VARIABLES
    config,         \* the stored configuration; "bad" does not unmarshal
    beat,           \* the nodes whose heartbeat key exists
    changes,
    configCh,       \* the watch channels: state, and what was not received yet
    aliveCh,
    members,        \* Membership.members
    kvAlive,        \* Membership.alive
    kvView,         \* what the callbacks have told, as in MemberFeed
    kvCb,           \* the last callback
    kvPc,           \* Subscribe and the goroutine watch
    todo,           \* keys listed and not read yet
    got,            \* what was read of the others
    kvTickErr,      \* the first fetch of this tick failed
    kvHadError,
    cancelled,      \* close was called
    synced,         \* the members were fetched, all of them, since their watch began
    kvFaults

kvStoreVars == <<config, beat, changes>>
chanVars == <<configCh, aliveCh>>
tableVars == <<members, kvAlive, kvView, kvCb>>
kvWatchVars == <<kvPc, todo, got, kvTickErr, kvHadError, cancelled, synced>>
kvVars == <<kvStoreVars, chanVars, tableVars, kvWatchVars, kvFaults>>

Values == {"none", "on", "off", "bad"}
Configs == {"none", "on", "off"}
Events == [node : KvNodes, val : Values \union {"beat"}]
KvChannels == [state : {"nil", "open", "closed"}, queue : Seq(Events)]
KvFeed == INSTANCE MemberFeed WITH Nodes <- KvNodes, view <- kvView, cb <- kvCb

KvTypeOK ==
    /\ config \in [KvNodes -> Values] /\ beat \subseteq KvNodes /\ changes \in 0..MaxChanges
    /\ configCh \in KvChannels /\ aliveCh \in KvChannels
    /\ members \in [KvNodes -> Configs] /\ kvAlive \subseteq KvNodes
    /\ kvView \in [KvNodes -> {"none", "up", "down"}]
    /\ kvCb \in [add : SUBSET KvNodes, remove : SUBSET KvNodes, update : SUBSET KvNodes]
    /\ kvPc \in {"subscribe", "subGets", "alives", "watch", "watchAlive", "loop", "gets",
               "tick", "recover", "recoverAlive", "returned"}
    /\ todo \subseteq KvNodes /\ got \in [KvNodes -> Configs]
    /\ {kvTickErr, kvHadError, cancelled, synced} \subseteq BOOLEAN
    /\ kvFaults \in 0..KvMaxFaults

Closed == [state |-> "closed", queue |-> <<>>]
Unopened == [state |-> "nil", queue |-> <<>>]

\* The store may have been in use before Subscribe is called.
KvInit ==
    /\ config \in [KvNodes -> {"none", "on"}] /\ beat = {} /\ changes = 0
    /\ configCh = Unopened /\ aliveCh = Unopened
    /\ members = [n \in KvNodes |-> "none"] /\ kvAlive = {}
    /\ KvFeed!Init
    /\ kvPc = "subscribe" /\ todo = {} /\ got = [n \in KvNodes |-> "none"]
    /\ kvTickErr = FALSE /\ kvHadError = FALSE /\ cancelled = FALSE /\ synced = FALSE
    /\ kvFaults = 0

-----------------------------------------------------------------------------
(* The store *)

Emit(ch, n, v) ==
    IF ch.state = "open"
    THEN [ch EXCEPT !.queue = Append(@, [node |-> n, val |-> v])]
    ELSE ch

Change == changes < MaxChanges /\ changes' = changes + 1

\* A value is written, or deleted (v = "none"), and the watch is told.
WriteConfig(n, v) ==
    /\ Change
    /\ config' = [config EXCEPT ![n] = v]
    /\ configCh' = Emit(configCh, n, v)
    /\ UNCHANGED <<beat, aliveCh, tableVars, kvWatchVars, kvFaults>>

WriteBeat(n, up, told) ==
    /\ Change
    /\ beat' = IF up THEN beat \union {n} ELSE beat \ {n}
    /\ aliveCh' = IF told THEN Emit(aliveCh, n, IF up THEN "beat" ELSE "none") ELSE aliveCh
    /\ UNCHANGED <<config, configCh, tableVars, kvWatchVars, kvFaults>>

KvFail == kvFaults < KvMaxFaults /\ kvFaults' = kvFaults + 1

-----------------------------------------------------------------------------
(* The tables and the callback *)

KvStatus(info, up) == IF info = "none" THEN "none" ELSE IF info = "on" /\ up THEN "up" ELSE "down"

KvReadable(v) == IF v = "bad" THEN "none" ELSE v

In(table) == {n \in KvNodes : table[n] # "none"}

\* The callback, if there is anything to tell, and what the other side makes of
\* it: Add, then Remove, then Update; `up' are the nodes told to be available.
KvTell(add, remove, update, up) ==
    LET s(n) == IF n \in up THEN "up" ELSE "down"
        has(n) == kvView[n] # "none" \/ n \in add
    IN IF add \union remove \union update = {} THEN UNCHANGED <<kvView, kvCb>>
       ELSE /\ kvCb' = [add |-> add, remove |-> remove, update |-> update]
            /\ kvView' = [n \in KvNodes |-> IF n \in remove THEN "none"
                                        ELSE IF n \in add \union update /\ has(n) THEN s(n)
                                        ELSE kvView[n]]

\* The second part of getMembers: the difference between what was fetched and
\* the table, which it then replaces.
DiffMembers(fetched) ==
    /\ members' = fetched
    /\ KvTell(In(fetched) \ In(members), In(members) \ In(fetched), In(members) \intersect In(fetched),
            {n \in kvAlive : fetched[n] = "on"})
    /\ UNCHANGED kvAlive

\* The second part of getAlives: only what changed is told, and only of members.
DiffAlives(fetched) ==
    LET up == {n \in fetched \ kvAlive : members[n] = "on"}
        down == {n \in kvAlive \ fetched : members[n] # "none"}
    IN /\ kvAlive' = fetched
       /\ KvTell({}, {}, up \union down, up)
       /\ UNCHANGED members

KvGoto(p) == kvPc' = p

-----------------------------------------------------------------------------
(* Properties of both memberships *)

\* The callbacks of the full fetches and of the watched events, each of which
\* tells a part and is derived from both tables, add up to what the tables say.
KvViewMatches == \A n \in KvNodes : kvView[n] = KvStatus(members[n], n \in kvAlive)

Waiting(n) == \E i \in DOMAIN configCh.queue : configCh.queue[i].node = n

\* A full fetch runs ahead of the events that are still in the watch channel,
\* and these are then applied to newer tables.  They do no lasting harm: as soon
\* as no event of a node waits, the table has it as the store does.
KvStaleEventsHeal ==
    synced /\ kvPc = "loop" /\ configCh.state = "open" =>
        \A n \in KvNodes : ~Waiting(n) /\ config[n] # "bad" => members[n] = config[n]

\* Every callback is one that the node cache can apply.
KvContract == KvFeed!Spec

KvUpToDate == \A n \in KvNodes : kvView[n] = KvStatus(KvReadable(config[n]), n \in beat)

\* Events may be lost between the fetch and the watch, and requests may fail;
\* once the store rests, the view becomes what it says, unless the goroutine
\* watch has returned.
KvConverges == <>[](kvPc # "returned" => KvUpToDate)
=============================================================================
