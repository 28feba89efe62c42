-------------------------- MODULE RedisMembership --------------------------
(***************************************************************************)
(* The redis membership (membership/redis): the Lua scripts that keep the  *)
(* versioned tables of members and of heartbeats, and one subscriber that  *)
(* follows both by version, on notices, on a ticker, and after errors.     *)
(*                                                                         *)
(* A script runs atomically at the server.  The subscriber is sequential,  *)
(* so a fetch (script and update of the local tables) is one step; other   *)
(* nodes' scripts run between its steps.                                   *)
(***************************************************************************)
EXTENDS Naturals, FiniteSets

CONSTANTS
    Nodes,          \* logical addresses
    Returning,      \* nodes that go on with heartbeats after they were declared dead
    MaxVersion,     \* bound: versions of each table
    MaxFaults       \* bound: failed fetches and lost connections

ASSUME RedisAssumption ==
    /\ Returning \subseteq Nodes
    /\ MaxVersion \in Nat /\ MaxFaults \in Nat

VARIABLES
    memberVer,      \* the key members_version; 0 when it does not exist
    member,         \* the hash `members'; ver 0 is a field that does not exist
    aliveVer,       \* the key alive_version
    alive,          \* the hash `alive'
    cliMemberVer,   \* Membership.memberVersion
    cliAliveVer,    \* Membership.aliveVersion
    cliMembers,     \* Membership.members: what is configured, "none" when absent
    cliAlive,       \* Membership.alive
    view,           \* what the callbacks have told: "none", "up" or "down"
    cb,             \* the last callback
    notice,         \* published notices not yet taken from the channel
    pc,             \* Subscribe and the goroutine watch
    tickErr,        \* the first fetch of this tick failed
    hadError,
    faults

storeVars == <<memberVer, member, aliveVer, alive>>
cliVars == <<cliMemberVer, cliAliveVer, cliMembers, cliAlive, view, cb>>
watchVars == <<pc, tickErr, hadError>>
vars == <<storeVars, cliVars, notice, watchVars, faults>>

Versions == 0..MaxVersion
Config == {"none", "on", "off"}
\* "unreadable": the value has lost a separator and no pattern matches it.
Marks == {"true", "false", "unreadable"}
Channels == {"members", "alive"}
Feed == INSTANCE MemberFeed

\* The types; no version is newer than the table's.
TypeOK ==
    /\ memberVer \in Versions /\ aliveVer \in Versions
    /\ member \in [Nodes -> [ver : Versions, markdel : BOOLEAN, info : {"on", "off"}]]
    /\ alive \in [Nodes -> [ver : Versions, dead : Marks, late : BOOLEAN]]
    /\ cliMemberVer \in Versions /\ cliAliveVer \in Versions
    /\ cliMembers \in [Nodes -> Config]
    /\ cliAlive \subseteq Nodes
    /\ view \in [Nodes -> {"none", "up", "down"}]
    /\ cb \in [add : SUBSET Nodes, remove : SUBSET Nodes, update : SUBSET Nodes]
    /\ notice \subseteq Channels
    /\ pc \in {"subscribe", "alives", "connect", "loop", "tick", "recover", "recoverAlives",
               "resubscribe", "closed"}
    /\ tickErr \in BOOLEAN /\ hadError \in BOOLEAN
    /\ faults \in 0..MaxFaults
    /\ \A n \in Nodes : member[n].ver <= memberVer /\ alive[n].ver <= aliveVer
    /\ cliMemberVer <= memberVer /\ cliAliveVer <= aliveVer

Init ==
    /\ memberVer = 0 /\ aliveVer = 0
    /\ member = [n \in Nodes |-> [ver |-> 0, markdel |-> FALSE, info |-> "off"]]
    /\ alive = [n \in Nodes |-> [ver |-> 0, dead |-> "false", late |-> FALSE]]
    /\ cliMemberVer = 0 /\ cliAliveVer = 0
    /\ cliMembers = [n \in Nodes |-> "none"]
    /\ cliAlive = {}
    /\ Feed!Init
    /\ notice = {}
    /\ pc = "subscribe" /\ tickErr = FALSE /\ hadError = FALSE
    /\ faults = 0

-----------------------------------------------------------------------------
(* The scripts *)

Subscribed == pc \notin {"subscribe", "alives", "connect", "resubscribe", "closed"}

\* PUBLISH reaches who is subscribed.
Publish(channel) == notice' = IF Subscribed THEN notice \union {channel} ELSE notice

\* Mutant: the new version is not stored.
UpdateMember_NotStored(n, info) ==
    /\ memberVer < MaxVersion
    /\ member' = [member EXCEPT ![n] = [ver |-> memberVer + 1, markdel |-> FALSE, info |-> info]]
    /\ Publish("members")
    /\ UNCHANGED <<memberVer, aliveVer, alive, cliVars, watchVars, faults>>

\* ScriptUpdateMember, insert_update.
UpdateMember(n, info) ==
    /\ memberVer < MaxVersion
    /\ memberVer' = memberVer + 1
    /\ member' = [member EXCEPT ![n] = [ver |-> memberVer + 1, markdel |-> FALSE, info |-> info]]
    /\ Publish("members")
    /\ UNCHANGED <<aliveVer, alive, cliVars, watchVars, faults>>

\* ScriptUpdateMember, delete: the version grows even if there is nothing to mark.
RemoveMember(n) ==
    /\ memberVer < MaxVersion
    /\ memberVer' = memberVer + 1
    /\ IF member[n].ver > 0
       THEN /\ member' = [member EXCEPT ![n].ver = memberVer + 1, ![n].markdel = TRUE]
            /\ Publish("members")
       ELSE UNCHANGED <<member, notice>>
    /\ UNCHANGED <<aliveVer, alive, cliVars, watchVars, faults>>

\* ScriptHeartbeat.  The heartbeat of a dead node writes the version and the
\* deadline, without the mark between them; the next one finds no mark and takes
\* the node for alive.
KeepAlive(n) ==
    /\ aliveVer < MaxVersion
    /\ alive[n].dead # "false" => n \in Returning
    /\ IF alive[n].dead = "true"
       THEN /\ alive' = [alive EXCEPT ![n].dead = "unreadable", ![n].late = FALSE]
            /\ UNCHANGED <<aliveVer, notice>>
       ELSE /\ aliveVer' = aliveVer + 1
            /\ alive' = [alive EXCEPT ![n] = [ver |-> aliveVer + 1, dead |-> "false", late |-> FALSE]]
            /\ Publish("alive")
    /\ UNCHANGED <<memberVer, member, cliVars, watchVars, faults>>

\* A deadline passes.
Expire(n) ==
    /\ alive[n].ver > 0 /\ ~alive[n].late
    /\ alive' = [alive EXCEPT ![n].late = TRUE]
    /\ UNCHANGED <<memberVer, member, aliveVer, cliVars, notice, watchVars, faults>>

TimedOut == {n \in Nodes : alive[n].ver > 0 /\ alive[n].dead = "false" /\ alive[n].late}

\* Mutant: the version is stored, and the entries keep theirs.
CheckTimeout_OldVersion ==
    /\ aliveVer < MaxVersion
    /\ TimedOut # {}
    /\ aliveVer' = aliveVer + 1
    /\ alive' = [n \in Nodes |-> IF n \in TimedOut THEN [alive[n] EXCEPT !.dead = "true"] ELSE alive[n]]
    /\ Publish("alive")
    /\ UNCHANGED <<memberVer, member, cliVars, watchVars, faults>>

\* ScriptCheckTimeout: one new version for all nodes that are marked.
CheckTimeout ==
    /\ aliveVer < MaxVersion
    /\ TimedOut # {}
    /\ aliveVer' = aliveVer + 1
    /\ alive' = [n \in Nodes |-> IF n \in TimedOut
                                 THEN [alive[n] EXCEPT !.ver = aliveVer + 1, !.dead = "true"]
                                 ELSE alive[n]]
    /\ Publish("alive")
    /\ UNCHANGED <<memberVer, member, cliVars, watchVars, faults>>

-----------------------------------------------------------------------------
(* A fetch: the script and what the subscriber does with its reply *)

\* Mutant: a version that was just seen is taken for the next one.
MembersReply_OffByOne(v) ==
    {n \in Nodes : /\ member[n].ver > 0
                   /\ IF v = 0 THEN ~member[n].markdel ELSE member[n].ver > v + 1}

\* ScriptGetMembers for a client that has version v.
MembersReply(v) ==
    {n \in Nodes : /\ member[n].ver > 0
                   /\ IF v = 0 THEN ~member[n].markdel ELSE member[n].ver > v}

\* Available means configured and alive.
Status(info, up) == IF info = "none" THEN "none" ELSE IF info = "on" /\ up THEN "up" ELSE "down"

\* The callback, if there is anything to tell.
Tell(add, remove, update) ==
    cb' = IF add \union remove \union update = {} THEN cb
          ELSE [add |-> add, remove |-> remove, update |-> update]

\* Mutant: a member is announced as it is configured.
Announced_Config(n) == Status(IF member[n].markdel THEN "none" ELSE member[n].info, TRUE)

\* What a reply says of n: a marked member is gone.
Announced(n) == Status(IF member[n].markdel THEN "none" ELSE member[n].info, n \in cliAlive)

\* Mutant: a marked member is removed whether it is known or not.
TellMembers_Unknown(reply) ==
    LET known == {n \in Nodes : cliMembers[n] # "none"}
        marked == {n \in Nodes : member[n].markdel}
    IN Tell((reply \ marked) \ known, reply \intersect marked, (reply \ marked) \intersect known)

\* A marked member is removed if it is known, the others are added or updated.
TellMembers(reply) ==
    LET known == {n \in Nodes : cliMembers[n] # "none"}
        marked == {n \in Nodes : member[n].markdel}
    IN Tell((reply \ marked) \ known, reply \intersect marked \intersect known,
            (reply \ marked) \intersect known)

\* getMembers with version v.
getMembers(v) ==
    LET reply == MembersReply(v)
    IN IF memberVer \in {0, v}
       THEN cliMemberVer' = v /\ UNCHANGED <<cliMembers, view, cb>>
       ELSE /\ cliMemberVer' = memberVer
            /\ cliMembers' = [n \in Nodes |-> IF n \notin reply THEN cliMembers[n]
                                              ELSE IF member[n].markdel THEN "none" ELSE member[n].info]
            /\ view' = [n \in Nodes |-> IF n \in reply THEN Announced(n) ELSE view[n]]
            /\ TellMembers(reply)

\* ScriptGetAlives for a client that has version v: entries that can be read.
AlivesReply(v) ==
    {n \in Nodes : /\ alive[n].ver > 0 /\ alive[n].dead # "unreadable"
                   /\ IF v = 0 THEN alive[n].dead = "false" ELSE alive[n].ver > v}

\* getAlives with version v: the dead are announced as down, the newly alive as
\* up if they are configured so.
getAlives(v) ==
    LET dead == {n \in AlivesReply(v) : alive[n].dead = "true"}
        new == (AlivesReply(v) \ dead) \ cliAlive
        down == {n \in dead : cliMembers[n] # "none"}
        up == {n \in new : cliMembers[n] = "on"}
    IN IF aliveVer \in {0, v}
       THEN cliAliveVer' = v /\ UNCHANGED <<cliAlive, view, cb>>
       ELSE /\ cliAliveVer' = aliveVer
            /\ cliAlive' = (cliAlive \ dead) \union new
            /\ view' = [n \in Nodes |-> IF n \in down THEN "down" ELSE IF n \in up THEN "up" ELSE view[n]]
            /\ Tell({}, {}, down \union up)

Fail == faults < MaxFaults /\ faults' = faults + 1

\* A fetch, or an error that leaves everything as it is.
FetchMembers == getMembers(cliMemberVer) /\ UNCHANGED <<cliAliveVer, cliAlive>>

FetchAlives == getAlives(cliAliveVer) /\ UNCHANGED <<cliMemberVer, cliMembers>>

-----------------------------------------------------------------------------
(* Subscribe and watch *)

Goto(p) == pc' = p

SubscribeMembers ==
    /\ pc = "subscribe"
    /\ FetchMembers
    /\ Goto("alives")
    /\ UNCHANGED <<storeVars, notice, tickErr, hadError, faults>>

SubscribeAlives ==
    /\ pc = "alives"
    /\ FetchAlives
    /\ Goto("connect")
    /\ UNCHANGED <<storeVars, notice, tickErr, hadError, faults>>

\* Subscribe returns the error and nothing watches.
SubscribeFail ==
    /\ pc \in {"subscribe", "alives"}
    /\ Fail
    /\ Goto("closed")
    /\ UNCHANGED <<storeVars, cliVars, notice, tickErr, hadError>>

\* The redis subscription of watch and of resubscribe.
Connect ==
    /\ pc \in {"connect", "resubscribe"}
    /\ Goto("loop")
    /\ UNCHANGED <<storeVars, cliVars, notice, tickErr, hadError, faults>>

OnNotice(channel) ==
    /\ pc = "loop" /\ channel \in notice
    /\ notice' = notice \ {channel}
    /\ \/ /\ IF channel = "members" THEN FetchMembers ELSE FetchAlives
          /\ UNCHANGED <<hadError, faults>>
       \/ Fail /\ hadError' = TRUE /\ UNCHANGED cliVars
    /\ UNCHANGED <<storeVars, pc, tickErr>>

\* A notice that is lost on the way; nothing tells the subscriber.
LoseNotice(channel) ==
    /\ channel \in notice
    /\ notice' = notice \ {channel}
    /\ UNCHANGED <<storeVars, cliVars, watchVars, faults>>

\* The notices' channel is closed: subscribe again.
Disconnect ==
    /\ pc = "loop"
    /\ Fail
    /\ notice' = {}
    /\ hadError' = TRUE
    /\ Goto("resubscribe")
    /\ UNCHANGED <<storeVars, cliVars, tickErr>>

TickMembers ==
    /\ pc = "loop"
    /\ \/ FetchMembers /\ tickErr' = FALSE /\ UNCHANGED faults
       \/ Fail /\ tickErr' = TRUE /\ UNCHANGED cliVars
    /\ Goto("tick")
    /\ UNCHANGED <<storeVars, notice, hadError>>

\* Mutant: only the members are polled.
TickAlives_Skip ==
    /\ pc = "tick"
    /\ hadError' = (hadError \/ tickErr)
    /\ Goto(IF hadError /\ ~tickErr THEN "recover" ELSE "loop")
    /\ UNCHANGED <<storeVars, cliVars, notice, tickErr, faults>>

\* Recovery follows when both fetches went well after an error.
TickAlives ==
    /\ pc = "tick"
    /\ \/ /\ FetchAlives
          /\ hadError' = (hadError \/ tickErr)
          /\ Goto(IF hadError /\ ~tickErr THEN "recover" ELSE "loop")
          /\ UNCHANGED faults
       \/ Fail /\ hadError' = TRUE /\ Goto("loop") /\ UNCHANGED cliVars
    /\ UNCHANGED <<storeVars, notice, tickErr>>

\* Both versions are reset, and the members fetched; an error is ignored.
RecoverMembers ==
    /\ pc = "recover"
    /\ cliAliveVer' = 0
    /\ \/ getMembers(0) /\ UNCHANGED faults
       \/ Fail /\ cliMemberVer' = 0 /\ UNCHANGED <<cliMembers, view, cb>>
    /\ Goto("recoverAlives")
    /\ UNCHANGED <<storeVars, cliAlive, notice, tickErr, hadError>>

RecoverAlives ==
    /\ pc = "recoverAlives"
    /\ \/ FetchAlives /\ UNCHANGED faults
       \/ Fail /\ UNCHANGED cliVars
    /\ hadError' = FALSE
    /\ Goto("loop")
    /\ UNCHANGED <<storeVars, notice, tickErr>>

\* The function that Subscribe returned cancels the context.
Close ==
    /\ pc \in {"loop", "resubscribe"}
    /\ Goto("closed")
    /\ notice' = {}
    /\ UNCHANGED <<storeVars, cliVars, tickErr, hadError, faults>>

-----------------------------------------------------------------------------
(* The specification *)

ScriptStep ==
    \/ \E n \in Nodes :
         \/ \E info \in {"on", "off"} : UpdateMember(n, info)
         \/ RemoveMember(n) \/ KeepAlive(n) \/ Expire(n)
    \/ CheckTimeout

WatchStep ==
    \/ SubscribeMembers \/ SubscribeAlives \/ Connect
    \/ \E channel \in Channels : OnNotice(channel)
    \/ TickMembers \/ TickAlives \/ RecoverMembers \/ RecoverAlives

Next ==
    \/ ScriptStep
    \/ WatchStep
    \/ \E channel \in Channels : LoseNotice(channel)
    \/ SubscribeFail \/ Disconnect \/ Close

Spec == Init /\ [][Next]_vars

\* The goroutine runs and its ticker ticks; nothing else need happen.
FairSpec == Spec /\ WF_vars(WatchStep)

-----------------------------------------------------------------------------
(* Properties *)

\* The callbacks of getMembers and getAlives, each of which tells a part, add up
\* to what the local tables say: a node is up when it is configured available
\* and is alive.
ViewMatches ==
    \A n \in Nodes : view[n] = Status(cliMembers[n], n \in cliAlive)

\* Every callback is one that the node cache can apply: it adds who is unknown and
\* removes or updates who is known, whatever was fetched twice, late or after an
\* error.
Contract == Feed!Spec

Configured(n) == IF member[n].ver = 0 \/ member[n].markdel THEN "none" ELSE member[n].info

\* A change of the members up to the version the subscriber has is in its table:
\* until an error leads to a recovery, which resets the versions, no change is
\* skipped by the comparison of versions.
MembersCurrent ==
    faults = 0 => \A n \in Nodes : member[n].ver <= cliMemberVer => cliMembers[n] = Configured(n)

Readable(n) == alive[n].dead # "unreadable"

Beating(n) == alive[n].ver > 0 /\ alive[n].dead = "false"

\* The same of heartbeats and deaths, where an entry can be read.
AlivesCurrent ==
    faults = 0 =>
        \A n \in Nodes :
            Readable(n) /\ alive[n].ver <= cliAliveVer => (n \in cliAlive <=> Beating(n))

UpToDate ==
    \A n \in Nodes : Readable(n) => view[n] = Status(Configured(n), Beating(n))

\* Notices may be lost, but once the tables rest the subscriber's view becomes
\* what they say (the ticker of watch).
Converges == <>[](pc # "closed" /\ faults = 0 => UpToDate)

\* A node that was declared dead is not made alive by its heartbeat.
DeadStaysDead ==
    [][\A n \in Nodes : alive[n].dead # "false" => alive'[n].dead # "false"]_vars
=============================================================================
