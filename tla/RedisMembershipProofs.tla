----------------------- MODULE RedisMembershipProofs -----------------------
(***************************************************************************)
(* What the versions of the redis membership guarantee, for any set of     *)
(* nodes and any number of changes: the callbacks add up to the local      *)
(* tables, always, and keep the contract of MemberFeed; and, as long as no  *)
(* recovery resets the versions, a subscriber that has a version has every *)
(* change up to it.                                                        *)
(***************************************************************************)
EXTENDS RedisMembership, TLAPS

Infos == {"on", "off"}
Views == {"none", "up", "down"}
Members == [ver : Versions, markdel : BOOLEAN, info : Infos]
Alives == [ver : Versions, dead : Marks, late : BOOLEAN]
MemberInfos == [add : SUBSET Nodes, remove : SUBSET Nodes, update : SUBSET Nodes]

-----------------------------------------------------------------------------
(* Types *)

LEMMA TellType ==
    ASSUME NEW add \in SUBSET Nodes, NEW remove \in SUBSET Nodes, NEW update \in SUBSET Nodes,
           cb \in MemberInfos, Tell(add, remove, update)
    PROVE  cb' \in MemberInfos
BY Zenon DEF Tell, MemberInfos

LEMMA getMembersType ==
    ASSUME TypeOK, NEW v \in 0..cliMemberVer, getMembers(v)
    PROVE  /\ cliMemberVer' \in Versions /\ cliMemberVer' <= memberVer
           /\ cliMembers' \in [Nodes -> Config]
           /\ view' \in [Nodes -> Views]
           /\ cb' \in MemberInfos
<1>1. CASE memberVer \in {0, v}
  BY <1>1, RedisAssumption DEF getMembers, TypeOK, Versions, Views, MemberInfos
<1>2. CASE memberVer \notin {0, v}
  <2>1. cliMemberVer' = memberVer
    BY <1>2, Zenon DEF getMembers
  <2>2. cliMembers' \in [Nodes -> Config]
    BY <1>2 DEF getMembers, TypeOK, Config
  <2>3. view' \in [Nodes -> Views]
    BY <1>2, Zenon DEF getMembers, TypeOK, Views, Announced, Status
  <2>4. TellMembers(MembersReply(v)) /\ MembersReply(v) \subseteq Nodes
    BY <1>2, Zenon DEF getMembers, MembersReply
  <2>5. cb' \in MemberInfos
    <3>1. PICK add \in SUBSET Nodes, remove \in SUBSET Nodes, update \in SUBSET Nodes :
             Tell(add, remove, update)
      <4>. DEFINE known == {n \in Nodes : cliMembers[n] # "none"}
                  marked == {n \in Nodes : member[n].markdel}
                  reply == MembersReply(v)
      <4>1. Tell((reply \ marked) \ known, reply \intersect marked \intersect known,
                 (reply \ marked) \intersect known)
        BY <2>4, Zenon DEF TellMembers
      <4>. QED
        BY <2>4, <4>1, Zenon
    <3>. QED
      BY Zenon, <3>1, TellType DEF TypeOK, MemberInfos
  <2>. QED
    BY <2>1, <2>2, <2>3, <2>5, RedisAssumption DEF TypeOK, Versions
<1>. QED
  BY <1>1, <1>2, Zenon

LEMMA getAlivesType ==
    ASSUME TypeOK, NEW v \in 0..cliAliveVer, getAlives(v)
    PROVE  /\ cliAliveVer' \in Versions /\ cliAliveVer' <= aliveVer
           /\ cliAlive' \subseteq Nodes
           /\ view' \in [Nodes -> Views]
           /\ cb' \in MemberInfos
<1>1. CASE aliveVer \in {0, v}
  BY <1>1, RedisAssumption DEF getAlives, TypeOK, Versions, Views, MemberInfos
<1>2. CASE aliveVer \notin {0, v}
  <2>1. cliAliveVer' = aliveVer
    BY <1>2, Zenon DEF getAlives
  <2>2. cliAlive' \subseteq Nodes
    BY <1>2, Zenon DEF getAlives, TypeOK, AlivesReply
  <2>3. view' \in [Nodes -> Views]
    BY <1>2, Zenon DEF getAlives, TypeOK, Views
  <2>4. PICK down \in SUBSET Nodes, up \in SUBSET Nodes : Tell({}, {}, down \union up)
    <3>. DEFINE dead == {n \in AlivesReply(v) : alive[n].dead = "true"}
                new == (AlivesReply(v) \ dead) \ cliAlive
    <3>1. Tell({}, {}, {n \in dead : cliMembers[n] # "none"} \union {n \in new : cliMembers[n] = "on"})
      BY <1>2, Zenon DEF getAlives
    <3>2. AlivesReply(v) \subseteq Nodes
      BY Zenon DEF AlivesReply
    <3>. QED
      BY Zenon, <3>1, <3>2
  <2>5. cb' \in MemberInfos
    BY Zenon, <2>4, TellType DEF TypeOK, MemberInfos
  <2>. QED
    BY <2>1, <2>2, <2>3, <2>5, RedisAssumption DEF TypeOK, Versions
<1>. QED
  BY <1>1, <1>2, Zenon

\* The part of the type that the scripts change.
StoreOK ==
    /\ memberVer \in Versions /\ aliveVer \in Versions
    /\ member \in [Nodes -> Members]
    /\ alive \in [Nodes -> Alives]
    /\ \A n \in Nodes : member[n].ver <= memberVer /\ alive[n].ver <= aliveVer

\* The part that fetches change.
ClientOK ==
    /\ cliMemberVer \in Versions /\ cliAliveVer \in Versions
    /\ cliMembers \in [Nodes -> Config]
    /\ cliAlive \subseteq Nodes
    /\ view \in [Nodes -> Views]
    /\ cb \in MemberInfos
    /\ cliMemberVer <= memberVer /\ cliAliveVer <= aliveVer

\* The rest.
WatchOK ==
    /\ notice \subseteq Channels
    /\ pc \in {"subscribe", "alives", "connect", "loop", "tick", "recover", "recoverAlives",
               "resubscribe", "closed"}
    /\ tickErr \in BOOLEAN /\ hadError \in BOOLEAN
    /\ faults \in 0..MaxFaults

LEMMA TypeParts == TypeOK <=> StoreOK /\ ClientOK /\ WatchOK
BY Zenon DEF TypeOK, StoreOK, ClientOK, WatchOK, Members, Alives, Infos, Views, MemberInfos

\* A script changes one table and its version, upwards.
LEMMA ScriptType ==
    ASSUME TypeOK, ScriptStep
    PROVE  /\ StoreOK' /\ memberVer <= memberVer' /\ aliveVer <= aliveVer'
           /\ notice' \subseteq Channels
           /\ UNCHANGED <<cliVars, watchVars, faults>>
<1>0. StoreOK /\ notice \subseteq Channels
  BY TypeParts, Zenon DEF WatchOK
<1>. USE <1>0, RedisAssumption DEF StoreOK, Versions
<1>1. ASSUME NEW n \in Nodes, NEW info \in Infos, UpdateMember(n, info)
      PROVE  /\ StoreOK' /\ memberVer <= memberVer' /\ aliveVer <= aliveVer'
             /\ notice' \subseteq Channels
  <2>1. memberVer' = memberVer + 1 /\ memberVer' \in Versions /\ UNCHANGED <<aliveVer, alive>>
    BY <1>1 DEF UpdateMember
  <2>2. member' = [member EXCEPT ![n] = [ver |-> memberVer + 1, markdel |-> FALSE, info |-> info]]
    BY <1>1, Zenon DEF UpdateMember
  <2>3. [ver |-> memberVer + 1, markdel |-> FALSE, info |-> info] \in Members
    BY <2>1, Zenon DEF Members
  <2>4. member' \in [Nodes -> Members]
    BY <2>2, <2>3, Zenon
  <2>5. \A m \in Nodes : member'[m].ver <= memberVer'
    BY <2>1, <2>2 DEF Members
  <2>6. notice' \subseteq Channels
    BY <1>1, Zenon DEF UpdateMember, Publish, Channels
  <2>. QED
    BY <2>1, <2>4, <2>5, <2>6
<1>2. ASSUME NEW n \in Nodes, RemoveMember(n)
      PROVE  /\ StoreOK' /\ memberVer <= memberVer' /\ aliveVer <= aliveVer'
             /\ notice' \subseteq Channels
  <2>1. memberVer' = memberVer + 1 /\ memberVer' \in Versions /\ UNCHANGED <<aliveVer, alive>>
    BY <1>2 DEF RemoveMember
  <2>2. CASE member[n].ver > 0
    <3>1. member' = [member EXCEPT ![n] =
                       [ver |-> memberVer + 1, markdel |-> TRUE, info |-> member[n].info]]
      BY <1>2, <2>2 DEF RemoveMember, Members
    <3>2. [ver |-> memberVer + 1, markdel |-> TRUE, info |-> member[n].info] \in Members
      BY <2>1, Zenon DEF Members
    <3>3. member' \in [Nodes -> Members]
      BY <3>1, <3>2, Zenon
    <3>4. \A m \in Nodes : member'[m].ver <= memberVer'
      BY <2>1, <3>1 DEF Members
    <3>5. notice' \subseteq Channels
      BY <1>2, <2>2, Zenon DEF RemoveMember, Publish, Channels
    <3>. QED
      BY <2>1, <3>3, <3>4, <3>5
  <2>3. CASE ~(member[n].ver > 0)
    BY <1>2, <2>1, <2>3 DEF RemoveMember, Members
  <2>. QED
    BY <2>2, <2>3, Zenon
<1>3. ASSUME NEW n \in Nodes, KeepAlive(n)
      PROVE  /\ StoreOK' /\ memberVer <= memberVer' /\ aliveVer <= aliveVer'
             /\ notice' \subseteq Channels
  <2>1. CASE alive[n].dead = "true"
    <3>1. alive' = [alive EXCEPT ![n] =
                      [ver |-> alive[n].ver, dead |-> "unreadable", late |-> FALSE]]
      BY <1>3, <2>1 DEF KeepAlive, Alives
    <3>2. [ver |-> alive[n].ver, dead |-> "unreadable", late |-> FALSE] \in Alives
      BY Zenon DEF Alives, Marks
    <3>3. alive' \in [Nodes -> Alives]
      BY <3>1, <3>2, Zenon
    <3>4. \A m \in Nodes : alive'[m].ver <= aliveVer
      BY <3>1, Zenon DEF Alives
    <3>. QED
      BY <1>3, <2>1, <3>3, <3>4 DEF KeepAlive
  <2>2. CASE alive[n].dead # "true"
    <3>1. alive' = [alive EXCEPT ![n] = [ver |-> aliveVer + 1, dead |-> "false", late |-> FALSE]]
      BY <1>3, <2>2, Zenon DEF KeepAlive
    <3>2. aliveVer' = aliveVer + 1 /\ aliveVer' \in Versions /\ UNCHANGED <<memberVer, member>>
      BY <1>3, <2>2 DEF KeepAlive
    <3>3. [ver |-> aliveVer + 1, dead |-> "false", late |-> FALSE] \in Alives
      BY <3>2, Zenon DEF Alives, Marks
    <3>4. alive' \in [Nodes -> Alives]
      BY <3>1, <3>3, Zenon
    <3>5. \A m \in Nodes : alive'[m].ver <= aliveVer'
      BY <3>1, <3>2 DEF Alives
    <3>6. notice' \subseteq Channels
      BY <1>3, <2>2, Zenon DEF KeepAlive, Publish, Channels
    <3>. QED
      BY <3>2, <3>4, <3>5, <3>6
  <2>. QED
    BY <2>1, <2>2, Zenon
<1>4. ASSUME NEW n \in Nodes, Expire(n)
      PROVE  /\ StoreOK' /\ memberVer <= memberVer' /\ aliveVer <= aliveVer'
             /\ notice' \subseteq Channels
  <2>. DEFINE late == [alive[n] EXCEPT !.late = TRUE]
  <2>1. alive' = [alive EXCEPT ![n] = late]
    BY <1>4, Zenon DEF Expire
  <2>2. late \in Alives /\ late.ver = alive[n].ver
    BY Zenon DEF Alives
  <2>. HIDE DEF late
  <2>3. alive' \in [Nodes -> Alives]
    BY <2>1, <2>2, Zenon
  <2>4. \A m \in Nodes : alive'[m].ver <= aliveVer
    BY <2>1, <2>2, Zenon
  <2>. QED
    BY <1>4, <2>3, <2>4 DEF Expire
<1>5. ASSUME CheckTimeout
      PROVE  /\ StoreOK' /\ memberVer <= memberVer' /\ aliveVer <= aliveVer'
             /\ notice' \subseteq Channels
  <2>. DEFINE marked(m) == [alive[m] EXCEPT !.ver = aliveVer + 1, !.dead = "true"]
  <2>0. /\ aliveVer < MaxVersion /\ aliveVer' = aliveVer + 1
        /\ alive' = [m \in Nodes |-> IF m \in TimedOut THEN marked(m) ELSE alive[m]]
        /\ UNCHANGED <<memberVer, member>>
    BY <1>5, Zenon DEF CheckTimeout
  <2>1. aliveVer' = aliveVer + 1 /\ aliveVer' \in Versions /\ UNCHANGED <<memberVer, member>>
    <3>. HIDE DEF marked
    <3>. QED
      BY <2>0
  <2>2. \A m \in Nodes : marked(m) \in Alives /\ marked(m).ver = aliveVer'
    BY Zenon, <2>1 DEF Alives, Marks
  <2>. HIDE DEF marked
  <2>3. alive' \in [Nodes -> Alives]
    BY <2>0, <2>2, Zenon
  <2>4. \A m \in Nodes : alive'[m].ver <= aliveVer'
    <3>1. \A m \in Nodes : alive[m].ver \in Versions /\ alive[m].ver <= aliveVer
      BY Zenon DEF Alives
    <3>2. \A m \in Nodes : alive'[m].ver = alive[m].ver \/ alive'[m].ver = aliveVer'
      BY <2>0, <2>2, Zenon
    <3>. QED
      BY <2>1, <3>1, <3>2
  <2>5. notice' \subseteq Channels
    BY Zenon, <1>5 DEF CheckTimeout, Publish, Channels
  <2>. QED
    BY <2>1, <2>3, <2>4, <2>5
<1>6. UNCHANGED <<cliVars, watchVars, faults>>
  BY Zenon DEF ScriptStep, UpdateMember, RemoveMember, KeepAlive, Expire, CheckTimeout, cliVars, watchVars
<1>. QED
  BY <1>1, <1>2, <1>3, <1>4, <1>5, <1>6, Zenon DEF ScriptStep, Infos

\* The steps of the subscriber, by what they fetch.
LEMMA WatchCases ==
    ASSUME TypeOK, Next, ~ScriptStep
    PROVE  /\ UNCHANGED storeVars
           /\ \/ FetchMembers
              \/ FetchAlives
              \/ pc = "recover" /\ cliAliveVer' = 0 /\ UNCHANGED cliAlive /\ getMembers(0)
              \/ /\ pc = "recover" /\ cliMemberVer' = 0 /\ cliAliveVer' = 0
                 /\ UNCHANGED <<cliMembers, cliAlive, view, cb>>
              \/ UNCHANGED cliVars
<1>1. CASE SubscribeMembers \/ SubscribeAlives \/ Connect \/ SubscribeFail \/ Disconnect \/ Close
  BY <1>1, Zenon DEF SubscribeMembers, SubscribeAlives, Connect, SubscribeFail, Disconnect, Close
<1>2. ASSUME NEW channel \in Channels, OnNotice(channel) \/ LoseNotice(channel)
      PROVE  UNCHANGED storeVars /\ (FetchMembers \/ FetchAlives \/ UNCHANGED cliVars)
  BY <1>2, Zenon DEF OnNotice, LoseNotice
<1>3. CASE TickMembers \/ TickAlives \/ RecoverAlives
  BY <1>3, Zenon DEF TickMembers, TickAlives, RecoverAlives
<1>4. CASE RecoverMembers
  BY <1>4, Zenon DEF RecoverMembers
<1>. QED
  BY <1>1, <1>2, <1>3, <1>4, Zenon DEF Next, WatchStep

LEMMA WatchType ==
    ASSUME TypeOK, Next, ~ScriptStep
    PROVE  WatchOK'
<1>0. WatchOK
  BY TypeParts, Zenon
<1>. USE <1>0, RedisAssumption DEF WatchOK
<1>1. CASE SubscribeMembers
  BY <1>1, Zenon DEF SubscribeMembers, Goto
<1>2. CASE SubscribeAlives
  BY <1>2, Zenon DEF SubscribeAlives, Goto
<1>3. CASE Connect
  BY <1>3, Zenon DEF Connect, Goto
<1>4. ASSUME NEW channel \in Channels, OnNotice(channel)
      PROVE  WatchOK'
  <2>1. hadError' \in BOOLEAN
    BY <1>4, Zenon DEF OnNotice
  <2>2. faults' \in 0..MaxFaults
    BY <1>4 DEF OnNotice, Fail
  <2>. QED
    BY <1>4, <2>1, <2>2, Zenon DEF OnNotice
<1>5. CASE TickMembers
  <2>1. tickErr' \in BOOLEAN
    BY <1>5, Zenon DEF TickMembers
  <2>2. faults' \in 0..MaxFaults
    BY <1>5 DEF TickMembers, Fail
  <2>. QED
    BY <1>5, <2>1, <2>2, Zenon DEF TickMembers, Goto
<1>6. CASE TickAlives
  <2>1. hadError' \in BOOLEAN
    BY Zenon, <1>6 DEF TickAlives
  <2>. QED
    BY <1>6, <2>1 DEF TickAlives, Fail, Goto
<1>7. CASE RecoverMembers
  BY <1>7 DEF RecoverMembers, Fail, Goto
<1>8. CASE RecoverAlives
  <2>1. hadError' \in BOOLEAN
    BY <1>8, Zenon DEF RecoverAlives
  <2>2. faults' \in 0..MaxFaults
    BY <1>8 DEF RecoverAlives, Fail
  <2>. QED
    BY <1>8, <2>1, <2>2, Zenon DEF RecoverAlives, Goto
<1>9. ASSUME NEW channel \in Channels, LoseNotice(channel)
      PROVE  WatchOK'
  BY <1>9, Zenon DEF LoseNotice, watchVars
<1>10. CASE SubscribeFail
  BY <1>10 DEF SubscribeFail, Fail, Goto
<1>11. CASE Disconnect
  BY <1>11 DEF Disconnect, Fail, Goto
<1>12. CASE Close
  BY <1>12, Zenon DEF Close, Goto
<1>. QED
  BY <1>1, <1>2, <1>3, <1>4, <1>5, <1>6, <1>7, <1>8, <1>9, <1>10, <1>11, <1>12, Zenon
     DEF Next, WatchStep

LEMMA TypeStep ==
    ASSUME TypeOK, [Next]_vars
    PROVE  TypeOK'
<1>. SUFFICES StoreOK' /\ ClientOK' /\ WatchOK'
  BY Zenon DEF TypeOK, StoreOK, ClientOK, WatchOK, Members, Alives, Infos, Views, MemberInfos
<1>0. StoreOK /\ ClientOK /\ WatchOK
  BY TypeParts, Zenon
<1>1. CASE ScriptStep
  <2>1. StoreOK' /\ WatchOK'
    BY <1>0, <1>1, ScriptType, Zenon DEF WatchOK, watchVars
  <2>2. memberVer <= memberVer' /\ aliveVer <= aliveVer' /\ UNCHANGED cliVars
    BY <1>1, ScriptType, Zenon
  <2>3. ClientOK'
    BY <1>0, <2>1, <2>2, RedisAssumption DEF ClientOK, StoreOK, cliVars, Versions
  <2>. QED
    BY <2>1, <2>3, Zenon
<1>2. CASE Next /\ ~ScriptStep
  <2>1. WatchOK'
    BY <1>2, WatchType, Zenon
  <2>2. UNCHANGED storeVars
    BY <1>2, WatchCases, Zenon
  <2>3. StoreOK'
    BY <1>0, <2>2, Zenon DEF StoreOK, storeVars
  <2>4. cliMemberVer \in 0..cliMemberVer /\ cliAliveVer \in 0..cliAliveVer
        /\ 0 \in 0..cliMemberVer /\ 0 \in 0..cliAliveVer
    BY <1>0, RedisAssumption DEF ClientOK, Versions
  <2>5. CASE FetchMembers
    <3>1. /\ cliMemberVer' \in Versions /\ cliMemberVer' <= memberVer
          /\ cliMembers' \in [Nodes -> Config] /\ view' \in [Nodes -> Views] /\ cb' \in MemberInfos
      BY <2>4, <2>5, getMembersType, Zenon DEF FetchMembers
    <3>. QED
      BY <1>0, <2>1, <2>2, <2>3, <2>5, <3>1, Zenon DEF ClientOK, FetchMembers, storeVars
  <2>6. CASE FetchAlives
    <3>1. /\ cliAliveVer' \in Versions /\ cliAliveVer' <= aliveVer
          /\ cliAlive' \subseteq Nodes /\ view' \in [Nodes -> Views] /\ cb' \in MemberInfos
      BY <2>4, <2>6, getAlivesType, Zenon DEF FetchAlives
    <3>. QED
      BY <1>0, <2>1, <2>2, <2>3, <2>6, <3>1, Zenon DEF ClientOK, FetchAlives, storeVars
  <2>7. CASE pc = "recover" /\ cliAliveVer' = 0 /\ UNCHANGED cliAlive /\ getMembers(0)
    <3>1. /\ cliMemberVer' \in Versions /\ cliMemberVer' <= memberVer
          /\ cliMembers' \in [Nodes -> Config] /\ view' \in [Nodes -> Views] /\ cb' \in MemberInfos
      BY <2>4, <2>7, getMembersType, Zenon
    <3>2. 0 \in Versions /\ 0 <= aliveVer
      BY <1>0, RedisAssumption DEF StoreOK, Versions
    <3>. QED
      BY <1>0, <2>1, <2>2, <2>3, <2>7, <3>1, <3>2, Zenon DEF ClientOK, storeVars
  <2>8. CASE /\ pc = "recover" /\ cliMemberVer' = 0 /\ cliAliveVer' = 0
             /\ UNCHANGED <<cliMembers, cliAlive, view, cb>>
    <3>2. 0 \in Versions /\ 0 <= aliveVer /\ 0 <= memberVer
      BY <1>0, RedisAssumption DEF StoreOK, Versions
    <3>. QED
      BY <1>0, <2>1, <2>2, <2>3, <2>8, <3>2, Zenon DEF ClientOK, storeVars
  <2>9. CASE UNCHANGED cliVars
    BY <1>0, <2>1, <2>2, <2>3, <2>9, Zenon DEF ClientOK, cliVars, storeVars
  <2>. QED
    BY <1>2, <2>5, <2>6, <2>7, <2>8, <2>9, WatchCases, Zenon
<1>3. CASE UNCHANGED vars
  BY <1>0, <1>3, Zenon DEF StoreOK, ClientOK, WatchOK, vars, storeVars, cliVars, watchVars
<1>. QED
  BY <1>1, <1>2, <1>3, Zenon

\* Every variable of the redis membership keeps its type, and no entry and no
\* subscriber has a version newer than the version key of the scripts.
THEOREM TypeCorrect == Spec => []TypeOK
<1>1. Init => TypeOK
  <2>. SUFFICES ASSUME Init
                PROVE  StoreOK /\ ClientOK /\ WatchOK
    BY TypeParts, Zenon
  <2>0. 0 \in Versions /\ 0 \in 0..MaxFaults
    BY RedisAssumption DEF Versions
  <2>1. [ver |-> 0, markdel |-> FALSE, info |-> "off"] \in Members
        /\ [ver |-> 0, dead |-> "false", late |-> FALSE] \in Alives
    BY <2>0, Zenon DEF Members, Alives, Infos, Marks
  <2>2. StoreOK
    BY <2>0, <2>1 DEF Init, StoreOK
  <2>3. ClientOK
    BY <2>0 DEF Init, Feed!Init, Feed!Nobody, ClientOK, Config, Views, MemberInfos
  <2>4. WatchOK
    BY Zenon, <2>0 DEF Init, WatchOK
  <2>. QED
    BY <2>2, <2>3, <2>4, Zenon
<1>2. TypeOK /\ [Next]_vars => TypeOK'
  BY TypeStep, Zenon
<1>. QED
  BY <1>1, <1>2, PTL DEF Spec

-----------------------------------------------------------------------------
(* The callbacks *)

LEMMA ViewMembers ==
    ASSUME TypeOK, ViewMatches, NEW v, getMembers(v), UNCHANGED cliAlive
    PROVE  ViewMatches'
<1>1. CASE memberVer \in {0, v}
  BY <1>1, Zenon DEF getMembers, ViewMatches, Status
<1>2. CASE memberVer \notin {0, v}
  <2>. DEFINE info(n) == IF member[n].markdel THEN "none" ELSE member[n].info
  <2>1. cliMembers' = [n \in Nodes |-> IF n \notin MembersReply(v) THEN cliMembers[n] ELSE info(n)]
        /\ view' = [n \in Nodes |-> IF n \in MembersReply(v)
                                    THEN Status(info(n), n \in cliAlive) ELSE view[n]]
    BY <1>2, Zenon DEF getMembers, Announced
  <2>. HIDE DEF info
  <2>2. ASSUME NEW n \in Nodes
        PROVE  view'[n] = Status(cliMembers'[n], n \in cliAlive)
    BY <2>1, Zenon DEF ViewMatches
  <2>. QED
    BY <2>2, Zenon DEF ViewMatches, Status
<1>. QED
  BY <1>1, <1>2, Zenon

LEMMA ViewAlives ==
    ASSUME TypeOK, ViewMatches, NEW v, getAlives(v), UNCHANGED cliMembers
    PROVE  ViewMatches'
<1>1. CASE aliveVer \in {0, v}
  BY <1>1, Zenon DEF getAlives, ViewMatches, Status
<1>2. CASE aliveVer \notin {0, v}
  <2>. DEFINE dead == {n \in AlivesReply(v) : alive[n].dead = "true"}
              new == (AlivesReply(v) \ dead) \ cliAlive
  <2>1. cliAlive' = (cliAlive \ dead) \union new
        /\ view' = [n \in Nodes |-> IF n \in {m \in dead : cliMembers[m] # "none"} THEN "down"
                                    ELSE IF n \in {m \in new : cliMembers[m] = "on"} THEN "up"
                                    ELSE view[n]]
    BY <1>2, Zenon DEF getAlives
  <2>2. dead \intersect new = {}
    BY Zenon
  <2>. HIDE DEF dead, new
  <2>3. ASSUME NEW n \in Nodes
        PROVE  view'[n] = Status(cliMembers[n], n \in cliAlive')
    <3>1. view[n] = Status(cliMembers[n], n \in cliAlive)
      BY Zenon DEF ViewMatches
    <3>2. CASE n \in dead
      <4>1. n \notin cliAlive'
        BY <2>1, <2>2, <3>2, Zenon
      <4>. QED
        BY <2>1, <2>2, <3>1, <3>2, <4>1, Zenon DEF Status
    <3>3. CASE n \in new
      <4>1. n \in cliAlive' /\ n \notin dead
        BY <2>1, <2>2, <3>3, Zenon
      <4>. QED
        BY <2>1, <3>1, <3>3, <4>1, Zenon DEF Status
    <3>4. CASE n \notin dead /\ n \notin new
      <4>1. n \in cliAlive' <=> n \in cliAlive
        BY <2>1, <3>4, Zenon
      <4>. QED
        BY <2>1, <3>1, <3>4, <4>1, Zenon DEF Status
    <3>. QED
      BY <3>2, <3>3, <3>4, Zenon
  <2>. QED
    BY <2>3, Zenon DEF ViewMatches, Status
<1>. QED
  BY <1>1, <1>2, Zenon

\* However errors, recoveries, notices and ticks alternate, the callbacks of
\* getMembers and getAlives add up to the subscriber's tables.
THEOREM ViewCorrect == Spec => []ViewMatches
<1>1. Init => ViewMatches
  BY Zenon DEF Init, Feed!Init, ViewMatches, Status
<1>2. TypeOK /\ ViewMatches /\ [Next]_vars => ViewMatches'
  <2>. SUFFICES ASSUME TypeOK, ViewMatches, [Next]_vars
                PROVE  ViewMatches'
    BY Zenon
  <2>1. ASSUME UNCHANGED <<cliMembers, cliAlive, view>>
        PROVE  ViewMatches'
    BY <2>1, Zenon DEF ViewMatches, Status
  <2>2. CASE ScriptStep
    BY <2>1, <2>2, ScriptType, Zenon DEF cliVars
  <2>3. CASE Next /\ ~ScriptStep
    <3>1. CASE FetchMembers
      BY <3>1, ViewMembers, Zenon DEF FetchMembers
    <3>2. CASE FetchAlives
      BY <3>2, ViewAlives, Zenon DEF FetchAlives
    <3>3. CASE UNCHANGED cliAlive /\ getMembers(0)
      BY <3>3, ViewMembers, Zenon
    <3>4. CASE UNCHANGED cliVars
      BY <2>1, <3>4, Zenon DEF cliVars
    <3>. QED
      BY <2>1, <2>3, <3>1, <3>2, <3>3, <3>4, WatchCases, Zenon
  <2>4. CASE UNCHANGED vars
    BY <2>1, <2>4, Zenon DEF vars, cliVars
  <2>. QED
    BY <2>2, <2>3, <2>4, Zenon
<1>. QED
  BY <1>1, <1>2, TypeCorrect, PTL DEF Spec

-----------------------------------------------------------------------------
(* The contract of MemberFeed *)

LEMMA KnownMembers ==
    ASSUME TypeOK, ViewMatches
    PROVE  Feed!Known = {n \in Nodes : cliMembers[n] # "none"}
BY Zenon DEF Feed!Known, ViewMatches, Status

\* What is told of members is what the cache can apply.
LEMMA MembersRefine ==
    ASSUME TypeOK, TypeOK', ViewMatches, NEW v, getMembers(v)
    PROVE  [Feed!Next]_<<view, cb>>
<1>1. CASE memberVer \in {0, v}
  BY <1>1, Zenon DEF getMembers
<1>2. CASE memberVer \notin {0, v}
  <2>. DEFINE reply == MembersReply(v)
              marked == {n \in Nodes : member[n].markdel}
              add == (reply \ marked) \ Feed!Known
              remove == reply \intersect marked \intersect Feed!Known
              update == (reply \ marked) \intersect Feed!Known
  <2>1. view' = [n \in Nodes |-> IF n \in reply THEN Announced(n) ELSE view[n]]
    BY <1>2, Zenon DEF getMembers
  <2>2. Tell(add, remove, update)
    <3>1. TellMembers(reply)
      BY <1>2, Zenon DEF getMembers
    <3>. QED
      BY <3>1, KnownMembers, Zenon DEF TellMembers
  <2>3. reply \subseteq Nodes
    BY Zenon DEF MembersReply
  <2>4. \A n \in reply : Announced(n) = "none" <=> n \in marked
    BY Zenon, <2>3 DEF Announced, Status, TypeOK
  <2>. HIDE DEF reply, marked
  <2>5. CASE add \union remove \union update = {}
    <3>1. UNCHANGED cb
      BY <2>2, <2>5, Zenon DEF Tell
    <3>2. ASSUME NEW n \in Nodes
          PROVE  view'[n] = view[n]
      <4>1. CASE n \in reply
        <5>1. n \in marked /\ n \notin Feed!Known
          BY <2>5, <4>1, Zenon
        <5>. QED
          BY <2>1, <2>4, <4>1, <5>1, Zenon DEF Feed!Known
      <4>2. CASE n \notin reply
        BY <2>1, <4>2, Zenon
      <4>. QED
        BY <4>1, <4>2, Zenon
    <3>. QED
      BY <2>1, <3>1, <3>2, Zenon DEF TypeOK
  <2>6. CASE add \union remove \union update # {}
    <3>1. cb' = [add |-> add, remove |-> remove, update |-> update]
      BY <2>2, <2>6, Zenon DEF Tell
    <3>2. cb'.add = add /\ cb'.remove = remove /\ cb'.update = update
      BY <3>1, Zenon
    <3>3. /\ add \intersect Feed!Known = {}
          /\ remove \subseteq Feed!Known \union add
          /\ update \subseteq (Feed!Known \union add) \ remove
      BY Zenon
    <3>4. ASSUME NEW n \in Nodes
          PROVE  /\ view'[n] # "none" <=> n \in (Feed!Known \union add) \ remove
                 /\ n \notin add \union update \union remove => view'[n] = view[n]
      <4>0. n \in Feed!Known <=> view[n] # "none"
        BY Zenon DEF Feed!Known
      <4>1. CASE n \in reply
        BY <2>1, <2>4, <4>0, <4>1, Zenon
      <4>2. CASE n \notin reply
        BY <2>1, <4>0, <4>2, Zenon
      <4>. QED
        BY <4>1, <4>2, Zenon
    <3>. HIDE DEF add, remove, update
    <3>. QED
      BY <3>2, <3>3, <3>4, Zenon DEF Feed!Next, TypeOK
  <2>. QED
    BY <2>5, <2>6, Zenon
<1>. QED
  BY <1>1, <1>2, Zenon

\* Heartbeats and deaths update nodes that are known.
LEMMA AlivesRefine ==
    ASSUME TypeOK, TypeOK', ViewMatches, NEW v, getAlives(v)
    PROVE  [Feed!Next]_<<view, cb>>
<1>1. CASE aliveVer \in {0, v}
  BY <1>1, Zenon DEF getAlives
<1>2. CASE aliveVer \notin {0, v}
  <2>. DEFINE dead == {n \in AlivesReply(v) : alive[n].dead = "true"}
              new == (AlivesReply(v) \ dead) \ cliAlive
              down == {n \in dead : cliMembers[n] # "none"}
              up == {n \in new : cliMembers[n] = "on"}
  <2>1. /\ view' = [n \in Nodes |-> IF n \in down THEN "down" ELSE IF n \in up THEN "up" ELSE view[n]]
        /\ Tell({}, {}, down \union up)
    BY <1>2, Zenon DEF getAlives
  <2>2. down \subseteq Feed!Known /\ up \subseteq Feed!Known
    BY KnownMembers, Zenon DEF AlivesReply
  <2>. HIDE DEF dead, new, down, up
  <2>3. CASE down \union up = {}
    BY <2>1, <2>3 DEF Tell, TypeOK
  <2>4. CASE down \union up # {}
    <3>1. cb' = [add |-> {}, remove |-> {}, update |-> down \union up]
      BY <2>1, <2>4, Zenon DEF Tell
    <3>2. cb'.add = {} /\ cb'.remove = {} /\ cb'.update = down \union up
      BY <3>1, Zenon
    <3>3. ASSUME NEW n \in Nodes
          PROVE  /\ view'[n] # "none" <=> n \in Feed!Known
                 /\ n \notin down \union up => view'[n] = view[n]
      BY <2>1, <2>2, Zenon DEF Feed!Known
    <3>. QED
      BY <2>2, <3>2, <3>3 DEF Feed!Next, TypeOK
  <2>. QED
    BY <2>3, <2>4, Zenon
<1>. QED
  BY <1>1, <1>2, Zenon

\* The redis subscriber implements the contract that onNodeInfoUpdate relies on,
\* through every error and recovery: it never adds a node twice, and never removes
\* or updates one it has not added.
THEOREM KeepsContract == Spec => Contract
<1>1. Init => Feed!Init
  BY Zenon DEF Init
<1>2. TypeOK /\ TypeOK' /\ ViewMatches /\ [Next]_vars => [Feed!Next]_<<view, cb>>
  <2>. SUFFICES ASSUME TypeOK, TypeOK', ViewMatches, [Next]_vars
                PROVE  [Feed!Next]_<<view, cb>>
    BY Zenon
  <2>1. CASE ScriptStep
    BY <2>1, ScriptType, Zenon DEF cliVars
  <2>2. CASE Next /\ ~ScriptStep
    <3>1. CASE FetchMembers
      BY <3>1, MembersRefine, Zenon DEF FetchMembers
    <3>2. CASE FetchAlives
      BY <3>2, AlivesRefine, Zenon DEF FetchAlives
    <3>3. CASE getMembers(0)
      BY <3>3, MembersRefine, Zenon
    <3>4. CASE UNCHANGED cliVars \/ UNCHANGED <<cliMembers, cliAlive, view, cb>>
      BY <3>4, Zenon DEF cliVars
    <3>. QED
      BY <2>2, <3>1, <3>2, <3>3, <3>4, WatchCases, Zenon
  <2>3. CASE UNCHANGED vars
    BY <2>3, Zenon DEF vars, cliVars
  <2>. QED
    BY <2>1, <2>2, <2>3, Zenon
<1>. QED
  BY <1>1, <1>2, TypeCorrect, ViewCorrect, PTL DEF Spec, Contract, Feed!Spec

-----------------------------------------------------------------------------
(* Versions *)

\* Without errors there is no recovery.
Clean ==
    /\ faults = 0 /\ ~hadError /\ ~tickErr
    /\ pc \notin {"recover", "recoverAlives"}

\* Errors are counted and never forgotten.
LEMMA FaultsStep ==
    ASSUME TypeOK, [Next]_vars, faults' = 0
    PROVE  faults = 0
<1>0. faults \in Nat
  BY RedisAssumption DEF TypeOK
<1>1. faults' = faults \/ faults' = faults + 1
  <2>1. CASE ScriptStep
    BY <2>1, ScriptType, Zenon
  <2>2. CASE SubscribeMembers \/ SubscribeAlives \/ Connect \/ Close \/ SubscribeFail \/ Disconnect
    BY <2>2, Zenon
       DEF SubscribeMembers, SubscribeAlives, Connect, Close, SubscribeFail, Disconnect, Fail
  <2>3. ASSUME NEW channel \in Channels, OnNotice(channel) \/ LoseNotice(channel)
        PROVE  faults' = faults \/ faults' = faults + 1
    BY <2>3, Zenon DEF OnNotice, LoseNotice, Fail
  <2>4. CASE TickMembers \/ TickAlives \/ RecoverMembers \/ RecoverAlives
    BY <2>4, Zenon DEF TickMembers, TickAlives, RecoverMembers, RecoverAlives, Fail
  <2>5. CASE UNCHANGED vars
    BY <2>5, Zenon DEF vars
  <2>. QED
    BY <2>1, <2>2, <2>3, <2>4, <2>5, Zenon DEF Next, WatchStep
<1>. QED
  BY <1>0, <1>1

LEMMA CleanStep ==
    ASSUME TypeOK, Clean, faults' = 0, [Next]_vars
    PROVE  Clean'
<1>0. ~Fail
  BY DEF Clean, Fail
<1>1. CASE ScriptStep
  BY <1>1, ScriptType DEF Clean, watchVars
<1>2. CASE SubscribeMembers \/ SubscribeAlives \/ Connect \/ Close
  BY <1>2 DEF SubscribeMembers, SubscribeAlives, Connect, Close, Goto, Clean
<1>3. ASSUME NEW channel \in Channels, OnNotice(channel) \/ LoseNotice(channel)
      PROVE  Clean'
  BY <1>0, <1>3 DEF OnNotice, LoseNotice, Clean, watchVars
<1>4. CASE TickMembers
  BY <1>0, <1>4, Zenon DEF TickMembers, Goto, Clean
<1>5. CASE TickAlives
  BY Zenon, <1>0, <1>5 DEF TickAlives, Goto, Clean
<1>6. CASE RecoverMembers \/ RecoverAlives \/ SubscribeFail \/ Disconnect
  BY <1>0, <1>6, Zenon DEF RecoverMembers, RecoverAlives, SubscribeFail, Disconnect, Clean
<1>7. CASE UNCHANGED vars
  BY <1>7, Zenon DEF vars, watchVars, Clean
<1>. QED
  BY <1>1, <1>2, <1>3, <1>4, <1>5, <1>6, <1>7, Zenon DEF Next, WatchStep

MembersHave == \A n \in Nodes : member[n].ver <= cliMemberVer => cliMembers[n] = Configured(n)

\* A subscriber that has no version knows no member.
MembersInv == MembersHave /\ (cliMemberVer = 0 => \A n \in Nodes : cliMembers[n] = "none")

LEMMA MembersScript ==
    ASSUME TypeOK, MembersInv, ScriptStep
    PROVE  MembersInv'
<1>0. StoreOK /\ ClientOK /\ UNCHANGED cliVars
  BY TypeParts, ScriptType, Zenon
<1>1. ASSUME NEW n \in Nodes
      PROVE  member'[n] = member[n] \/ member'[n].ver = memberVer + 1
  <2>1. ASSUME NEW m \in Nodes, NEW info \in Infos, UpdateMember(m, info)
        PROVE  member'[n] = member[n] \/ member'[n].ver = memberVer + 1
    BY <1>0, <2>1, Zenon DEF UpdateMember, StoreOK
  <2>2. ASSUME NEW m \in Nodes, RemoveMember(m)
        PROVE  member'[n] = member[n] \/ member'[n].ver = memberVer + 1
    BY <1>0, <2>2 DEF RemoveMember, StoreOK, Members
  <2>3. ASSUME NEW m \in Nodes, KeepAlive(m) \/ Expire(m)
        PROVE  member' = member
    BY <2>3, Zenon DEF KeepAlive, Expire
  <2>4. CASE CheckTimeout
    BY <2>4, Zenon DEF CheckTimeout
  <2>. QED
    BY <2>1, <2>2, <2>3, <2>4, Zenon DEF ScriptStep, Infos
<1>2. ASSUME NEW n \in Nodes, member'[n].ver <= cliMemberVer
      PROVE  member'[n] = member[n]
  BY <1>0, <1>1, <1>2, RedisAssumption DEF StoreOK, ClientOK, Versions
<1>3. ASSUME NEW n \in Nodes, member'[n].ver <= cliMemberVer
      PROVE  cliMembers[n] = Configured(n)'
  BY <1>2, <1>3, Zenon DEF MembersInv, MembersHave, Configured
<1>. QED
  BY <1>0, <1>3, Zenon DEF MembersInv, MembersHave, cliVars

LEMMA MembersFetch ==
    ASSUME TypeOK, MembersInv, getMembers(cliMemberVer), UNCHANGED storeVars
    PROVE  MembersInv'
<1>0. StoreOK /\ ClientOK /\ UNCHANGED <<memberVer, member>>
  BY TypeParts, Zenon DEF storeVars
<1>1. CASE memberVer \in {0, cliMemberVer}
  <2>1. UNCHANGED <<cliMemberVer, cliMembers>>
    BY <1>1, Zenon DEF getMembers
  <2>. QED
    BY <1>0, <2>1, Zenon DEF MembersInv, MembersHave, Configured
<1>2. CASE memberVer \notin {0, cliMemberVer}
  <2>1. cliMemberVer' = memberVer
        /\ cliMembers' = [n \in Nodes |-> IF n \in MembersReply(cliMemberVer)
                                          THEN IF member[n].markdel THEN "none" ELSE member[n].info
                                          ELSE cliMembers[n]]
    BY <1>2, Zenon DEF getMembers
  <2>2. ASSUME NEW n \in Nodes
        PROVE  cliMembers'[n] = Configured(n)
    <3>0. member[n].ver \in Nat /\ cliMemberVer \in Nat
      BY <1>0, RedisAssumption DEF StoreOK, ClientOK, Members, Versions
    <3>1. CASE n \in MembersReply(cliMemberVer)
      BY <2>1, <3>0, <3>1 DEF MembersReply, Configured
    <3>2. CASE n \notin MembersReply(cliMemberVer) /\ member[n].ver <= cliMemberVer
      BY <2>1, <3>2, Zenon DEF MembersInv, MembersHave
    <3>3. CASE n \notin MembersReply(cliMemberVer) /\ ~(member[n].ver <= cliMemberVer)
      <4>1. cliMemberVer = 0 /\ member[n].markdel
        BY <3>0, <3>3 DEF MembersReply
      <4>. QED
        BY <2>1, <3>3, <4>1, Zenon DEF MembersInv, Configured
    <3>. QED
      BY <3>1, <3>2, <3>3, Zenon
  <2>3. cliMemberVer' # 0
    BY <1>2, <2>1, Zenon
  <2>4. \A n \in Nodes : Configured(n)' = Configured(n)
    BY <1>0, Zenon DEF Configured
  <2>. QED
    BY <2>2, <2>3, <2>4, Zenon DEF MembersInv, MembersHave
<1>. QED
  BY <1>1, <1>2, Zenon

\* Until an error, a subscriber whose version of the members is v has every
\* change up to v: ScriptGetMembers leaves none out, from version 0 on.
THEOREM MembersAreCurrent == Spec => []MembersCurrent
<1>. DEFINE Inv == faults = 0 => Clean /\ MembersInv
<1>1. Init => Inv
  BY DEF Init, Clean, MembersInv, MembersHave, Configured
<1>2. TypeOK /\ Inv /\ [Next]_vars => Inv'
  <2>. SUFFICES ASSUME TypeOK, Clean, MembersInv, [Next]_vars, faults' = 0
                PROVE  MembersInv'
    BY FaultsStep, CleanStep, Zenon
  <2>1. ASSUME UNCHANGED <<memberVer, member, cliMemberVer, cliMembers>>
        PROVE  MembersInv'
    BY <2>1, Zenon DEF MembersInv, MembersHave, Configured
  <2>2. CASE ScriptStep
    BY <2>2, MembersScript, Zenon
  <2>3. CASE Next /\ ~ScriptStep
    <3>1. UNCHANGED storeVars
      BY <2>3, WatchCases, Zenon
    <3>2. CASE FetchMembers
      BY <3>1, <3>2, MembersFetch, Zenon DEF FetchMembers
    <3>3. CASE FetchAlives \/ UNCHANGED cliVars
      BY <2>1, <3>1, <3>3, Zenon DEF FetchAlives, cliVars, storeVars
    <3>. QED
      BY <2>3, <3>2, <3>3, WatchCases, Zenon DEF Clean
  <2>4. CASE UNCHANGED vars
    BY <2>1, <2>4, Zenon DEF vars, cliVars, storeVars
  <2>. QED
    BY <2>2, <2>3, <2>4, Zenon
<1>3. Inv => MembersCurrent
  BY Zenon DEF MembersInv, MembersHave, MembersCurrent
<1>. HIDE DEF Inv
<1>. QED
  BY <1>1, <1>2, <1>3, TypeCorrect, PTL DEF Spec

\* Where an entry can be read and the subscriber has its version, it knows
\* whether the node is alive.
AlivesHave ==
    \A n \in Nodes : Readable(n) /\ alive[n].ver <= cliAliveVer => (n \in cliAlive <=> Beating(n))

\* A subscriber that has no version knows nobody alive.
AlivesInv == AlivesHave /\ (cliAliveVer = 0 => cliAlive = {})

LEMMA AlivesScript ==
    ASSUME TypeOK, AlivesInv, ScriptStep
    PROVE  AlivesInv'
<1>0. StoreOK /\ ClientOK /\ UNCHANGED cliVars
  BY TypeParts, ScriptType, Zenon
<1>. DEFINE Kept(n) ==
       \/ alive'[n].ver = alive[n].ver /\ alive'[n].dead = alive[n].dead
       \/ alive'[n].ver = aliveVer + 1
       \/ alive'[n].dead = "unreadable"
<1>1. ASSUME NEW n \in Nodes
      PROVE  Kept(n)
  <2>0. alive[n] \in Alives
    BY <1>0, Zenon DEF StoreOK
  <2>1. ASSUME NEW m \in Nodes, (\E info \in Infos : UpdateMember(m, info)) \/ RemoveMember(m)
        PROVE  alive' = alive
    BY <2>1, Zenon DEF UpdateMember, RemoveMember
  <2>2. ASSUME NEW m \in Nodes, KeepAlive(m)
        PROVE  Kept(n)
    <3>1. CASE alive[m].dead = "true"
      <4>1. alive' = [alive EXCEPT ![m] =
                        [ver |-> alive[m].ver, dead |-> "unreadable", late |-> FALSE]]
        BY <1>0, <2>2, <3>1 DEF KeepAlive, Alives, StoreOK
      <4>. QED
        BY <1>0, <2>0, <4>1, Zenon DEF StoreOK
    <3>2. CASE alive[m].dead # "true"
      <4>1. alive' = [alive EXCEPT ![m] = [ver |-> aliveVer + 1, dead |-> "false", late |-> FALSE]]
        BY <2>2, <3>2, Zenon DEF KeepAlive
      <4>. QED
        BY <1>0, <2>0, <4>1, Zenon DEF StoreOK
    <3>. QED
      BY <3>1, <3>2, Zenon
  <2>3. ASSUME NEW m \in Nodes, Expire(m)
        PROVE  Kept(n)
    BY <1>0, <2>0, <2>3, Zenon DEF Expire, StoreOK, Alives
  <2>4. CASE CheckTimeout
    <3>. DEFINE marked == [alive[n] EXCEPT !.ver = aliveVer + 1, !.dead = "true"]
    <3>1. alive'[n] = IF n \in TimedOut THEN marked ELSE alive[n]
      BY Zenon, <2>4 DEF CheckTimeout
    <3>2. marked.ver = aliveVer + 1 /\ marked.dead = "true"
      BY <2>0, Zenon DEF Alives
    <3>. HIDE DEF marked
    <3>. QED
      BY <2>0, <3>1, <3>2, Zenon
  <2>. QED
    BY <2>0, <2>1, <2>2, <2>3, <2>4, Zenon DEF ScriptStep, Infos
<1>2. ASSUME NEW n \in Nodes, alive'[n].ver <= cliAliveVer, alive'[n].dead # "unreadable"
      PROVE  alive'[n].ver = alive[n].ver /\ alive'[n].dead = alive[n].dead
  BY <1>0, <1>1, <1>2, RedisAssumption DEF StoreOK, ClientOK, Versions
<1>3. ASSUME NEW n \in Nodes, alive'[n].ver <= cliAliveVer, alive'[n].dead # "unreadable"
      PROVE  n \in cliAlive <=> alive'[n].ver > 0 /\ alive'[n].dead = "false"
  BY <1>2, <1>3, Zenon DEF AlivesInv, AlivesHave, Readable, Beating
<1>. QED
  BY <1>0, <1>3, Zenon DEF AlivesInv, AlivesHave, Readable, Beating, cliVars

LEMMA AlivesFetch ==
    ASSUME TypeOK, AlivesInv, getAlives(cliAliveVer), UNCHANGED storeVars
    PROVE  AlivesInv'
<1>0. StoreOK /\ ClientOK /\ UNCHANGED <<aliveVer, alive>>
  BY TypeParts, Zenon DEF storeVars
<1>1. CASE aliveVer \in {0, cliAliveVer}
  <2>1. UNCHANGED <<cliAliveVer, cliAlive>>
    BY <1>1, Zenon DEF getAlives
  <2>. QED
    BY <1>0, <2>1, Zenon DEF AlivesInv, AlivesHave, Readable, Beating
<1>2. CASE aliveVer \notin {0, cliAliveVer}
  <2>. DEFINE dead == {n \in AlivesReply(cliAliveVer) : alive[n].dead = "true"}
              new == (AlivesReply(cliAliveVer) \ dead) \ cliAlive
  <2>1. cliAliveVer' = aliveVer /\ cliAlive' = (cliAlive \ dead) \union new
    BY <1>2, Zenon DEF getAlives
  <2>2. ASSUME NEW n \in Nodes, alive[n].dead # "unreadable"
        PROVE  n \in cliAlive' <=> alive[n].ver > 0 /\ alive[n].dead = "false"
    <3>0. /\ alive[n].ver \in Nat /\ cliAliveVer \in Nat
          /\ alive[n].dead \in {"true", "false"}
      BY <1>0, <2>2, RedisAssumption DEF StoreOK, ClientOK, Alives, Versions, Marks
    <3>1. CASE n \in AlivesReply(cliAliveVer)
      BY <2>1, <3>0, <3>1, Zenon DEF AlivesReply
    <3>2. CASE n \notin AlivesReply(cliAliveVer) /\ alive[n].ver <= cliAliveVer
      BY <2>1, <2>2, <3>2, Zenon DEF AlivesInv, AlivesHave, Readable, Beating
    <3>3. CASE n \notin AlivesReply(cliAliveVer) /\ ~(alive[n].ver <= cliAliveVer)
      <4>1. cliAliveVer = 0 /\ alive[n].dead = "true"
        BY <2>2, <3>0, <3>3 DEF AlivesReply
      <4>2. n \notin cliAlive
        BY <4>1, Zenon DEF AlivesInv
      <4>. QED
        BY <2>1, <3>3, <4>1, <4>2, Zenon
    <3>. QED
      BY <3>1, <3>2, <3>3, Zenon
  <2>3. cliAliveVer' # 0
    BY <1>2, <2>1, Zenon
  <2>. HIDE DEF dead, new
  <2>. QED
    BY <1>0, <2>2, <2>3, Zenon DEF AlivesInv, AlivesHave, Readable, Beating
<1>. QED
  BY <1>1, <1>2, Zenon

\* Until an error, a subscriber whose version of the heartbeats is v knows exactly
\* who was alive of all entries up to v that can be read (ScriptGetAlives,
\* getAlives).
THEOREM AlivesAreCurrent == Spec => []AlivesCurrent
<1>. DEFINE Inv == faults = 0 => Clean /\ AlivesInv
<1>1. Init => Inv
  BY DEF Init, Clean, AlivesInv, AlivesHave, Readable, Beating
<1>2. TypeOK /\ Inv /\ [Next]_vars => Inv'
  <2>. SUFFICES ASSUME TypeOK, Clean, AlivesInv, [Next]_vars, faults' = 0
                PROVE  AlivesInv'
    BY FaultsStep, CleanStep, Zenon
  <2>1. ASSUME UNCHANGED <<aliveVer, alive, cliAliveVer, cliAlive>>
        PROVE  AlivesInv'
    BY <2>1, Zenon DEF AlivesInv, AlivesHave, Readable, Beating
  <2>2. CASE ScriptStep
    BY <2>2, AlivesScript, Zenon
  <2>3. CASE Next /\ ~ScriptStep
    <3>1. UNCHANGED storeVars
      BY <2>3, WatchCases, Zenon
    <3>2. CASE FetchAlives
      BY <3>1, <3>2, AlivesFetch, Zenon DEF FetchAlives
    <3>3. CASE FetchMembers \/ UNCHANGED cliVars
      BY <2>1, <3>1, <3>3, Zenon DEF FetchMembers, cliVars, storeVars
    <3>. QED
      BY <2>3, <3>2, <3>3, WatchCases, Zenon DEF Clean
  <2>4. CASE UNCHANGED vars
    BY <2>1, <2>4, Zenon DEF vars, cliVars, storeVars
  <2>. QED
    BY <2>2, <2>3, <2>4, Zenon
<1>3. Inv => AlivesCurrent
  BY Zenon DEF AlivesInv, AlivesHave, AlivesCurrent
<1>. HIDE DEF Inv
<1>. QED
  BY <1>1, <1>2, <1>3, TypeCorrect, PTL DEF Spec
=============================================================================
