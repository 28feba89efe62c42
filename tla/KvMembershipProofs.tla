------------------------- MODULE KvMembershipProofs -------------------------
(***************************************************************************)
(* The memberships over a key-value store, for any set of nodes and any    *)
(* number of changes and errors.  First JetStream: its callbacks add up to *)
(* the tables of the subscriber, each of them is one that MemberFeed       *)
(* allows, and events that a full fetch has overtaken do no lasting harm.  *)
(* Then etcd: the same, the first two as long as a response of its watch   *)
(* holds one event, the last with any number of events in a response.      *)
(***************************************************************************)
EXTENDS NatsMembership, FiniteSetTheorems, SequenceTheorems, TLAPS

Views == {"none", "up", "down"}
MemberInfos == [add : SUBSET KvNodes, remove : SUBSET KvNodes, update : SUBSET KvNodes]
States == {"nil", "open", "closed"}
ConfigEvents == [node : KvNodes, val : Values]
AliveEvents == [node : KvNodes, val : {"beat", "none"}]

\* The types of the subscriber's tables.
TablesOK ==
    /\ members \in [KvNodes -> Configs]
    /\ kvAlive \subseteq KvNodes
    /\ kvView \in [KvNodes -> Views]
    /\ kvCb \in MemberInfos

\* The types of what they are filled from.
SourcesOK ==
    /\ config \in [KvNodes -> Values]
    /\ beat \subseteq KvNodes
    /\ got \in [KvNodes -> Configs]
    /\ configCh \in [state : States, queue : Seq(ConfigEvents)]
    /\ aliveCh \in [state : States, queue : Seq(AliveEvents)]

-----------------------------------------------------------------------------
(* One callback *)

\* A callback that adds who is unknown, and removes or updates who is known.
Sound(add, remove, update) ==
    /\ add \in SUBSET KvNodes /\ remove \in SUBSET KvNodes /\ update \in SUBSET KvNodes
    /\ add \intersect KvFeed!Known = {}
    /\ remove \subseteq KvFeed!Known
    /\ update \subseteq KvFeed!Known \ remove

LEMMA TellView ==
    ASSUME TablesOK, NEW add, NEW remove, NEW update, NEW up,
           Sound(add, remove, update), KvTell(add, remove, update, up)
    PROVE  /\ kvView' \in [KvNodes -> Views] /\ kvCb' \in MemberInfos
           /\ \A n \in KvNodes :
                kvView'[n] = IF n \in remove THEN "none"
                           ELSE IF n \in add \union update THEN IF n \in up THEN "up" ELSE "down"
                           ELSE kvView[n]
           /\ [KvFeed!Next]_<<kvView, kvCb>>
<1>. USE DEF Sound
<1>1. CASE add \union remove \union update = {}
  <2>1. UNCHANGED <<kvView, kvCb>>
    BY <1>1, Zenon DEF KvTell
  <2>. QED
    BY <1>1, <2>1, Zenon DEF TablesOK
<1>2. CASE add \union remove \union update # {}
  <2>1. kvCb' = [add |-> add, remove |-> remove, update |-> update]
    BY <1>2, Zenon DEF KvTell
  <2>2. kvCb' \in MemberInfos /\ kvCb'.add = add /\ kvCb'.remove = remove /\ kvCb'.update = update
    BY <2>1, Zenon DEF MemberInfos
  <2>3. kvView' = [n \in KvNodes |-> IF n \in remove THEN "none"
                                 ELSE IF n \in add \union update /\ (kvView[n] # "none" \/ n \in add)
                                 THEN IF n \in up THEN "up" ELSE "down"
                                 ELSE kvView[n]]
    BY <1>2, Zenon DEF KvTell
  <2>4. kvView' \in [KvNodes -> Views]
    BY <2>3, Zenon DEF TablesOK, Views
  <2>5. ASSUME NEW n \in KvNodes
        PROVE  /\ kvView'[n] = IF n \in remove THEN "none"
                             ELSE IF n \in add \union update THEN IF n \in up THEN "up" ELSE "down"
                             ELSE kvView[n]
               /\ kvView'[n] # "none" <=> n \in (KvFeed!Known \union add) \ remove
    <3>1. n \in KvFeed!Known <=> kvView[n] # "none"
      BY Zenon DEF KvFeed!Known
    <3>. QED
      BY <2>3, <3>1, Zenon
  <2>6. KvFeed!Next
    BY <2>2, <2>4, <2>5, Zenon DEF KvFeed!Next, MemberInfos, Views
  <2>. QED
    BY <2>2, <2>4, <2>5, <2>6, Zenon
<1>. QED
  BY <1>1, <1>2, Zenon

\* What every step owes.
Good == TablesOK' /\ KvViewMatches' /\ [KvFeed!Next]_<<kvView, kvCb>>

LEMMA KnownMembers ==
    ASSUME TablesOK, KvViewMatches
    PROVE  KvFeed!Known = In(members)
BY Zenon DEF KvFeed!Known, In, KvViewMatches, KvStatus

LEMMA DiffMembersGood ==
    ASSUME TablesOK, KvViewMatches, NEW fetched \in [KvNodes -> Configs], DiffMembers(fetched)
    PROVE  Good
<1>. DEFINE add == In(fetched) \ In(members)
            remove == In(members) \ In(fetched)
            update == In(members) \intersect In(fetched)
            up == {n \in kvAlive : fetched[n] = "on"}
<1>1. members' = fetched /\ kvAlive' = kvAlive /\ KvTell(add, remove, update, up)
  BY Zenon DEF DiffMembers
<1>2. Sound(add, remove, update)
  BY KnownMembers, Zenon DEF Sound, In
<1>. HIDE DEF add, remove, update, up
<1>3. /\ kvView' \in [KvNodes -> Views] /\ kvCb' \in MemberInfos /\ [KvFeed!Next]_<<kvView, kvCb>>
      /\ \A n \in KvNodes :
           kvView'[n] = IF n \in remove THEN "none"
                      ELSE IF n \in add \union update THEN IF n \in up THEN "up" ELSE "down"
                      ELSE kvView[n]
  BY <1>1, <1>2, TellView
<1>4. ASSUME NEW n \in KvNodes
      PROVE  kvView'[n] = KvStatus(members'[n], n \in kvAlive')
  <2>1. kvView[n] = KvStatus(members[n], n \in kvAlive)
    BY Zenon DEF KvViewMatches
  <2>2. /\ n \in remove <=> members[n] # "none" /\ fetched[n] = "none"
        /\ n \in add \union update <=> fetched[n] # "none"
        /\ n \in up <=> n \in kvAlive /\ fetched[n] = "on"
    BY Zenon DEF add, remove, update, up, In
  <2>. QED
    BY <1>1, <1>3, <2>1, <2>2, Zenon DEF KvStatus
<1>5. TablesOK'
  BY <1>1, <1>3, Zenon DEF TablesOK
<1>. QED
  BY <1>3, <1>4, <1>5, Zenon DEF Good, KvViewMatches, KvStatus

LEMMA DiffAlivesGood ==
    ASSUME TablesOK, KvViewMatches, NEW fetched \in SUBSET KvNodes, DiffAlives(fetched)
    PROVE  Good
<1>. DEFINE up == {n \in fetched \ kvAlive : members[n] = "on"}
            down == {n \in kvAlive \ fetched : members[n] # "none"}
            update == up \union down
<1>1. kvAlive' = fetched /\ members' = members /\ KvTell({}, {}, update, up)
  BY Zenon DEF DiffAlives
<1>2. Sound({}, {}, update)
  BY KnownMembers, Zenon DEF Sound, In, TablesOK
<1>. HIDE DEF update
<1>3. /\ kvView' \in [KvNodes -> Views] /\ kvCb' \in MemberInfos /\ [KvFeed!Next]_<<kvView, kvCb>>
      /\ \A n \in KvNodes :
           kvView'[n] = IF n \in {} THEN "none"
                      ELSE IF n \in {} \union update THEN IF n \in up THEN "up" ELSE "down"
                      ELSE kvView[n]
  BY <1>1, <1>2, TellView
<1>4. ASSUME NEW n \in KvNodes
      PROVE  kvView'[n] = KvStatus(members'[n], n \in kvAlive')
  <2>1. kvView[n] = KvStatus(members[n], n \in kvAlive)
    BY Zenon DEF KvViewMatches
  <2>2. /\ n \in update <=> n \in up \/ n \in down
        /\ n \in up <=> n \in fetched /\ n \notin kvAlive /\ members[n] = "on"
        /\ n \in down <=> n \in kvAlive /\ n \notin fetched /\ members[n] # "none"
    BY Zenon DEF update
  <2>3. kvView'[n] = IF n \in update THEN IF n \in up THEN "up" ELSE "down" ELSE kvView[n]
    BY <1>3, Zenon
  <2>. QED
    BY <1>1, <2>1, <2>2, <2>3, Zenon DEF KvStatus
<1>5. TablesOK'
  BY <1>1, <1>3, Zenon DEF TablesOK
<1>. QED
  BY <1>3, <1>4, <1>5, Zenon DEF Good, KvViewMatches, KvStatus

LEMMA ConfigEntryGood ==
    ASSUME TablesOK, KvViewMatches, NEW n \in KvNodes, NEW v \in Values, handleConfigEntry(n, v)
    PROVE  Good
<1>. DEFINE known == members[n] # "none"
            put == v \in {"on", "off"}
            add == IF put /\ ~known THEN {n} ELSE {}
            remove == IF known /\ v = "none" THEN {n} ELSE {}
            update == IF put /\ known THEN {n} ELSE {}
            up == IF v = "on" THEN kvAlive ELSE {}
<1>1. /\ members' = IF v = "bad" THEN members ELSE [members EXCEPT ![n] = v]
      /\ kvAlive' = kvAlive /\ KvTell(add, remove, update, up)
  BY Zenon DEF handleConfigEntry
<1>2. Sound(add, remove, update)
  BY KnownMembers, Zenon DEF Sound, In
<1>. HIDE DEF add, remove, update, up
<1>3. /\ kvView' \in [KvNodes -> Views] /\ kvCb' \in MemberInfos /\ [KvFeed!Next]_<<kvView, kvCb>>
      /\ \A m \in KvNodes :
           kvView'[m] = IF m \in remove THEN "none"
                      ELSE IF m \in add \union update THEN IF m \in up THEN "up" ELSE "down"
                      ELSE kvView[m]
  BY <1>1, <1>2, TellView
<1>4. members' \in [KvNodes -> Configs]
  BY <1>1, Zenon DEF TablesOK, Configs, Values
<1>5. ASSUME NEW m \in KvNodes
      PROVE  kvView'[m] = KvStatus(members'[m], m \in kvAlive')
  <2>1. kvView[m] = KvStatus(members[m], m \in kvAlive)
    BY Zenon DEF KvViewMatches
  <2>2. /\ m \in remove <=> m = n /\ known /\ v = "none"
        /\ m \in add \union update <=> m = n /\ put
        /\ m \in up <=> m \in kvAlive /\ v = "on"
    BY Zenon DEF add, remove, update, up
  <2>3. members'[m] = IF m = n /\ v # "bad" THEN v ELSE members[m]
    BY <1>1, Zenon DEF TablesOK
  <2>. QED
    BY <1>1, <1>3, <2>1, <2>2, <2>3, Zenon DEF KvStatus, Values
<1>6. TablesOK'
  BY <1>1, <1>3, <1>4, Zenon DEF TablesOK
<1>. QED
  BY <1>3, <1>5, <1>6 DEF Good, KvViewMatches, KvStatus

LEMMA AliveEntryGood ==
    ASSUME TablesOK, KvViewMatches, NEW n \in KvNodes, NEW v, handleAliveEntry(n, v)
    PROVE  Good
<1>. DEFINE new == v = "beat" /\ n \notin kvAlive
            gone == v # "beat" /\ n \in kvAlive
            update == IF (new /\ members[n] = "on") \/ (gone /\ members[n] # "none") THEN {n} ELSE {}
            up == IF new THEN {n} ELSE {}
<1>1. /\ kvAlive' = IF new THEN kvAlive \union {n} ELSE IF gone THEN kvAlive \ {n} ELSE kvAlive
      /\ members' = members /\ KvTell({}, {}, update, up)
  BY Zenon DEF handleAliveEntry
<1>2. Sound({}, {}, update)
  BY KnownMembers, Zenon DEF Sound, In
<1>. HIDE DEF update, up
<1>3. /\ kvView' \in [KvNodes -> Views] /\ kvCb' \in MemberInfos /\ [KvFeed!Next]_<<kvView, kvCb>>
      /\ \A m \in KvNodes :
           kvView'[m] = IF m \in {} THEN "none"
                      ELSE IF m \in {} \union update THEN IF m \in up THEN "up" ELSE "down"
                      ELSE kvView[m]
  BY <1>1, <1>2, TellView
<1>4. ASSUME NEW m \in KvNodes
      PROVE  kvView'[m] = KvStatus(members'[m], m \in kvAlive')
  <2>1. kvView[m] = KvStatus(members[m], m \in kvAlive)
    BY Zenon DEF KvViewMatches
  <2>2. kvView'[m] = IF m \in update THEN IF m \in up THEN "up" ELSE "down" ELSE kvView[m]
    BY <1>3, Zenon
  <2>3. m # n => (m \in kvAlive' <=> m \in kvAlive)
    BY <1>1, Zenon
  <2>4. CASE m # n
    BY <1>1, <2>1, <2>2, <2>3, <2>4, Zenon DEF update, KvStatus
  <2>5. CASE m = n
    BY <1>1, <2>1, <2>2, <2>5 DEF update, up, KvStatus
  <2>. QED
    BY <2>4, <2>5, Zenon
<1>5. TablesOK'
  BY <1>1, <1>3, Zenon DEF TablesOK
<1>. QED
  BY <1>3, <1>4, <1>5, Zenon DEF Good, KvViewMatches, KvStatus

-----------------------------------------------------------------------------
(* The steps *)

LEMMA SameTables ==
    ASSUME TablesOK, KvViewMatches, UNCHANGED tableVars
    PROVE  Good
BY Zenon DEF TablesOK, KvViewMatches, KvStatus, Good, tableVars

\* Every step leaves the tables, fetches, or handles one entry.
LEMMA StepGood ==
    ASSUME TablesOK, KvViewMatches, SourcesOK, [Next]_kvVars
    PROVE  Good
<1>1. CASE StoreStep
  <2>1. UNCHANGED tableVars
    BY <1>1, Zenon DEF StoreStep, UpdateMember, RemoveMember, KeepAlive, BeatExpires, WriteConfig, WriteBeat
  <2>. QED
    BY <2>1, SameTables, Zenon
<1>2. CASE ListKeys \/ (\E n \in KvNodes : GetKey(n)) \/ WatchConfig \/ WatchAlive \/ Return
           \/ TickFail \/ SubscribeFail \/ Close
  <2>1. UNCHANGED tableVars
    BY <1>2, Zenon DEF ListKeys, GetKey, WatchConfig, WatchAlive, Return, TickFail, SubscribeFail, Close
  <2>. QED
    BY <2>1, SameTables, Zenon
<1>3. CASE getMembers
  <2>1. DiffMembers(got)
    BY <1>3, Zenon DEF getMembers
  <2>. QED
    BY <2>1, DiffMembersGood DEF SourcesOK
<1>4. CASE SubscribeAlives \/ TickAlives
  <2>1. DiffAlives(beat) \/ UNCHANGED tableVars
    BY <1>4, Zenon DEF SubscribeAlives, TickAlives, getAlives
  <2>. QED
    BY <2>1, DiffAlivesGood, SameTables DEF SourcesOK
<1>5. CASE OnConfig
  <2>1. Head(configCh.queue) \in ConfigEvents
    BY <1>5 DEF OnConfig, SourcesOK
  <2>2. handleConfigEntry(Head(configCh.queue).node, Head(configCh.queue).val)
    BY <1>5, Zenon DEF OnConfig
  <2>. QED
    BY <2>1, <2>2, ConfigEntryGood, Zenon DEF ConfigEvents
<1>6. CASE OnAlive
  <2>1. Head(aliveCh.queue) \in AliveEvents
    BY <1>6 DEF OnAlive, SourcesOK
  <2>2. handleAliveEntry(Head(aliveCh.queue).node, Head(aliveCh.queue).val)
    BY <1>6, Zenon DEF OnAlive
  <2>. QED
    BY <2>1, <2>2, AliveEntryGood, Zenon DEF AliveEvents
<1>7. CASE UNCHANGED kvVars
  BY <1>7, SameTables, Zenon DEF kvVars
<1>. QED
  BY <1>1, <1>2, <1>3, <1>4, <1>5, <1>6, <1>7 DEF Next, WatchStep, FetchStep

LEMMA EmitType ==
    ASSUME NEW E, NEW ch \in [state : States, queue : Seq([node : KvNodes, val : E])],
           NEW n \in KvNodes, NEW v \in E
    PROVE  Emit(ch, n, v) \in [state : States, queue : Seq([node : KvNodes, val : E])]
<1>1. [node |-> n, val |-> v] \in [node : KvNodes, val : E]
  BY Zenon
<1>2. Append(ch.queue, [node |-> n, val |-> v]) \in Seq([node : KvNodes, val : E])
  BY <1>1
<1>. QED
  BY Zenon, <1>2 DEF Emit

LEMMA TailType ==
    ASSUME NEW E, NEW ch \in [state : States, queue : Seq(E)], ch.queue # <<>>
    PROVE  [ch EXCEPT !.queue = Tail(@)] \in [state : States, queue : Seq(E)]
<1>1. Tail(ch.queue) \in Seq(E)
  OBVIOUS
<1>. QED
  BY <1>1, Zenon

LEMMA FunctionIsSeq ==
    ASSUME NEW E, NEW k \in Nat, NEW q \in [1..k -> E]
    PROVE  q \in Seq(E)
BY SeqDef, Zenon

\* A snapshot is a sequence, because a finite set of nodes has a size.
LEMMA SnapshotType ==
    ASSUME NEW S, IsFiniteSet(S), NEW E, NEW vals \in [S -> E], NEW q \in Snapshot(vals)
    PROVE  q \in Seq([node : S, val : E])
<1>1. Cardinality(S) \in Nat
  BY FS_CardinalityType, Zenon
<1>2. q \in [1..Cardinality(S) -> [node : S, val : {vals[n] : n \in S}]]
  BY Zenon DEF Snapshot
<1>3. q \in [1..Cardinality(S) -> [node : S, val : E]]
  BY <1>2
<1>. QED
  BY Zenon, <1>1, <1>3, FunctionIsSeq

LEMMA ClosedType ==
    ASSUME NEW E
    PROVE  Closed \in [state : States, queue : Seq(E)]
BY DEF Closed, States

LEMMA EndTickType ==
    ASSUME SourcesOK, NEW err, EndTick(err)
    PROVE  /\ configCh' \in [state : States, queue : Seq(ConfigEvents)]
           /\ aliveCh' \in [state : States, queue : Seq(AliveEvents)]
<1>1. /\ configCh' = configCh \/ configCh' = Closed
      /\ aliveCh' = aliveCh \/ aliveCh' = Closed
  BY Zenon DEF EndTick, chanVars
<1>. QED
  BY <1>1, ClosedType, Zenon DEF SourcesOK

LEMMA SourcesStep ==
    ASSUME IsFiniteSet(KvNodes), SourcesOK, [Next]_kvVars
    PROVE  SourcesOK'
<1>. DEFINE ConfigChs == [state : States, queue : Seq(ConfigEvents)]
            AliveChs == [state : States, queue : Seq(AliveEvents)]
<1>1. ASSUME NEW n \in KvNodes, NEW v \in Values, WriteConfig(n, v)
      PROVE  SourcesOK'
  <2>1. config' = [config EXCEPT ![n] = v] /\ configCh' = Emit(configCh, n, v)
        /\ UNCHANGED <<beat, got, aliveCh>>
    BY <1>1, Zenon DEF WriteConfig, kvWatchVars
  <2>2. config' \in [KvNodes -> Values]
    BY <2>1, Zenon DEF SourcesOK
  <2>3. configCh' \in ConfigChs
    BY <2>1, EmitType, Zenon DEF SourcesOK, ConfigEvents
  <2>. QED
    BY <2>1, <2>2, <2>3 DEF SourcesOK
<1>2. ASSUME NEW n \in KvNodes, NEW up \in BOOLEAN, NEW told \in BOOLEAN, WriteBeat(n, up, told)
      PROVE  SourcesOK'
  <2>1. /\ beat' = IF up THEN beat \union {n} ELSE beat \ {n}
        /\ aliveCh' = IF told THEN Emit(aliveCh, n, IF up THEN "beat" ELSE "none") ELSE aliveCh
        /\ UNCHANGED <<config, got, configCh>>
    BY <1>2, Zenon DEF WriteBeat, kvWatchVars
  <2>2. beat' \subseteq KvNodes
    BY <2>1, Zenon DEF SourcesOK
  <2>3. Emit(aliveCh, n, IF up THEN "beat" ELSE "none") \in AliveChs
    <3>1. (IF up THEN "beat" ELSE "none") \in {"beat", "none"}
      BY Zenon
    <3>. QED
      BY Zenon, <3>1, EmitType DEF SourcesOK, AliveEvents
  <2>4. aliveCh' \in AliveChs
    BY <2>1, <2>3 DEF SourcesOK
  <2>. QED
    BY <2>1, <2>2, <2>4 DEF SourcesOK
<1>3. CASE StoreStep
  <2>1. ASSUME NEW n \in KvNodes, (\E v \in Values : UpdateMember(n, v)) \/ RemoveMember(n)
        PROVE  \E v \in Values : WriteConfig(n, v)
    BY <2>1, Zenon DEF UpdateMember, RemoveMember, Values
  <2>2. ASSUME NEW n \in KvNodes, KeepAlive(n) \/ BeatExpires(n)
        PROVE  \E up, told \in BOOLEAN : WriteBeat(n, up, told)
    BY Zenon, <2>2 DEF KeepAlive, BeatExpires
  <2>. QED
    BY <1>1, <1>2, <1>3, <2>1, <2>2 DEF StoreStep
<1>4. CASE ListKeys
  <2>1. got' = [n \in KvNodes |-> "none"] /\ UNCHANGED <<config, beat, configCh, aliveCh>>
    BY <1>4, Zenon DEF ListKeys, kvStoreVars, chanVars
  <2>. QED
    BY <2>1, Zenon DEF SourcesOK, Configs
<1>5. ASSUME NEW n \in KvNodes, GetKey(n)
      PROVE  SourcesOK'
  <2>1. (got' = [got EXCEPT ![n] = KvReadable(config[n])] \/ got' = got)
        /\ UNCHANGED <<config, beat, configCh, aliveCh>>
    BY <1>5, Zenon DEF GetKey, Read, kvStoreVars, chanVars
  <2>2. KvReadable(config[n]) \in Configs
    BY Zenon DEF SourcesOK, Values, Configs, KvReadable
  <2>3. got' \in [KvNodes -> Configs]
    BY Zenon, <2>1, <2>2 DEF SourcesOK
  <2>. QED
    BY <2>1, <2>3 DEF SourcesOK
<1>6. CASE getMembers
  <2>1. got' = [n \in KvNodes |-> "none"] /\ UNCHANGED <<config, beat, configCh, aliveCh>>
    BY <1>6, Zenon DEF getMembers, kvStoreVars, chanVars
  <2>. QED
    BY <2>1, Zenon DEF SourcesOK, Configs
<1>7. CASE WatchConfig
  <2>1. (OpenConfig \/ configCh' = configCh) /\ UNCHANGED <<config, beat, got, aliveCh>>
    BY <1>7, Zenon DEF WatchConfig, kvStoreVars
  <2>2. configCh' \in ConfigChs
    <3>1. ASSUME NEW q \in Snapshot(config)
          PROVE  [state |-> "open", queue |-> q] \in ConfigChs
      <4>1. q \in Seq(ConfigEvents)
        BY Zenon, SnapshotType DEF SourcesOK, ConfigEvents
      <4>. QED
        BY <4>1, Zenon DEF States
    <3>. QED
      BY <2>1, <3>1 DEF OpenConfig, SourcesOK
  <2>. QED
    BY <2>1, <2>2 DEF SourcesOK
<1>8. CASE WatchAlive
  <2>1. (OpenAlive \/ aliveCh' = aliveCh) /\ UNCHANGED <<config, beat, got, configCh>>
    BY <1>8, Zenon DEF WatchAlive, kvStoreVars
  <2>2. aliveCh' \in AliveChs
    <3>1. ASSUME NEW q \in Snapshot([n \in beat |-> "beat"])
          PROVE  [state |-> "open", queue |-> q] \in AliveChs
      <4>1. IsFiniteSet(beat)
        BY FS_Subset, Zenon DEF SourcesOK
      <4>2. q \in Seq([node : beat, val : {"beat", "none"}])
        <5>1. [n \in beat |-> "beat"] \in [beat -> {"beat", "none"}]
          BY Zenon
        <5>. QED
          BY Zenon, <4>1, <5>1, SnapshotType
      <4>3. q \in Seq(AliveEvents)
        <5>1. [node : beat, val : {"beat", "none"}] \subseteq AliveEvents
          BY Zenon DEF SourcesOK, AliveEvents
        <5>. HIDE DEF AliveEvents
        <5>. QED
          BY Zenon, <4>2, <5>1, SeqMonotonic
      <4>. QED
        BY <4>3, Zenon DEF States
    <3>. QED
      BY <2>1, <3>1, Zenon DEF OpenAlive, SourcesOK
  <2>. QED
    BY <2>1, <2>2, Zenon DEF SourcesOK
<1>9. CASE OnConfig
  <2>1. configCh.queue # <<>> /\ configCh' = [configCh EXCEPT !.queue = Tail(@)]
        /\ UNCHANGED <<config, beat, got, aliveCh>>
    BY <1>9, Zenon DEF OnConfig, kvStoreVars, kvWatchVars
  <2>2. configCh' \in ConfigChs
    BY Zenon, <2>1, TailType DEF SourcesOK
  <2>. QED
    BY <2>1, <2>2 DEF SourcesOK
<1>10. CASE OnAlive
  <2>1. aliveCh.queue # <<>> /\ aliveCh' = [aliveCh EXCEPT !.queue = Tail(@)]
        /\ UNCHANGED <<config, beat, got, configCh>>
    BY <1>10, Zenon DEF OnAlive, kvStoreVars, kvWatchVars
  <2>2. aliveCh' \in AliveChs
    BY Zenon, <2>1, TailType DEF SourcesOK
  <2>. QED
    BY <2>1, <2>2 DEF SourcesOK
<1>11. CASE TickAlives
  <2>1. (\E err : EndTick(err)) /\ UNCHANGED <<config, beat, got>>
    BY <1>11, Zenon DEF TickAlives, kvStoreVars
  <2>. QED
    BY <2>1, EndTickType DEF SourcesOK
<1>12. CASE SubscribeAlives \/ Return \/ TickFail \/ SubscribeFail \/ Close \/ UNCHANGED kvVars
  <2>1. UNCHANGED <<config, beat, got, configCh, aliveCh>>
    BY <1>12, Zenon
       DEF SubscribeAlives, Return, TickFail, SubscribeFail, Close, kvVars, kvStoreVars, chanVars, kvWatchVars
  <2>. QED
    BY <2>1, Zenon DEF SourcesOK
<1>. QED
  BY SMTT(20), <1>3, <1>4, <1>5, <1>6, <1>7, <1>8, <1>9, <1>10, <1>11, <1>12 DEF Next, WatchStep, FetchStep

Inv == TablesOK /\ SourcesOK /\ KvViewMatches

LEMMA InitInv ==
    ASSUME KvInit
    PROVE  Inv
<1>1. TablesOK
  BY Zenon DEF KvInit, KvFeed!Init, KvFeed!Nobody, TablesOK, Configs, Views, MemberInfos
<1>2. SourcesOK
  <2>1. Unopened \in [state : States, queue : Seq(ConfigEvents)]
        /\ Unopened \in [state : States, queue : Seq(AliveEvents)]
    BY DEF Unopened, States
  <2>2. config \in [KvNodes -> Values]
    BY Zenon DEF KvInit, Values
  <2>. QED
    BY <2>1, <2>2 DEF KvInit, SourcesOK, Configs
<1>3. KvViewMatches
  BY Zenon DEF KvInit, KvFeed!Init, KvViewMatches, KvStatus
<1>. QED
  BY <1>1, <1>2, <1>3 DEF Inv

LEMMA Inductive == IsFiniteSet(KvNodes) => (Spec => []Inv)
<1>. SUFFICES ASSUME IsFiniteSet(KvNodes)
              PROVE  Spec => []Inv
  BY Zenon
<1>1. KvInit => Inv
  BY InitInv, Zenon
<1>2. Inv /\ [Next]_kvVars => Inv'
  BY StepGood, SourcesStep DEF Inv, Good
<1>. QED
  BY <1>1, <1>2, PTL DEF Spec

\* For any finite set of nodes, full fetches that read key by key while others
\* write, watched entries that are older than a fetch, failed requests, broken
\* and reopened watches: the callbacks add up to the tables of the subscriber.
THEOREM ViewCorrect == IsFiniteSet(KvNodes) => (Spec => []KvViewMatches)
<1>1. Inv => KvViewMatches
  BY Zenon DEF Inv
<1>. QED
  BY <1>1, Inductive, PTL

\* The JetStream subscriber implements the contract that onNodeInfoUpdate relies
\* on: no node is added twice, and none is removed or updated that was not added.
THEOREM KeepsContract == IsFiniteSet(KvNodes) => (Spec => KvContract)
<1>1. KvInit => KvFeed!Init
  BY Zenon DEF KvInit
<1>2. Inv /\ [Next]_kvVars => [KvFeed!Next]_<<kvView, kvCb>>
  BY StepGood DEF Inv, Good
<1>. QED
  BY <1>1, <1>2, Inductive, PTL DEF Spec, KvContract, KvFeed!Spec

-----------------------------------------------------------------------------
(* Events that were overtaken *)

Has(q, n) == \E i \in DOMAIN q : q[i].node = n

\* The last event of n in q, if there is one, tells v.
LastTells(q, n, v) ==
    \A i \in DOMAIN q :
        q[i].node = n /\ (\A j \in DOMAIN q : j > i => q[j].node # n) => q[i].val = v

LEMMA AppendTells ==
    ASSUME NEW E, NEW q \in Seq(E), NEW e \in E, NEW n, NEW v
    PROVE  /\ Has(Append(q, e), n) <=> Has(q, n) \/ e.node = n
           /\ e.node # n /\ LastTells(q, n, v) => LastTells(Append(q, e), n, v)
           /\ e.node = n /\ e.val = v => LastTells(Append(q, e), n, v)
<1>. DEFINE r == Append(q, e)
            k == Len(q)
<1>1. /\ k \in Nat /\ DOMAIN q = 1..k /\ DOMAIN r = 1..(k + 1) /\ r[k + 1] = e
      /\ \A i \in 1..k : r[i] = q[i]
  OBVIOUS
<1>2. \A i \in 1..(k + 1) : i = k + 1 \/ (i \in 1..k /\ k + 1 > i)
  BY <1>1
<1>3. 1..k \subseteq 1..(k + 1) /\ k + 1 \in 1..(k + 1)
  BY <1>1
<1>. HIDE DEF r
<1>4. Has(r, n) <=> Has(q, n) \/ e.node = n
  BY <1>1, <1>2, <1>3, Zenon DEF Has
<1>5. e.node # n /\ LastTells(q, n, v) => LastTells(r, n, v)
  BY <1>1, <1>2, <1>3, Zenon DEF LastTells
<1>6. e.node = n /\ e.val = v => LastTells(r, n, v)
  BY <1>1, <1>2, <1>3, Zenon DEF LastTells
<1>. QED
  BY <1>4, <1>5, <1>6 DEF r

LEMMA TailTells ==
    ASSUME NEW E, NEW q \in Seq(E), q # <<>>, NEW n, NEW v, LastTells(q, n, v)
    PROVE  /\ LastTells(Tail(q), n, v)
           /\ ~ Has(Tail(q), n) => IF Head(q).node = n THEN Head(q).val = v ELSE ~ Has(q, n)
<1>. DEFINE t == Tail(q)
            k == Len(t)
<1>1. /\ k \in Nat /\ DOMAIN q = 1..(k + 1) /\ DOMAIN t = 1..k /\ Head(q) = q[1]
      /\ \A i \in 1..k : t[i] = q[i + 1]
  OBVIOUS
<1>2. /\ \A i \in 1..k : i + 1 \in 1..(k + 1)
      /\ 1 \in 1..(k + 1)
      /\ \A i \in 1..(k + 1) : i = 1 \/ (i - 1 \in 1..k /\ (i - 1) + 1 = i)
      /\ \A i, j \in 1..k : j > i <=> j + 1 > i + 1
      /\ \A i \in 1..k : ~ (1 > i + 1)
  BY <1>1
<1>. HIDE DEF t
<1>3. ASSUME NEW i \in 1..k, t[i].node = n, \A j \in 1..k : j > i => t[j].node # n
      PROVE  t[i].val = v
  <2>1. ASSUME NEW j \in 1..(k + 1), j > i + 1
        PROVE  q[j].node # n
    <3>1. j - 1 \in 1..k /\ (j - 1) + 1 = j /\ j - 1 > i
      BY <1>1, <2>1
    <3>. QED
      BY <1>1, <1>3, <3>1, Zenon
  <2>2. i + 1 \in 1..(k + 1) /\ q[i + 1].node = n
    BY <1>1, <1>2, <1>3, Zenon
  <2>. QED
    BY <1>1, <1>3, <2>1, <2>2, Zenon DEF LastTells
<1>4. LastTells(t, n, v)
  BY <1>1, <1>3, Zenon DEF LastTells
<1>5. ASSUME ~ Has(t, n)
      PROVE  \A i \in 1..(k + 1) : i # 1 => q[i].node # n
  <2>1. ASSUME NEW i \in 1..(k + 1), i # 1
        PROVE  q[i].node # n
    <3>1. i - 1 \in 1..k /\ t[i - 1] = q[(i - 1) + 1] /\ (i - 1) + 1 = i
      BY <1>1, <1>2, <2>1, Zenon
    <3>2. t[i - 1].node # n
      BY <1>1, <1>5, <3>1, Zenon DEF Has
    <3>. QED
      BY <3>1, <3>2, Zenon
  <2>. QED
    BY <2>1, Zenon
<1>6. ASSUME ~ Has(t, n), Head(q).node = n
      PROVE  Head(q).val = v
  <2>1. \A j \in 1..(k + 1) : j > 1 => j # 1
    OBVIOUS
  <2>2. \A j \in 1..(k + 1) : j > 1 => q[j].node # n
    BY <1>5, <1>6, <2>1, Zenon
  <2>3. q[1].node = n /\ 1 \in DOMAIN q
    BY <1>1, <1>2, <1>6, Zenon
  <2>4. q[1].val = v
    BY <1>1, <2>2, <2>3, Zenon DEF LastTells
  <2>. QED
    BY <1>1, <2>4, Zenon
<1>7. ASSUME ~ Has(t, n), Head(q).node # n
      PROVE  ~ Has(q, n)
  BY <1>1, <1>5, <1>7, Zenon DEF Has
<1>. QED
  BY <1>4, <1>6, <1>7 DEF t

\* A snapshot tells the last value of every node, once.
LEMMA SnapshotTells ==
    ASSUME IsFiniteSet(KvNodes), NEW vals \in [KvNodes -> Values], NEW q \in Snapshot(vals), NEW n \in KvNodes
    PROVE  Has(q, n) /\ LastTells(q, n, vals[n])
<1>. DEFINE k == Cardinality(KvNodes)
            f == [i \in 1..k |-> q[i].node]
<1>1. k \in Nat
  BY FS_CardinalityType
<1>2. /\ q \in [1..k -> [node : KvNodes, val : {vals[m] : m \in KvNodes}]]
      /\ \A i, j \in 1..k : q[i].node = q[j].node => i = j
      /\ \A i \in 1..k : q[i].val = vals[q[i].node]
  BY Zenon DEF Snapshot
<1>3. f \in Injection(1..k, KvNodes)
  <2>1. f \in [1..k -> KvNodes]
    BY <1>2
  <2>2. IsInjective(f)
    BY <1>2, Zenon DEF IsInjective
  <2>. QED
    BY <2>1, <2>2, Zenon DEF Injection
<1>4. Cardinality(1..k) = k
  BY <1>1, FS_Interval
<1>5. f \in Surjection(1..k, KvNodes)
  <2>. HIDE DEF f
  <2>. QED
    BY <1>3, <1>4, FS_Injection, Zenon
<1>6. \E i \in 1..k : f[i] = n
  BY <1>5, Zenon DEF Surjection
<1>7. DOMAIN q = 1..k
  BY <1>2, Zenon
<1>8. Has(q, n)
  BY <1>6, <1>7, Zenon DEF Has
<1>. QED
  BY <1>2, <1>7, <1>8, Zenon DEF LastTells

\* Keys are being read one by one.
Fetching == kvPc \in {"subGets", "gets"}

\* While the watch is open, the last waiting event of a node tells its configuration.
\* Of a node without one, what a fetch since the watch began has read is current, and
\* so is the table when the fetch is over.
HealInv ==
    configCh.state = "open" =>
        \A n \in KvNodes :
            /\ LastTells(configCh.queue, n, config[n])
            /\ synced /\ ~ Has(configCh.queue, n) =>
                 IF Fetching THEN n \in todo \/ got[n] = KvReadable(config[n])
                 ELSE config[n] # "bad" => members[n] = config[n]

\* A step that changes nothing of this, or closes the channel.
LEMMA HealSame ==
    ASSUME HealInv, UNCHANGED <<config, members, todo, got, synced>>,
           configCh' = configCh \/ configCh' = Closed, Fetching' <=> Fetching
    PROVE  HealInv'
<1>1. CASE configCh' = Closed
  <2>1. configCh'.state # "open"
    BY <1>1, Zenon DEF Closed
  <2>. QED
    BY <2>1, Zenon DEF HealInv
<1>2. CASE configCh' = configCh
  <2>1. ASSUME configCh'.state = "open", NEW n \in KvNodes
        PROVE  /\ LastTells(configCh'.queue, n, config'[n])
               /\ synced' /\ ~ Has(configCh'.queue, n) =>
                    IF Fetching' THEN n \in todo' \/ got'[n] = KvReadable(config'[n])
                    ELSE config'[n] # "bad" => members'[n] = config'[n]
    BY <1>2, <2>1, Zenon DEF HealInv
  <2>. QED
    BY <2>1, Zenon DEF HealInv, KvReadable
<1>. QED
  BY <1>1, <1>2

LEMMA WriteHeals ==
    ASSUME SourcesOK, HealInv, NEW n \in KvNodes, NEW v \in Values, WriteConfig(n, v)
    PROVE  HealInv'
<1>. DEFINE e == [node |-> n, val |-> v]
            q == configCh.queue
<1>1. /\ config' = [config EXCEPT ![n] = v] /\ configCh' = Emit(configCh, n, v)
      /\ UNCHANGED <<members, todo, got, synced, kvPc>>
  BY Zenon DEF WriteConfig, tableVars, kvWatchVars
<1>2. SUFFICES ASSUME configCh'.state = "open", NEW m \in KvNodes
               PROVE  /\ LastTells(configCh'.queue, m, config'[m])
                      /\ synced' /\ ~ Has(configCh'.queue, m) =>
                           IF Fetching' THEN m \in todo' \/ got'[m] = KvReadable(config'[m])
                           ELSE config'[m] # "bad" => members'[m] = config'[m]
  BY Zenon DEF HealInv, KvReadable
<1>3. configCh.state = "open" /\ configCh'.queue = Append(q, e)
  BY <1>1, <1>2 DEF Emit, SourcesOK
<1>4. q \in Seq(ConfigEvents) /\ e \in ConfigEvents /\ e.node = n /\ e.val = v
  BY Zenon DEF SourcesOK, ConfigEvents
<1>5. config'[m] = IF m = n THEN v ELSE config[m]
  BY <1>1, Zenon DEF SourcesOK
<1>6. /\ Has(Append(q, e), m) <=> Has(q, m) \/ m = n
      /\ m # n /\ LastTells(q, m, config[m]) => LastTells(Append(q, e), m, config[m])
      /\ m = n => LastTells(Append(q, e), m, v)
  <2>. HIDE DEF e
  <2>1. /\ Has(Append(q, e), m) <=> Has(q, m) \/ e.node = m
        /\ e.node # m /\ LastTells(q, m, config[m]) => LastTells(Append(q, e), m, config[m])
        /\ e.node = m /\ e.val = v => LastTells(Append(q, e), m, v)
    BY <1>4, AppendTells, Zenon
  <2>. QED
    BY <1>4, <2>1, Zenon
<1>. HIDE DEF e, q
<1>7. /\ LastTells(q, m, config[m])
      /\ synced /\ ~ Has(q, m) =>
           IF Fetching THEN m \in todo \/ got[m] = KvReadable(config[m])
           ELSE config[m] # "bad" => members[m] = config[m]
  BY <1>3, Zenon DEF HealInv, q
<1>8. Fetching' = Fetching
  BY <1>1, Zenon DEF Fetching
<1>9. CASE m = n
  BY <1>3, <1>5, <1>6, <1>9, Zenon
<1>10. CASE m # n
  <2>1. config'[m] = config[m]
    BY <1>5, <1>10, Zenon
  <2>2. LastTells(configCh'.queue, m, config'[m])
    BY <1>3, <1>6, <1>7, <1>10, <2>1, Zenon
  <2>3. Has(configCh'.queue, m) <=> Has(q, m)
    BY <1>3, <1>6, <1>10, Zenon
  <2>. QED
    BY <1>1, <1>7, <1>8, <2>1, <2>2, <2>3, Zenon
<1>. QED
  BY <1>9, <1>10, Zenon

LEMMA FetchHeals ==
    ASSUME SourcesOK, HealInv, FetchStep
    PROVE  HealInv'
<1>1. CASE ListKeys
  <2>1. /\ UNCHANGED <<config, configCh>> /\ kvPc' \in {"subGets", "gets"}
        /\ todo' = {n \in KvNodes : config[n] # "none"} /\ got' = [n \in KvNodes |-> "none"]
    BY <1>1, Zenon DEF ListKeys, KvGoto, kvStoreVars, chanVars
  <2>2. Fetching'
    BY <2>1, Zenon DEF Fetching
  <2>3. \A n \in KvNodes : n \in todo' \/ got'[n] = KvReadable(config'[n])
    BY <2>1 DEF KvReadable
  <2>4. \A n \in KvNodes : LastTells(configCh'.queue, n, config'[n]) \/ configCh'.state # "open"
    BY <2>1, Zenon DEF HealInv
  <2>. QED
    BY <2>2, <2>3, <2>4, Zenon DEF HealInv, KvReadable
<1>2. ASSUME NEW n \in KvNodes, GetKey(n)
      PROVE  HealInv'
  <2>1. /\ UNCHANGED <<config, configCh, kvPc>> /\ Fetching /\ todo' = todo \ {n}
        /\ (Read(n) /\ synced' = synced) \/ synced' = FALSE
    BY <1>2, Zenon DEF GetKey, Fetching, kvStoreVars, chanVars
  <2>2. Fetching'
    BY <2>1, Zenon DEF Fetching
  <2>3. ASSUME configCh.state = "open", synced', NEW m \in KvNodes, ~ Has(configCh.queue, m)
        PROVE  m \in todo' \/ got'[m] = KvReadable(config[m])
    <3>1. synced /\ got' = [got EXCEPT ![n] = KvReadable(config[n])]
      BY <2>1, <2>3, Zenon DEF Read
    <3>2. m \in todo \/ got[m] = KvReadable(config[m])
      BY <2>1, <2>3, <3>1, Zenon DEF HealInv
    <3>3. got \in [KvNodes -> Configs]
      BY Zenon DEF SourcesOK
    <3>4. CASE m = n
      BY <3>1, <3>3, <3>4, Zenon
    <3>5. CASE m # n
      BY <2>1, <3>1, <3>2, <3>3, <3>5, Zenon
    <3>. QED
      BY <3>4, <3>5, Zenon
  <2>4. \A m \in KvNodes : LastTells(configCh'.queue, m, config'[m]) \/ configCh'.state # "open"
    BY <2>1, Zenon DEF HealInv
  <2>5. ASSUME configCh'.state = "open", synced', NEW m \in KvNodes, ~ Has(configCh'.queue, m)
        PROVE  m \in todo' \/ got'[m] = KvReadable(config'[m])
    BY <2>1, <2>3, <2>5, Zenon
  <2>. QED
    BY <2>2, <2>4, <2>5, Zenon DEF HealInv, KvReadable
<1>3. CASE getMembers
  <2>1. /\ UNCHANGED <<config, configCh, synced>> /\ Fetching /\ kvPc' \in {"alives", "tick"}
        /\ todo = {} /\ members' = got
    BY <1>3, Zenon DEF getMembers, DiffMembers, Fetching, KvGoto, kvStoreVars, chanVars
  <2>2. ~ Fetching'
    BY <2>1 DEF Fetching
  <2>3. ASSUME configCh.state = "open", synced, NEW m \in KvNodes, ~ Has(configCh.queue, m), config[m] # "bad"
        PROVE  members'[m] = config[m]
    <3>1. got[m] = KvReadable(config[m])
      BY <2>1, <2>3, Zenon DEF HealInv
    <3>. QED
      BY <2>1, <2>3, <3>1, Zenon DEF KvReadable
  <2>4. \A m \in KvNodes : LastTells(configCh'.queue, m, config'[m]) \/ configCh'.state # "open"
    BY <2>1, Zenon DEF HealInv
  <2>5. ASSUME configCh'.state = "open", synced', NEW m \in KvNodes, ~ Has(configCh'.queue, m), config'[m] # "bad"
        PROVE  members'[m] = config'[m]
    BY <2>1, <2>3, <2>5, Zenon
  <2>. QED
    BY <2>2, <2>4, <2>5, Zenon DEF HealInv, KvReadable
<1>. QED
  BY <1>1, <1>2, <1>3 DEF FetchStep

\* The watch is opened: every node has an event.
LEMMA WatchHeals ==
    ASSUME IsFiniteSet(KvNodes), SourcesOK, HealInv, WatchConfig
    PROVE  HealInv'
<1>1. ~ Fetching /\ ~ Fetching'
  BY Zenon DEF WatchConfig, KvGoto, Fetching
<1>2. ASSUME NEW q \in Snapshot(config), configCh' = [state |-> "open", queue |-> q], UNCHANGED config
      PROVE  HealInv'
  <2>1. configCh'.queue = q
    BY <1>2, Zenon
  <2>2. config \in [KvNodes -> Values]
    BY Zenon DEF SourcesOK
  <2>3. \A n \in KvNodes : Has(q, n) /\ LastTells(q, n, config[n])
    BY <2>2, SnapshotTells, Zenon
  <2>4. \A n \in KvNodes : Has(configCh'.queue, n) /\ LastTells(configCh'.queue, n, config'[n])
    BY <1>2, <2>1, <2>3, Zenon
  <2>. QED
    BY <2>4, Zenon DEF HealInv, KvReadable
<1>3. CASE OpenConfig
  BY <1>2, <1>3, Zenon DEF WatchConfig, OpenConfig, kvStoreVars
<1>4. CASE UNCHANGED <<configCh, synced>>
  BY <1>1, <1>4, HealSame, Zenon DEF WatchConfig, kvStoreVars, tableVars
<1>. QED
  BY <1>3, <1>4, Zenon DEF WatchConfig

LEMMA EntryHeals ==
    ASSUME TablesOK, SourcesOK, HealInv, OnConfig
    PROVE  HealInv'
<1>. DEFINE q == configCh.queue
            e == Head(q)
<1>1. /\ kvPc = "loop" /\ q # <<>> /\ configCh' = [configCh EXCEPT !.queue = Tail(@)]
      /\ UNCHANGED <<config, kvPc, todo, got, synced>>
      /\ members' = IF e.val = "bad" THEN members ELSE [members EXCEPT ![e.node] = e.val]
  BY Zenon DEF OnConfig, handleConfigEntry, kvStoreVars, kvWatchVars
<1>2. ~ Fetching'
  BY <1>1, Zenon DEF Fetching
<1>3. configCh'.state = configCh.state /\ configCh'.queue = Tail(q) /\ q \in Seq(ConfigEvents)
  BY <1>1, Zenon DEF SourcesOK
<1>4. e \in ConfigEvents
  BY <1>1, <1>3
<1>. HIDE DEF q, e
<1>5. e.node \in KvNodes /\ members \in [KvNodes -> Configs]
  BY <1>4, Zenon DEF ConfigEvents, TablesOK
<1>6. ASSUME configCh.state = "open", NEW n \in KvNodes
      PROVE  /\ LastTells(Tail(q), n, config[n])
             /\ synced /\ ~ Has(Tail(q), n) /\ config[n] # "bad" => members'[n] = config[n]
  <2>1. /\ LastTells(q, n, config[n])
        /\ synced /\ ~ Has(q, n) /\ config[n] # "bad" => members[n] = config[n]
    BY <1>1, <1>6 DEF HealInv, Fetching, q
  <2>2. /\ LastTells(Tail(q), n, config[n])
        /\ ~ Has(Tail(q), n) => IF e.node = n THEN e.val = config[n] ELSE ~ Has(q, n)
    BY <1>1, <1>3, <2>1, TailTells, Zenon DEF e
  <2>3. ASSUME synced, ~ Has(Tail(q), n), config[n] # "bad"
        PROVE  members'[n] = config[n]
    <3>1. CASE e.node = n
      BY <1>1, <1>5, <2>2, <2>3, <3>1, Zenon
    <3>2. CASE e.node # n
      BY <1>1, <1>5, <2>1, <2>2, <2>3, <3>2, Zenon
    <3>. QED
      BY <3>1, <3>2, Zenon
  <2>. QED
    BY <2>2, <2>3, Zenon
<1>7. ASSUME configCh'.state = "open", NEW n \in KvNodes
      PROVE  /\ LastTells(configCh'.queue, n, config'[n])
             /\ synced' /\ ~ Has(configCh'.queue, n) /\ config'[n] # "bad" => members'[n] = config'[n]
  BY <1>1, <1>3, <1>6, <1>7, Zenon
<1>. QED
  BY <1>2, <1>7, Zenon DEF HealInv, KvReadable

LEMMA HealStep ==
    ASSUME IsFiniteSet(KvNodes), TablesOK, SourcesOK, HealInv, [Next]_kvVars
    PROVE  HealInv'
<1>1. ASSUME NEW n \in KvNodes, (\E v \in Values : UpdateMember(n, v)) \/ RemoveMember(n)
      PROVE  HealInv'
  <2>1. \E v \in Values : WriteConfig(n, v)
    BY <1>1 DEF UpdateMember, RemoveMember, Values
  <2>. QED
    BY <2>1, WriteHeals
<1>2. ASSUME NEW n \in KvNodes, KeepAlive(n) \/ BeatExpires(n)
      PROVE  HealInv'
  <2>1. UNCHANGED <<config, members, todo, got, synced, configCh, kvPc>>
    BY <1>2, Zenon DEF KeepAlive, BeatExpires, WriteBeat, tableVars, kvWatchVars
  <2>. QED
    BY <2>1, HealSame, Zenon DEF Fetching
<1>3. CASE StoreStep
  BY <1>1, <1>2, <1>3, Zenon DEF StoreStep
<1>4. CASE TickAlives
  <2>1. /\ UNCHANGED <<config, todo, got, synced, members>> /\ \E err : EndTick(err)
        /\ kvPc = "tick"
    BY <1>4, Zenon DEF TickAlives, getAlives, DiffAlives, kvStoreVars, tableVars
  <2>2. (configCh' = configCh \/ configCh' = Closed) /\ kvPc' \in {"loop", "recover"}
    BY <2>1, Zenon DEF EndTick, KvGoto, chanVars
  <2>3. ~ Fetching /\ ~ Fetching'
    BY <2>1, <2>2 DEF Fetching
  <2>. QED
    BY <2>1, <2>2, <2>3, HealSame, Zenon
<1>5. CASE SubscribeAlives \/ WatchAlive \/ OnAlive \/ Return \/ TickFail \/ SubscribeFail
  <2>1. /\ UNCHANGED <<config, members, todo, got, synced, configCh>>
        /\ kvPc \in {"alives", "watchAlive", "recoverAlive", "loop", "subscribe"}
        /\ kvPc' \in {"watch", "loop", "returned", "tick", "alives"}
    BY <1>5, Zenon DEF SubscribeAlives, WatchAlive, OnAlive, Return, TickFail, SubscribeFail, getAlives,
       DiffAlives, handleAliveEntry, KvGoto, kvStoreVars, chanVars, tableVars, kvWatchVars
  <2>2. ~ Fetching /\ ~ Fetching'
    BY <2>1 DEF Fetching
  <2>. QED
    BY <2>1, <2>2, HealSame, Zenon
<1>6. CASE Close \/ UNCHANGED kvVars
  <2>1. UNCHANGED <<config, members, todo, got, synced, configCh, kvPc>>
    BY <1>6, Zenon DEF Close, kvVars, kvStoreVars, chanVars, tableVars, kvWatchVars
  <2>. QED
    BY <2>1, HealSame, Zenon DEF Fetching
<1>. QED
  BY <1>3, <1>4, <1>5, <1>6, FetchHeals, WatchHeals, EntryHeals, Zenon DEF Next, WatchStep

\* A fetch that reads the keys one by one while others write runs ahead of the entries
\* that wait in the watch's channel, and handleConfigEntry applies these to newer
\* tables.  When none of a node waits any more, the table has the node as the store
\* does: for any finite set of nodes, however often the watch is stopped and opened again.
THEOREM NatsHeals == IsFiniteSet(KvNodes) => (Spec => []KvStaleEventsHeal)
<1>. SUFFICES ASSUME IsFiniteSet(KvNodes)
              PROVE  Spec => []KvStaleEventsHeal
  BY Zenon
<1>1. KvInit => HealInv
  BY DEF KvInit, HealInv, Unopened
<1>2. Inv /\ HealInv /\ [Next]_kvVars => HealInv'
  BY HealStep, Zenon DEF Inv
<1>3. HealInv => KvStaleEventsHeal
  BY Zenon DEF HealInv, KvStaleEventsHeal, Waiting, Has, Fetching
<1>. QED
  BY <1>1, <1>2, <1>3, Inductive, PTL DEF Spec

-----------------------------------------------------------------------------
(* Etcd *)

CONSTANT MaxBatch

Etcd == INSTANCE EtcdMembership

LEMMA EtcdTell ==
    ASSUME NEW add, NEW remove, NEW update, NEW up
    PROVE  Etcd!KvTell(add, remove, update, up) <=> KvTell(add, remove, update, up)
BY Zenon DEF Etcd!KvTell, KvTell

LEMMA EtcdDiffs ==
    ASSUME NEW fetched
    PROVE  /\ Etcd!DiffMembers(fetched) <=> DiffMembers(fetched)
           /\ Etcd!DiffAlives(fetched) <=> DiffAlives(fetched)
<1>1. Etcd!In(fetched) = In(fetched) /\ Etcd!In(members) = In(members)
  BY Zenon DEF Etcd!In, In
<1>. QED
  BY <1>1, EtcdTell, Zenon DEF Etcd!DiffMembers, DiffMembers, Etcd!DiffAlives, DiffAlives

LEMMA EtcdWrites ==
    ASSUME NEW n, NEW v, NEW up, NEW told
    PROVE  /\ Etcd!WriteConfig(n, v) <=> WriteConfig(n, v)
           /\ Etcd!WriteBeat(n, up, told) <=> WriteBeat(n, up, told)
BY Zenon DEF Etcd!WriteConfig, WriteConfig, Etcd!WriteBeat, WriteBeat, Etcd!Change, Change, Etcd!Emit, Emit,
   Etcd!tableVars, tableVars, Etcd!kvWatchVars, kvWatchVars

-----------------------------------------------------------------------------
(* The loops over the events of one response *)

\* A set of numbers has a least one.
LEMMA LeastNumber ==
    ASSUME NEW T \in SUBSET Nat, T # {}
    PROVE  \E x \in T : \A y \in T : x <= y
<1>1. PICK x \in T : \A y \in T : ~ (<<y, x>> \in OpToRel(<, Nat))
  BY WFMin, NatLessThanWellFounded, Zenon
<1>2. \A y \in T : <<y, x>> \in OpToRel(<, Nat) <=> y < x
  BY Zenon DEF OpToRel
<1>3. \A y \in T : ~ (y < x)
  BY <1>1, <1>2, Zenon
<1>. QED
  BY <1>3

\* Induction, with a set of numbers in the place of a predicate.
LEMMA Induction ==
    ASSUME NEW T, 0 \in T, \A n \in Nat : n \in T => n + 1 \in T
    PROVE  Nat \subseteq T
<1>. SUFFICES ASSUME Nat \ T # {} PROVE FALSE
  OBVIOUS
<1>1. PICK x \in Nat \ T : \A y \in Nat \ T : x <= y
  BY LeastNumber, Zenon
<1>2. x # 0 /\ x - 1 \in Nat
  OBVIOUS
<1>3. x - 1 \in T
  BY <1>1, <1>2
<1>. QED
  BY <1>2, <1>3

\* g has a first value, and the others follow from the ones before them.
Recursive(g, N, S, base, step) ==
    g \in [0..N -> S] /\ g[0] = base /\ \A i \in 1..N : g[i] = step[i][g[i - 1]]

LEMMA Recursion ==
    ASSUME NEW N \in Nat, NEW S, NEW base \in S, NEW step \in [1..N -> [S -> S]]
    PROVE  \E g : Recursive(g, N, S, base, step)
<1>. DEFINE UpTo(n, g) == g \in [0..n -> S] /\ g[0] = base /\ \A i \in 1..n : g[i] = step[i][g[i-1]]
            T == {n \in Nat : n <= N => \E g : UpTo(n, g)}
<1>1. 0 \in T
  <2>. DEFINE g == [i \in 0..0 |-> base]
  <2>1. UpTo(0, g)
    OBVIOUS
  <2>. HIDE DEF g
  <2>2. \E h : UpTo(0, h)
    BY <2>1, Zenon
  <2>. QED
    BY <2>2, Zenon
<1>2. ASSUME NEW n \in Nat, n \in T
      PROVE  n + 1 \in T
  <2>. SUFFICES ASSUME n + 1 <= N
                PROVE  \E g : UpTo(n + 1, g)
    OBVIOUS
  <2>1. PICK g : UpTo(n, g)
    BY <1>2
  <2>. DEFINE h == [i \in 0..n+1 |-> IF i = n + 1 THEN step[n+1][g[n]] ELSE g[i]]
  <2>2. step[n+1][g[n]] \in S
    BY <2>1
  <2>3. h \in [0..n+1 -> S]
    BY <2>1, <2>2, SMTT(30)
  <2>4. ASSUME NEW i \in 1..n+1
        PROVE  h[i] = step[i][h[i-1]]
    <3>1. CASE i = n + 1
      <4>1. n \in 0..n+1 /\ n + 1 \in 0..n+1 /\ n # n + 1 /\ i - 1 = n
        BY <3>1
      <4>2. h[n+1] = step[n+1][g[n]] /\ h[n] = g[n]
        BY <4>1
      <4>. QED
        BY <3>1, <4>1, <4>2
    <3>2. CASE i # n + 1
      <4>1. i \in 1..n /\ i - 1 \in 0..n /\ h[i] = g[i] /\ h[i-1] = g[i-1]
        BY <3>2
      <4>. QED
        BY <2>1, <4>1
    <3>. QED
      BY <3>1, <3>2
  <2>5. h[0] = base
    BY <2>1
  <2>. HIDE DEF h
  <2>6. UpTo(n + 1, h)
    BY <2>3, <2>4, <2>5, Zenon
  <2>. QED
    BY <2>6
<1>3. N \in T
  <2>. HIDE DEF T
  <2>. QED
    BY <1>1, <1>2, Induction
<1>. QED
  BY <1>3 DEF Recursive

Tables == [members : [KvNodes -> Configs], add : SUBSET KvNodes, remove : SUBSET KvNodes, update : SUBSET KvNodes,
           up : SUBSET KvNodes]

Start == [members |-> members, add |-> {}, remove |-> {}, update |-> {}, up |-> {}]

LEMMA ConfigEventType ==
    ASSUME NEW acc \in Tables, NEW e \in ConfigEvents
    PROVE  Etcd!ConfigEvent(acc, e) \in Tables
<1>. DEFINE known == acc.members[e.node] # "none"
            put == [acc EXCEPT
                      !.members[e.node] = e.val,
                      !.add = IF known THEN @ ELSE @ \union {e.node},
                      !.update = IF known THEN @ \union {e.node} ELSE @,
                      !.up = IF e.val = "on" /\ e.node \in kvAlive THEN @ \union {e.node} ELSE @ \ {e.node}]
            gone == [acc EXCEPT !.members[e.node] = "none", !.remove = @ \union {e.node}]
<1>1. e.node \in KvNodes /\ e.val \in Values
  BY DEF ConfigEvents
<1>2. Etcd!ConfigEvent(acc, e) = acc \/ Etcd!ConfigEvent(acc, e) = gone
         \/ (e.val \in Configs /\ Etcd!ConfigEvent(acc, e) = put)
  BY <1>1, Zenon DEF Etcd!ConfigEvent, Values, Configs
<1>3. gone \in Tables
  BY <1>1, Zenon DEF Tables, Configs
<1>4. e.val \in Configs => put \in Tables
  BY <1>1, Zenon DEF Tables
<1>. QED
  BY <1>2, <1>3, <1>4, Zenon

\* The members after one event.
LEMMA ConfigEventMembers ==
    ASSUME NEW acc \in Tables, NEW e \in ConfigEvents, NEW n \in KvNodes
    PROVE  Etcd!ConfigEvent(acc, e).members[n] =
              IF e.node = n /\ e.val # "bad" THEN e.val ELSE acc.members[n]
BY Zenon DEF Etcd!ConfigEvent, Tables, ConfigEvents, Values, Configs

LEMMA ConfigLoopIs ==
    ASSUME members \in [KvNodes -> Configs], NEW es \in Seq(ConfigEvents)
    PROVE  /\ Etcd!ConfigLoop(es) \in [0..Len(es) -> Tables] /\ Etcd!ConfigLoop(es)[0] = Start
           /\ \A i \in 1..Len(es) :
                 Etcd!ConfigLoop(es)[i] = Etcd!ConfigEvent(Etcd!ConfigLoop(es)[i - 1], es[i])
<1>. DEFINE N == Len(es)
            step == [i \in 1..N |-> [x \in Tables |-> Etcd!ConfigEvent(x, es[i])]]
            Rec(g) == g = [i \in 0..N |-> IF i = 0 THEN Start ELSE Etcd!ConfigEvent(g[i - 1], es[i])]
            F == Etcd!ConfigLoop(es)
<1>1. N \in Nat /\ \A i \in 1..N : es[i] \in ConfigEvents
  OBVIOUS
<1>2. Start \in Tables
  BY Zenon DEF Start, Tables
<1>3. step \in [1..N -> [Tables -> Tables]]
  BY <1>1, ConfigEventType, Zenon
<1>4. PICK g : Recursive(g, N, Tables, Start, step)
  <2>. HIDE DEF step, N
  <2>. QED
    BY <1>1, <1>2, <1>3, Recursion, Zenon
<1>5. g \in [0..N -> Tables] /\ g[0] = Start /\ \A i \in 1..N : g[i] = step[i][g[i - 1]]
  BY <1>4, Zenon DEF Recursive
<1>6. /\ 0 \in 0..N /\ \A i \in 0..N : i # 0 => i \in 1..N
      /\ \A i \in 1..N : i \in 0..N /\ i # 0 /\ i - 1 \in 0..N
  BY <1>1
<1>. HIDE DEF N
<1>7. \A i \in 1..N : g[i] = Etcd!ConfigEvent(g[i - 1], es[i])
  BY <1>5, <1>6, Zenon
<1>8. Rec(g)
  BY <1>5, <1>6, <1>7, Zenon
<1>9. F = CHOOSE f : Rec(f)
  BY DEF Etcd!ConfigLoop, Start, N
<1>. HIDE DEF F
<1>10. Rec(F)
  <2>. HIDE DEF Rec
  <2>. QED
    BY <1>8, <1>9, Zenon
<1>11. F[0] = Start /\ \A i \in 1..N : F[i] = Etcd!ConfigEvent(F[i - 1], es[i])
  BY <1>6, <1>10, Zenon
<1>12. F \in [0..N -> Tables]
  <2>. DEFINE T == {n \in Nat : n <= N => F[n] \in Tables}
  <2>1. 0 \in T
    BY <1>2, <1>11
  <2>2. ASSUME NEW n \in Nat, n \in T
        PROVE  n + 1 \in T
    <3>1. n + 1 \in Nat /\ (n + 1 <= N => n <= N /\ n + 1 \in 1..N /\ (n + 1) - 1 = n)
      BY <1>1
    <3>2. ASSUME n + 1 <= N
          PROVE  F[n + 1] \in Tables
      <4>1. F[n + 1] = Etcd!ConfigEvent(F[n], es[n + 1])
        BY <1>11, <3>1, <3>2, Zenon
      <4>2. F[n] \in Tables /\ es[n + 1] \in ConfigEvents
        BY <1>1, <2>2, <3>1, <3>2, Zenon
      <4>3. Etcd!ConfigEvent(F[n], es[n + 1]) \in Tables
        BY <4>2, ConfigEventType, Zenon
      <4>. QED
        BY <4>1, <4>3, Zenon
    <3>. QED
      BY <3>1, <3>2, Zenon
  <2>3. Nat \subseteq T
    <3>. HIDE DEF T
    <3>. QED
      BY <2>1, <2>2, Induction, Zenon
  <2>4. \A i \in 0..N : i \in Nat /\ i <= N
    BY <1>1
  <2>5. \A i \in 0..N : F[i] \in Tables
    BY <2>3, <2>4, Zenon
  <2>. QED
    BY <1>10, <2>5, Zenon
<1>. QED
  BY <1>11, <1>12, Zenon DEF F, N

LEMMA AliveLoopIs ==
    ASSUME NEW es, Len(es) = 1
    PROVE  Etcd!AliveLoop(es)[1] = Etcd!AliveEvent([alive |-> kvAlive, update |-> {}, up |-> {}], es[1])
<1>. DEFINE base == [alive |-> kvAlive, update |-> {}, up |-> {}]
            Rec(g) == g = [i \in 0..1 |-> IF i = 0 THEN base ELSE Etcd!AliveEvent(g[i - 1], es[i])]
            g == [i \in 0..1 |-> IF i = 0 THEN base ELSE Etcd!AliveEvent(base, es[i])]
            F == Etcd!AliveLoop(es)
<1>1. F = CHOOSE f : Rec(f)
  BY DEF Etcd!AliveLoop
<1>2. 0 \in 0..1 /\ 1 \in 0..1 /\ 1 # 0 /\ 1 - 1 = 0 /\ \A i \in 0..1 : i # 0 => i - 1 = 0
  OBVIOUS
<1>. HIDE DEF base, F
<1>3. g[0] = base
  BY <1>2, Zenon
<1>4. Rec(g)
  <2>1. \A i \in 0..1 : g[i] = IF i = 0 THEN base ELSE Etcd!AliveEvent(g[i - 1], es[i])
    BY <1>2, <1>3, Zenon
  <2>. QED
    BY <2>1, Zenon
<1>5. Rec(F)
  <2>. HIDE DEF Rec, g
  <2>. QED
    BY <1>1, <1>4, Zenon
<1>6. F[0] = base /\ F[1] = Etcd!AliveEvent(F[1 - 1], es[1])
  BY <1>2, <1>5, Zenon
<1>. QED
  BY <1>2, <1>6, Zenon DEF F, base

\* A response with one event.
LEMMA ConfigResponseGood ==
    ASSUME TablesOK, KvViewMatches, NEW es \in Seq(ConfigEvents), Len(es) = 1, Etcd!handleConfigEvents(es)
    PROVE  Good
<1>. DEFINE r == Etcd!ConfigEvent(Start, es[1])
            n == es[1].node
            v == es[1].val
            known == members[n] # "none"
            put == v \in {"on", "off"}
<1>1. es[1] \in ConfigEvents /\ 1 \in 1..Len(es) /\ 1 - 1 = 0
  OBVIOUS
<1>2. Etcd!ConfigLoop(es)[1] = r
  <2>. DEFINE F == Etcd!ConfigLoop(es)
  <2>1. members \in [KvNodes -> Configs]
    BY Zenon DEF TablesOK
  <2>2. F[0] = Start /\ \A i \in 1..Len(es) : F[i] = Etcd!ConfigEvent(F[i - 1], es[i])
    BY <2>1, ConfigLoopIs, Zenon
  <2>. HIDE DEF F
  <2>3. F[1] = Etcd!ConfigEvent(F[1 - 1], es[1])
    BY <1>1, <2>2, Zenon
  <2>4. F[1 - 1] = Start
    BY <1>1, <2>2, Zenon
  <2>5. F[1] = r
    BY <2>3, <2>4, Zenon
  <2>. QED
    BY <2>5, Zenon DEF F
<1>3. members' = r.members /\ KvTell(r.add, r.remove, r.update, r.up) /\ kvAlive' = kvAlive
  BY <1>2, EtcdTell, Zenon DEF Etcd!handleConfigEvents
<1>4. n \in KvNodes /\ v \in Values
  BY <1>1 DEF ConfigEvents
<1>5. Start \in Tables
  BY DEF Start, Tables, TablesOK
<1>6. r \in Tables
  BY <1>1, <1>5, ConfigEventType, Zenon
<1>7. \A m \in KvNodes : r.members[m] = IF n = m /\ v # "bad" THEN v ELSE members[m]
  <2>1. Start.members = members
    BY DEF Start
  <2>. QED
    BY <1>1, <1>5, <2>1, ConfigEventMembers, Zenon
<1>8. /\ r.add = IF put /\ ~ known THEN {n} ELSE {}
      /\ r.remove = IF known /\ v = "none" THEN {n} ELSE {}
      /\ r.update = IF put /\ known THEN {n} ELSE {}
      /\ \A m \in r.add \union r.update : m \in r.up <=> v = "on" /\ m \in kvAlive
  BY <1>4 DEF Etcd!ConfigEvent, Start, Values, TablesOK, Configs
<1>. HIDE DEF r
<1>9. Sound(r.add, r.remove, r.update)
  BY <1>4, <1>8, KnownMembers DEF Sound, In
<1>. HIDE DEF n, v
<1>10. /\ kvView' \in [KvNodes -> Views] /\ kvCb' \in MemberInfos /\ [KvFeed!Next]_<<kvView, kvCb>>
       /\ \A m \in KvNodes :
            kvView'[m] = IF m \in r.remove THEN "none"
                       ELSE IF m \in r.add \union r.update THEN IF m \in r.up THEN "up" ELSE "down"
                       ELSE kvView[m]
  BY <1>3, <1>9, TellView
<1>11. ASSUME NEW m \in KvNodes
       PROVE  kvView'[m] = KvStatus(members'[m], m \in kvAlive')
  <2>1. kvView[m] = KvStatus(members[m], m \in kvAlive)
    BY DEF KvViewMatches
  <2>2. /\ m \in r.remove <=> m = n /\ known /\ v = "none"
        /\ m \in r.add \union r.update <=> m = n /\ put
    BY <1>8
  <2>3. members'[m] = IF n = m /\ v # "bad" THEN v ELSE members[m]
    BY <1>3, <1>7, Zenon
  <2>. QED
    BY <1>3, <1>4, <1>8, <1>10, <2>1, <2>2, <2>3 DEF KvStatus, Values
<1>12. TablesOK'
  BY <1>3, <1>6, <1>10 DEF TablesOK, Tables
<1>. QED
  BY <1>10, <1>11, <1>12 DEF Good, KvViewMatches, KvStatus

LEMMA AliveResponseGood ==
    ASSUME TablesOK, KvViewMatches, NEW es \in Seq(AliveEvents), Len(es) = 1, Etcd!handleAliveEvents(es)
    PROVE  Good
<1>. DEFINE r == Etcd!AliveEvent([alive |-> kvAlive, update |-> {}, up |-> {}], es[1])
            n == es[1].node
            v == es[1].val
            new == v = "beat" /\ n \notin kvAlive
            gone == v # "beat" /\ n \in kvAlive
<1>1. es[1] \in AliveEvents
  OBVIOUS
<1>2. n \in KvNodes
  BY <1>1 DEF AliveEvents
<1>3. kvAlive' = r.alive /\ KvTell({}, {}, r.update, r.up) /\ members' = members
  BY AliveLoopIs, EtcdTell, Zenon DEF Etcd!handleAliveEvents
<1>4. /\ r.alive = IF new THEN kvAlive \union {n} ELSE IF gone THEN kvAlive \ {n} ELSE kvAlive
      /\ r.update = IF (new /\ members[n] = "on") \/ (gone /\ members[n] # "none") THEN {n} ELSE {}
      /\ r.up = IF new THEN {n} ELSE {}
  BY Zenon DEF Etcd!AliveEvent
<1>. HIDE DEF r, n, v
<1>5. handleAliveEntry(n, v)
  BY <1>3, <1>4, Zenon DEF handleAliveEntry
<1>. QED
  BY <1>2, <1>5, AliveEntryGood

-----------------------------------------------------------------------------
(* The steps of etcd *)

LEMMA PartsOfQueue ==
    ASSUME NEW E, NEW q \in Seq(E), NEW k \in 1..Len(q)
    PROVE  /\ SubSeq(q, 1, k) \in Seq(E) /\ Len(SubSeq(q, 1, k)) = k
           /\ SubSeq(q, k + 1, Len(q)) \in Seq(E)
           /\ \A i \in 1..k : SubSeq(q, 1, k)[i] = q[i]
           /\ \A i \in 1..(Len(q) - k) : SubSeq(q, k + 1, Len(q))[i] = q[k + i]
           /\ Len(SubSeq(q, k + 1, Len(q))) = Len(q) - k
OBVIOUS

LEMMA FirstPart ==
    ASSUME NEW E, NEW q \in Seq(E), NEW k \in 1..Len(q)
    PROVE  SubSeq(q, 1, k) \in Seq(E) /\ Len(SubSeq(q, 1, k)) = k
OBVIOUS

\* What a full fetch reads.
EtcdFetched == [n \in KvNodes |-> KvReadable(config[n])]

LEMMA EtcdFetch ==
    ASSUME SourcesOK
    PROVE  /\ EtcdFetched \in [KvNodes -> Configs]
           /\ Etcd!getMembers <=> DiffMembers(EtcdFetched)
           /\ Etcd!getAlives <=> DiffAlives(beat)
<1>1. EtcdFetched \in [KvNodes -> Configs]
  BY DEF EtcdFetched, SourcesOK, KvReadable, Values, Configs
<1>2. EtcdFetched = [n \in KvNodes |-> Etcd!KvReadable(config[n])]
  BY Zenon DEF EtcdFetched, KvReadable, Etcd!KvReadable
<1>3. Etcd!getMembers <=> Etcd!DiffMembers(EtcdFetched)
  BY <1>2, Zenon DEF Etcd!getMembers
<1>4. Etcd!getAlives <=> Etcd!DiffAlives(beat)
  BY Zenon DEF Etcd!getAlives
<1>. QED
  BY <1>1, <1>3, <1>4, EtcdDiffs, Zenon

LEMMA EtcdSources ==
    ASSUME SourcesOK, [Etcd!Next]_(Etcd!kvVars)
    PROVE  SourcesOK'
<1>. DEFINE ConfigChs == [state : States, queue : Seq(ConfigEvents)]
            AliveChs == [state : States, queue : Seq(AliveEvents)]
<1>1. ASSUME NEW n \in KvNodes, NEW v \in Values, WriteConfig(n, v)
      PROVE  SourcesOK'
  <2>1. config' = [config EXCEPT ![n] = v] /\ configCh' = Emit(configCh, n, v)
        /\ UNCHANGED <<beat, got, aliveCh>>
    BY <1>1, Zenon DEF WriteConfig, kvWatchVars
  <2>2. config' \in [KvNodes -> Values]
    BY <2>1 DEF SourcesOK
  <2>3. configCh' \in ConfigChs
    BY <2>1, EmitType DEF SourcesOK, ConfigEvents
  <2>. QED
    BY <2>1, <2>2, <2>3 DEF SourcesOK
<1>2. ASSUME NEW n \in KvNodes, NEW up \in BOOLEAN, WriteBeat(n, up, TRUE)
      PROVE  SourcesOK'
  <2>1. /\ beat' = IF up THEN beat \union {n} ELSE beat \ {n}
        /\ aliveCh' = Emit(aliveCh, n, IF up THEN "beat" ELSE "none")
        /\ UNCHANGED <<config, got, configCh>>
    BY <1>2, Zenon DEF WriteBeat, kvWatchVars
  <2>2. beat' \subseteq KvNodes
    BY <2>1 DEF SourcesOK
  <2>3. aliveCh' \in AliveChs
    <3>1. (IF up THEN "beat" ELSE "none") \in {"beat", "none"}
      BY Zenon
    <3>2. Emit(aliveCh, n, IF up THEN "beat" ELSE "none") \in AliveChs
      BY Zenon, <3>1, EmitType DEF SourcesOK, AliveEvents
    <3>. QED
      BY <2>1, <3>2, Zenon
  <2>. QED
    BY <2>1, <2>2, <2>3 DEF SourcesOK
<1>3. CASE Etcd!StoreStep
  <2>1. ASSUME NEW n \in KvNodes, (\E v \in Etcd!Values : Etcd!UpdateMember(n, v)) \/ Etcd!RemoveMember(n)
        PROVE  \E v \in Values : WriteConfig(n, v)
    BY <2>1, EtcdWrites DEF Etcd!UpdateMember, Etcd!RemoveMember, Etcd!Values, Values
  <2>2. ASSUME NEW n \in KvNodes, Etcd!KeepAlive(n) \/ Etcd!LeaseExpires(n)
        PROVE  \E up \in BOOLEAN : WriteBeat(n, up, TRUE)
    BY Zenon, <2>2, EtcdWrites DEF Etcd!KeepAlive, Etcd!LeaseExpires
  <2>. QED
    BY <1>1, <1>2, <1>3, <2>1, <2>2, Zenon DEF Etcd!StoreStep
<1>4. ASSUME NEW ch \in ConfigChs
      PROVE  Etcd!Open(ch) \in ConfigChs
  BY Zenon DEF Etcd!Open, States
<1>5. ASSUME NEW ch \in AliveChs
      PROVE  Etcd!Open(ch) \in AliveChs
  BY Zenon DEF Etcd!Open, States
<1>6. Closed \in ConfigChs /\ Closed \in AliveChs /\ Etcd!Closed = Closed
  BY ClosedType, Zenon DEF Etcd!Closed, Closed
<1>7. CASE Etcd!WatchConfig \/ Etcd!WatchAlive \/ Etcd!WatchError
  <2>1. /\ UNCHANGED <<config, beat, got>>
        /\ configCh' \in {configCh, Etcd!Open(configCh), Closed}
        /\ aliveCh' \in {aliveCh, Etcd!Open(aliveCh), Closed}
    BY <1>6, <1>7, Zenon DEF Etcd!WatchConfig, Etcd!WatchAlive, Etcd!WatchError, Etcd!kvStoreVars
  <2>2. configCh \in ConfigChs /\ aliveCh \in AliveChs
    BY Zenon DEF SourcesOK
  <2>3. configCh' \in ConfigChs /\ aliveCh' \in AliveChs
    BY <1>4, <1>5, <1>6, <2>1, <2>2, Zenon
  <2>. QED
    BY <2>1, <2>3, Zenon DEF SourcesOK
<1>8. ASSUME NEW k, Etcd!OnConfig(k)
      PROVE  SourcesOK'
  <2>1. /\ k \in 1..Len(configCh.queue) /\ UNCHANGED <<config, beat, got, aliveCh>>
        /\ configCh' = [configCh EXCEPT !.queue = SubSeq(@, k + 1, Len(@))]
    BY <1>8, Zenon DEF Etcd!OnConfig, Etcd!kvStoreVars, Etcd!kvWatchVars
  <2>2. SubSeq(configCh.queue, k + 1, Len(configCh.queue)) \in Seq(ConfigEvents)
    BY <2>1, PartsOfQueue, Zenon DEF SourcesOK
  <2>3. configCh' \in ConfigChs
    BY <2>1, <2>2, Zenon DEF SourcesOK
  <2>. QED
    BY <2>1, <2>3, Zenon DEF SourcesOK
<1>9. ASSUME NEW k, Etcd!OnAlive(k)
      PROVE  SourcesOK'
  <2>1. /\ k \in 1..Len(aliveCh.queue) /\ UNCHANGED <<config, beat, got, configCh>>
        /\ aliveCh' = [aliveCh EXCEPT !.queue = SubSeq(@, k + 1, Len(@))]
    BY <1>9, Zenon DEF Etcd!OnAlive, Etcd!kvStoreVars, Etcd!kvWatchVars
  <2>2. SubSeq(aliveCh.queue, k + 1, Len(aliveCh.queue)) \in Seq(AliveEvents)
    BY <2>1, PartsOfQueue, Zenon DEF SourcesOK
  <2>3. aliveCh' \in AliveChs
    BY <2>1, <2>2, Zenon DEF SourcesOK
  <2>. QED
    BY <2>1, <2>3, Zenon DEF SourcesOK
<1>10. CASE Etcd!Subscribe \/ Etcd!SubscribeAlives \/ Etcd!SubscribeFail \/ Etcd!Return \/ Etcd!TickMembers
            \/ Etcd!TickAlives \/ Etcd!Close \/ UNCHANGED Etcd!kvVars
  <2>1. UNCHANGED <<config, beat, got, configCh, aliveCh>>
    BY <1>10, Zenon DEF Etcd!Subscribe, Etcd!SubscribeAlives, Etcd!SubscribeFail, Etcd!Return, Etcd!TickMembers,
       Etcd!TickAlives, Etcd!Close, Etcd!kvVars, Etcd!kvStoreVars, Etcd!chanVars, Etcd!kvWatchVars
  <2>. QED
    BY <2>1, Zenon DEF SourcesOK
<1>. QED
  BY <1>3, <1>7, <1>8, <1>9, <1>10, Zenon DEF Etcd!Next, Etcd!WatchStep

\* With one event in a response, every step leaves the tables, fetches, or handles one.
LEMMA EtcdGood ==
    ASSUME MaxBatch = 1, TablesOK, KvViewMatches, SourcesOK, [Etcd!Next]_(Etcd!kvVars)
    PROVE  Good
<1>1. CASE Etcd!StoreStep
  <2>1. UNCHANGED tableVars
    BY <1>1, Zenon DEF Etcd!StoreStep, Etcd!UpdateMember, Etcd!RemoveMember, Etcd!KeepAlive, Etcd!LeaseExpires,
       Etcd!WriteConfig, Etcd!WriteBeat, Etcd!tableVars, tableVars
  <2>. QED
    BY <2>1, SameTables
<1>2. CASE Etcd!WatchConfig \/ Etcd!WatchAlive \/ Etcd!WatchError \/ Etcd!SubscribeFail \/ Etcd!Return
           \/ Etcd!Close \/ UNCHANGED Etcd!kvVars
  <2>1. UNCHANGED tableVars
    BY <1>2, Zenon DEF Etcd!WatchConfig, Etcd!WatchAlive, Etcd!WatchError, Etcd!SubscribeFail, Etcd!Return,
       Etcd!Close, Etcd!kvVars, Etcd!tableVars, tableVars
  <2>. QED
    BY <2>1, SameTables, Zenon
<1>3. CASE Etcd!Subscribe \/ Etcd!TickMembers
  <2>1. DiffMembers(EtcdFetched) \/ UNCHANGED tableVars
    BY <1>3, EtcdFetch, Zenon DEF Etcd!Subscribe, Etcd!TickMembers, Etcd!tableVars, tableVars
  <2>. QED
    BY <2>1, EtcdFetch, DiffMembersGood, SameTables, Zenon
<1>4. CASE Etcd!SubscribeAlives \/ Etcd!TickAlives
  <2>1. DiffAlives(beat) \/ UNCHANGED tableVars
    BY <1>4, EtcdFetch, Zenon DEF Etcd!SubscribeAlives, Etcd!TickAlives, Etcd!tableVars, tableVars
  <2>. QED
    BY <2>1, DiffAlivesGood, SameTables DEF SourcesOK
<1>5. ASSUME NEW k \in 1..MaxBatch, Etcd!OnConfig(k)
      PROVE  Good
  <2>1. k = 1
    BY <1>5
  <2>2. k \in 1..Len(configCh.queue) /\ Etcd!handleConfigEvents(SubSeq(configCh.queue, 1, k))
    BY <1>5, Zenon DEF Etcd!OnConfig
  <2>3. SubSeq(configCh.queue, 1, k) \in Seq(ConfigEvents) /\ Len(SubSeq(configCh.queue, 1, k)) = k
    <3>1. configCh.queue \in Seq(ConfigEvents)
      BY Zenon DEF SourcesOK
    <3>. QED
      BY <2>2, <3>1, FirstPart, Zenon
  <2>4. Len(SubSeq(configCh.queue, 1, k)) = 1
    BY <2>1, <2>3, Zenon
  <2>. QED
    BY <2>2, <2>3, <2>4, ConfigResponseGood, Zenon
<1>6. ASSUME NEW k \in 1..MaxBatch, Etcd!OnAlive(k)
      PROVE  Good
  <2>1. k = 1
    BY <1>6
  <2>2. k \in 1..Len(aliveCh.queue) /\ Etcd!handleAliveEvents(SubSeq(aliveCh.queue, 1, k))
    BY <1>6, Zenon DEF Etcd!OnAlive
  <2>3. SubSeq(aliveCh.queue, 1, k) \in Seq(AliveEvents) /\ Len(SubSeq(aliveCh.queue, 1, k)) = k
    <3>1. aliveCh.queue \in Seq(AliveEvents)
      BY DEF SourcesOK
    <3>. QED
      BY <2>2, <3>1, FirstPart, Zenon
  <2>4. Len(SubSeq(aliveCh.queue, 1, k)) = 1
    BY <2>1, <2>3, Zenon
  <2>. QED
    BY <2>2, <2>3, <2>4, AliveResponseGood, Zenon
<1>. QED
  BY <1>1, <1>2, <1>3, <1>4, <1>5, <1>6, Zenon DEF Etcd!Next, Etcd!WatchStep

LEMMA EtcdInit ==
    ASSUME Etcd!KvInit
    PROVE  KvInit
BY Zenon DEF Etcd!KvInit, KvInit, Etcd!Unopened, Unopened, Etcd!KvFeed!Init, KvFeed!Init, Etcd!KvFeed!Nobody, KvFeed!Nobody

LEMMA EtcdInductive == MaxBatch = 1 => (Etcd!Spec => []Inv)
<1>. SUFFICES ASSUME MaxBatch = 1
              PROVE  Etcd!Spec => []Inv
  BY Zenon
<1>1. Etcd!KvInit => Inv
  BY EtcdInit, InitInv, Zenon
<1>2. Inv /\ [Etcd!Next]_(Etcd!kvVars) => Inv'
  BY EtcdGood, EtcdSources, Zenon DEF Inv, Good
<1>. QED
  BY <1>1, <1>2, PTL DEF Etcd!Spec

\* As long as every response of a watch holds one event, the callbacks of the etcd
\* membership add up to the subscriber's tables.  With more events it is not so:
\* handleConfigEvents tells of a node that is added and removed, or removed and added,
\* in an order that onNodeInfoUpdate does not follow.
THEOREM EtcdViewCorrect == MaxBatch = 1 => (Etcd!Spec => []KvViewMatches)
<1>1. Inv => KvViewMatches
  BY Zenon DEF Inv
<1>. QED
  BY <1>1, EtcdInductive, PTL

\* Under the same assumption every callback of etcd is one that onNodeInfoUpdate can
\* apply: no node is added twice, and none removed or updated that was not added.
THEOREM EtcdKeepsContract == MaxBatch = 1 => (Etcd!Spec => KvContract)
<1>. SUFFICES ASSUME MaxBatch = 1
              PROVE  Etcd!Spec => KvContract
  BY Zenon
<1>1. Etcd!KvInit => KvFeed!Init
  BY EtcdInit, Zenon DEF KvInit
<1>2. Inv /\ [Etcd!Next]_(Etcd!kvVars) => [KvFeed!Next]_<<kvView, kvCb>>
  BY EtcdGood, Zenon DEF Inv, Good
<1>. QED
  BY <1>1, <1>2, EtcdInductive, PTL DEF Etcd!Spec, KvContract, KvFeed!Spec

-----------------------------------------------------------------------------
(* Events that were overtaken, with any number of them in a response *)

\* What the loop leaves in the table: what the last event of a node tells.
LEMMA LoopTells ==
    ASSUME members \in [KvNodes -> Configs], NEW es \in Seq(ConfigEvents), NEW n \in KvNodes, NEW v, v # "bad",
           LastTells(es, n, v), Has(es, n) \/ members[n] = v
    PROVE  Etcd!ConfigLoop(es)[Len(es)].members[n] = v
<1>. DEFINE N == Len(es)
            F == Etcd!ConfigLoop(es)
            Met(i) == \E j \in 1..i : es[j].node = n
            Last(i) == \A j \in 1..i :
                          es[j].node = n /\ (\A l \in 1..i : l > j => es[l].node # n) => es[j].val = v
            T == {i \in Nat : i <= N => ((Met(i) \/ members[n] = v) /\ Last(i) => F[i].members[n] = v)}
<1>1. N \in Nat /\ DOMAIN es = 1..N /\ \A i \in 1..N : es[i] \in ConfigEvents
  OBVIOUS
<1>2. /\ F \in [0..N -> Tables] /\ F[0] = Start
      /\ \A i \in 1..N : F[i] = Etcd!ConfigEvent(F[i - 1], es[i])
  BY ConfigLoopIs, Zenon
<1>. HIDE DEF N, F
<1>3. 0 \in T
  <2>1. F[0].members = members
    BY <1>2 DEF Start
  <2>. QED
    BY <2>1
<1>4. ASSUME NEW i \in Nat, i \in T
      PROVE  i + 1 \in T
  <2>. SUFFICES ASSUME i + 1 <= N, Met(i + 1) \/ members[n] = v, Last(i + 1)
                PROVE  F[i + 1].members[n] = v
    OBVIOUS
  <2>. DEFINE e == es[i + 1]
  <2>1. /\ i <= N /\ i \in 0..N /\ i + 1 \in 1..N /\ (i + 1) - 1 = i /\ i + 1 \in 1..(i + 1)
        /\ \A j \in 1..(i + 1) : j = i + 1 \/ j \in 1..i
        /\ \A j \in 1..(i + 1) : ~ (j > i + 1)
        /\ \A j \in 1..i : j \in 1..(i + 1) /\ i + 1 > j
    BY <1>1
  <2>2. F[i + 1] = Etcd!ConfigEvent(F[i], e) /\ F[i] \in Tables /\ e \in ConfigEvents
    BY <1>1, <1>2, <2>1, Zenon
  <2>3. Etcd!ConfigEvent(F[i], e).members[n] = IF e.node = n /\ e.val # "bad" THEN e.val ELSE F[i].members[n]
    BY <2>2, ConfigEventMembers, Zenon
  <2>4. CASE e.node = n
    <3>1. e.val = v
      BY <2>1, <2>4, Zenon
    <3>. QED
      BY <2>2, <2>3, <2>4, <3>1, Zenon
  <2>5. CASE e.node # n
    <3>1. Met(i) \/ members[n] = v
      BY <2>1, <2>5, Zenon
    <3>2. Last(i)
      BY <2>1, <2>5, Zenon
    <3>3. F[i].members[n] = v
      BY <1>4, <2>1, <3>1, <3>2, Zenon
    <3>. QED
      BY <2>2, <2>3, <2>5, <3>3, Zenon
  <2>. QED
    BY <2>4, <2>5, Zenon
<1>5. Nat \subseteq T
  <2>. HIDE DEF T
  <2>. QED
    BY <1>3, <1>4, Induction, Zenon
<1>6. (Met(N) \/ members[n] = v) /\ Last(N)
  BY <1>1, Zenon DEF Has, LastTells
<1>7. N <= N
  BY <1>1
<1>8. F[N].members[n] = v
  BY <1>1, <1>5, <1>6, <1>7, Zenon
<1>. QED
  BY <1>8, Zenon DEF F, N

\* A response takes the first k events of the queue.
LEMMA PrefixTells ==
    ASSUME NEW E, NEW q \in Seq(E), NEW k \in 1..Len(q), NEW n, NEW v, LastTells(q, n, v)
    PROVE  /\ LastTells(SubSeq(q, k + 1, Len(q)), n, v)
           /\ ~ Has(SubSeq(q, k + 1, Len(q)), n) =>
                 LastTells(SubSeq(q, 1, k), n, v) /\ (Has(q, n) => Has(SubSeq(q, 1, k), n))
<1>. DEFINE N == Len(q)
            p == SubSeq(q, 1, k)
            r == SubSeq(q, k + 1, Len(q))
<1>1. /\ N \in Nat /\ k \in Nat /\ k <= N /\ DOMAIN q = 1..N /\ DOMAIN p = 1..k /\ DOMAIN r = 1..(N - k)
      /\ (\A i \in 1..k : p[i] = q[i]) /\ (\A i \in 1..(N - k) : r[i] = q[k + i])
  OBVIOUS
<1>. HIDE DEF N, p, r
<1>2. /\ \A i \in 1..k : i \in 1..N
      /\ \A i \in 1..(N - k) : k + i \in 1..N
      /\ \A i \in 1..N : i \in 1..k \/ (i - k \in 1..(N - k) /\ k + (i - k) = i)
  BY <1>1
<1>3. ASSUME NEW i \in 1..(N - k), r[i].node = n, \A j \in 1..(N - k) : j > i => r[j].node # n
      PROVE  r[i].val = v
  <2>1. ASSUME NEW j \in 1..N, j > k + i
        PROVE  q[j].node # n
    <3>1. j - k \in 1..(N - k) /\ k + (j - k) = j /\ j - k > i
      BY <1>1, <2>1
    <3>2. r[j - k].node # n /\ r[j - k] = q[k + (j - k)]
      BY <1>1, <1>3, <3>1, Zenon
    <3>. QED
      BY <3>1, <3>2, Zenon
  <2>2. k + i \in 1..N /\ r[i] = q[k + i]
    BY <1>1, <1>2, Zenon
  <2>3. q[k + i].node = n
    BY <1>3, <2>2, Zenon
  <2>4. q[k + i].val = v
    BY <1>1, <2>1, <2>2, <2>3, Zenon DEF LastTells
  <2>. QED
    BY <2>2, <2>4, Zenon
<1>4. LastTells(r, n, v)
  BY <1>1, <1>3, Zenon DEF LastTells
<1>5. ASSUME ~ Has(r, n), NEW j \in 1..N, q[j].node = n
      PROVE  j \in 1..k
  <2>1. CASE j - k \in 1..(N - k) /\ k + (j - k) = j
    <3>1. r[j - k] = q[k + (j - k)]
      BY <1>1, <2>1, Zenon
    <3>2. r[j - k].node = n
      BY <1>5, <2>1, <3>1, Zenon
    <3>. QED
      BY <1>1, <1>5, <2>1, <3>2, Zenon DEF Has
  <2>. QED
    BY <1>2, <2>1, Zenon
<1>6. ASSUME ~ Has(r, n), NEW i \in 1..k, p[i].node = n, \A j \in 1..k : j > i => p[j].node # n
      PROVE  p[i].val = v
  <2>1. ASSUME NEW j \in 1..N, j > i
        PROVE  q[j].node # n
    BY <1>1, <1>5, <1>6, <2>1, Zenon
  <2>2. i \in 1..N /\ p[i] = q[i]
    BY <1>1, <1>2, Zenon
  <2>3. q[i].node = n
    BY <1>6, <2>2, Zenon
  <2>4. q[i].val = v
    BY <1>1, <2>1, <2>2, <2>3, Zenon DEF LastTells
  <2>. QED
    BY <2>2, <2>4, Zenon
<1>7. ASSUME ~ Has(r, n), Has(q, n)
      PROVE  Has(p, n)
  <2>1. PICK j \in 1..N : q[j].node = n
    BY <1>1, <1>7, Zenon DEF Has
  <2>2. j \in 1..k
    BY <1>5, <1>7, <2>1, Zenon
  <2>3. p[j] = q[j]
    BY <1>1, <2>2, Zenon
  <2>4. p[j].node = n
    BY <2>1, <2>3, Zenon
  <2>. QED
    BY <1>1, <2>2, <2>4, Zenon DEF Has
<1>8. ASSUME ~ Has(r, n)
      PROVE  LastTells(p, n, v)
  BY <1>1, <1>6, <1>8, Zenon DEF LastTells
<1>. QED
  BY <1>4, <1>7, <1>8, Zenon DEF p, r

\* HealInv for a fetch that is one step; before the watch begins nothing counts as fetched,
\* and a channel that is not open is empty.
EtcdHealInv ==
    /\ SourcesOK /\ members \in [KvNodes -> Configs] /\ HealInv
    /\ ~ Fetching
    /\ configCh.state # "open" => configCh.queue = <<>>
    /\ kvPc \in {"subscribe", "alives", "watch"} => ~ synced

\* What a step keeps that neither fetches members nor handles their events.
LEMMA EtcdHealSame ==
    ASSUME EtcdHealInv, [Etcd!Next]_(Etcd!kvVars), UNCHANGED <<config, members, todo, got, synced>>,
           configCh' = configCh \/ configCh' = Closed, ~ Fetching',
           kvPc' \in {"subscribe", "alives", "watch"} => kvPc \in {"subscribe", "alives", "watch"}
    PROVE  EtcdHealInv'
<1>1. SourcesOK' /\ members' \in [KvNodes -> Configs]
  BY EtcdSources, Zenon DEF EtcdHealInv
<1>2. HealInv'
  BY HealSame, Zenon DEF EtcdHealInv
<1>3. configCh'.state # "open" => configCh'.queue = <<>>
  BY DEF EtcdHealInv, Closed
<1>. QED
  BY <1>1, <1>2, <1>3, Zenon DEF EtcdHealInv

LEMMA EtcdWriteHeals ==
    ASSUME EtcdHealInv, Etcd!StoreStep, [Etcd!Next]_(Etcd!kvVars)
    PROVE  EtcdHealInv'
<1>1. ASSUME NEW n \in KvNodes, NEW v \in Values, WriteConfig(n, v)
      PROVE  EtcdHealInv'
  <2>1. configCh' = Emit(configCh, n, v) /\ UNCHANGED <<members, synced, kvPc>>
    BY <1>1, Zenon DEF WriteConfig, tableVars, kvWatchVars
  <2>2. SourcesOK' /\ members' \in [KvNodes -> Configs] /\ HealInv'
    BY <1>1, <2>1, EtcdSources, WriteHeals, Zenon DEF EtcdHealInv
  <2>3. configCh'.state # "open" => configCh'.queue = <<>>
    BY <2>1 DEF EtcdHealInv, SourcesOK, Emit
  <2>. QED
    BY <2>1, <2>2, <2>3, Zenon DEF EtcdHealInv, Fetching
<1>2. ASSUME NEW n, NEW up, NEW told, WriteBeat(n, up, told)
      PROVE  EtcdHealInv'
  <2>1. UNCHANGED <<config, configCh, members, todo, got, synced, kvPc>>
    BY <1>2, Zenon DEF WriteBeat, tableVars, kvWatchVars
  <2>. QED
    BY <2>1, EtcdHealSame, Zenon DEF EtcdHealInv, Fetching
<1>3. "none" \in Values
  BY Zenon DEF Values
<1>4. ASSUME NEW n \in KvNodes, NEW v \in Etcd!Values, Etcd!UpdateMember(n, v)
      PROVE  EtcdHealInv'
  <2>1. v \in Values /\ WriteConfig(n, v)
    BY <1>4, EtcdWrites, Zenon DEF Etcd!UpdateMember, Etcd!Values, Values
  <2>. QED
    BY <1>1, <2>1, Zenon
<1>5. ASSUME NEW n \in KvNodes, Etcd!RemoveMember(n)
      PROVE  EtcdHealInv'
  <2>1. WriteConfig(n, "none")
    BY <1>5, EtcdWrites, Zenon DEF Etcd!RemoveMember
  <2>. QED
    BY <1>1, <1>3, <2>1, Zenon
<1>6. ASSUME NEW n \in KvNodes, Etcd!KeepAlive(n) \/ Etcd!LeaseExpires(n)
      PROVE  EtcdHealInv'
  <2>1. WriteBeat(n, TRUE, TRUE) \/ WriteBeat(n, FALSE, TRUE)
    BY <1>6, EtcdWrites, Zenon DEF Etcd!KeepAlive, Etcd!LeaseExpires
  <2>. QED
    BY <1>2, <2>1, Zenon
<1>. QED
  BY <1>4, <1>5, <1>6, Zenon DEF Etcd!StoreStep

\* A fetch that succeeds replaces the table by what the store holds.
LEMMA EtcdFetchHeals ==
    ASSUME EtcdHealInv, Etcd!getMembers, [Etcd!Next]_(Etcd!kvVars), UNCHANGED <<config, configCh>>,
           kvPc' \in {"alives", "tick"}, kvPc' = "alives" => ~ synced'
    PROVE  EtcdHealInv'
<1>1. members' = EtcdFetched /\ EtcdFetched \in [KvNodes -> Configs]
  BY EtcdFetch, Zenon DEF EtcdHealInv, DiffMembers
<1>2. SourcesOK'
  BY EtcdSources, Zenon DEF EtcdHealInv
<1>3. ~ Fetching' /\ (kvPc' \in {"subscribe", "alives", "watch"} => ~ synced')
  BY Zenon DEF Fetching
<1>4. ASSUME NEW n \in KvNodes, config[n] # "bad"
      PROVE  members'[n] = config[n]
  BY <1>1, <1>4, Zenon DEF EtcdFetched, KvReadable
<1>5. HealInv'
  BY <1>3, <1>4, Zenon DEF EtcdHealInv, HealInv
<1>. QED
  BY <1>1, <1>2, <1>3, <1>5, Zenon DEF EtcdHealInv

\* A response: of a node that has no event after it, the last one in it is applied last.
LEMMA EtcdResponseHeals ==
    ASSUME EtcdHealInv, NEW k, Etcd!OnConfig(k), [Etcd!Next]_(Etcd!kvVars)
    PROVE  EtcdHealInv'
<1>. DEFINE q == configCh.queue
            p == SubSeq(q, 1, k)
            r == SubSeq(q, k + 1, Len(q))
<1>1. /\ kvPc = "loop" /\ k \in 1..Len(q) /\ members' = Etcd!ConfigLoop(p)[Len(p)].members
      /\ configCh' = [configCh EXCEPT !.queue = r] /\ UNCHANGED <<config, kvPc, synced>>
  BY Zenon DEF Etcd!OnConfig, Etcd!handleConfigEvents, Etcd!kvStoreVars, Etcd!kvWatchVars
<1>2. q \in Seq(ConfigEvents) /\ configCh'.state = configCh.state /\ configCh'.queue = r
  BY <1>1 DEF EtcdHealInv, SourcesOK
<1>3. p \in Seq(ConfigEvents)
  BY <1>1, <1>2, PartsOfQueue, Zenon
<1>4. members' \in [KvNodes -> Configs]
  <2>1. Len(p) \in 0..Len(p)
    BY <1>3
  <2>2. Etcd!ConfigLoop(p)[Len(p)] \in Tables
    BY <1>3, <2>1, ConfigLoopIs, Zenon DEF EtcdHealInv
  <2>. QED
    BY <1>1, <2>2 DEF Tables
<1>5. SourcesOK'
  BY EtcdSources, Zenon DEF EtcdHealInv
<1>6. configCh.state = "open"
  <2>1. SUFFICES ASSUME q = <<>>
                 PROVE  FALSE
    BY Zenon DEF EtcdHealInv
  <2>. QED
    BY <1>1, <2>1
<1>7. ASSUME NEW n \in KvNodes
      PROVE  /\ LastTells(r, n, config[n])
             /\ synced /\ ~ Has(r, n) /\ config[n] # "bad" => members'[n] = config[n]
  <2>1. LastTells(q, n, config[n])
    BY <1>6, Zenon DEF EtcdHealInv, HealInv
  <2>2. /\ LastTells(r, n, config[n])
        /\ ~ Has(r, n) => LastTells(p, n, config[n]) /\ (Has(q, n) => Has(p, n))
    BY <1>1, <1>2, <2>1, PrefixTells, Zenon
  <2>3. ASSUME synced, ~ Has(r, n), config[n] # "bad"
        PROVE  members'[n] = config[n]
    <3>1. Has(q, n) \/ members[n] = config[n]
      BY <1>6, <2>3, Zenon DEF EtcdHealInv, HealInv
    <3>2. LastTells(p, n, config[n]) /\ (Has(p, n) \/ members[n] = config[n])
      BY <2>2, <2>3, <3>1, Zenon
    <3>3. Etcd!ConfigLoop(p)[Len(p)].members[n] = config[n]
      BY <1>3, <2>3, <3>2, LoopTells, Zenon DEF EtcdHealInv
    <3>. QED
      BY <1>1, <3>3, Zenon
  <2>. QED
    BY <2>2, <2>3, Zenon
<1>8. ~ Fetching'
  BY <1>1, Zenon DEF Fetching
<1>9. HealInv'
  BY <1>1, <1>2, <1>7, <1>8, Zenon DEF HealInv
<1>10. configCh'.state = "open" /\ kvPc' \notin {"subscribe", "alives", "watch"}
  BY <1>1, <1>2, <1>6
<1>. QED
  BY <1>4, <1>5, <1>8, <1>9, <1>10, Zenon DEF EtcdHealInv

LEMMA EtcdHealStep ==
    ASSUME EtcdHealInv, [Etcd!Next]_(Etcd!kvVars)
    PROVE  EtcdHealInv'
<1>1. CASE Etcd!Subscribe
  <2>1. /\ Etcd!getMembers /\ kvPc = "subscribe" /\ kvPc' = "alives" /\ UNCHANGED <<config, configCh, synced>>
    BY <1>1, Zenon DEF Etcd!Subscribe, Etcd!KvGoto, Etcd!kvStoreVars, Etcd!chanVars
  <2>. QED
    BY <2>1, EtcdFetchHeals DEF EtcdHealInv
<1>2. CASE Etcd!TickMembers
  <2>1. /\ kvPc = "loop" /\ kvPc' = "tick" /\ UNCHANGED <<config, configCh, todo, got>>
        /\ Etcd!getMembers \/ UNCHANGED <<members, synced>>
    BY <1>2, Zenon DEF Etcd!TickMembers, Etcd!KvGoto, Etcd!kvStoreVars, Etcd!chanVars, Etcd!tableVars
  <2>2. ~ Fetching' /\ kvPc' \in {"alives", "tick"} /\ kvPc' # "alives"
        /\ kvPc' \notin {"subscribe", "alives", "watch"}
    BY <2>1, Zenon DEF Fetching
  <2>. QED
    BY <2>1, <2>2, EtcdFetchHeals, EtcdHealSame, Zenon
<1>3. CASE Etcd!WatchConfig
  <2>1. /\ kvPc = "watch" /\ kvPc' = "watchAlive" /\ configCh' = [configCh EXCEPT !.state = "open"]
        /\ UNCHANGED <<config, members, synced>>
    BY <1>3, Zenon DEF Etcd!WatchConfig, Etcd!KvGoto, Etcd!Open, Etcd!kvStoreVars, Etcd!tableVars
  <2>2. configCh'.state = "open" /\ configCh'.queue = configCh.queue
    BY <2>1 DEF EtcdHealInv, SourcesOK
  <2>3. ASSUME NEW n \in KvNodes
        PROVE  LastTells(configCh.queue, n, config[n])
    <3>1. CASE configCh.state = "open"
      BY <3>1, Zenon DEF EtcdHealInv, HealInv
    <3>2. CASE configCh.queue = <<>>
      BY <3>2 DEF LastTells
    <3>. QED
      BY <3>1, <3>2, Zenon DEF EtcdHealInv
  <2>4. ~ synced'
    BY <2>1, Zenon DEF EtcdHealInv
  <2>5. HealInv'
    BY <2>1, <2>2, <2>3, <2>4, Zenon DEF HealInv
  <2>6. ~ Fetching'
    BY <2>1, Zenon DEF Fetching
  <2>7. SourcesOK' /\ members' \in [KvNodes -> Configs]
    BY <2>1, EtcdSources, Zenon DEF EtcdHealInv
  <2>. QED
    BY <2>2, <2>4, <2>5, <2>6, <2>7, Zenon DEF EtcdHealInv
<1>4. ASSUME NEW k, Etcd!OnAlive(k)
      PROVE  EtcdHealInv'
  <2>1. UNCHANGED <<config, members, todo, got, synced, kvPc, configCh>>
    BY <1>4, Zenon DEF Etcd!OnAlive, Etcd!handleAliveEvents, Etcd!kvStoreVars, Etcd!kvWatchVars
  <2>. QED
    BY <2>1, EtcdHealSame, Zenon DEF EtcdHealInv, Fetching
<1>5. CASE Etcd!SubscribeAlives \/ Etcd!TickAlives
  <2>1. /\ UNCHANGED <<config, members, todo, got, synced, configCh>>
        /\ (kvPc = "alives" /\ kvPc' = "watch") \/ kvPc' = "loop"
    BY <1>5, Zenon DEF Etcd!SubscribeAlives, Etcd!TickAlives, Etcd!getAlives, Etcd!DiffAlives, Etcd!KvGoto,
       Etcd!kvStoreVars, Etcd!chanVars, Etcd!tableVars
  <2>2. ~ Fetching' /\ (kvPc' \in {"subscribe", "alives", "watch"} => kvPc \in {"subscribe", "alives", "watch"})
    BY <2>1, Zenon DEF Fetching
  <2>. QED
    BY <2>1, <2>2, EtcdHealSame, Zenon
<1>6. CASE Etcd!WatchError
  <2>1. /\ UNCHANGED <<config, members, todo, got, synced, kvPc>>
        /\ configCh' = configCh \/ configCh' = Closed
    BY <1>6, Zenon DEF Etcd!WatchError, Etcd!kvStoreVars, Etcd!tableVars, Etcd!Closed, Closed
  <2>. QED
    BY <2>1, EtcdHealSame, Zenon DEF EtcdHealInv, Fetching
<1>7. CASE Etcd!WatchAlive \/ Etcd!SubscribeFail \/ Etcd!Return \/ Etcd!Close \/ UNCHANGED Etcd!kvVars
  <2>1. /\ UNCHANGED <<config, members, todo, got, synced, configCh>>
        /\ kvPc' = kvPc \/ kvPc' = "loop" \/ kvPc' = "returned"
    BY <1>7, Zenon DEF Etcd!WatchAlive, Etcd!SubscribeFail, Etcd!Return, Etcd!Close, Etcd!kvVars, Etcd!KvGoto,
       Etcd!kvStoreVars, Etcd!chanVars, Etcd!tableVars, Etcd!kvWatchVars
  <2>2. ~ Fetching' /\ (kvPc' \in {"subscribe", "alives", "watch"} => kvPc \in {"subscribe", "alives", "watch"})
    BY <2>1, Zenon DEF EtcdHealInv, Fetching
  <2>. QED
    BY <2>1, <2>2, EtcdHealSame, Zenon
<1>. QED
  BY <1>1, <1>2, <1>3, <1>4, <1>5, <1>6, <1>7, EtcdWriteHeals, EtcdResponseHeals, Zenon
  DEF Etcd!Next, Etcd!WatchStep

\* However many events a response of etcd holds, and though a full fetch runs ahead of
\* events that wait in the channel: once the members were fetched since the watch began,
\* a node of which no event waits is in the table as the store has it.
THEOREM EtcdHeals == Etcd!Spec => []KvStaleEventsHeal
<1>1. Etcd!KvInit => EtcdHealInv
  <2>. SUFFICES ASSUME Etcd!KvInit
                PROVE  EtcdHealInv
    BY Zenon
  <2>1. KvInit /\ SourcesOK /\ members \in [KvNodes -> Configs]
    BY EtcdInit, InitInv, Zenon DEF Inv, TablesOK
  <2>. QED
    BY <2>1, Zenon DEF KvInit, Unopened, EtcdHealInv, HealInv, Fetching
<1>2. EtcdHealInv /\ [Etcd!Next]_(Etcd!kvVars) => EtcdHealInv'
  BY EtcdHealStep, Zenon
<1>3. EtcdHealInv => KvStaleEventsHeal
  BY Zenon DEF EtcdHealInv, HealInv, KvStaleEventsHeal, Waiting, Has
<1>. QED
  BY <1>1, <1>2, <1>3, PTL DEF Etcd!Spec
=============================================================================
