--------------------------- MODULE MCMembership ---------------------------
(***************************************************************************)
(* The three memberships for model checking: one of them is chosen at the  *)
(* start.                                                                  *)
(***************************************************************************)
EXTENDS RedisMembership, KvStore

CONSTANTS
    n2,             \* the second node, of redis only
    MaxBatch, NatsChanges

VARIABLE backend

Etcd == INSTANCE EtcdMembership

Nats == INSTANCE NatsMembership WITH MaxChanges <- NatsChanges

allVars == <<backend, vars, kvVars>>

\* Redis: one node with more versions and an error, or with fewer and two errors, or
\* two nodes and no error.
Scenario ==
    \/ /\ member[n2].ver = 0 /\ alive[n2].ver = 0
       /\ (faults <= 1 /\ memberVer <= 2) \/ memberVer + aliveVer <= 3
    \/ faults = 0 /\ memberVer + aliveVer <= 3

MCInit ==
    /\ backend \in {"redis", "etcd", "nats"}
    /\ Init /\ KvInit
    /\ backend = "redis" => config = [n \in KvNodes |-> "none"]

InRedis(A) == backend = "redis" /\ A /\ UNCHANGED <<backend, kvVars>>

InEtcd(A) == backend = "etcd" /\ A /\ UNCHANGED <<backend, vars>>

InNats(A) == backend = "nats" /\ A /\ UNCHANGED <<backend, vars>>

MCNext ==
    \/ InRedis(Next) /\ Scenario'
    \/ InEtcd(Etcd!Next)
    \/ InNats(Nats!Next)

\* The fairness of the three specifications.
MCSpec ==
    /\ MCInit /\ [][MCNext]_allVars
    /\ WF_allVars(InRedis(WatchStep) \/ InEtcd(Etcd!WatchStep) \/ InNats(Nats!WatchStep))
    /\ SF_allVars(InEtcd(Etcd!Return) \/ InNats(Nats!Return))
=============================================================================
