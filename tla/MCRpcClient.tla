---------------------------- MODULE MCRpcClient ----------------------------
(* Instances of the RPC client for model checking. *)
EXTENDS RpcClient

CONSTANTS a1, a2, s1, s2, x1, x2, y1, y2

Failed(a) == pc[a] \in {"failed", "deleted", "stopped", "lost", "error"}

\* Two asynchronous calls that do not fail; two synchronous ones and an
\* asynchronous one, none of which fails, within a second; or one of each kind or
\* two synchronous ones, which may fail, while the clock ticks.
Calling ==
    \/ pc[s1] = "idle" /\ pc[s2] = "idle" /\ ~Failed(a1)
    \/ pc[a2] = "idle" /\ ~Failed(a1) /\ ~Failed(s1) /\ clock = 1
    \/ pc[a2] = "idle" /\ pc[s2] = "idle"
    \/ pc[a1] = "idle" /\ pc[a2] = "idle"

\* New contexts are taken in order.
Fresh == (owner[x2] # Null => owner[x1] # Null) /\ (owner[y2] # Null => owner[y1] # Null)

Scenario == Calling /\ Fresh

ScenarioSpec == Init /\ [][Next /\ Scenario']_vars /\ Fairness
=============================================================================
