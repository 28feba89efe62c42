----------------------------- MODULE MemberFeed -----------------------------
(***************************************************************************)
(* What a membership promises to whom it calls back, and what              *)
(* nodeCache.onNodeInfoUpdate takes for granted: a MemberInfo, applied in  *)
(* the order Add, Remove, Update, adds only nodes that are not known and   *)
(* removes or updates only nodes that are, since the cache replaces a      *)
(* record that is added again and uses a removed or updated one without a  *)
(* test for nil.                                                           *)
(***************************************************************************)
CONSTANTS Nodes

VARIABLES
    view,       \* what the callbacks have told: "none", "up" or "down"
    cb          \* the last MemberInfo, as three sets of nodes

Nobody == [add |-> {}, remove |-> {}, update |-> {}]

Init ==
    /\ view = [n \in Nodes |-> "none"]
    /\ cb = Nobody

Known == {n \in Nodes : view[n] # "none"}

\* One MemberInfo, and the view after it.
Next ==
    LET now == (Known \union cb'.add) \ cb'.remove
    IN /\ cb' \in [add : SUBSET Nodes, remove : SUBSET Nodes, update : SUBSET Nodes]
       /\ cb'.add \intersect Known = {}
       /\ cb'.remove \subseteq Known \union cb'.add
       /\ cb'.update \subseteq now
       /\ view' \in [Nodes -> {"none", "up", "down"}]
       /\ \A n \in Nodes :
            /\ view'[n] # "none" <=> n \in now
            /\ n \notin cb'.add \union cb'.update \union cb'.remove => view'[n] = view[n]

Spec == Init /\ [][Next]_<<view, cb>>
=============================================================================
