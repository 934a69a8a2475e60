----------------------------- MODULE MCSplitSync -----------------------------
(* Small instances of SplitSync for TLC. *)
EXTENDS SplitSync, TLC

CONSTANTS own, shared, o1, o2, o3

\* The device creates `own' and adds a row to it; it may join `shared'.
Friend ==
    (o1 :> [kind |-> "create", context |-> own, item |-> 1, needs |-> {}])
    @@ (o2 :> [kind |-> "write", context |-> own, item |-> 1, needs |-> {o1}])
    @@ (o3 :> [kind |-> "respond", context |-> shared, item |-> 1, needs |-> {}])

\* At most one request whose answer nobody awaits, or one context that is
\* hidden, at a time (a hidden context stays counted), and five entries in
\* the two logs together.
Bound ==
    /\ Cardinality(late) + Cardinality(refused \cup denied) <= 1
    /\ Latest(own) + Latest(shared) <= 5

==============================================================================
