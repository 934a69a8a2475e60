----------------------------- MODULE PushDelivery -----------------------------
(* What the notification outbox promises of each push, whatever its workers    *)
(* do: it ends once, as delivered only after the provider took it, and the     *)
(* provider takes it once per attempt at most.  It is forgotten only when it   *)
(* has ended, and with all that is known of it; only the deletion of its       *)
(* account removes it earlier.  NotificationOutbox implements this.            *)
CONSTANTS Pushes, Attempts

VARIABLES
    known,     \* pushes whose recipient has an account
    status,    \* what became of each push
    taken      \* the attempts in which the provider took it

vars == <<known, status, taken>>

Ends == {"delivered", "dropped"}

Init ==
    /\ known = Pushes
    /\ status = [p \in Pushes |-> "none"]
    /\ taken = [p \in Pushes |-> {}]

Becomes(p, end) == status[p] = "waiting" /\ status'[p] = end /\ taken'[p] = taken[p]

Keep(p) == status'[p] = status[p] /\ taken'[p] = taken[p]

Submit(p) ==
    /\ p \in known /\ status[p] = "none" /\ taken[p] = {}
    /\ status'[p] = "waiting" /\ taken'[p] = {}

\* Also late, when the push has ended already or its account is gone.
Take(p) ==
    /\ \E n \in Attempts \ taken[p] : taken'[p] = taken[p] \cup {n}
    /\ status'[p] = status[p]

Deliver(p) == taken[p] # {} /\ Becomes(p, "delivered")

Drop(p) == Becomes(p, "dropped")

Forget(p) == status[p] \in Ends /\ status'[p] = "none" /\ taken'[p] = {}

Remove(p) ==
    /\ p \notin known' /\ status[p] # "none"
    /\ status'[p] = "none" /\ taken'[p] \subseteq taken[p]

\* One statement changes many pushes, each on its own.
Next ==
    /\ known' \subseteq known
    /\ status' \in [Pushes -> Ends \cup {"none", "waiting"}]
    /\ taken' \in [Pushes -> SUBSET Attempts]
    /\ \A p \in Pushes :
          Keep(p) \/ Submit(p) \/ Take(p) \/ Deliver(p) \/ Drop(p) \/ Forget(p) \/ Remove(p)

Spec == Init /\ [][Next]_vars
==============================================================================
