----------------------------- MODULE AlertBook -----------------------------
(***************************************************************************)
(* What the alert lifecycle promises its users, without the store calls it *)
(* is made of: every alert walks the status graph of                       *)
(* trade_planner/alerts/lifecycle_service.py one edge at a time, a closed  *)
(* alert is never touched again, and a symbol has at most one alert that   *)
(* is still active.  AlertLifecycle implements this book as long as one    *)
(* thread at a time works on the alerts.                                   *)
(***************************************************************************)
CONSTANTS
    Alerts,     \* alert ids
    SymbolOf    \* the (user, symbol, setup) key an alert is about

VARIABLE status \* alert -> its status, "NONE" before it is created

Active == {"PENDING_ENTRY", "ENTRY_TRIGGERED", "OPEN"}
Terminal == {"TARGET_HIT", "STOP_HIT", "EXPIRED", "CANCELLED"}

(* The edges of the lifecycle.                                             *)
Edge(from, to) ==
    \/ from = "PENDING_ENTRY" /\ to \in {"ENTRY_TRIGGERED", "EXPIRED"}
    \/ from = "ENTRY_TRIGGERED" /\ to = "OPEN"
    \/ from = "OPEN" /\ to \in {"TARGET_HIT", "STOP_HIT"}
    \/ from \in Active /\ to = "CANCELLED"

Init == status = [a \in Alerts |-> "NONE"]

Create(a) ==
    /\ status[a] = "NONE"
    /\ \A b \in Alerts : SymbolOf[b] = SymbolOf[a] => status[b] \notin Active
    /\ status' = [status EXCEPT ![a] = "PENDING_ENTRY"]

Advance(a) ==
    \E to \in Active \cup Terminal :
        /\ Edge(status[a], to)
        /\ status' = [status EXCEPT ![a] = to]

Next == \E a \in Alerts : Create(a) \/ Advance(a)

Spec == Init /\ [][Next]_status
=============================================================================
