-------------------------- MODULE MCAlertLifecycle --------------------------
(* Small instances of AlertLifecycle.                                      *)
EXTENDS AlertLifecycle

CONSTANTS a1, a2, s1, s2, t1, t2, p1, p2

OneAlert == {a1}
TwoAlerts == {a1, a2}
SameSymbol == [a \in Alerts |-> s1]

(* One thread that serves everything.                                      *)
Serial == {t1}
AllRoles == [t \in Threads |-> RoleNames]

(* Two threads, in one process each.                                       *)
Pair == {t1, t2}
OwnProcess == [t \in Threads |-> IF t = t1 THEN p1 ELSE p2]

(* A scheduler beside a worker that serves every request.                  *)
SchedulerAndWorker ==
    [t \in Threads |-> IF t = t1 THEN {"schedule"} ELSE RoleNames \ {"schedule"}]
=============================================================================
