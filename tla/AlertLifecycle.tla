--------------------------- MODULE AlertLifecycle ---------------------------
(***************************************************************************)
(* The lifecycle of Momentum Breakout alerts as the application runs it:   *)
(* AlertLifecycleService with its notifying and paper-trade recording      *)
(* layers, on the alert store, the event log, the paper-trade store and    *)
(* the in-app notification store.                                          *)
(*                                                                         *)
(* Every store call is a transaction of its own and every request runs on  *)
(* a thread of one of several server processes, so one store call is one   *)
(* step and what a thread keeps in its locals between two calls is in      *)
(* frame[t].  The model is one user's alerts.  Prices are the four classes *)
(* the code compares: at or below the stop, between stop and entry,        *)
(* between entry and target, at or above the target.  Timestamps are       *)
(* reduced to "set or not".                                                *)
(***************************************************************************)
EXTENDS Naturals, Sequences

CONSTANTS
    Alerts,         \* alert ids, each minted for one symbol
    Symbols,        \* (user, symbol, setup) keys
    SymbolOf,       \* the key an alert is minted for
    Threads,        \* worker threads of all server processes
    Processes,      \* server processes, each with its own notification store
    ProcessOf,      \* the process a thread belongs to
    Roles,          \* what a thread is asked to do
    NoAlert,        \* "no alert in hand"
    MaxRequests,    \* bound: user and operator requests
    MaxFaults,      \* bound: store calls that raise
    MaxRestarts     \* bound: process crashes and recycles

RoleNames == {"schedule", "create", "refresh", "push", "cancel", "backfill"}

ASSUME AlertAssumption == SymbolOf \in [Alerts -> Symbols] /\ NoAlert \notin Alerts
ASSUME ThreadAssumption ==
    /\ ProcessOf \in [Threads -> Processes]
    /\ Roles \in [Threads -> SUBSET RoleNames]
ASSUME BoundAssumption == MaxRequests \in Nat /\ MaxFaults \in Nat /\ MaxRestarts \in Nat

VARIABLES
    alerts,     \* alert store: alert -> row, NoRow when there is none
    trail,      \* event log: alert -> sequence of status events
    paper,      \* paper-trade store: alert -> row, NoRow when there is none
    inbox,      \* in-app notifications: process -> alert -> kind -> how many
    lapsed,     \* alert -> the clock has passed its expires_at
    pc,         \* thread -> the next store call it makes
    frame,      \* thread -> its locals
    requests,   \* user and operator requests so far
    faults,     \* store calls that have raised so far
    restarts    \* processes that have been restarted so far

vars == <<alerts, trail, paper, inbox, lapsed, pc, frame, requests, faults, restarts>>

-----------------------------------------------------------------------------
(* Statuses and rows.                                                      *)

Active == {"PENDING_ENTRY", "ENTRY_TRIGGERED", "OPEN"}
Terminal == {"TARGET_HIT", "STOP_HIT", "EXPIRED", "CANCELLED"}
Statuses == Active \cup Terminal
Kinds == {"ALERT_CREATED", "ENTRY_TRIGGERED", "TARGET_HIT", "STOP_HIT", "EXPIRED"}
Prices == {"stop", "below", "entry", "target"}

(* A row: its status, whether triggered_at and exit_at are set, and the    *)
(* side of the exit price.                                                 *)
Row == [status : Statuses \cup {"NONE"}, triggered : BOOLEAN,
        exited : BOOLEAN, exit : {"none", "stop", "target"}]
NoRow == [status |-> "NONE", triggered |-> FALSE, exited |-> FALSE, exit |-> "none"]
FreshRow == [NoRow EXCEPT !.status = "PENDING_ENTRY"]
Event == [from : Statuses \cup {"NONE"}, to : Statuses]

Exists(a) == alerts[a].status # "NONE"
HasActive(s) == \E a \in Alerts : SymbolOf[a] = s /\ alerts[a].status \in Active

(* Mutant of WithStatus: opening or triggering does not stamp triggered_at. *)
WithStatus_NoStamp(r, s) ==
    [status    |-> s,
     triggered |-> r.triggered,
     exited    |-> r.exited \/ s \in Terminal,
     exit      |-> CASE s = "TARGET_HIT" -> "target"
                     [] s = "STOP_HIT"   -> "stop"
                     [] OTHER            -> r.exit]

(* The row a transition to status s writes over row r.                     *)
WithStatus(r, s) ==
    [status    |-> s,
     triggered |-> r.triggered \/ s \in {"ENTRY_TRIGGERED", "OPEN"},
     exited    |-> r.exited \/ s \in Terminal,
     exit      |-> CASE s = "TARGET_HIT" -> "target"
                     [] s = "STOP_HIT"   -> "stop"
                     [] OTHER            -> r.exit]

(* The paper-trade row written for alert row r.                            *)
NeverFilled(r) == r.status = "EXPIRED" /\ ~r.triggered
PaperRow(r) ==
    IF r.status = "PENDING_ENTRY" THEN FreshRow
    ELSE [r EXCEPT !.exited = @ \/ NeverFilled(r),
                   !.exit = IF r.status = "CANCELLED" \/ NeverFilled(r)
                            THEN "none" ELSE @]

(* Mutant of Decide: the expiry of a waiting alert is not looked at.       *)
Decide_NeverExpires(status, late, px) ==
    CASE status = "PENDING_ENTRY" /\ px \in {"entry", "target"} -> "ENTRY_TRIGGERED"
      [] status = "ENTRY_TRIGGERED"                             -> "OPEN"
      [] status = "OPEN" /\ px = "stop"                         -> "STOP_HIT"
      [] status = "OPEN" /\ px = "target"                       -> "TARGET_HIT"
      [] OTHER                                                  -> "NONE"

(* Mutant of Decide: an alert found in ENTRY_TRIGGERED is left alone.      *)
Decide_StaysTriggered(status, late, px) ==
    CASE status = "PENDING_ENTRY" /\ late                         -> "EXPIRED"
      [] status = "PENDING_ENTRY" /\ ~late /\ px \in {"entry", "target"}
                                                                  -> "ENTRY_TRIGGERED"
      [] status = "OPEN" /\ px = "stop"                           -> "STOP_HIT"
      [] status = "OPEN" /\ px = "target"                         -> "TARGET_HIT"
      [] OTHER                                                    -> "NONE"

(* The transition a price update decides on, "NONE" when there is none.    *)
Decide(status, late, px) ==
    CASE status = "PENDING_ENTRY" /\ late                         -> "EXPIRED"
      [] status = "PENDING_ENTRY" /\ ~late /\ px \in {"entry", "target"}
                                                                  -> "ENTRY_TRIGGERED"
      [] status = "ENTRY_TRIGGERED"                               -> "OPEN"
      [] status = "OPEN" /\ px = "stop"                           -> "STOP_HIT"
      [] status = "OPEN" /\ px = "target"                         -> "TARGET_HIT"
      [] OTHER                                                    -> "NONE"

(* Mutant of Notices: the entry is announced at every update of an open    *)
(* alert, not only when it was seen to open.                               *)
Notices_EveryTime(before, after) ==
    IF before = after /\ after # "OPEN" THEN {}
    ELSE CASE after = "OPEN" -> {"ENTRY_TRIGGERED"}
           [] after \in {"TARGET_HIT", "STOP_HIT", "EXPIRED"} -> {after}
           [] OTHER -> {}

(* Mutant of Notices: the entry is announced only from ENTRY_TRIGGERED.    *)
Notices_MissEntry(before, after) ==
    IF before = after THEN {}
    ELSE CASE after = "OPEN" /\ before = "ENTRY_TRIGGERED" -> {"ENTRY_TRIGGERED"}
           [] after \in {"TARGET_HIT", "STOP_HIT", "EXPIRED"} -> {after}
           [] OTHER -> {}

(* What a user is told when an alert that was seen as before is now after. *)
Notices(before, after) ==
    IF before = after THEN {}
    ELSE CASE after = "OPEN" /\ before \in {"PENDING_ENTRY", "ENTRY_TRIGGERED"}
                        -> {"ENTRY_TRIGGERED"}
           [] after \in {"TARGET_HIT", "STOP_HIT", "EXPIRED"} -> {after}
           [] OTHER     -> {}

-----------------------------------------------------------------------------
(* Threads.                                                                *)

Locations ==
    {"idle", "insert", "create_log", "create_note", "batch", "prior", "load",
     "price_log", "mark_load", "mark_save", "mark_log", "mark_sync", "open_save",
     "open_log", "reread", "emit", "sync", "backfill_check", "backfill_save"}

(* Where a thread waits for a store.                                       *)
AtStore == Locations \ {"idle", "batch", "create_note", "emit"}

Frame == [alert : Alerts \cup {NoAlert},
          seen  : Statuses \cup {"NONE"},   \* status the notifying layer read first
          rec   : Row,                      \* the record in hand
          goal  : Statuses \cup {"NONE"},   \* the transition under way
          prev  : Statuses \cup {"NONE"},   \* from_status of the event to append
          todo  : SUBSET Alerts,            \* listed, not yet updated
          late  : SUBSET Alerts]            \* expired at the update's timestamp
IdleFrame == [alert |-> NoAlert, seen |-> "NONE", rec |-> NoRow, goal |-> "NONE",
              prev |-> "NONE", todo |-> {}, late |-> {}]

(* Thread t goes on at l, with locals f.                                   *)
Move(t, l, f) ==
    /\ pc' = [pc EXCEPT ![t] = l]
    /\ frame' = [frame EXCEPT ![t] = f]
Goto(t, l) == Move(t, l, frame[t])

(* An update returns, or raises: a refresh goes on with its next alert, a  *)
(* request is answered.                                                    *)
Return(t) ==
    Move(t, IF frame[t].todo = {} THEN "idle" ELSE "batch",
            [IdleFrame EXCEPT !.todo = frame[t].todo,
                              !.late = frame[t].late \cap frame[t].todo])

(* A request arrives that the thread serves.                               *)
Asked(t, role) ==
    /\ pc[t] = "idle" /\ role \in Roles[t]
    /\ requests < MaxRequests
    /\ requests' = requests + 1

Append1(a, from, to) ==
    trail' = [trail EXCEPT ![a] = Append(@, [from |-> from, to |-> to])]

Notify(t, a, kinds) ==
    inbox' = [inbox EXCEPT ![ProcessOf[t]][a] =
                [k \in Kinds |-> @[k] + IF k \in kinds THEN 1 ELSE 0]]

Init ==
    /\ alerts = [a \in Alerts |-> NoRow]
    /\ trail = [a \in Alerts |-> <<>>]
    /\ paper = [a \in Alerts |-> NoRow]
    /\ inbox = [p \in Processes |-> [a \in Alerts |-> [k \in Kinds |-> 0]]]
    /\ lapsed = [a \in Alerts |-> FALSE]
    /\ pc = [t \in Threads |-> "idle"]
    /\ frame = [t \in Threads |-> IdleFrame]
    /\ requests = 0
    /\ faults = 0
    /\ restarts = 0

-----------------------------------------------------------------------------
(* Creating an alert.  The id is a fresh uuid.                             *)

Create(t, a) ==
    /\ Asked(t, "create")
    /\ ~Exists(a) /\ \A u \in Threads : frame[u].alert # a
    /\ ~HasActive(SymbolOf[a])
    /\ Move(t, "insert", [frame[t] EXCEPT !.alert = a, !.rec = FreshRow])
    /\ UNCHANGED <<alerts, trail, paper, inbox, lapsed, faults, restarts>>

Insert(t) ==
    /\ pc[t] = "insert"
    /\ alerts' = [alerts EXCEPT ![frame[t].alert] = frame[t].rec]
    /\ Goto(t, "create_log")
    /\ UNCHANGED <<trail, paper, inbox, lapsed, requests, faults, restarts>>

(* Mutant of CreateLog: from and to are swapped.                           *)
CreateLog_Swapped(t) ==
    /\ pc[t] = "create_log"
    /\ Append1(frame[t].alert, frame[t].rec.status, "NONE")
    /\ Goto(t, "create_note")
    /\ UNCHANGED <<alerts, paper, inbox, lapsed, requests, faults, restarts>>

CreateLog(t) ==
    /\ pc[t] = "create_log"
    /\ Append1(frame[t].alert, "NONE", frame[t].rec.status)
    /\ Goto(t, "create_note")
    /\ UNCHANGED <<alerts, paper, inbox, lapsed, requests, faults, restarts>>

CreateNote(t) ==
    /\ pc[t] = "create_note"
    /\ Notify(t, frame[t].alert, {"ALERT_CREATED"})
    /\ Return(t)
    /\ UNCHANGED <<alerts, trail, paper, lapsed, requests, faults, restarts>>

-----------------------------------------------------------------------------
(* A refresh: list what is active, then update alert by alert with the     *)
(* clock read once.  An alert whose price is not available is passed over. *)

ListActive(t) ==
    LET listed == {a \in Alerts : alerts[a].status \in Active}
    IN  /\ listed # {}
        /\ Move(t, "batch", [frame[t] EXCEPT !.todo = listed,
                                             !.late = {a \in listed : lapsed[a]}])
        /\ UNCHANGED <<alerts, trail, paper, inbox, lapsed, faults, restarts>>

(* The scheduler's loop: a round after each interval, for ever.            *)
Schedule(t) ==
    /\ pc[t] = "idle" /\ "schedule" \in Roles[t]
    /\ ListActive(t)
    /\ UNCHANGED requests

(* The refresh request.                                                    *)
Refresh(t) == Asked(t, "refresh") /\ ListActive(t)

Fetch(t, a) ==
    /\ pc[t] = "batch" /\ a \in frame[t].todo
    /\ Move(t, "prior", [frame[t] EXCEPT !.alert = a, !.todo = @ \ {a}])
    /\ UNCHANGED <<alerts, trail, paper, inbox, lapsed, requests, faults, restarts>>

NoPrice(t, a) ==
    /\ pc[t] = "batch" /\ a \in frame[t].todo
    /\ Move(t, IF frame[t].todo = {a} THEN "idle" ELSE "batch",
               [frame[t] EXCEPT !.todo = @ \ {a}, !.late = @ \ {a}])
    /\ UNCHANGED <<alerts, trail, paper, inbox, lapsed, requests, faults, restarts>>

(* The price-update request: any known alert, with the caller's own        *)
(* timestamp.                                                              *)
Push(t, a, late) ==
    /\ Asked(t, "push") /\ Exists(a)
    /\ Move(t, "prior", [frame[t] EXCEPT !.alert = a,
                                         !.late = IF late THEN {a} ELSE {}])
    /\ UNCHANGED <<alerts, trail, paper, inbox, lapsed, faults, restarts>>

-----------------------------------------------------------------------------
(* update_with_latest_price, store call by store call.                     *)

Prior(t) ==
    /\ pc[t] = "prior"
    /\ Move(t, "load", [frame[t] EXCEPT !.seen = alerts[frame[t].alert].status])
    /\ UNCHANGED <<alerts, trail, paper, inbox, lapsed, requests, faults, restarts>>

Load(t) ==
    /\ pc[t] = "load"
    /\ LET row == alerts[frame[t].alert]
       IN  Move(t, IF row.status \in Terminal THEN "emit" ELSE "price_log",
                   [frame[t] EXCEPT !.rec = row])
    /\ UNCHANGED <<alerts, trail, paper, inbox, lapsed, requests, faults, restarts>>

(* Mutant of PriceLog: an update that decides nothing saves the record it  *)
(* read.                                                                   *)
PriceLog_Saves(t, px) ==
    /\ pc[t] = "price_log"
    /\ LET goal == Decide(frame[t].rec.status, frame[t].alert \in frame[t].late, px)
       IN  Move(t, CASE goal = "NONE" -> "mark_save"
                     [] goal = "OPEN" -> "open_save"
                     [] OTHER         -> "mark_load",
                   [frame[t] EXCEPT !.goal = goal, !.late = @ \ {frame[t].alert}])
    /\ UNCHANGED <<alerts, trail, paper, inbox, lapsed, requests, faults, restarts>>

(* The PRICE_UPDATE event changes no status and is left out of trail.      *)
PriceLog(t, px) ==
    /\ pc[t] = "price_log"
    /\ LET goal == Decide(frame[t].rec.status, frame[t].alert \in frame[t].late, px)
       IN  Move(t, CASE goal = "NONE" -> "reread"
                     [] goal = "OPEN" -> "open_save"
                     [] OTHER         -> "mark_load",
                   [frame[t] EXCEPT !.goal = goal, !.late = @ \ {frame[t].alert}])
    /\ UNCHANGED <<alerts, trail, paper, inbox, lapsed, requests, faults, restarts>>

(* mark_* read the alert again and transition whatever they find.          *)
MarkLoad(t) ==
    /\ pc[t] = "mark_load"
    /\ LET row == alerts[frame[t].alert]
       IN  Move(t, "mark_save",
                   [frame[t] EXCEPT !.prev = row.status,
                                    !.rec = WithStatus(row, frame[t].goal)])
    /\ UNCHANGED <<alerts, trail, paper, inbox, lapsed, requests, faults, restarts>>

(* Mutant of MarkSave: the save is forgotten.                              *)
MarkSave_Forgotten(t) ==
    /\ pc[t] = "mark_save"
    /\ Goto(t, "mark_log")
    /\ UNCHANGED <<alerts, trail, paper, inbox, lapsed, requests, faults, restarts>>

MarkSave(t) ==
    /\ pc[t] = "mark_save"
    /\ alerts' = [alerts EXCEPT ![frame[t].alert] = frame[t].rec]
    /\ Goto(t, "mark_log")
    /\ UNCHANGED <<trail, paper, inbox, lapsed, requests, faults, restarts>>

(* Mutant of MarkLog: the event is appended without its from_status.       *)
MarkLog_NoFrom(t) ==
    /\ pc[t] = "mark_log"
    /\ Append1(frame[t].alert, "NONE", frame[t].goal)
    /\ Goto(t, "mark_sync")
    /\ UNCHANGED <<alerts, paper, inbox, lapsed, requests, faults, restarts>>

MarkLog(t) ==
    /\ pc[t] = "mark_log"
    /\ Append1(frame[t].alert, frame[t].prev, frame[t].goal)
    /\ Goto(t, "mark_sync")
    /\ UNCHANGED <<alerts, paper, inbox, lapsed, requests, faults, restarts>>

(* Mutant of MarkSync: the layers sync only the transitions of a price     *)
(* update, a cancellation is left out.                                     *)
MarkSync_NotCancelled(t) ==
    /\ pc[t] = "mark_sync"
    /\ IF frame[t].goal = "CANCELLED"
       THEN Return(t) /\ UNCHANGED paper
       ELSE /\ Goto(t, IF frame[t].goal = "ENTRY_TRIGGERED" THEN "open_save" ELSE "emit")
            /\ paper' = [paper EXCEPT ![frame[t].alert] = PaperRow(frame[t].rec)]
    /\ UNCHANGED <<alerts, trail, inbox, lapsed, requests, faults, restarts>>

MarkSync(t) ==
    /\ pc[t] = "mark_sync"
    /\ paper' = [paper EXCEPT ![frame[t].alert] = PaperRow(frame[t].rec)]
    /\ IF frame[t].goal = "CANCELLED"
       THEN Return(t)
       ELSE Goto(t, IF frame[t].goal = "ENTRY_TRIGGERED" THEN "open_save" ELSE "emit")
    /\ UNCHANGED <<alerts, trail, inbox, lapsed, requests, faults, restarts>>

(* Mutant of OpenSave: the save is forgotten.                              *)
OpenSave_Forgotten(t) ==
    /\ pc[t] = "open_save"
    /\ Move(t, "open_log", [frame[t] EXCEPT !.prev = frame[t].rec.status,
                                            !.rec = WithStatus(frame[t].rec, "OPEN")])
    /\ UNCHANGED <<alerts, trail, paper, inbox, lapsed, requests, faults, restarts>>

(* _set_open works on the record in hand, it reads nothing.                *)
OpenSave(t) ==
    /\ pc[t] = "open_save"
    /\ LET row == WithStatus(frame[t].rec, "OPEN")
       IN  /\ alerts' = [alerts EXCEPT ![frame[t].alert] = row]
           /\ Move(t, "open_log",
                      [frame[t] EXCEPT !.prev = frame[t].rec.status, !.rec = row])
    /\ UNCHANGED <<trail, paper, inbox, lapsed, requests, faults, restarts>>

OpenLog(t) ==
    /\ pc[t] = "open_log"
    /\ Append1(frame[t].alert, frame[t].prev, "OPEN")
    /\ Goto(t, "emit")
    /\ UNCHANGED <<alerts, paper, inbox, lapsed, requests, faults, restarts>>

Reread(t) ==
    /\ pc[t] = "reread"
    /\ Move(t, "emit", [frame[t] EXCEPT !.rec = alerts[frame[t].alert]])
    /\ UNCHANGED <<alerts, trail, paper, inbox, lapsed, requests, faults, restarts>>

Emit(t) ==
    /\ pc[t] = "emit"
    /\ Notify(t, frame[t].alert, Notices(frame[t].seen, frame[t].rec.status))
    /\ Goto(t, "sync")
    /\ UNCHANGED <<alerts, trail, paper, lapsed, requests, faults, restarts>>

(* Mutant of Sync: only an update that changed the status syncs.           *)
Sync_OnChange(t) ==
    /\ pc[t] = "sync"
    /\ IF frame[t].rec.status \in {"PENDING_ENTRY", frame[t].seen}
       THEN UNCHANGED paper
       ELSE paper' = [paper EXCEPT ![frame[t].alert] = PaperRow(frame[t].rec)]
    /\ Return(t)
    /\ UNCHANGED <<alerts, trail, inbox, lapsed, requests, faults, restarts>>

Sync(t) ==
    /\ pc[t] = "sync"
    /\ IF frame[t].rec.status = "PENDING_ENTRY"
       THEN UNCHANGED paper
       ELSE paper' = [paper EXCEPT ![frame[t].alert] = PaperRow(frame[t].rec)]
    /\ Return(t)
    /\ UNCHANGED <<alerts, trail, inbox, lapsed, requests, faults, restarts>>

-----------------------------------------------------------------------------
(* Cancelling: the check, then mark_cancelled.  A closed alert is refused  *)
(* with 409 and nothing happens.                                           *)

(* Mutant of Cancel: no check of the status.                               *)
Cancel_Unchecked(t, a) ==
    /\ Asked(t, "cancel")
    /\ Exists(a)
    /\ Move(t, "mark_load", [frame[t] EXCEPT !.alert = a, !.goal = "CANCELLED"])
    /\ UNCHANGED <<alerts, trail, paper, inbox, lapsed, faults, restarts>>

Cancel(t, a) ==
    /\ Asked(t, "cancel")
    /\ alerts[a].status \in Active
    /\ Move(t, "mark_load", [frame[t] EXCEPT !.alert = a, !.goal = "CANCELLED"])
    /\ UNCHANGED <<alerts, trail, paper, inbox, lapsed, faults, restarts>>

-----------------------------------------------------------------------------
(* The operator's backfill: alerts listed first, a paper row written for   *)
(* those that turn out to have none.                                       *)

BackfillList(t, a) ==
    /\ Asked(t, "backfill") /\ Exists(a)
    /\ Move(t, "backfill_check", [frame[t] EXCEPT !.alert = a, !.rec = alerts[a]])
    /\ UNCHANGED <<alerts, trail, paper, inbox, lapsed, faults, restarts>>

BackfillCheck(t) ==
    /\ pc[t] = "backfill_check"
    /\ IF paper[frame[t].alert].status # "NONE"
       THEN Return(t)
       ELSE Goto(t, "backfill_save")
    /\ UNCHANGED <<alerts, trail, paper, inbox, lapsed, requests, faults, restarts>>

BackfillSave(t) ==
    /\ pc[t] = "backfill_save"
    /\ paper' = [paper EXCEPT ![frame[t].alert] = PaperRow(frame[t].rec)]
    /\ Return(t)
    /\ UNCHANGED <<alerts, trail, inbox, lapsed, requests, faults, restarts>>

-----------------------------------------------------------------------------
(* The environment.                                                        *)

(* A store call raises.  One that raises after its commit is the step and  *)
(* then this action at the next call.                                      *)
StoreFault(t) ==
    /\ pc[t] \in AtStore /\ faults < MaxFaults
    /\ faults' = faults + 1
    /\ Return(t)
    /\ UNCHANGED <<alerts, trail, paper, inbox, lapsed, requests, restarts>>

(* A process dies or is recycled: its threads and its notifications go.    *)
Restart(p) ==
    /\ restarts < MaxRestarts
    /\ restarts' = restarts + 1
    /\ pc' = [t \in Threads |-> IF ProcessOf[t] = p THEN "idle" ELSE pc[t]]
    /\ frame' = [t \in Threads |-> IF ProcessOf[t] = p THEN IdleFrame ELSE frame[t]]
    /\ inbox' = [inbox EXCEPT ![p] = [a \in Alerts |-> [k \in Kinds |-> 0]]]
    /\ UNCHANGED <<alerts, trail, paper, lapsed, requests, faults>>

Lapse(a) ==
    /\ Exists(a) /\ ~lapsed[a]
    /\ lapsed' = [lapsed EXCEPT ![a] = TRUE]
    /\ UNCHANGED <<alerts, trail, paper, inbox, pc, frame, requests, faults, restarts>>

-----------------------------------------------------------------------------
(* A step of a request that is under way.                                  *)
Step(t) ==
    \/ Insert(t) \/ CreateLog(t) \/ CreateNote(t)
    \/ Prior(t) \/ Load(t) \/ (\E px \in Prices : PriceLog(t, px))
    \/ MarkLoad(t) \/ MarkSave(t) \/ MarkLog(t) \/ MarkSync(t)
    \/ OpenSave(t) \/ OpenLog(t) \/ Reread(t) \/ Emit(t) \/ Sync(t)
    \/ BackfillCheck(t) \/ BackfillSave(t)

Request(t, a) ==
    \/ Create(t, a) \/ Cancel(t, a) \/ BackfillList(t, a)
    \/ \E late \in BOOLEAN : Push(t, a, late)

Next ==
    \/ \E t \in Threads : Step(t) \/ Schedule(t) \/ Refresh(t) \/ StoreFault(t)
    \/ \E t \in Threads, a \in Alerts : Request(t, a) \/ Fetch(t, a) \/ NoPrice(t, a)
    \/ \E p \in Processes : Restart(p)
    \/ \E a \in Alerts : Lapse(a)

Spec == Init /\ [][Next]_vars

(* Threads run, the scheduler polls again and again, and a symbol's price  *)
(* is available in infinitely many of the rounds that ask for it.          *)
Fairness ==
    /\ \A t \in Threads : WF_vars(Step(t)) /\ WF_vars(Schedule(t))
    /\ \A t \in Threads : WF_vars(\E a \in Alerts : Fetch(t, a) \/ NoPrice(t, a))
    /\ \A t \in Threads, a \in Alerts : SF_vars(Fetch(t, a))
FairSpec == Spec /\ Fairness
-----------------------------------------------------------------------------
(* Properties.                                                             *)

(* Every variable keeps its type: rows, events and notifications are ones  *)
(* the stores can hold, and a thread's locals are ones the code can have.  *)
StoresOK ==
    /\ alerts \in [Alerts -> Row]
    /\ trail \in [Alerts -> Seq(Event)]
    /\ paper \in [Alerts -> Row]
    /\ inbox \in [Processes -> [Alerts -> [Kinds -> Nat]]]
    /\ lapsed \in [Alerts -> BOOLEAN]
LocalsOK ==
    /\ pc \in [Threads -> Locations]
    /\ frame \in [Threads -> Frame]
    /\ \A t \in Threads : pc[t] \notin {"idle", "batch"} => frame[t].alert \in Alerts
BoundsOK ==
    /\ requests \in 0..MaxRequests
    /\ faults \in 0..MaxFaults
    /\ restarts \in 0..MaxRestarts
TypeOK == StoresOK /\ LocalsOK /\ BoundsOK

(* ---- Whatever the threads do together --------------------------------- *)

NotEntered == {"NONE", "PENDING_ENTRY"}

(* Nothing runs ahead of the alert store: while an alert waits for its     *)
(* entry, its paper row shows no trade, its event log holds nothing but    *)
(* the creation, and no user has been told of anything but the creation.   *)
(* (save before _log_event, sync and emit in lifecycle_service.py and the  *)
(* layers over it; backfill and refresh run beside each other.)            *)
StillPending ==
    \A a \in Alerts : alerts[a].status \in NotEntered =>
        /\ paper[a].status \in NotEntered
        /\ \A i \in 1..Len(trail[a]) : trail[a][i].to = "PENDING_ENTRY"
        /\ \A p \in Processes, k \in Kinds \ {"ALERT_CREATED"} : inbox[p][a][k] = 0

(* What thread t holds is still backed by the alert store, whatever the    *)
(* other threads have written since it read it: the alerts it works on     *)
(* exist (only insert has one that does not yet), a status past            *)
(* PENDING_ENTRY in its record is one the alert has left PENDING_ENTRY     *)
(* for, and a transition under way is never to PENDING_ENTRY.              *)
Marking == {"mark_load", "mark_save", "mark_log", "mark_sync"}
InHand(rows, l, f) ==
    /\ \A a \in f.todo : rows[a].status # "NONE"
    /\ l \in {"idle", "batch"} => f.alert = NoAlert /\ f.rec = NoRow
    /\ l \in {"insert", "create_log"} => f.rec = FreshRow
    /\ l = "insert" => rows[f.alert].status = "NONE"
    /\ l \notin {"idle", "batch", "insert"} => rows[f.alert].status # "NONE"
    /\ l \in Marking => f.goal \in Statuses \ {"PENDING_ENTRY"}
    /\ l \in Marking \ {"mark_load"} => f.rec.status = f.goal
    /\ l = "open_log" => f.rec.status = "OPEN"
    /\ (l # "mark_save" /\ f.rec.status \notin NotEntered)
          => rows[f.alert].status \notin NotEntered
(* No two threads hold an id that is being inserted.                       *)
FreshId(t) ==
    pc[t] = "insert" => \A u \in Threads \ {t} : frame[u].alert # frame[t].alert
LocalsBacked == \A t \in Threads : InHand(alerts, pc[t], frame[t]) /\ FreshId(t)

(* An alert that has left PENDING_ENTRY never waits for its entry again,   *)
(* though every save writes the whole row from a copy read earlier.        *)
PendingNeverReturns ==
    [][\A a \in Alerts : alerts[a].status \notin NotEntered
                          => alerts'[a].status \notin NotEntered]_vars

(* An alert is created once: one CREATED event and one ALERT_CREATED       *)
(* notification at most, and neither before the row exists.                *)
CreatedOnce ==
    \A a \in Alerts :
        /\ \A i \in 1..Len(trail[a]) : trail[a][i].from = "NONE" =>
             /\ Exists(a)
             /\ \A j \in 1..Len(trail[a]) : trail[a][j].from = "NONE" => i = j
        /\ \A p, q \in Processes :
             inbox[p][a]["ALERT_CREATED"] > 0 =>
                /\ \E i \in 1..Len(trail[a]) : trail[a][i].from = "NONE"
                /\ inbox[p][a]["ALERT_CREATED"] = 1
                /\ inbox[q][a]["ALERT_CREATED"] > 0 => p = q

(* ---- One thread at a time, with faults and restarts ------------------- *)

Rank(s) == CASE s = "NONE"            -> 0
             [] s = "PENDING_ENTRY"   -> 1
             [] s = "ENTRY_TRIGGERED" -> 2
             [] s = "OPEN"            -> 3
             [] OTHER                 -> 4

Book == INSTANCE AlertBook WITH status <- [a \in Alerts |-> alerts[a].status]

(* The lifecycle walks the status graph, never touches a closed alert and  *)
(* keeps one active alert per symbol.                                      *)
ImplementsBook == Book!Spec

(* A hit closes a position that was entered, at the price of that hit; an  *)
(* expired alert was never entered; an active alert has no exit.           *)
OutcomeIsTrue ==
    \A a \in Alerts :
        /\ alerts[a].status = "TARGET_HIT" => alerts[a].triggered /\ alerts[a].exit = "target"
        /\ alerts[a].status = "STOP_HIT" => alerts[a].triggered /\ alerts[a].exit = "stop"
        /\ alerts[a].status = "EXPIRED" => ~alerts[a].triggered
        /\ alerts[a].exited <=> alerts[a].status \in Terminal

(* The event log only says what happened, in order: every event is an edge *)
(* of the lifecycle, starts where or after the one before it ended, and    *)
(* the alert is at or past the last.  A lost event leaves a gap, never a   *)
(* contradiction.                                                          *)
TrailIsTrue ==
    \A a \in Alerts : \A i \in 1..Len(trail[a]) :
        LET e == trail[a][i]
        IN  /\ Book!Edge(e.from, e.to) \/ (e.from = "NONE" /\ e.to = "PENDING_ENTRY")
            /\ Rank(e.to) <= Rank(alerts[a].status)
            /\ i > 1 => Rank(trail[a][i-1].to) <= Rank(e.from)

(* A paper row is the alert's own past: never ahead of the alert, and when *)
(* it has caught up, of the same status and result.                        *)
PaperFollows ==
    \A a \in Alerts :
        LET p == paper[a]
            r == alerts[a]
        IN  /\ Rank(p.status) <= Rank(r.status)
            /\ Rank(p.status) = Rank(r.status) =>
                  /\ p.status = r.status
                  /\ p.status \in {"TARGET_HIT", "STOP_HIT"} => p.exit = r.exit
                  /\ p.status \in {"EXPIRED", "CANCELLED"} => p.exit = "none" /\ p.exited

(* A user hears of a transition at most once, and only of one the event    *)
(* log holds.                                                              *)
KindEvent(k) == CASE k = "ALERT_CREATED"   -> "PENDING_ENTRY"
                  [] k = "ENTRY_TRIGGERED" -> "OPEN"
                  [] OTHER                 -> k
NoticeIsTrue ==
    \A p \in Processes, a \in Alerts, k \in Kinds :
        /\ inbox[p][a][k] <= 1
        /\ inbox[p][a][k] = 1 => \E i \in 1..Len(trail[a]) : trail[a][i].to = KindEvent(k)

(* What is on record is true, however far a failure or a restart has left  *)
(* one record behind another: the alert's outcome, its event log, its      *)
(* paper row and what its user was told are all of one life of the alert   *)
(* (the stores that one update of lifecycle_service.py, the recording and  *)
(* the notifying layer writes one after the other).                        *)
RecordsAreTrue == OutcomeIsTrue /\ TrailIsTrue /\ PaperFollows /\ NoticeIsTrue

(* ---- One thread at a time, nothing failing ----------------------------- *)

Quiet == \A t \in Threads : pc[t] = "idle"
Settled == Quiet /\ faults = 0 /\ restarts = 0

(* Between requests the paper row of every alert past PENDING_ENTRY shows  *)
(* the alert's status.                                                     *)
PaperAgrees ==
    Settled => \A a \in Alerts : alerts[a].status \notin NotEntered
                               => paper[a].status = alerts[a].status

(* Between requests the event log is an unbroken walk from creation to the *)
(* alert's status.                                                         *)
TrailComplete ==
    Settled => \A a \in Alerts : Exists(a) =>
        /\ Len(trail[a]) > 0
        /\ trail[a][Len(trail[a])].to = alerts[a].status
        /\ \A i \in 1..Len(trail[a]) :
             trail[a][i].from = IF i = 1 THEN "NONE" ELSE trail[a][i-1].to

(* Between requests the user has been told of the entry of every open or   *)
(* hit alert and of how it ended (a cancellation is the user's own).       *)
NoticeDelivered ==
    Settled => \A a \in Alerts :
        LET told(k) == \E p \in Processes : inbox[p][a][k] > 0
        IN  /\ Exists(a) => told("ALERT_CREATED")
            /\ alerts[a].status \in {"OPEN", "TARGET_HIT", "STOP_HIT"}
                  => told("ENTRY_TRIGGERED")
            /\ alerts[a].status \in {"TARGET_HIT", "STOP_HIT", "EXPIRED"}
                  => told(alerts[a].status)

(* Between requests the records are complete: none of the layers' early    *)
(* returns passes over a transition that the others write down.            *)
RecordsCatchUp == PaperAgrees /\ TrailComplete /\ NoticeDelivered

(* ---- Progress ----------------------------------------------------------- *)

(* An alert past its expiry does not wait for its entry for ever.          *)
ExpiryHappens ==
    \A a \in Alerts : (lapsed[a] /\ alerts[a].status = "PENDING_ENTRY")
                         ~> alerts[a].status # "PENDING_ENTRY"

(* ENTRY_TRIGGERED is passed through: an alert left there by a crash or a  *)
(* failed save is opened by a later update.                                *)
EntryCompletes ==
    \A a \in Alerts : alerts[a].status = "ENTRY_TRIGGERED"
                         ~> alerts[a].status # "ENTRY_TRIGGERED"

(* While an alert is open, a paper row that missed its update is repaired. *)
OpenPaperHeals ==
    \A a \in Alerts : (alerts[a].status = "OPEN" /\ paper[a].status # "OPEN")
                         ~> (paper[a].status = "OPEN" \/ alerts[a].status # "OPEN")

(* Later updates repair what a crash or a failed call left half done.      *)
RepairHappens == EntryCompletes /\ OpenPaperHeals
=============================================================================
