------------------------ MODULE AlertLifecycleProofs ------------------------
(***************************************************************************)
(* What holds of AlertLifecycle for any number of alerts, symbols,         *)
(* threads, processes, requests, faults and restarts.                      *)
(***************************************************************************)
EXTENDS AlertLifecycle, TLAPS

(* The paper row of a row is a row, of the same status.                    *)
LEMMA PaperRowType ==
    ASSUME NEW r \in Row
    PROVE  PaperRow(r) \in Row /\ PaperRow(r).status = r.status
  BY DEF Row, NoRow, FreshRow, PaperRow, NeverFilled, Statuses, Active

(* WithStatus on any goal, a real one or none.                             *)
LEMMA WithStatusType ==
    ASSUME NEW r \in Row, NEW s \in Statuses \cup {"NONE"}
    PROVE  WithStatus(r, s) \in Row
  BY DEF Row, WithStatus

(* A decision is a status to move to, or none.                             *)
LEMMA DecideType ==
    ASSUME NEW s, NEW late, NEW px
    PROVE  Decide(s, late, px) \in {"NONE", "ENTRY_TRIGGERED", "OPEN", "EXPIRED",
                                    "STOP_HIT", "TARGET_HIT"}
  BY DEF Decide

(* Locals stay typed when one of them is set to a typed value.             *)
LEMMA SetLocal ==
    ASSUME NEW f \in Frame, NEW a \in Alerts \cup {NoAlert}, NEW r \in Row,
           NEW s \in Statuses \cup {"NONE"}, NEW A \in SUBSET Alerts
    PROVE  /\ [f EXCEPT !.alert = a] \in Frame
           /\ [f EXCEPT !.rec = r] \in Frame
           /\ [f EXCEPT !.seen = s] \in Frame
           /\ [f EXCEPT !.goal = s] \in Frame
           /\ [f EXCEPT !.prev = s] \in Frame
           /\ [f EXCEPT !.todo = A] \in Frame
           /\ [f EXCEPT !.late = A] \in Frame
  BY DEF Frame

LEMMA SetLocals ==
    ASSUME NEW f \in Frame, NEW a \in Alerts, NEW s \in Statuses \cup {"NONE"},
           NEW A, NEW B, A \subseteq Alerts, B \subseteq Alerts
    PROVE  /\ [f EXCEPT !.alert = a, !.todo = A] \in Frame
           /\ [f EXCEPT !.alert = a, !.late = A] \in Frame
           /\ [f EXCEPT !.alert = a, !.goal = s] \in Frame
           /\ [f EXCEPT !.todo = A, !.late = B] \in Frame
  BY DEF Frame

LEMMA RowConstants ==
    NoRow \in Row /\ FreshRow \in Row /\ IdleFrame \in Frame
  BY DEF NoRow, FreshRow, Row, IdleFrame, Frame, Statuses, Active

(* Locals as typed stay typed when a thread moves on with typed locals.    *)
LEMMA MoveType ==
    ASSUME LocalsOK, NEW t \in Threads, NEW l \in Locations, NEW f \in Frame,
           l \notin {"idle", "batch"} => f.alert \in Alerts,
           Move(t, l, f)
    PROVE  LocalsOK'
  BY DEF LocalsOK, Move

LEMMA ReturnType ==
    ASSUME LocalsOK, NEW t \in Threads, Return(t)
    PROVE  LocalsOK'
  <1> DEFINE l == IF frame[t].todo = {} THEN "idle" ELSE "batch"
             f == [IdleFrame EXCEPT !.todo = frame[t].todo,
                                    !.late = frame[t].late \cap frame[t].todo]
  <1>1. f \in Frame
    <2> DEFINE A == frame[t].todo
               B == frame[t].late \cap frame[t].todo
    <2>1. A \in SUBSET Alerts /\ B \in SUBSET Alerts
      BY DEF LocalsOK, Frame
    <2>2. f = [IdleFrame EXCEPT !.todo = A, !.late = B]
      OBVIOUS
    <2> HIDE DEF A, B, f
    <2>3. QED
      BY <2>1, <2>2, RowConstants DEF Frame
  <1>2. l \in {"idle", "batch"} /\ l \in Locations
    BY DEF Locations
  <1>3. QED
    BY <1>1, <1>2, MoveType DEF Return

(* A notification keeps the type of the inboxes.                           *)
LEMMA NotifyType ==
    ASSUME StoresOK, NEW t \in Threads, NEW a \in Alerts, NEW kinds, Notify(t, a, kinds)
    PROVE  inbox' \in [Processes -> [Alerts -> [Kinds -> Nat]]]
  <1>1. ProcessOf[t] \in Processes
    BY ThreadAssumption
  <1>2. [k \in Kinds |-> inbox[ProcessOf[t]][a][k] + IF k \in kinds THEN 1 ELSE 0]
            \in [Kinds -> Nat]
    BY <1>1 DEF StoresOK
  <1>3. QED
    BY <1>1, <1>2 DEF StoresOK, Notify

(* An appended event keeps the type of the log.                            *)
LEMMA AppendType ==
    ASSUME StoresOK, NEW a \in Alerts, NEW from, NEW to,
           [from |-> from, to |-> to] \in Event, Append1(a, from, to)
    PROVE  trail' \in [Alerts -> Seq(Event)]
  <1> DEFINE e == [from |-> from, to |-> to]
             s == Append(trail[a], e)
  <1>1. e \in Event /\ trail[a] \in Seq(Event)
    BY DEF StoresOK
  <1>2. trail' = [trail EXCEPT ![a] = s]
    BY DEF Append1
  <1> HIDE DEF e
  <1>3. s \in Seq(Event)
    BY <1>1
  <1> HIDE DEF s
  <1>4. QED
    BY <1>2, <1>3 DEF StoresOK

-----------------------------------------------------------------------------
(* Type correctness.                                                       *)

LEMMA InitType == Init => TypeOK
  <1> SUFFICES ASSUME Init PROVE TypeOK
    OBVIOUS
  <1>1. StoresOK
    BY RowConstants DEF Init, StoresOK
  <1>2. LocalsOK
    BY RowConstants DEF Init, LocalsOK, Locations
  <1>3. QED
    BY <1>1, <1>2, BoundAssumption DEF Init, TypeOK, BoundsOK

LEMMA ListType ==
    ASSUME LocalsOK, NEW t \in Threads, ListActive(t)
    PROVE  LocalsOK'
  <1> DEFINE listed == {a \in Alerts : alerts[a].status \in Active}
             late == {a \in listed : lapsed[a]}
             f == [frame[t] EXCEPT !.todo = listed, !.late = late]
  <1>1. f \in Frame
    <2>1. frame[t] \in Frame /\ listed \in SUBSET Alerts /\ late \in SUBSET Alerts
      BY DEF LocalsOK
    <2> HIDE DEF listed, late
    <2>2. QED
      BY <2>1 DEF Frame
  <1>2. "batch" \in Locations
    BY DEF Locations
  <1>3. Move(t, "batch", f)
    BY DEF ListActive
  <1>4. QED
    BY <1>1, <1>2, <1>3, MoveType

(* Every step leaves the locals typed.                                     *)
LEMMA StepLocals ==
    ASSUME StoresOK, LocalsOK, Next
    PROVE  LocalsOK'
  <1>0. \A t \in Threads : frame[t] \in Frame
    BY DEF LocalsOK
  <1>1. ASSUME NEW t \in Threads, NEW a \in Alerts, Create(t, a)
        PROVE  LocalsOK'
    <2> DEFINE f == [frame[t] EXCEPT !.alert = a, !.rec = FreshRow]
               l == "insert"
    <2>1. f \in Frame
      BY <1>0, SetLocal, RowConstants
    <2>2. l \in Locations /\ (l \notin {"idle", "batch"} => f.alert \in Alerts)
      BY <1>0, <1>1 DEF Create, LocalsOK, Locations, Frame
    <2>3. Move(t, l, f)
      BY <1>1 DEF Create
    <2>4. QED
      BY <2>1, <2>2, <2>3, MoveType
  <1>2. ASSUME NEW t \in Threads, Insert(t)
        PROVE  LocalsOK'
    BY <1>0, <1>2, MoveType DEF Insert, Goto, LocalsOK, Locations
  <1>3. ASSUME NEW t \in Threads, CreateLog(t)
        PROVE  LocalsOK'
    BY <1>0, <1>3, MoveType DEF CreateLog, Goto, LocalsOK, Locations
  <1>4. ASSUME NEW t \in Threads, CreateNote(t)
        PROVE  LocalsOK'
    BY <1>4, ReturnType DEF CreateNote
  <1>5. ASSUME NEW t \in Threads, Schedule(t)
        PROVE  LocalsOK'
    BY <1>5, ListType DEF Schedule
  <1>6. ASSUME NEW t \in Threads, Refresh(t)
        PROVE  LocalsOK'
    BY <1>6, ListType DEF Refresh
  <1>7. ASSUME NEW t \in Threads, NEW a \in Alerts, Fetch(t, a)
        PROVE  LocalsOK'
    <2> DEFINE f == [frame[t] EXCEPT !.alert = a, !.todo = @ \ {a}]
               l == "prior"
    <2>1. f \in Frame
      <3>1. /\ frame[t].todo \ {a} \subseteq Alerts
            /\ frame[t].late \ {a} \subseteq Alerts
        BY <1>0, <1>7 DEF Fetch, Frame
      <3>2. QED
        BY <1>0, <3>1, SetLocal, SetLocals
    <2>2. l \in Locations /\ (l \notin {"idle", "batch"} => f.alert \in Alerts)
      BY <1>0, <1>7 DEF Fetch, LocalsOK, Locations, Frame
    <2>3. Move(t, l, f)
      BY <1>7 DEF Fetch
    <2>4. QED
      BY <2>1, <2>2, <2>3, MoveType
  <1>8. ASSUME NEW t \in Threads, NEW a \in Alerts, NoPrice(t, a)
        PROVE  LocalsOK'
    <2> DEFINE f == [frame[t] EXCEPT !.todo = @ \ {a}, !.late = @ \ {a}]
               l == IF frame[t].todo = {a} THEN "idle" ELSE "batch"
    <2>1. f \in Frame
      <3>1. /\ frame[t].todo \ {a} \subseteq Alerts
            /\ frame[t].late \ {a} \subseteq Alerts
        BY <1>0, <1>8 DEF NoPrice, Frame
      <3>2. QED
        BY <1>0, <3>1, SetLocal, SetLocals
    <2>2. l \in Locations /\ (l \notin {"idle", "batch"} => f.alert \in Alerts)
      BY <1>0, <1>8 DEF NoPrice, LocalsOK, Locations, Frame
    <2>3. Move(t, l, f)
      BY <1>8 DEF NoPrice
    <2>4. QED
      BY <2>1, <2>2, <2>3, MoveType
  <1>9. ASSUME NEW t \in Threads, NEW a \in Alerts, NEW late \in BOOLEAN, Push(t, a, late)
        PROVE  LocalsOK'
    <2> DEFINE f == [frame[t] EXCEPT !.alert = a, !.late = IF late THEN {a} ELSE {}]
               l == "prior"
    <2>1. f \in Frame
      <3>1. (IF late THEN {a} ELSE {}) \subseteq Alerts
        BY <1>0, <1>9 DEF Push, Frame
      <3>2. QED
        BY <1>0, <3>1, SetLocal, SetLocals
    <2>2. l \in Locations /\ (l \notin {"idle", "batch"} => f.alert \in Alerts)
      BY <1>0, <1>9 DEF Push, LocalsOK, Locations, Frame
    <2>3. Move(t, l, f)
      BY <1>9 DEF Push
    <2>4. QED
      BY <2>1, <2>2, <2>3, MoveType
  <1>10. ASSUME NEW t \in Threads, Prior(t)
        PROVE  LocalsOK'
    <2> DEFINE f == [frame[t] EXCEPT !.seen = alerts[frame[t].alert].status]
               l == "load"
    <2>1. f \in Frame
      <3>1. alerts[frame[t].alert] \in Row /\ alerts[frame[t].alert].status \in Statuses \cup {"NONE"}
        BY <1>0, <1>10 DEF Prior, StoresOK, LocalsOK, Row
      <3>2. QED
        BY <1>0, <3>1, SetLocal, SetLocals
    <2>2. l \in Locations /\ (l \notin {"idle", "batch"} => f.alert \in Alerts)
      BY <1>0, <1>10 DEF Prior, LocalsOK, Locations, Frame
    <2>3. Move(t, l, f)
      BY <1>10 DEF Prior
    <2>4. QED
      BY <2>1, <2>2, <2>3, MoveType
  <1>11. ASSUME NEW t \in Threads, Load(t)
        PROVE  LocalsOK'
    <2> DEFINE f == [frame[t] EXCEPT !.rec = alerts[frame[t].alert]]
               l == IF alerts[frame[t].alert].status \in Terminal THEN "emit" ELSE "price_log"
    <2>1. f \in Frame
      <3>1. alerts[frame[t].alert] \in Row
        BY <1>0, <1>11 DEF Load, StoresOK, LocalsOK
      <3>2. QED
        BY <1>0, <3>1, SetLocal, SetLocals
    <2>2. l \in Locations /\ (l \notin {"idle", "batch"} => f.alert \in Alerts)
      BY <1>0, <1>11 DEF Load, LocalsOK, Locations, Frame
    <2>3. Move(t, l, f)
      BY <1>11 DEF Load
    <2>4. QED
      BY <2>1, <2>2, <2>3, MoveType
  <1>12. ASSUME NEW t \in Threads, NEW px \in Prices, PriceLog(t, px)
        PROVE  LocalsOK'
    <2> DEFINE f == [frame[t] EXCEPT !.goal = Decide(frame[t].rec.status, frame[t].alert \in frame[t].late, px),
                                    !.late = @ \ {frame[t].alert}]
               l == CASE Decide(frame[t].rec.status, frame[t].alert \in frame[t].late, px) = "NONE" -> "reread"
                      [] Decide(frame[t].rec.status, frame[t].alert \in frame[t].late, px) = "OPEN" -> "open_save"
                      [] OTHER -> "mark_load"
    <2>1. f \in Frame
      <3>1. /\ Decide(frame[t].rec.status, frame[t].alert \in frame[t].late, px)
                 \in Statuses \cup {"NONE"}
            /\ frame[t].late \ {frame[t].alert} \subseteq Alerts
        BY <1>0, <1>12, DecideType DEF PriceLog, Frame, Statuses, Active, Terminal
      <3> DEFINE g == Decide(frame[t].rec.status, frame[t].alert \in frame[t].late, px)
                 A == frame[t].late \ {frame[t].alert}
      <3>2. f = [frame[t] EXCEPT !.goal = g, !.late = A]
        OBVIOUS
      <3>3. g \in Statuses \cup {"NONE"} /\ A \in SUBSET Alerts
        BY <3>1
      <3> HIDE DEF g, A, f
      <3>4. QED
        BY <1>0, <3>2, <3>3 DEF Frame
    <2>2. l \in Locations /\ (l \notin {"idle", "batch"} => f.alert \in Alerts)
      BY <1>0, <1>12 DEF PriceLog, LocalsOK, Locations, Frame
    <2>3. Move(t, l, f)
      BY <1>12 DEF PriceLog
    <2>4. QED
      BY <2>1, <2>2, <2>3, MoveType
  <1>13. ASSUME NEW t \in Threads, MarkLoad(t)
        PROVE  LocalsOK'
    <2> DEFINE f == [frame[t] EXCEPT !.prev = alerts[frame[t].alert].status,
                                    !.rec = WithStatus(alerts[frame[t].alert], frame[t].goal)]
               l == "mark_save"
    <2>1. f \in Frame
      <3>1. /\ alerts[frame[t].alert].status \in Statuses \cup {"NONE"}
            /\ WithStatus(alerts[frame[t].alert], frame[t].goal) \in Row
        BY <1>0, <1>13, WithStatusType DEF MarkLoad, StoresOK, LocalsOK, Frame, Row
      <3>2. QED
        BY <1>0, <3>1, SetLocal, SetLocals
    <2>2. l \in Locations /\ (l \notin {"idle", "batch"} => f.alert \in Alerts)
      BY <1>0, <1>13 DEF MarkLoad, LocalsOK, Locations, Frame
    <2>3. Move(t, l, f)
      BY <1>13 DEF MarkLoad
    <2>4. QED
      BY <2>1, <2>2, <2>3, MoveType
  <1>14. ASSUME NEW t \in Threads, MarkSave(t)
        PROVE  LocalsOK'
    BY <1>0, <1>14, MoveType DEF MarkSave, Goto, LocalsOK, Locations
  <1>15. ASSUME NEW t \in Threads, MarkLog(t)
        PROVE  LocalsOK'
    BY <1>0, <1>15, MoveType DEF MarkLog, Goto, LocalsOK, Locations
  <1>16. ASSUME NEW t \in Threads, MarkSync(t)
        PROVE  LocalsOK'
    BY <1>0, <1>16, MoveType, ReturnType DEF MarkSync, Goto, LocalsOK, Locations
  <1>17. ASSUME NEW t \in Threads, OpenSave(t)
        PROVE  LocalsOK'
    <2> DEFINE f == [frame[t] EXCEPT !.prev = frame[t].rec.status,
                                    !.rec = WithStatus(frame[t].rec, "OPEN")]
               l == "open_log"
    <2>1. f \in Frame
      <3>1. /\ frame[t].rec.status \in Statuses \cup {"NONE"}
            /\ WithStatus(frame[t].rec, "OPEN") \in Row
        BY <1>0, <1>17, WithStatusType DEF OpenSave, Frame, Row, Statuses, Active
      <3>2. QED
        BY <1>0, <3>1, SetLocal, SetLocals
    <2>2. l \in Locations /\ (l \notin {"idle", "batch"} => f.alert \in Alerts)
      BY <1>0, <1>17 DEF OpenSave, LocalsOK, Locations, Frame
    <2>3. Move(t, l, f)
      BY <1>17 DEF OpenSave
    <2>4. QED
      BY <2>1, <2>2, <2>3, MoveType
  <1>18. ASSUME NEW t \in Threads, OpenLog(t)
        PROVE  LocalsOK'
    BY <1>0, <1>18, MoveType DEF OpenLog, Goto, LocalsOK, Locations
  <1>19. ASSUME NEW t \in Threads, Reread(t)
        PROVE  LocalsOK'
    <2> DEFINE f == [frame[t] EXCEPT !.rec = alerts[frame[t].alert]]
               l == "emit"
    <2>1. f \in Frame
      <3>1. alerts[frame[t].alert] \in Row
        BY <1>0, <1>19 DEF Reread, StoresOK, LocalsOK
      <3>2. QED
        BY <1>0, <3>1, SetLocal, SetLocals
    <2>2. l \in Locations /\ (l \notin {"idle", "batch"} => f.alert \in Alerts)
      BY <1>0, <1>19 DEF Reread, LocalsOK, Locations, Frame
    <2>3. Move(t, l, f)
      BY <1>19 DEF Reread
    <2>4. QED
      BY <2>1, <2>2, <2>3, MoveType
  <1>20. ASSUME NEW t \in Threads, Emit(t)
        PROVE  LocalsOK'
    BY <1>0, <1>20, MoveType DEF Emit, Goto, LocalsOK, Locations
  <1>21. ASSUME NEW t \in Threads, Sync(t)
        PROVE  LocalsOK'
    BY <1>21, ReturnType DEF Sync
  <1>22. ASSUME NEW t \in Threads, NEW a \in Alerts, Cancel(t, a)
        PROVE  LocalsOK'
    <2> DEFINE f == [frame[t] EXCEPT !.alert = a, !.goal = "CANCELLED"]
               l == "mark_load"
    <2>1. f \in Frame
      <3>1. "CANCELLED" \in Statuses \cup {"NONE"}
        BY <1>0, <1>22 DEF Cancel, Statuses, Terminal
      <3>2. QED
        BY <1>0, <3>1, SetLocal, SetLocals
    <2>2. l \in Locations /\ (l \notin {"idle", "batch"} => f.alert \in Alerts)
      BY <1>0, <1>22 DEF Cancel, LocalsOK, Locations, Frame
    <2>3. Move(t, l, f)
      BY <1>22 DEF Cancel
    <2>4. QED
      BY <2>1, <2>2, <2>3, MoveType
  <1>23. ASSUME NEW t \in Threads, NEW a \in Alerts, BackfillList(t, a)
        PROVE  LocalsOK'
    <2> DEFINE f == [frame[t] EXCEPT !.alert = a, !.rec = alerts[a]]
               l == "backfill_check"
    <2>1. f \in Frame
      <3>1. alerts[a] \in Row
        BY <1>0, <1>23 DEF BackfillList, StoresOK
      <3>2. QED
        BY <1>0, <3>1, SetLocal, SetLocals
    <2>2. l \in Locations /\ (l \notin {"idle", "batch"} => f.alert \in Alerts)
      BY <1>0, <1>23 DEF BackfillList, LocalsOK, Locations, Frame
    <2>3. Move(t, l, f)
      BY <1>23 DEF BackfillList
    <2>4. QED
      BY <2>1, <2>2, <2>3, MoveType
  <1>24. ASSUME NEW t \in Threads, BackfillCheck(t)
        PROVE  LocalsOK'
    BY <1>0, <1>24, MoveType, ReturnType DEF BackfillCheck, Goto, LocalsOK, Locations
  <1>25. ASSUME NEW t \in Threads, BackfillSave(t)
        PROVE  LocalsOK'
    BY <1>25, ReturnType DEF BackfillSave
  <1>26. ASSUME NEW t \in Threads, StoreFault(t)
        PROVE  LocalsOK'
    BY <1>26, ReturnType DEF StoreFault
  <1>27. ASSUME NEW p \in Processes, Restart(p)
        PROVE  LocalsOK'
    BY <1>0, <1>27, RowConstants DEF Restart, LocalsOK, Locations
  <1>28. ASSUME NEW a \in Alerts, Lapse(a)
        PROVE  LocalsOK'
    BY <1>28 DEF Lapse, LocalsOK
  <1>29. QED
    BY <1>1, <1>2, <1>3, <1>4, <1>5, <1>6, <1>7, <1>8, <1>9, <1>10, <1>11, <1>12, <1>13, <1>14, <1>15, <1>16, <1>17, <1>18, <1>19, <1>20, <1>21, <1>22, <1>23, <1>24, <1>25, <1>26, <1>27, <1>28 DEF Next, Step, Request

(* Every step leaves the stores typed.  An event is only ever to a status, *)
(* because a thread that appends one holds a created record or a           *)
(* transition that was decided on.                                         *)
LEMMA StepStores ==
    ASSUME StoresOK, LocalsOK, LocalsBacked, Next
    PROVE  StoresOK'
  <1>0. \A t \in Threads : /\ frame[t].rec \in Row
                           /\ frame[t].goal \in Statuses \cup {"NONE"}
                           /\ frame[t].prev \in Statuses \cup {"NONE"}
                           /\ pc[t] \notin {"idle", "batch"} => frame[t].alert \in Alerts
    BY DEF LocalsOK, Frame
  <1>1. ASSUME NEW t \in Threads,
               \/ \E a \in Alerts : \/ Create(t, a) \/ Fetch(t, a) \/ NoPrice(t, a)
                                  \/ Cancel(t, a) \/ BackfillList(t, a)
                                  \/ \E late \in BOOLEAN : Push(t, a, late)
               \/ Schedule(t) \/ Refresh(t) \/ Prior(t) \/ Load(t) \/ MarkLoad(t)
               \/ \E px \in Prices : PriceLog(t, px)
               \/ Reread(t) \/ BackfillCheck(t) \/ StoreFault(t)
        PROVE  StoresOK'
    BY <1>1 DEF StoresOK, Create, Fetch, NoPrice, Cancel, BackfillList, Push, Schedule,
       Refresh, ListActive, Prior, Load, MarkLoad, PriceLog, Reread, BackfillCheck, StoreFault
  <1>2. ASSUME NEW t \in Threads, Insert(t)
        PROVE  StoresOK'
    BY <1>0, <1>2 DEF StoresOK, Insert
  <1>3. ASSUME NEW t \in Threads, CreateLog(t)
        PROVE  StoresOK'
    <2>1. frame[t].rec.status \in Statuses
      BY <1>3 DEF CreateLog, LocalsBacked, InHand, FreshRow, NoRow, Statuses, Active
    <2>2. [from |-> "NONE", to |-> frame[t].rec.status] \in Event
      BY <2>1 DEF Event
    <2>3. QED
      BY <1>0, <1>3, <2>2, AppendType DEF StoresOK, CreateLog
  <1>4. ASSUME NEW t \in Threads, CreateNote(t) \/ Emit(t)
        PROVE  StoresOK'
    BY <1>0, <1>4, NotifyType DEF StoresOK, CreateNote, Emit
  <1>5. ASSUME NEW t \in Threads, MarkSave(t)
        PROVE  StoresOK'
    BY <1>0, <1>5 DEF StoresOK, MarkSave
  <1>6. ASSUME NEW t \in Threads, MarkLog(t)
        PROVE  StoresOK'
    <2>1. frame[t].goal \in Statuses
      BY <1>6 DEF MarkLog, LocalsBacked, InHand, Marking
    <2>2. [from |-> frame[t].prev, to |-> frame[t].goal] \in Event
      BY <1>0, <2>1 DEF Event
    <2>3. QED
      BY <1>0, <1>6, <2>2, AppendType DEF StoresOK, MarkLog
  <1>7. ASSUME NEW t \in Threads, MarkSync(t) \/ Sync(t) \/ BackfillSave(t)
        PROVE  StoresOK'
    <2>1. PaperRow(frame[t].rec) \in Row
      BY <1>0, PaperRowType
    <2>2. frame[t].alert \in Alerts
      BY <1>0, <1>7 DEF MarkSync, Sync, BackfillSave
    <2>3. QED
      BY <1>7, <2>1, <2>2 DEF StoresOK, MarkSync, Sync, BackfillSave
  <1>8. ASSUME NEW t \in Threads, OpenSave(t)
        PROVE  StoresOK'
    <2>1. WithStatus(frame[t].rec, "OPEN") \in Row
      BY <1>0, WithStatusType DEF Statuses, Active
    <2>2. QED
      BY <1>0, <1>8, <2>1 DEF StoresOK, OpenSave
  <1>9. ASSUME NEW t \in Threads, OpenLog(t)
        PROVE  StoresOK'
    <2>1. [from |-> frame[t].prev, to |-> "OPEN"] \in Event
      BY <1>0 DEF Event, Statuses, Active
    <2>2. QED
      BY <1>0, <1>9, <2>1, AppendType DEF StoresOK, OpenLog
  <1>10. ASSUME NEW p \in Processes, Restart(p)
         PROVE  StoresOK'
    BY <1>10 DEF StoresOK, Restart
  <1>11. ASSUME NEW a \in Alerts, Lapse(a)
         PROVE  StoresOK'
    BY <1>11 DEF StoresOK, Lapse
  <1>12. QED
    BY <1>1, <1>2, <1>3, <1>4, <1>5, <1>6, <1>7, <1>8, <1>9, <1>10, <1>11
    DEF Next, Step, Request

(* Every step respects the bounds.                                         *)
LEMMA StepBounds ==
    ASSUME BoundsOK, Next
    PROVE  BoundsOK'
  <1>1. ASSUME NEW t \in Threads, NEW role, Asked(t, role), UNCHANGED <<faults, restarts>>
        PROVE  BoundsOK'
    BY <1>1, BoundAssumption DEF BoundsOK, Asked
  <1>2. ASSUME UNCHANGED <<requests, faults, restarts>>
        PROVE  BoundsOK'
    BY <1>2 DEF BoundsOK
  <1>3. ASSUME NEW t \in Threads, StoreFault(t)
        PROVE  BoundsOK'
    BY <1>3, BoundAssumption DEF BoundsOK, StoreFault
  <1>4. ASSUME NEW p \in Processes, Restart(p)
        PROVE  BoundsOK'
    BY <1>4, BoundAssumption DEF BoundsOK, Restart
  <1>5. ASSUME NEW t \in Threads, NEW a \in Alerts, Request(t, a)
        PROVE  BoundsOK'
    BY <1>1, <1>5 DEF Request, Create, Cancel, BackfillList, Push
  <1>6. ASSUME NEW t \in Threads, Step(t) \/ Schedule(t)
        PROVE  BoundsOK'
    BY <1>2, <1>6 DEF Step, Insert, CreateLog, CreateNote, Prior, Load, PriceLog, MarkLoad,
       MarkSave, MarkLog, MarkSync, OpenSave, OpenLog, Reread, Emit, Sync, BackfillCheck,
       BackfillSave, Schedule, ListActive
  <1>7. ASSUME NEW t \in Threads, NEW a \in Alerts, Fetch(t, a) \/ NoPrice(t, a)
        PROVE  BoundsOK'
    BY <1>2, <1>7 DEF Fetch, NoPrice
  <1>8. ASSUME NEW t \in Threads, Refresh(t)
        PROVE  BoundsOK'
    BY <1>1, <1>8 DEF Refresh, ListActive
  <1>9. ASSUME NEW a \in Alerts, Lapse(a)
        PROVE  BoundsOK'
    BY <1>2, <1>9 DEF Lapse
  <1>10. QED
    BY <1>3, <1>4, <1>5, <1>6, <1>7, <1>8, <1>9 DEF Next

LEMMA StepType ==
    ASSUME TypeOK, LocalsBacked, Next
    PROVE  TypeOK'
  BY StepStores, StepLocals, StepBounds DEF TypeOK

-----------------------------------------------------------------------------
(* What a thread holds stays backed by the alert store.                    *)

(* Rows stay, and none goes back to waiting for its entry.                 *)
Grows ==
    \A a \in Alerts :
        /\ alerts[a].status # "NONE" => alerts'[a].status # "NONE"
        /\ alerts[a].status \notin NotEntered => alerts'[a].status \notin NotEntered

LEMMA InitBacked == Init => LocalsBacked /\ StillPending
  <1> SUFFICES ASSUME Init PROVE LocalsBacked /\ StillPending
    OBVIOUS
  <1>1. LocalsBacked
    BY DEF Init, LocalsBacked, InHand, FreshId, IdleFrame, NoRow, Marking, NotEntered
  <1>2. StillPending
    BY DEF Init, StillPending, NoRow, NotEntered, Kinds
  <1>3. QED
    BY <1>1, <1>2

(* The three steps that write the alert store, all of the row in hand.     *)
LEMMA StepGrows ==
    ASSUME TypeOK, LocalsBacked, Next
    PROVE  Grows
  <1>1. CASE UNCHANGED alerts
    BY <1>1 DEF Grows
  <1>2. ASSUME NEW t \in Threads, Insert(t)
        PROVE  Grows
    <2>1. alerts[frame[t].alert].status = "NONE" /\ frame[t].rec = FreshRow
      BY <1>2 DEF Insert, LocalsBacked, InHand
    <2>2. QED
      BY <1>2, <2>1 DEF Insert, Grows, TypeOK, StoresOK, FreshRow, NoRow, NotEntered
  <1>3. ASSUME NEW t \in Threads, MarkSave(t)
        PROVE  Grows
    <2>1. frame[t].rec.status \in Statuses \ {"PENDING_ENTRY"}
      BY <1>3 DEF MarkSave, LocalsBacked, InHand, Marking
    <2>2. frame[t].rec.status \notin NotEntered
      BY <2>1 DEF NotEntered, Statuses, Active, Terminal
    <2>3. QED
      BY <1>3, <2>2 DEF MarkSave, Grows, TypeOK, StoresOK, NotEntered
  <1>4. ASSUME NEW t \in Threads, OpenSave(t)
        PROVE  Grows
    <2> DEFINE row == WithStatus(frame[t].rec, "OPEN")
    <2>1. row.status \notin NotEntered
      BY DEF WithStatus, NotEntered
    <2> HIDE DEF row
    <2>2. alerts' = [alerts EXCEPT ![frame[t].alert] = row]
      BY <1>4 DEF OpenSave, row
    <2>3. QED
      BY <2>1, <2>2 DEF Grows, TypeOK, StoresOK, NotEntered
  <1>5. QED
    BY <1>1, <1>2, <1>3, <1>4 DEF Next, Step, Request, Create, CreateLog, CreateNote, Schedule,
       Refresh, ListActive, Fetch, NoPrice, Push, Prior, Load, PriceLog, MarkLoad, MarkLog,
       MarkSync, OpenLog, Reread, Emit, Sync, Cancel, BackfillList, BackfillCheck,
       BackfillSave, StoreFault, Restart, Lapse

(* What a thread holds is backed by any later store, if the id it is about *)
(* to insert is still free.                                                *)
LEMMA KeepInHand ==
    ASSUME TypeOK, LocalsBacked, Grows, NEW u \in Threads,
           pc[u] = "insert" => alerts'[frame[u].alert] = alerts[frame[u].alert]
    PROVE  InHand(alerts', pc[u], frame[u])
  <1>1. /\ frame[u].todo \in SUBSET Alerts
        /\ pc[u] \notin {"idle", "batch"} => frame[u].alert \in Alerts
    BY DEF TypeOK, LocalsOK, Frame
  <1>2. NoRow.status \in NotEntered
    BY DEF NoRow, NotEntered
  <1>3. QED
    BY <1>1, <1>2 DEF LocalsBacked, InHand, Grows, Marking

(* A step that moves one thread on, with locals that are backed, keeps the *)
(* locals of all threads backed.                                           *)
LEMMA MoveBacked ==
    ASSUME TypeOK, LocalsBacked, Grows, NEW t \in Threads, NEW l, NEW f, Move(t, l, f),
           InHand(alerts', l, f),
           \/ f.alert \in {frame[t].alert, NoAlert}
           \/ f.alert \in Alerts /\ alerts[f.alert].status # "NONE"
           \/ \A u \in Threads \ {t} : frame[u].alert # f.alert,
           l = "insert" => \A u \in Threads \ {t} : frame[u].alert # f.alert,
           \A a \in Alerts \ {frame[t].alert} : alerts'[a] = alerts[a]
    PROVE  LocalsBacked'
  <1>1. /\ pc' = [pc EXCEPT ![t] = l] /\ frame' = [frame EXCEPT ![t] = f]
        /\ DOMAIN pc = Threads /\ DOMAIN frame = Threads
    BY DEF Move, TypeOK, LocalsOK
  <1>2. InHand(alerts', pc'[t], frame'[t]) /\ FreshId(t)'
    BY <1>1 DEF FreshId
  <1>3. ASSUME NEW u \in Threads \ {t}
        PROVE  InHand(alerts', pc'[u], frame'[u]) /\ FreshId(u)'
    <2>1. pc'[u] = pc[u] /\ frame'[u] = frame[u]
      BY <1>1, <1>3
    <2>2. pc[u] = "insert" => /\ frame[u].alert \in Alerts
                              /\ alerts[frame[u].alert].status = "NONE"
                              /\ frame[u].alert # NoAlert
                              /\ \A w \in Threads \ {u} : frame[w].alert # frame[u].alert
      BY AlertAssumption DEF TypeOK, LocalsOK, LocalsBacked, InHand, FreshId
    <2>3. InHand(alerts', pc[u], frame[u])
      BY <2>2, KeepInHand
    <2>4. FreshId(u)'
      <3> SUFFICES ASSUME pc[u] = "insert", NEW w \in Threads \ {u}
                   PROVE  frame'[w].alert # frame[u].alert
        BY <2>1 DEF FreshId
      <3>1. CASE w = t
        BY <1>1, <2>2, <3>1
      <3>2. CASE w # t
        BY <1>1, <2>2, <3>2
      <3>3. QED
        BY <3>1, <3>2
    <2>5. QED
      BY <2>1, <2>3, <2>4
  <1>4. QED
    BY <1>2, <1>3 DEF LocalsBacked

LEMMA ReturnBacked ==
    ASSUME TypeOK, LocalsBacked, UNCHANGED alerts, NEW t \in Threads, Return(t)
    PROVE  LocalsBacked'
  <1> DEFINE l == IF frame[t].todo = {} THEN "idle" ELSE "batch"
             f == [IdleFrame EXCEPT !.todo = frame[t].todo,
                                    !.late = frame[t].late \cap frame[t].todo]
  <1>1. f.alert = NoAlert /\ f.rec = NoRow /\ f.todo = frame[t].todo /\ l \in {"idle", "batch"}
    BY DEF IdleFrame
  <1>2. Move(t, l, f)
    BY DEF Return
  <1> HIDE DEF l, f
  <1>3. InHand(alerts', l, f)
    BY <1>1 DEF InHand, LocalsBacked, Marking, NoRow, NotEntered
  <1>4. Grows
    BY DEF Grows
  <1>5. QED
    BY <1>1, <1>2, <1>3, <1>4, MoveBacked

(* Every step leaves what the threads hold backed.                         *)
LEMMA StepBacked ==
    ASSUME TypeOK, LocalsBacked, Next
    PROVE  LocalsBacked'
  <1>0. Grows
    BY StepGrows
  <1>a. \A t \in Threads : /\ InHand(alerts, pc[t], frame[t])
                           /\ frame[t] \in Frame
                           /\ pc[t] \notin {"idle", "batch"} => frame[t].alert \in Alerts
    BY DEF LocalsBacked, TypeOK, LocalsOK
  <1>b. alerts \in [Alerts -> Row] /\ \A a \in Alerts : alerts[a].status \in Statuses \cup {"NONE"}
    BY DEF TypeOK, StoresOK, Row
  <1>1. ASSUME NEW t \in Threads, Insert(t)
        PROVE  LocalsBacked'
    <2>1. InHand(alerts', "create_log", frame[t])
      BY <1>1, <1>0, <1>a, <1>b DEF Insert, Grows, InHand, Marking, FreshRow, NoRow, NotEntered, Statuses, Active, Terminal
    <2>2. QED
      BY <1>1, <1>0, <1>a, <1>b, <2>1, MoveBacked DEF Insert, Goto
  <1>2. ASSUME NEW t \in Threads, CreateLog(t)
        PROVE  LocalsBacked'
    <2>1. InHand(alerts', "create_note", frame[t])
      BY <1>2, <1>0, <1>a, <1>b DEF CreateLog, Grows, InHand, Marking, FreshRow, NoRow, NotEntered, Statuses, Active, Terminal
    <2>2. QED
      BY <1>2, <1>0, <1>a, <1>b, <2>1, MoveBacked DEF CreateLog, Goto
  <1>3. ASSUME NEW t \in Threads, MarkSave(t)
        PROVE  LocalsBacked'
    <2>1. InHand(alerts', "mark_log", frame[t])
      BY <1>3, <1>0, <1>a, <1>b DEF MarkSave, Grows, InHand, Marking, FreshRow, NoRow, NotEntered, Statuses, Active, Terminal
    <2>2. QED
      BY <1>3, <1>0, <1>a, <1>b, <2>1, MoveBacked DEF MarkSave, Goto
  <1>4. ASSUME NEW t \in Threads, MarkLog(t)
        PROVE  LocalsBacked'
    <2>1. InHand(alerts', "mark_sync", frame[t])
      BY <1>4, <1>0, <1>a, <1>b DEF MarkLog, Grows, InHand, Marking, FreshRow, NoRow, NotEntered, Statuses, Active, Terminal
    <2>2. QED
      BY <1>4, <1>0, <1>a, <1>b, <2>1, MoveBacked DEF MarkLog, Goto
  <1>5. ASSUME NEW t \in Threads, OpenLog(t)
        PROVE  LocalsBacked'
    <2>1. InHand(alerts', "emit", frame[t])
      BY <1>5, <1>0, <1>a, <1>b DEF OpenLog, Grows, InHand, Marking, FreshRow, NoRow, NotEntered, Statuses, Active, Terminal
    <2>2. QED
      BY <1>5, <1>0, <1>a, <1>b, <2>1, MoveBacked DEF OpenLog, Goto
  <1>6. ASSUME NEW t \in Threads, Emit(t)
        PROVE  LocalsBacked'
    <2>1. InHand(alerts', "sync", frame[t])
      BY <1>6, <1>0, <1>a, <1>b DEF Emit, Grows, InHand, Marking, FreshRow, NoRow, NotEntered, Statuses, Active, Terminal
    <2>2. QED
      BY <1>6, <1>0, <1>a, <1>b, <2>1, MoveBacked DEF Emit, Goto
  <1>7. ASSUME NEW t \in Threads, CreateNote(t) \/ Sync(t) \/ BackfillSave(t) \/ StoreFault(t)
        PROVE  LocalsBacked'
    BY <1>7, ReturnBacked DEF CreateNote, Sync, BackfillSave, StoreFault
  <1>8. ASSUME NEW t \in Threads, NEW a \in Alerts, Create(t, a)
        PROVE  LocalsBacked'
    <2> DEFINE f == [frame[t] EXCEPT !.alert = a, !.rec = FreshRow]
               l == "insert"
    <2>1. Move(t, l, f)
      BY <1>8 DEF Create, Asked, Exists
    <2>2. l = "insert" /\ f.alert = a /\ f.rec = FreshRow /\ f.todo = frame[t].todo /\ pc[t] = "idle"
      BY <1>8, <1>a DEF Create, Asked, Exists, Frame
    <2> HIDE DEF l, f
    <2>3. InHand(alerts', l, f)
      BY <1>8, <1>0, <1>a, <1>b, <2>2 DEF Create, Asked, Exists, Grows, InHand, Marking, FreshRow, NoRow, NotEntered,
         Statuses, Active, Terminal
    <2>4. QED
      BY <1>8, <1>0, <1>a, <1>b, <2>1, <2>2, <2>3, MoveBacked DEF Create, Asked, Exists, InHand
  <1>9. ASSUME NEW t \in Threads, NEW a \in Alerts, Fetch(t, a)
        PROVE  LocalsBacked'
    <2> DEFINE f == [frame[t] EXCEPT !.alert = a, !.todo = @ \ {a}]
               l == "prior"
    <2>1. Move(t, l, f)
      BY <1>9 DEF Fetch
    <2>2. l = "prior" /\ f.alert = a /\ f.rec = frame[t].rec /\ f.todo \subseteq frame[t].todo
      BY <1>9, <1>a DEF Fetch, Frame
    <2> HIDE DEF l, f
    <2>3. InHand(alerts', l, f)
      BY <1>9, <1>0, <1>a, <1>b, <2>2 DEF Fetch, Grows, InHand, Marking, FreshRow, NoRow, NotEntered,
         Statuses, Active, Terminal
    <2>4. QED
      BY <1>9, <1>0, <1>a, <1>b, <2>1, <2>2, <2>3, MoveBacked DEF Fetch, InHand
  <1>10. ASSUME NEW t \in Threads, NEW a \in Alerts, NoPrice(t, a)
        PROVE  LocalsBacked'
    <2> DEFINE f == [frame[t] EXCEPT !.todo = @ \ {a}, !.late = @ \ {a}]
               l == IF frame[t].todo = {a} THEN "idle" ELSE "batch"
    <2>1. Move(t, l, f)
      BY <1>10 DEF NoPrice
    <2>2. l \in {"idle", "batch"} /\ f.alert = frame[t].alert /\ f.rec = frame[t].rec /\ f.todo \subseteq frame[t].todo
      BY <1>10, <1>a DEF NoPrice, Frame
    <2> HIDE DEF l, f
    <2>3. InHand(alerts', l, f)
      BY <1>10, <1>0, <1>a, <1>b, <2>2 DEF NoPrice, Grows, InHand, Marking, FreshRow, NoRow, NotEntered,
         Statuses, Active, Terminal
    <2>4. QED
      BY <1>10, <1>0, <1>a, <1>b, <2>1, <2>2, <2>3, MoveBacked DEF NoPrice, InHand
  <1>11. ASSUME NEW t \in Threads, NEW a \in Alerts, NEW late \in BOOLEAN, Push(t, a, late)
        PROVE  LocalsBacked'
    <2> DEFINE f == [frame[t] EXCEPT !.alert = a, !.late = IF late THEN {a} ELSE {}]
               l == "prior"
    <2>1. Move(t, l, f)
      BY <1>11 DEF Push, Asked, Exists
    <2>2. l = "prior" /\ f.alert = a /\ f.rec = frame[t].rec /\ f.todo = frame[t].todo /\ pc[t] = "idle"
      BY <1>11, <1>a DEF Push, Asked, Exists, Frame
    <2> HIDE DEF l, f
    <2>3. InHand(alerts', l, f)
      BY <1>11, <1>0, <1>a, <1>b, <2>2 DEF Push, Asked, Exists, Grows, InHand, Marking, FreshRow, NoRow, NotEntered,
         Statuses, Active, Terminal
    <2>4. QED
      BY <1>11, <1>0, <1>a, <1>b, <2>1, <2>2, <2>3, MoveBacked DEF Push, Asked, Exists, InHand
  <1>12. ASSUME NEW t \in Threads, NEW a \in Alerts, Cancel(t, a)
        PROVE  LocalsBacked'
    <2> DEFINE f == [frame[t] EXCEPT !.alert = a, !.goal = "CANCELLED"]
               l == "mark_load"
    <2>1. Move(t, l, f)
      BY <1>12 DEF Cancel, Asked
    <2>2. l = "mark_load" /\ f.alert = a /\ f.rec = frame[t].rec /\ f.todo = frame[t].todo /\ f.goal = "CANCELLED" /\ pc[t] = "idle"
      BY <1>12, <1>a DEF Cancel, Asked, Frame
    <2> HIDE DEF l, f
    <2>3. InHand(alerts', l, f)
      BY <1>12, <1>0, <1>a, <1>b, <2>2 DEF Cancel, Asked, Grows, InHand, Marking, FreshRow, NoRow, NotEntered,
         Statuses, Active, Terminal
    <2>4. QED
      BY <1>12, <1>0, <1>a, <1>b, <2>1, <2>2, <2>3, MoveBacked DEF Cancel, Asked, InHand
  <1>13. ASSUME NEW t \in Threads, NEW a \in Alerts, BackfillList(t, a)
        PROVE  LocalsBacked'
    <2> DEFINE f == [frame[t] EXCEPT !.alert = a, !.rec = alerts[a]]
               l == "backfill_check"
    <2>1. Move(t, l, f)
      BY <1>13 DEF BackfillList, Asked, Exists
    <2>2. l = "backfill_check" /\ f.alert = a /\ f.rec = alerts[a] /\ f.todo = frame[t].todo /\ pc[t] = "idle"
      BY <1>13, <1>a DEF BackfillList, Asked, Exists, Frame
    <2> HIDE DEF l, f
    <2>3. InHand(alerts', l, f)
      BY <1>13, <1>0, <1>a, <1>b, <2>2 DEF BackfillList, Asked, Exists, Grows, InHand, Marking, FreshRow, NoRow, NotEntered,
         Statuses, Active, Terminal
    <2>4. QED
      BY <1>13, <1>0, <1>a, <1>b, <2>1, <2>2, <2>3, MoveBacked DEF BackfillList, Asked, Exists, InHand
  <1>14. ASSUME NEW t \in Threads, Prior(t)
        PROVE  LocalsBacked'
    <2> DEFINE f == [frame[t] EXCEPT !.seen = alerts[frame[t].alert].status]
               l == "load"
    <2>1. Move(t, l, f)
      BY <1>14 DEF Prior
    <2>2. l = "load" /\ f.alert = frame[t].alert /\ f.rec = frame[t].rec /\ f.todo = frame[t].todo
      BY <1>14, <1>a DEF Prior, Frame
    <2> HIDE DEF l, f
    <2>3. InHand(alerts', l, f)
      BY <1>14, <1>0, <1>a, <1>b, <2>2 DEF Prior, Grows, InHand, Marking, FreshRow, NoRow, NotEntered,
         Statuses, Active, Terminal
    <2>4. QED
      BY <1>14, <1>0, <1>a, <1>b, <2>1, <2>2, <2>3, MoveBacked DEF Prior, InHand
  <1>15. ASSUME NEW t \in Threads, Load(t)
        PROVE  LocalsBacked'
    <2> DEFINE f == [frame[t] EXCEPT !.rec = alerts[frame[t].alert]]
               l == IF alerts[frame[t].alert].status \in Terminal THEN "emit" ELSE "price_log"
    <2>1. Move(t, l, f)
      BY <1>15 DEF Load
    <2>2. l \in {"emit", "price_log"} /\ f.alert = frame[t].alert /\ f.rec = alerts[frame[t].alert] /\ f.todo = frame[t].todo
      BY <1>15, <1>a DEF Load, Frame
    <2> HIDE DEF l, f
    <2>3. InHand(alerts', l, f)
      BY <1>15, <1>0, <1>a, <1>b, <2>2 DEF Load, Grows, InHand, Marking, FreshRow, NoRow, NotEntered,
         Statuses, Active, Terminal
    <2>4. QED
      BY <1>15, <1>0, <1>a, <1>b, <2>1, <2>2, <2>3, MoveBacked DEF Load, InHand
  <1>16. ASSUME NEW t \in Threads, Reread(t)
        PROVE  LocalsBacked'
    <2> DEFINE f == [frame[t] EXCEPT !.rec = alerts[frame[t].alert]]
               l == "emit"
    <2>1. Move(t, l, f)
      BY <1>16 DEF Reread
    <2>2. l = "emit" /\ f.alert = frame[t].alert /\ f.rec = alerts[frame[t].alert] /\ f.todo = frame[t].todo
      BY <1>16, <1>a DEF Reread, Frame
    <2> HIDE DEF l, f
    <2>3. InHand(alerts', l, f)
      BY <1>16, <1>0, <1>a, <1>b, <2>2 DEF Reread, Grows, InHand, Marking, FreshRow, NoRow, NotEntered,
         Statuses, Active, Terminal
    <2>4. QED
      BY <1>16, <1>0, <1>a, <1>b, <2>1, <2>2, <2>3, MoveBacked DEF Reread, InHand
  <1>17. ASSUME NEW t \in Threads, MarkLoad(t)
        PROVE  LocalsBacked'
    <2> DEFINE f == [frame[t] EXCEPT !.prev = alerts[frame[t].alert].status,
                                    !.rec = WithStatus(alerts[frame[t].alert], frame[t].goal)]
               l == "mark_save"
    <2>1. Move(t, l, f)
      BY <1>17 DEF MarkLoad, WithStatus
    <2>2. l = "mark_save" /\ f.alert = frame[t].alert /\ f.rec.status = frame[t].goal /\ f.todo = frame[t].todo /\ f.goal = frame[t].goal
      BY <1>17, <1>a DEF MarkLoad, WithStatus, Frame
    <2> HIDE DEF l, f
    <2>3. InHand(alerts', l, f)
      BY <1>17, <1>0, <1>a, <1>b, <2>2 DEF MarkLoad, WithStatus, Grows, InHand, Marking, FreshRow, NoRow, NotEntered,
         Statuses, Active, Terminal
    <2>4. QED
      BY <1>17, <1>0, <1>a, <1>b, <2>1, <2>2, <2>3, MoveBacked DEF MarkLoad, WithStatus, InHand
  <1>18. ASSUME NEW t \in Threads, OpenSave(t)
        PROVE  LocalsBacked'
    <2> DEFINE f == [frame[t] EXCEPT !.prev = frame[t].rec.status,
                                    !.rec = WithStatus(frame[t].rec, "OPEN")]
               l == "open_log"
    <2>1. Move(t, l, f)
      BY <1>18 DEF OpenSave, WithStatus
    <2>2. l = "open_log" /\ f.alert = frame[t].alert /\ f.rec = WithStatus(frame[t].rec, "OPEN") /\ f.rec.status = "OPEN" /\ f.todo = frame[t].todo
      BY <1>18, <1>a DEF OpenSave, WithStatus, Frame
    <2> HIDE DEF l, f
    <2>3. InHand(alerts', l, f)
      BY <1>18, <1>0, <1>a, <1>b, <2>2 DEF OpenSave, WithStatus, Grows, InHand, Marking, FreshRow, NoRow, NotEntered,
         Statuses, Active, Terminal
    <2>4. QED
      BY <1>18, <1>0, <1>a, <1>b, <2>1, <2>2, <2>3, MoveBacked DEF OpenSave, WithStatus, InHand
  <1>19. ASSUME NEW t \in Threads, NEW px \in Prices, PriceLog(t, px)
        PROVE  LocalsBacked'
    <2> DEFINE goal == Decide(frame[t].rec.status, frame[t].alert \in frame[t].late, px)
               f == [frame[t] EXCEPT !.goal = goal, !.late = @ \ {frame[t].alert}]
               l == CASE goal = "NONE" -> "reread"
                      [] goal = "OPEN" -> "open_save"
                      [] OTHER -> "mark_load"
    <2>1. Move(t, l, f)
      BY <1>19 DEF PriceLog
    <2>2. goal \in {"NONE", "ENTRY_TRIGGERED", "OPEN", "EXPIRED", "STOP_HIT", "TARGET_HIT"}
      BY DecideType
    <2> HIDE DEF goal
    <2>3. /\ l \in {"reread", "open_save", "mark_load"}
          /\ l = "mark_load" => f.goal \in Statuses \ {"PENDING_ENTRY"}
          /\ f.alert = frame[t].alert /\ f.rec = frame[t].rec /\ f.todo = frame[t].todo
      BY <1>a, <2>2 DEF Frame, Statuses, Active, Terminal
    <2> HIDE DEF l, f
    <2>4. InHand(alerts', l, f)
      BY <1>19, <1>a, <2>3 DEF PriceLog, InHand, Marking
    <2>5. QED
      BY <1>19, <1>0, <1>a, <2>1, <2>3, <2>4, MoveBacked DEF PriceLog
  <1>20. ASSUME NEW t \in Threads, MarkSync(t)
        PROVE  LocalsBacked'
    <2>1. CASE frame[t].goal = "CANCELLED"
      BY <1>20, <2>1, ReturnBacked DEF MarkSync
    <2>2. CASE frame[t].goal # "CANCELLED"
      <3> DEFINE l == IF frame[t].goal = "ENTRY_TRIGGERED" THEN "open_save" ELSE "emit"
      <3>1. Move(t, l, frame[t]) /\ l \in {"open_save", "emit"}
        BY <1>20, <2>2 DEF MarkSync, Goto
      <3> HIDE DEF l
      <3>2. InHand(alerts', l, frame[t])
        BY <1>20, <1>a, <3>1 DEF MarkSync, InHand, Marking
      <3>3. QED
        BY <1>20, <1>0, <1>a, <3>1, <3>2, MoveBacked DEF MarkSync
    <2>3. QED
      BY <2>1, <2>2
  <1>21. ASSUME NEW t \in Threads, BackfillCheck(t)
        PROVE  LocalsBacked'
    <2>1. CASE Return(t)
      BY <1>21, <2>1, ReturnBacked DEF BackfillCheck
    <2>2. CASE Goto(t, "backfill_save")
      <3>1. InHand(alerts', "backfill_save", frame[t])
        BY <1>21, <1>a DEF BackfillCheck, InHand, Marking
      <3>2. QED
        BY <1>21, <1>0, <1>a, <2>2, <3>1, MoveBacked DEF BackfillCheck, Goto
    <2>3. QED
      BY <1>21, <2>1, <2>2 DEF BackfillCheck
  <1>22. ASSUME NEW t \in Threads, Schedule(t) \/ Refresh(t)
        PROVE  LocalsBacked'
    <2> DEFINE listed == {a \in Alerts : alerts[a].status \in Active}
               f == [frame[t] EXCEPT !.todo = listed, !.late = {a \in listed : lapsed[a]}]
    <2>1. pc[t] = "idle" /\ Move(t, "batch", f) /\ UNCHANGED alerts
      BY <1>22 DEF Schedule, Refresh, ListActive, Asked
    <2>2. f.alert = frame[t].alert /\ f.rec = frame[t].rec /\ f.todo = listed
      BY <1>a DEF Frame
    <2>3. \A a \in listed : alerts[a].status # "NONE"
      BY DEF Active
    <2> HIDE DEF listed, f
    <2>4. InHand(alerts', "batch", f)
      BY <1>a, <2>1, <2>2, <2>3 DEF InHand, Marking, NoRow, NotEntered
    <2>5. QED
      BY <1>0, <1>a, <2>1, <2>2, <2>4, MoveBacked
  <1>23. ASSUME NEW p \in Processes, Restart(p)
        PROVE  LocalsBacked'
    <2>1. ASSUME NEW t \in Threads
          PROVE  InHand(alerts', pc'[t], frame'[t])
      BY <1>23, <1>a DEF Restart, InHand, Marking, IdleFrame, NoRow, NotEntered
    <2>2. ASSUME NEW t \in Threads
          PROVE  FreshId(t)'
      <3> SUFFICES ASSUME pc'[t] = "insert", NEW u \in Threads \ {t}
                   PROVE  frame'[u].alert # frame'[t].alert
        BY DEF FreshId
      <3>1. pc[t] = "insert" /\ frame'[t] = frame[t]
        BY <1>23 DEF Restart
      <3>2. frame'[u] = frame[u] \/ frame'[u].alert = NoAlert
        BY <1>23 DEF Restart, IdleFrame
      <3>3. QED
        BY <1>a, <3>1, <3>2, AlertAssumption DEF LocalsBacked, FreshId
    <2>3. QED
      BY <2>1, <2>2 DEF LocalsBacked
  <1>24. ASSUME NEW a \in Alerts, Lapse(a)
        PROVE  LocalsBacked'
    BY <1>24 DEF Lapse, LocalsBacked, FreshId, InHand
  <1>25. QED
    BY <1>1, <1>2, <1>3, <1>4, <1>5, <1>6, <1>7, <1>8, <1>9, <1>10, <1>11, <1>12, <1>13, <1>14, <1>15, <1>16, <1>17, <1>18, <1>19, <1>20, <1>21, <1>22, <1>23, <1>24 DEF Next, Step, Request

(* A step that changes nothing changes neither.                            *)
LEMMA StutterBacked ==
    ASSUME TypeOK, LocalsBacked, UNCHANGED vars
    PROVE  TypeOK' /\ LocalsBacked'
  <1>1. TypeOK'
    BY DEF vars, TypeOK, StoresOK, LocalsOK, BoundsOK
  <1>2. LocalsBacked'
    BY DEF vars, LocalsBacked, InHand, FreshId
  <1>3. QED
    BY <1>1, <1>2

LEMMA BackedInvariant == Spec => [](TypeOK /\ LocalsBacked)
  <1>1. Init => TypeOK /\ LocalsBacked
    BY InitType, InitBacked
  <1>2. TypeOK /\ LocalsBacked /\ [Next]_vars => (TypeOK /\ LocalsBacked)'
    BY StepType, StepBacked, StutterBacked
  <1>3. QED
    BY <1>1, <1>2, PTL DEF Spec

(* The stores hold only rows, events and notifications they can hold, and  *)
(* the threads of every process have only locals the code can have.        *)
THEOREM TypeCorrect == Spec => []TypeOK
  BY BackedInvariant, PTL

(* What a request or the scheduler carries from one store call to the next *)
(* is never contradicted by the alert store: the alert it works on exists, *)
(* and a status past PENDING_ENTRY in its record is one the alert has left *)
(* PENDING_ENTRY for.                                                      *)
THEOREM RecordsBacked == Spec => []LocalsBacked
  BY BackedInvariant, PTL

(* No save of a row read earlier puts an alert back to waiting for its     *)
(* entry, however many threads update, cancel and open it.                 *)
THEOREM NeverPendingAgain == Spec => PendingNeverReturns
  <1>1. TypeOK /\ LocalsBacked /\ [Next]_vars
           => [\A a \in Alerts : alerts[a].status \notin NotEntered
                                 => alerts'[a].status \notin NotEntered]_vars
    BY StepGrows DEF Grows
  <1>2. QED
    BY <1>1, BackedInvariant, PTL DEF Spec, PendingNeverReturns

-----------------------------------------------------------------------------
(* No store runs ahead of the alert store.                                 *)

(* Only what is already held by a thread, or is about a creation, is added *)
(* to the paper store, the event log and the notifications.                *)
LEMMA StillPendingKept ==
    ASSUME TypeOK, StillPending, Grows,
           \A a \in Alerts : alerts'[a].status \in NotEntered =>
               /\ paper'[a] = paper[a] \/ paper'[a].status \in NotEntered
               /\ \/ trail'[a] = trail[a]
                  \/ \E from : trail'[a] = Append(trail[a], [from |-> from, to |-> "PENDING_ENTRY"])
               /\ \A p \in Processes, k \in Kinds \ {"ALERT_CREATED"} :
                    inbox'[p][a][k] \in {0, inbox[p][a][k]}
    PROVE  StillPending'
  <1> SUFFICES ASSUME NEW a \in Alerts, alerts'[a].status \in NotEntered
               PROVE  /\ paper'[a].status \in NotEntered
                      /\ \A i \in 1..Len(trail'[a]) : trail'[a][i].to = "PENDING_ENTRY"
                      /\ \A p \in Processes, k \in Kinds \ {"ALERT_CREATED"} : inbox'[p][a][k] = 0
    BY DEF StillPending
  <1>1. /\ paper[a].status \in NotEntered
        /\ \A i \in 1..Len(trail[a]) : trail[a][i].to = "PENDING_ENTRY"
        /\ \A p \in Processes, k \in Kinds \ {"ALERT_CREATED"} : inbox[p][a][k] = 0
    BY DEF StillPending, Grows
  <1>2. \A i \in 1..Len(trail'[a]) : trail'[a][i].to = "PENDING_ENTRY"
    <2>1. CASE trail'[a] = trail[a]
      BY <1>1, <2>1
    <2>2. ASSUME NEW from, trail'[a] = Append(trail[a], [from |-> from, to |-> "PENDING_ENTRY"])
          PROVE  \A i \in 1..Len(trail'[a]) : trail'[a][i].to = "PENDING_ENTRY"
      <3> DEFINE e == [from |-> from, to |-> "PENDING_ENTRY"]
      <3>1. e.to = "PENDING_ENTRY" /\ trail[a] \in Seq(Event) /\ trail'[a] = Append(trail[a], e)
        BY <2>2 DEF TypeOK, StoresOK
      <3> HIDE DEF e
      <3>2. /\ Len(trail'[a]) = Len(trail[a]) + 1
            /\ trail'[a][Len(trail[a]) + 1] = e
            /\ \A i \in 1..Len(trail[a]) : trail'[a][i] = trail[a][i]
            /\ Len(trail[a]) \in Nat
        BY <3>1
      <3>3. QED
        BY <1>1, <3>1, <3>2
    <2>3. QED
      BY <2>1, <2>2
  <1>3. QED
    BY <1>1, <1>2

LEMMA StepStillPending ==
    ASSUME TypeOK, LocalsBacked, StillPending, Next
    PROVE  StillPending'
  <1>0. Grows
    BY StepGrows
  <1>a. \A t \in Threads : /\ InHand(alerts, pc[t], frame[t])
                           /\ frame[t].rec \in Row
                           /\ pc[t] \notin {"idle", "batch"} => frame[t].alert \in Alerts
                           /\ ProcessOf[t] \in Processes
    BY ThreadAssumption DEF LocalsBacked, TypeOK, LocalsOK, Frame
  <1>b. /\ DOMAIN paper = Alerts /\ DOMAIN trail = Alerts /\ DOMAIN inbox = Processes
        /\ \A p \in Processes : DOMAIN inbox[p] = Alerts
        /\ \A p \in Processes, a \in Alerts : inbox[p][a] \in [Kinds -> Nat]
    BY DEF TypeOK, StoresOK
  <1>1. CASE UNCHANGED <<paper, trail, inbox>>
    BY <1>0, <1>1, StillPendingKept
  <1>2. ASSUME NEW t \in Threads, MarkSync(t) \/ Sync(t) \/ BackfillSave(t)
        PROVE  StillPending'
    <2>1. /\ frame[t].alert \in Alerts /\ UNCHANGED <<alerts, trail, inbox>>
          /\ \/ UNCHANGED paper
             \/ paper' = [paper EXCEPT ![frame[t].alert] = PaperRow(frame[t].rec)]
      BY <1>a, <1>2 DEF MarkSync, Sync, BackfillSave
    <2>2. alerts[frame[t].alert].status \in NotEntered
             => PaperRow(frame[t].rec).status \in NotEntered
      BY <1>a, <1>2, PaperRowType DEF MarkSync, Sync, BackfillSave, InHand
    <2>3. QED
      BY <1>0, <1>b, <2>1, <2>2, StillPendingKept
  <1>3. ASSUME NEW t \in Threads, CreateLog(t)
        PROVE  StillPending'
    <2>1. frame[t].rec.status = "PENDING_ENTRY"
      BY <1>a, <1>3 DEF CreateLog, InHand, FreshRow, NoRow
    <2>2. QED
      BY <1>0, <1>a, <1>b, <1>3, <2>1, StillPendingKept DEF CreateLog, Append1
  <1>4. ASSUME NEW t \in Threads, MarkLog(t) \/ OpenLog(t)
        PROVE  StillPending'
    <2>1. frame[t].rec.status \notin NotEntered
      <3>1. CASE MarkLog(t)
        <4>1. frame[t].rec.status \in Statuses \ {"PENDING_ENTRY"}
          BY <1>a, <3>1 DEF MarkLog, InHand, Marking
        <4>2. QED
          BY <4>1 DEF NotEntered, Statuses, Active, Terminal
      <3>2. CASE OpenLog(t)
        BY <1>a, <3>2 DEF OpenLog, InHand, NotEntered
      <3>3. QED
        BY <1>4, <3>1, <3>2
    <2>2. alerts[frame[t].alert].status \notin NotEntered /\ frame[t].alert \in Alerts
      BY <1>a, <1>4, <2>1 DEF MarkLog, OpenLog, InHand
    <2>3. /\ UNCHANGED <<alerts, paper, inbox>>
          /\ \A a \in Alerts \ {frame[t].alert} : trail'[a] = trail[a]
      BY <1>b, <1>4 DEF MarkLog, OpenLog, Append1
    <2>4. QED
      BY <1>0, <2>2, <2>3, StillPendingKept
  <1>5. ASSUME NEW t \in Threads, CreateNote(t)
        PROVE  StillPending'
    <2>1. UNCHANGED <<alerts, paper, trail>>
      BY <1>5 DEF CreateNote
    <2>2. \A p \in Processes, a \in Alerts, k \in Kinds \ {"ALERT_CREATED"} :
             inbox'[p][a][k] = inbox[p][a][k]
      BY <1>a, <1>b, <1>5 DEF CreateNote, Notify
    <2>3. QED
      BY <1>0, <2>1, <2>2, StillPendingKept
  <1>6. ASSUME NEW t \in Threads, Emit(t)
        PROVE  StillPending'
    <2> DEFINE kinds == Notices(frame[t].seen, frame[t].rec.status)
    <2>1. UNCHANGED <<alerts, paper, trail>> /\ frame[t].alert \in Alerts
      BY <1>a, <1>6 DEF Emit
    <2>2. alerts[frame[t].alert].status \in NotEntered => kinds = {}
      <3>1. alerts[frame[t].alert].status \in NotEntered => frame[t].rec.status \in NotEntered
        BY <1>a, <1>6 DEF Emit, InHand
      <3>2. QED
        BY <3>1 DEF Notices, NotEntered
    <2> HIDE DEF kinds
    <2>3. \A p \in Processes, a \in Alerts, k \in Kinds :
             a # frame[t].alert \/ kinds = {} => inbox'[p][a][k] = inbox[p][a][k]
      BY <1>a, <1>b, <1>6, <2>1 DEF Emit, Notify, kinds
    <2>4. QED
      BY <1>0, <2>1, <2>2, <2>3, StillPendingKept
  <1>7. ASSUME NEW p \in Processes, Restart(p)
        PROVE  StillPending'
    <2>1. UNCHANGED <<alerts, paper, trail>>
      BY <1>7 DEF Restart
    <2>2. \A q \in Processes, a \in Alerts, k \in Kinds : inbox'[q][a][k] \in {0, inbox[q][a][k]}
      BY <1>b, <1>7 DEF Restart
    <2>3. QED
      BY <1>0, <2>1, <2>2, StillPendingKept
  <1>8. QED
    BY <1>1, <1>2, <1>3, <1>4, <1>5, <1>6, <1>7
    DEF Next, Step, Request, Create, Insert, Schedule, Refresh, ListActive, Fetch, NoPrice,
        Push, Prior, Load, PriceLog, MarkLoad, MarkSave, OpenSave, Reread, Cancel,
        BackfillList, BackfillCheck, StoreFault, Lapse

(* While an alert waits for its entry, its paper row shows no trade, its   *)
(* event log holds nothing but the creation and no user has been told of   *)
(* anything else, for any number of threads, crashes and failed calls.     *)
THEOREM NothingRunsAhead == Spec => []StillPending
  <1>1. Init => StillPending
    BY InitBacked
  <1>2. TypeOK /\ LocalsBacked /\ StillPending /\ [Next]_vars => StillPending'
    BY StepStillPending DEF vars, StillPending
  <1>3. QED
    BY <1>1, <1>2, BackedInvariant, PTL DEF Spec
-----------------------------------------------------------------------------
(* One thread at a time.                                                   *)

OneThread == \A t, u \in Threads : t = u

(* A row as the transitions write it: what is stamped follows from the     *)
(* status, but for a cancelled row, which may have been triggered.         *)
LegalRow(r) ==
    /\ r.status \in {"NONE", "PENDING_ENTRY", "EXPIRED"} => ~r.triggered
    /\ r.status \in {"ENTRY_TRIGGERED", "OPEN", "TARGET_HIT", "STOP_HIT"} => r.triggered
    /\ r.exited <=> r.status \in Terminal
    /\ r.exit = CASE r.status = "TARGET_HIT" -> "target"
                  [] r.status = "STOP_HIT"   -> "stop"
                  [] OTHER                   -> "none"
RowsLegal == \A a \in Alerts : LegalRow(alerts[a])

(* A paper row is a row the alert had, or the one it has.                  *)
PaperBehind ==
    \A a \in Alerts :
        \/ paper[a] = alerts[a]
        \/ LegalRow(paper[a]) /\ Rank(paper[a].status) < Rank(alerts[a].status)

(* An event is an edge of the lifecycle, of a status the alert had or has, *)
(* and starts at or after the end of the one before it.                    *)
IsEvent(from, to) == Book!Edge(from, to) \/ (from = "NONE" /\ to = "PENDING_ENTRY")
TrailBehind ==
    \A a \in Alerts : \A i \in 1..Len(trail[a]) :
        /\ IsEvent(trail[a][i].from, trail[a][i].to)
        /\ \/ trail[a][i].to = alerts[a].status
           \/ Rank(trail[a][i].to) < Rank(alerts[a].status)
        /\ i > 1 => Rank(trail[a][i-1].to) <= Rank(trail[a][i].from)

TrailUpTo(log, a, s) == \A i \in 1..Len(log[a]) : Rank(log[a][i].to) <= Rank(s)
Logged(log, a, s) == \E i \in 1..Len(log[a]) : log[a][i].to = s
Unsaid(box, a, k) == \A p \in Processes : box[p][a][k] = 0

(* What the thread holds at l is what the stores hold, and what it is      *)
(* about to append or to send has not been said before.                    *)
HandTrue(rows, log, box, l, f) ==
    LET a == f.alert
        r == rows[f.alert]
    IN  /\ l = "insert" => \A b \in Alerts : SymbolOf[b] = SymbolOf[a]
                                               => rows[b].status \notin Active
        /\ l \in {"create_log", "create_note"} => r = FreshRow
        /\ l = "create_log" => TrailUpTo(log, a, "NONE")
        /\ l = "create_note" => /\ Unsaid(box, a, "ALERT_CREATED")
                                /\ Logged(log, a, "PENDING_ENTRY")
        /\ l \in {"load", "price_log", "reread"} => f.seen = r.status
        /\ l = "price_log" => r.status \in Active
        /\ l \in {"price_log", "reread", "open_save", "open_log", "mark_log", "mark_sync",
                  "emit", "sync", "backfill_check", "backfill_save"} => f.rec = r
        /\ l = "mark_load" => /\ Book!Edge(r.status, f.goal)
                              /\ f.goal = "CANCELLED" \/ f.seen = r.status
        /\ l = "mark_save" => f.prev = r.status /\ f.rec = WithStatus(r, f.goal)
        /\ l \in {"mark_save", "mark_log", "mark_sync"} =>
              /\ Book!Edge(f.prev, f.goal)
              /\ f.goal = "CANCELLED" \/ f.seen = f.prev
        /\ l = "mark_log" => TrailUpTo(log, a, f.prev)
        /\ l \in {"open_save", "open_log"} => f.seen \in {"PENDING_ENTRY", "ENTRY_TRIGGERED"}
        /\ l = "open_save" => r.status = "ENTRY_TRIGGERED"
        /\ l = "open_log" => /\ f.prev = "ENTRY_TRIGGERED"
                             /\ TrailUpTo(log, a, "ENTRY_TRIGGERED")
        /\ l \in {"mark_sync", "emit"} =>
              \A k \in Notices(f.seen, r.status) :
                 Unsaid(box, a, k) /\ Logged(log, a, KindEvent(k))
HandsTrue == \A t \in Threads : HandTrue(alerts, trail, inbox, pc[t], frame[t])

StoresTrue == RowsLegal /\ PaperBehind /\ TrailBehind /\ NoticeIsTrue
SerialInv == StoresTrue /\ HandsTrue

LEMMA Statuses7 ==
    Statuses = {"PENDING_ENTRY", "ENTRY_TRIGGERED", "OPEN",
                "TARGET_HIT", "STOP_HIT", "EXPIRED", "CANCELLED"}
  BY DEF Statuses, Active, Terminal

(* An edge goes up in rank, from an active status.                         *)
LEMMA EdgeUp ==
    ASSUME NEW from \in Statuses \cup {"NONE"}, NEW to \in Statuses \cup {"NONE"},
           IsEvent(from, to)
    PROVE  /\ Rank(from) \in 0..4 /\ Rank(to) \in 1..4 /\ Rank(from) < Rank(to)
           /\ to \in Statuses
           /\ from # "NONE" => from \in Active /\ to \notin NotEntered
  BY Statuses7 DEF IsEvent, Book!Edge, Book!Active, Rank, Active, NotEntered

LEMMA RankType ==
    ASSUME NEW s
    PROVE  Rank(s) \in 0..4
  BY DEF Rank

(* A legal row that takes an edge is legal.                                *)
LEMMA EdgeLegal ==
    ASSUME NEW r \in Row, LegalRow(r), NEW s \in Statuses, Book!Edge(r.status, s)
    PROVE  WithStatus(r, s) \in Row /\ LegalRow(WithStatus(r, s)) /\ WithStatus(r, s).status = s
  <1>1. WithStatus(r, s) \in Row /\ WithStatus(r, s).status = s
    BY WithStatusType DEF WithStatus
  <1>2. LegalRow(WithStatus(r, s))
    BY Statuses7 DEF LegalRow, WithStatus, Book!Edge, Book!Active, Row, Terminal
  <1>3. QED
    BY <1>1, <1>2

(* The paper row of a legal row is that row.                               *)
LEMMA LegalPaper ==
    ASSUME NEW r \in Row, LegalRow(r)
    PROVE  PaperRow(r) = r
  <1>1. CASE r.status = "PENDING_ENTRY"
    <2>1. r = [status |-> "PENDING_ENTRY", triggered |-> FALSE, exited |-> FALSE, exit |-> "none"]
      BY <1>1 DEF Row, LegalRow, Terminal
    <2>2. FreshRow = [status |-> "PENDING_ENTRY", triggered |-> FALSE, exited |-> FALSE,
                      exit |-> "none"]
      <3>1. /\ FreshRow.status = "PENDING_ENTRY" /\ FreshRow.triggered = FALSE
            /\ FreshRow.exited = FALSE /\ FreshRow.exit = "none"
        BY DEF FreshRow, NoRow
      <3>2. QED
        BY <3>1, RowConstants DEF Row
    <2>3. QED
      BY <1>1, <2>1, <2>2 DEF PaperRow
  <1>2. CASE r.status # "PENDING_ENTRY"
    BY <1>2 DEF PaperRow, NeverFilled, Row, LegalRow, Terminal
  <1>3. QED
    BY <1>1, <1>2

(* Saving a row of higher rank leaves the other stores behind it.          *)
LEMMA SaveKeeps ==
    ASSUME TypeOK, StoresTrue, NEW a \in Alerts, NEW row \in Row, LegalRow(row),
           Rank(alerts[a].status) < Rank(row.status),
           alerts' = [alerts EXCEPT ![a] = row], UNCHANGED <<trail, paper, inbox>>
    PROVE  StoresTrue'
  <1>1. /\ alerts'[a] = row /\ \A b \in Alerts \ {a} : alerts'[b] = alerts[b]
        /\ \A b \in Alerts : LegalRow(alerts[b])
    BY DEF TypeOK, StoresOK, StoresTrue, RowsLegal
  <1>2. RowsLegal'
    BY <1>1 DEF RowsLegal
  <1>3. PaperBehind'
    <2> SUFFICES ASSUME NEW b \in Alerts
                 PROVE  \/ paper[b] = alerts'[b]
                        \/ LegalRow(paper[b]) /\ Rank(paper[b].status) < Rank(alerts'[b].status)
      BY DEF PaperBehind
    <2>1. \/ paper[b] = alerts[b]
          \/ LegalRow(paper[b]) /\ Rank(paper[b].status) < Rank(alerts[b].status)
      BY DEF StoresTrue, PaperBehind
    <2>2. QED
      BY <1>1, <2>1, RankType
  <1>4. TrailBehind'
    <2> SUFFICES ASSUME NEW b \in Alerts, NEW i \in 1..Len(trail[b])
                 PROVE  /\ IsEvent(trail[b][i].from, trail[b][i].to)
                        /\ \/ trail[b][i].to = alerts'[b].status
                           \/ Rank(trail[b][i].to) < Rank(alerts'[b].status)
                        /\ i > 1 => Rank(trail[b][i-1].to) <= Rank(trail[b][i].from)
      BY DEF TrailBehind
    <2>1. /\ IsEvent(trail[b][i].from, trail[b][i].to)
          /\ \/ trail[b][i].to = alerts[b].status
             \/ Rank(trail[b][i].to) < Rank(alerts[b].status)
          /\ i > 1 => Rank(trail[b][i-1].to) <= Rank(trail[b][i].from)
      BY DEF StoresTrue, TrailBehind
    <2>2. QED
      BY <1>1, <2>1, RankType
  <1>5. NoticeIsTrue'
    BY DEF StoresTrue, NoticeIsTrue
  <1>6. QED
    BY <1>2, <1>3, <1>4, <1>5 DEF StoresTrue

(* What an append leaves and adds.                                         *)
LEMMA Appended ==
    ASSUME TypeOK, NEW a \in Alerts, NEW from, NEW to, Append1(a, from, to)
    PROVE  /\ \A b \in Alerts \ {a} : trail'[b] = trail[b]
           /\ Len(trail[a]) \in Nat /\ Len(trail'[a]) = Len(trail[a]) + 1
           /\ \A i \in 1..Len(trail[a]) : trail'[a][i] = trail[a][i]
           /\ trail'[a][Len(trail'[a])].from = from
           /\ trail'[a][Len(trail'[a])].to = to
  <1> DEFINE e == [from |-> from, to |-> to]
             s == trail[a]
  <1>1. e.from = from /\ e.to = to
    OBVIOUS
  <1>2. s \in Seq(Event) /\ DOMAIN trail = Alerts
    BY DEF TypeOK, StoresOK
  <1>3. trail'[a] = Append(s, e) /\ \A b \in Alerts \ {a} : trail'[b] = trail[b]
    BY <1>2 DEF Append1
  <1> HIDE DEF e, s
  <1>4. /\ Len(s) \in Nat /\ Len(Append(s, e)) = Len(s) + 1
        /\ \A i \in 1..Len(s) : Append(s, e)[i] = s[i]
        /\ Append(s, e)[Len(s) + 1] = e
    BY <1>2
  <1>5. QED
    BY <1>1, <1>3, <1>4 DEF s

(* Appending the event that led to the alert's status.                     *)
LEMMA AppendKeeps ==
    ASSUME TypeOK, StoresTrue, NEW a \in Alerts, NEW from, NEW to, IsEvent(from, to),
           to = alerts[a].status, TrailUpTo(trail, a, from),
           Append1(a, from, to), UNCHANGED <<alerts, paper, inbox>>
    PROVE  StoresTrue' /\ Logged(trail', a, to)
  <1>1. /\ \A b \in Alerts \ {a} : trail'[b] = trail[b]
        /\ Len(trail[a]) \in Nat /\ Len(trail'[a]) = Len(trail[a]) + 1
        /\ \A i \in 1..Len(trail[a]) : trail'[a][i] = trail[a][i]
        /\ trail'[a][Len(trail'[a])].from = from
        /\ trail'[a][Len(trail'[a])].to = to
    BY Appended
  <1>2. TrailBehind'
    <2> SUFFICES ASSUME NEW b \in Alerts, NEW i \in 1..Len(trail'[b])
                 PROVE  /\ IsEvent(trail'[b][i].from, trail'[b][i].to)
                        /\ \/ trail'[b][i].to = alerts[b].status
                           \/ Rank(trail'[b][i].to) < Rank(alerts[b].status)
                        /\ i > 1 => Rank(trail'[b][i-1].to) <= Rank(trail'[b][i].from)
      BY DEF TrailBehind
    <2>1. \A c \in Alerts : \A j \in 1..Len(trail[c]) :
             /\ IsEvent(trail[c][j].from, trail[c][j].to)
             /\ \/ trail[c][j].to = alerts[c].status
                \/ Rank(trail[c][j].to) < Rank(alerts[c].status)
             /\ j > 1 => Rank(trail[c][j-1].to) <= Rank(trail[c][j].from)
      BY DEF StoresTrue, TrailBehind
    <2>2. CASE b # a \/ i \in 1..Len(trail[a])
      <3>1. CASE b # a
        BY <1>1, <2>1, <3>1
      <3>2. CASE b = a /\ i \in 1..Len(trail[a])
        <4>1. trail'[b][i] = trail[b][i] /\ (i > 1 => trail'[b][i-1] = trail[b][i-1])
          BY <1>1, <3>2
        <4>2. QED
          BY <2>1, <3>2, <4>1
      <3>3. QED
        BY <2>2, <3>1, <3>2
    <2>3. CASE b = a /\ i = Len(trail'[a])
      <3>1. i > 1 => /\ i - 1 \in 1..Len(trail[a])
                     /\ Rank(trail[a][i-1].to) <= Rank(from)
                     /\ trail'[a][i-1] = trail[a][i-1]
        BY <1>1, <2>3 DEF TrailUpTo
      <3>2. QED
        BY <1>1, <2>3, <3>1
    <2>4. QED
      BY <1>1, <2>2, <2>3
  <1>3. Logged(trail', a, to)
    BY <1>1 DEF Logged
  <1>4. NoticeIsTrue'
    <2> SUFFICES ASSUME NEW p \in Processes, NEW b \in Alerts, NEW k \in Kinds
                 PROVE  /\ inbox[p][b][k] <= 1
                        /\ inbox[p][b][k] = 1 =>
                              \E i \in 1..Len(trail'[b]) : trail'[b][i].to = KindEvent(k)
      BY DEF NoticeIsTrue
    <2>1. /\ inbox[p][b][k] <= 1
          /\ inbox[p][b][k] = 1 => \E i \in 1..Len(trail[b]) : trail[b][i].to = KindEvent(k)
      BY DEF StoresTrue, NoticeIsTrue
    <2>2. \A i \in 1..Len(trail[b]) : i \in 1..Len(trail'[b]) /\ trail'[b][i] = trail[b][i]
      BY <1>1
    <2>3. QED
      BY <2>1, <2>2
  <1>5. RowsLegal' /\ PaperBehind'
    BY DEF StoresTrue, RowsLegal, PaperBehind
  <1>6. QED
    BY <1>2, <1>3, <1>4, <1>5 DEF StoresTrue

(* Writing the paper row of the alert's row.                               *)
LEMMA PaperKeeps ==
    ASSUME TypeOK, StoresTrue, NEW a \in Alerts,
           paper' = [paper EXCEPT ![a] = PaperRow(alerts[a])],
           UNCHANGED <<alerts, trail, inbox>>
    PROVE  StoresTrue'
  <1>1. PaperRow(alerts[a]) = alerts[a]
    BY LegalPaper DEF TypeOK, StoresOK, StoresTrue, RowsLegal
  <1>2. PaperBehind'
    BY <1>1 DEF TypeOK, StoresOK, StoresTrue, PaperBehind
  <1>3. QED
    BY <1>2 DEF StoresTrue, RowsLegal, TrailBehind, NoticeIsTrue

(* What a notification leaves and adds.                                    *)
LEMMA Notified ==
    ASSUME TypeOK, NEW t \in Threads, NEW a \in Alerts, NEW kinds, Notify(t, a, kinds)
    PROVE  /\ ProcessOf[t] \in Processes
           /\ \A p \in Processes, b \in Alerts, k \in Kinds :
                inbox'[p][b][k] = IF p = ProcessOf[t] /\ b = a /\ k \in kinds
                                  THEN inbox[p][b][k] + 1 ELSE inbox[p][b][k]
  <1>1. ProcessOf[t] \in Processes
    BY ThreadAssumption
  <1>2. inbox \in [Processes -> [Alerts -> [Kinds -> Nat]]]
    BY DEF TypeOK, StoresOK
  <1>3. QED
    BY <1>1, <1>2 DEF Notify

(* Sending what has not been said and is logged.                           *)
LEMMA NotifyKeeps ==
    ASSUME TypeOK, StoresTrue, NEW t \in Threads, NEW a \in Alerts, NEW kinds,
           \A k \in kinds : Unsaid(inbox, a, k) /\ Logged(trail, a, KindEvent(k)),
           Notify(t, a, kinds), UNCHANGED <<alerts, trail, paper>>
    PROVE  StoresTrue'
  <1>1. NoticeIsTrue'
    <2> SUFFICES ASSUME NEW p \in Processes, NEW b \in Alerts, NEW k \in Kinds
                 PROVE  /\ inbox'[p][b][k] <= 1
                        /\ inbox'[p][b][k] = 1 => Logged(trail, b, KindEvent(k))
      BY DEF NoticeIsTrue, Logged
    <2>1. /\ inbox[p][b][k] <= 1
          /\ inbox[p][b][k] = 1 => Logged(trail, b, KindEvent(k))
      BY DEF StoresTrue, NoticeIsTrue, Logged
    <2>2. CASE p = ProcessOf[t] /\ b = a /\ k \in kinds
      <3>1. inbox[p][b][k] = 0 /\ Logged(trail, b, KindEvent(k))
        BY <2>2 DEF Unsaid
      <3>2. inbox'[p][b][k] = 1
        BY <2>2, <3>1, Notified
      <3>3. QED
        BY <3>1, <3>2
    <2>3. CASE ~(p = ProcessOf[t] /\ b = a /\ k \in kinds)
      BY <2>1, <2>3, Notified
    <2>4. QED
      BY <2>2, <2>3
  <1>2. QED
    BY <1>1 DEF StoresTrue, RowsLegal, PaperBehind, TrailBehind

(* What is no news: nothing changed, the entry is triggered but not done,  *)
(* the user has cancelled.                                                 *)
LEMMA NoNews ==
    ASSUME NEW s
    PROVE  /\ Notices(s, s) = {} /\ Notices(s, "CANCELLED") = {}
           /\ Notices(s, "ENTRY_TRIGGERED") = {} /\ Notices(s, "PENDING_ENTRY") = {}
  BY DEF Notices

LEMMA HandMoves ==
    ASSUME OneThread, TypeOK, NEW t \in Threads, NEW l, NEW f, Move(t, l, f),
           HandTrue(alerts', trail', inbox', l, f)
    PROVE  HandsTrue'
  <1>1. Threads = {t} /\ pc'[t] = l /\ frame'[t] = f
    BY DEF OneThread, TypeOK, LocalsOK, Move
  <1>2. QED
    BY <1>1 DEF HandsTrue

(* Between two alerts and between two requests a thread holds nothing.     *)
LEMMA HandEmpty ==
    ASSUME NEW rows, NEW log, NEW box, NEW l \in {"idle", "batch"}, NEW f
    PROVE  HandTrue(rows, log, box, l, f)
  BY DEF HandTrue

LEMMA ReturnTrue ==
    ASSUME OneThread, TypeOK, NEW t \in Threads, Return(t)
    PROVE  HandsTrue'
  <1> DEFINE l == IF frame[t].todo = {} THEN "idle" ELSE "batch"
             f == [IdleFrame EXCEPT !.todo = frame[t].todo,
                                    !.late = frame[t].late \cap frame[t].todo]
  <1>1. Move(t, l, f) /\ l \in {"idle", "batch"}
    BY DEF Return
  <1> HIDE DEF l, f
  <1>2. QED
    BY <1>1, HandMoves, HandEmpty

LEMMA StillTrue ==
    ASSUME StoresTrue, UNCHANGED <<alerts, trail, paper, inbox>>
    PROVE  StoresTrue'
  BY DEF StoresTrue, RowsLegal, PaperBehind, TrailBehind, NoticeIsTrue

(* What the thread and the stores are before a step.                       *)
LEMMA HandFacts ==
    ASSUME TypeOK, LocalsBacked, SerialInv, NEW t \in Threads
    PROVE  /\ InHand(alerts, pc[t], frame[t])
           /\ HandTrue(alerts, trail, inbox, pc[t], frame[t])
           /\ frame[t] \in Frame
           /\ pc[t] \notin {"idle", "batch"} =>
                /\ frame[t].alert \in Alerts
                /\ alerts[frame[t].alert] \in Row
                /\ LegalRow(alerts[frame[t].alert])
  BY DEF TypeOK, LocalsOK, StoresOK, LocalsBacked, SerialInv, HandsTrue, StoresTrue, RowsLegal

(* Requests begin, lists are made, alerts are fetched: no store is read    *)
(* into the hand that the hand does not agree with.                        *)
LEMMA StartTrue ==
    ASSUME OneThread, TypeOK, LocalsBacked, SerialInv, NEW t \in Threads, NEW a \in Alerts,
           \/ Request(t, a) \/ Fetch(t, a) \/ NoPrice(t, a) \/ Schedule(t) \/ Refresh(t)
    PROVE  SerialInv'
  <1>0. frame[t] \in Frame /\ alerts[a] \in Row /\ LegalRow(alerts[a])
    BY DEF TypeOK, LocalsOK, StoresOK, SerialInv, StoresTrue, RowsLegal
  <1>1. UNCHANGED <<alerts, trail, paper, inbox>>
    BY DEF Request, Create, Cancel, BackfillList, Push, Fetch, NoPrice, Schedule, Refresh,
       ListActive
  <1> SUFFICES HandsTrue'
    BY <1>1, StillTrue DEF SerialInv
  <1>2. CASE Create(t, a)
    <2> DEFINE f == [frame[t] EXCEPT !.alert = a, !.rec = FreshRow]
    <2>1. Move(t, "insert", f) /\ f.alert = a /\ ~HasActive(SymbolOf[a])
      BY <1>0, <1>2 DEF Create, Frame
    <2> HIDE DEF f
    <2>2. HandTrue(alerts', trail', inbox', "insert", f)
      BY <1>1, <2>1 DEF HandTrue, HasActive
    <2>3. QED
      BY <2>1, <2>2, HandMoves
  <1>3. CASE Cancel(t, a)
    <2> DEFINE f == [frame[t] EXCEPT !.alert = a, !.goal = "CANCELLED"]
    <2>1. /\ Move(t, "mark_load", f) /\ f.alert = a /\ f.goal = "CANCELLED"
          /\ alerts[a].status \in Active
      BY <1>0, <1>3 DEF Cancel, Frame
    <2> HIDE DEF f
    <2>2. HandTrue(alerts', trail', inbox', "mark_load", f)
      BY <1>1, <2>1 DEF HandTrue, Book!Edge, Book!Active, Active
    <2>3. QED
      BY <2>1, <2>2, HandMoves
  <1>4. CASE BackfillList(t, a)
    <2> DEFINE f == [frame[t] EXCEPT !.alert = a, !.rec = alerts[a]]
    <2>1. Move(t, "backfill_check", f) /\ f.alert = a /\ f.rec = alerts[a]
      BY <1>0, <1>4 DEF BackfillList, Frame
    <2> HIDE DEF f
    <2>2. HandTrue(alerts', trail', inbox', "backfill_check", f)
      BY <1>1, <2>1 DEF HandTrue
    <2>3. QED
      BY <2>1, <2>2, HandMoves
  <1>5. ASSUME NEW l, NEW f, Move(t, l, f), l \in {"idle", "batch", "prior"}
        PROVE  HandsTrue'
    <2>1. HandTrue(alerts', trail', inbox', l, f)
      BY <1>5 DEF HandTrue
    <2>2. QED
      BY <1>5, <2>1, HandMoves
  <1>6. ASSUME NEW late \in BOOLEAN, Push(t, a, late)
        PROVE  HandsTrue'
    BY <1>5, <1>6 DEF Push
  <1>7. CASE Fetch(t, a)
    BY <1>5, <1>7 DEF Fetch
  <1>8. CASE NoPrice(t, a)
    <2> DEFINE l == IF frame[t].todo = {a} THEN "idle" ELSE "batch"
    <2>1. Move(t, l, [frame[t] EXCEPT !.todo = @ \ {a}, !.late = @ \ {a}])
          /\ l \in {"idle", "batch"}
      BY <1>8 DEF NoPrice
    <2>2. QED
      BY <1>5, <2>1
  <1>9. CASE Schedule(t) \/ Refresh(t)
    BY <1>5, <1>9 DEF Schedule, Refresh, ListActive
  <1>10. QED
    BY <1>2, <1>3, <1>4, <1>6, <1>7, <1>8, <1>9 DEF Request

(* The steps that read: what is in hand becomes what the store holds, and  *)
(* what was decided is an edge from it.                                    *)
LEMMA ReadTrue ==
    ASSUME OneThread, TypeOK, LocalsBacked, SerialInv, NEW t \in Threads,
           \/ Prior(t) \/ Load(t) \/ (\E px \in Prices : PriceLog(t, px))
           \/ MarkLoad(t) \/ Reread(t) \/ BackfillCheck(t) \/ StoreFault(t)
    PROVE  SerialInv'
  <1> DEFINE a == frame[t].alert
             r == alerts[a]
  <1>0. /\ InHand(alerts, pc[t], frame[t])
        /\ HandTrue(alerts, trail, inbox, pc[t], frame[t])
        /\ frame[t] \in Frame
        /\ pc[t] \notin {"idle", "batch"} => a \in Alerts /\ r \in Row /\ LegalRow(r)
    BY HandFacts
  <1>1. UNCHANGED <<alerts, trail, paper, inbox>>
    BY DEF Prior, Load, PriceLog, MarkLoad, Reread, BackfillCheck, StoreFault
  <1> SUFFICES HandsTrue'
    BY <1>1, StillTrue DEF SerialInv
  <1>2. CASE Prior(t)
    <2> DEFINE f == [frame[t] EXCEPT !.seen = r.status]
    <2>1. Move(t, "load", f) /\ f.alert = a /\ f.seen = r.status
      BY <1>0, <1>2 DEF Prior, Frame
    <2> HIDE DEF f
    <2>2. HandTrue(alerts', trail', inbox', "load", f)
      BY <1>1, <2>1 DEF HandTrue
    <2>3. QED
      BY <2>1, <2>2, HandMoves
  <1>3. CASE Load(t)
    <2> DEFINE f == [frame[t] EXCEPT !.rec = r]
               l == IF r.status \in Terminal THEN "emit" ELSE "price_log"
    <2>1. /\ Move(t, l, f) /\ f.alert = a /\ f.rec = r /\ f.seen = r.status
          /\ r.status \in Statuses
      <3>1. Move(t, l, f) /\ pc[t] = "load"
        BY <1>3 DEF Load
      <3>2. f.alert = a /\ f.rec = r /\ f.seen = frame[t].seen
        BY <1>0 DEF Frame
      <3>3. r.status # "NONE" /\ frame[t].seen = r.status
        BY <1>0, <3>1 DEF HandTrue, InHand
      <3>4. QED
        BY <1>0, <3>1, <3>2, <3>3 DEF Row
    <2> HIDE DEF f
    <2>2. HandTrue(alerts', trail', inbox', l, f)
      BY <1>1, <2>1, NoNews DEF HandTrue, Statuses
    <2>3. QED
      BY <2>1, <2>2, HandMoves
  <1>4. ASSUME NEW px \in Prices, PriceLog(t, px)
        PROVE  HandsTrue'
    <2> DEFINE goal == Decide(frame[t].rec.status, a \in frame[t].late, px)
               f == [frame[t] EXCEPT !.goal = goal, !.late = @ \ {a}]
               l == CASE goal = "NONE" -> "reread"
                      [] goal = "OPEN" -> "open_save"
                      [] OTHER         -> "mark_load"
    <2>1. /\ Move(t, l, f) /\ f.alert = a /\ f.rec = r /\ f.seen = r.status
          /\ f.goal = goal /\ frame[t].rec = r
      BY <1>0, <1>4 DEF PriceLog, HandTrue, Frame
    <2>2. /\ goal = "OPEN" => r.status = "ENTRY_TRIGGERED"
          /\ goal \notin {"NONE", "OPEN"} => Book!Edge(r.status, goal)
      BY <2>1 DEF Decide, Book!Edge
    <2> HIDE DEF f, goal
    <2>3. HandTrue(alerts', trail', inbox', l, f)
      BY <1>1, <2>1, <2>2 DEF HandTrue
    <2>4. QED
      BY <2>1, <2>3, HandMoves
  <1>5. CASE MarkLoad(t)
    <2> DEFINE f == [frame[t] EXCEPT !.prev = r.status, !.rec = WithStatus(r, frame[t].goal)]
    <2>1. /\ Move(t, "mark_save", f) /\ f.alert = a /\ f.prev = r.status
          /\ f.rec = WithStatus(r, f.goal) /\ f.goal = frame[t].goal /\ f.seen = frame[t].seen
      BY <1>0, <1>5 DEF MarkLoad, Frame
    <2>2. Book!Edge(r.status, f.goal) /\ (f.goal = "CANCELLED" \/ f.seen = r.status)
      BY <1>0, <1>5, <2>1 DEF MarkLoad, HandTrue
    <2> HIDE DEF f
    <2>3. HandTrue(alerts', trail', inbox', "mark_save", f)
      BY <1>1, <2>1, <2>2 DEF HandTrue
    <2>4. QED
      BY <2>1, <2>3, HandMoves
  <1>6. CASE Reread(t)
    <2> DEFINE f == [frame[t] EXCEPT !.rec = r]
    <2>1. Move(t, "emit", f) /\ f.alert = a /\ f.rec = r /\ f.seen = r.status
      BY <1>0, <1>6 DEF Reread, HandTrue, Frame
    <2> HIDE DEF f
    <2>2. HandTrue(alerts', trail', inbox', "emit", f)
      BY <1>1, <2>1, NoNews DEF HandTrue
    <2>3. QED
      BY <2>1, <2>2, HandMoves
  <1>7. CASE BackfillCheck(t)
    <2>1. CASE Goto(t, "backfill_save")
      <3>1. HandTrue(alerts', trail', inbox', "backfill_save", frame[t])
        BY <1>0, <1>1, <1>7 DEF BackfillCheck, HandTrue
      <3>2. QED
        BY <2>1, <3>1, HandMoves DEF Goto
    <2>2. QED
      BY <1>7, <2>1, ReturnTrue DEF BackfillCheck
  <1>8. CASE StoreFault(t)
    BY <1>8, ReturnTrue DEF StoreFault
  <1>9. QED
    BY <1>2, <1>3, <1>4, <1>5, <1>6, <1>7, <1>8

(* The steps that save the alert: the row follows the lifecycle.           *)
LEMMA SaveTrue ==
    ASSUME OneThread, TypeOK, LocalsBacked, SerialInv, NEW t \in Threads,
           Insert(t) \/ MarkSave(t) \/ OpenSave(t)
    PROVE  SerialInv'
  <1> DEFINE a == frame[t].alert
             r == alerts[a]
  <1>0. /\ InHand(alerts, pc[t], frame[t])
        /\ HandTrue(alerts, trail, inbox, pc[t], frame[t])
        /\ frame[t] \in Frame
        /\ a \in Alerts /\ r \in Row /\ LegalRow(r)
    BY HandFacts DEF Insert, MarkSave, OpenSave
  <1>1. /\ UNCHANGED <<trail, paper, inbox>> /\ DOMAIN alerts = Alerts
        /\ \A i \in 1..Len(trail[a]) : Rank(trail[a][i].to) <= Rank(r.status)
    <2>1. UNCHANGED <<trail, paper, inbox>> /\ DOMAIN alerts = Alerts
      BY DEF Insert, MarkSave, OpenSave, TypeOK, StoresOK
    <2>2. ASSUME NEW i \in 1..Len(trail[a])
          PROVE  Rank(trail[a][i].to) <= Rank(r.status)
      <3>1. trail[a][i].to = r.status \/ Rank(trail[a][i].to) < Rank(r.status)
        BY <1>0 DEF SerialInv, StoresTrue, TrailBehind
      <3>2. QED
        BY <3>1, RankType
    <2>3. QED
      BY <2>1, <2>2
  <1>2. CASE Insert(t)
    <2>1. /\ frame[t].rec = FreshRow /\ r.status = "NONE"
          /\ alerts' = [alerts EXCEPT ![a] = FreshRow] /\ Move(t, "create_log", frame[t])
      BY <1>0, <1>2 DEF Insert, InHand, Goto
    <2>2. FreshRow \in Row /\ LegalRow(FreshRow) /\ Rank(r.status) < Rank(FreshRow.status)
      BY <2>1, RowConstants DEF FreshRow, NoRow, LegalRow, Terminal, Rank
    <2>3. StoresTrue'
      BY <1>0, <1>1, <2>1, <2>2, SaveKeeps DEF SerialInv
    <2>4. HandTrue(alerts', trail', inbox', "create_log", frame[t])
      BY <1>0, <1>1, <2>1 DEF HandTrue, TrailUpTo
    <2>5. QED
      BY <2>1, <2>3, <2>4, HandMoves DEF SerialInv
  <1>3. CASE MarkSave(t)
    <2> DEFINE row == frame[t].rec
               g == frame[t].goal
    <2>1. /\ row = WithStatus(r, g) /\ Book!Edge(r.status, g) /\ frame[t].prev = r.status
          /\ g \in Statuses /\ (g = "CANCELLED" \/ frame[t].seen = r.status)
          /\ alerts' = [alerts EXCEPT ![a] = row] /\ Move(t, "mark_log", frame[t])
      BY <1>0, <1>3 DEF MarkSave, InHand, HandTrue, Goto, Marking
    <2>2. row \in Row /\ LegalRow(row) /\ row.status = g /\ Rank(r.status) < Rank(row.status)
      BY <1>0, <2>1, EdgeLegal, EdgeUp DEF IsEvent, Row
    <2>3. StoresTrue'
      BY <1>0, <1>1, <2>1, <2>2, SaveKeeps DEF SerialInv
    <2>4. HandTrue(alerts', trail', inbox', "mark_log", frame[t])
      BY <1>0, <1>1, <2>1, <2>2 DEF HandTrue, TrailUpTo
    <2>5. QED
      BY <2>1, <2>3, <2>4, HandMoves DEF SerialInv
  <1>4. CASE OpenSave(t)
    <2> DEFINE row == WithStatus(r, "OPEN")
               f == [frame[t] EXCEPT !.prev = r.status, !.rec = row]
    <2>1. /\ frame[t].rec = r /\ r.status = "ENTRY_TRIGGERED"
          /\ frame[t].seen \in {"PENDING_ENTRY", "ENTRY_TRIGGERED"}
      BY <1>0, <1>4 DEF OpenSave, HandTrue
    <2>2. /\ alerts' = [alerts EXCEPT ![a] = row] /\ Move(t, "open_log", f)
          /\ f.alert = a /\ f.rec = row /\ f.prev = "ENTRY_TRIGGERED"
          /\ f.seen = frame[t].seen
      BY <1>0, <1>4, <2>1 DEF OpenSave, Frame
    <2>3. row \in Row /\ LegalRow(row) /\ Rank(r.status) < Rank(row.status)
      <3>1. "OPEN" \in Statuses /\ Book!Edge(r.status, "OPEN")
        BY <2>1 DEF Book!Edge, Statuses, Active
      <3>2. QED
        BY <1>0, <3>1, EdgeLegal, EdgeUp DEF IsEvent, Row
    <2>4. StoresTrue'
      BY <1>0, <1>1, <2>2, <2>3, SaveKeeps DEF SerialInv
    <2> HIDE DEF f, row
    <2>5. HandTrue(alerts', trail', inbox', "open_log", f)
      BY <1>0, <1>1, <2>1, <2>2 DEF HandTrue, TrailUpTo
    <2>6. QED
      BY <2>2, <2>4, <2>5, HandMoves DEF SerialInv
  <1>5. QED
    BY <1>2, <1>3, <1>4

(* The steps that log, that write the paper row and that tell the user:    *)
(* each says what the alert store holds.                                   *)
LEMMA LogTrue ==
    ASSUME OneThread, TypeOK, LocalsBacked, SerialInv, NEW t \in Threads,
           CreateLog(t) \/ MarkLog(t) \/ OpenLog(t)
    PROVE  SerialInv'
  <1> DEFINE a == frame[t].alert
             r == alerts[a]
  <1>0. /\ InHand(alerts, pc[t], frame[t])
        /\ HandTrue(alerts, trail, inbox, pc[t], frame[t])
        /\ frame[t] \in Frame
        /\ a \in Alerts /\ r \in Row /\ LegalRow(r)
    BY HandFacts DEF CreateLog, MarkLog, OpenLog
  <1>1. UNCHANGED <<alerts, paper, inbox>>
    BY DEF CreateLog, MarkLog, OpenLog
  <1>2. ASSUME NEW k \in Kinds, ~Logged(trail, a, KindEvent(k))
        PROVE  Unsaid(inbox, a, k)
    <2> SUFFICES ASSUME NEW p \in Processes
                 PROVE  inbox[p][a][k] = 0
      BY DEF Unsaid
    <2>1. inbox[p][a][k] \in Nat
      BY <1>0 DEF TypeOK, StoresOK
    <2>2. /\ inbox[p][a][k] <= 1
          /\ inbox[p][a][k] = 1 => Logged(trail, a, KindEvent(k))
      BY <1>0 DEF SerialInv, StoresTrue, NoticeIsTrue, Logged
    <2>3. QED
      BY <1>2, <2>1, <2>2
  <1>3. ASSUME NEW from, TrailUpTo(trail, a, from), NEW k \in Kinds,
               Rank(from) < Rank(KindEvent(k))
        PROVE  Unsaid(inbox, a, k)
    <2>1. ~Logged(trail, a, KindEvent(k))
      BY <1>3, RankType DEF Logged, TrailUpTo
    <2>2. QED
      BY <1>2, <2>1
  <1>4. CASE CreateLog(t)
    <2>1. /\ Append1(a, "NONE", "PENDING_ENTRY") /\ Move(t, "create_note", frame[t])
          /\ r = FreshRow /\ r.status = "PENDING_ENTRY" /\ TrailUpTo(trail, a, "NONE")
      BY <1>0, <1>4 DEF CreateLog, InHand, HandTrue, FreshRow, NoRow, Goto
    <2>2. IsEvent("NONE", "PENDING_ENTRY")
      BY DEF IsEvent
    <2>3. StoresTrue' /\ Logged(trail', a, "PENDING_ENTRY")
      BY <1>0, <1>1, <2>1, <2>2, AppendKeeps DEF SerialInv
    <2>4. Unsaid(inbox, a, "ALERT_CREATED")
      BY <1>3, <2>1 DEF Kinds, KindEvent, Rank
    <2>5. HandTrue(alerts', trail', inbox', "create_note", frame[t])
      BY <1>1, <2>1, <2>3, <2>4 DEF HandTrue
    <2>6. QED
      BY <2>1, <2>3, <2>5, HandMoves DEF SerialInv
  <1>5. CASE MarkLog(t)
    <2> DEFINE f == frame[t]
    <2>1. /\ Append1(a, f.prev, f.goal) /\ Move(t, "mark_sync", f)
          /\ f.rec = r /\ f.rec.status = f.goal /\ TrailUpTo(trail, a, f.prev)
          /\ Book!Edge(f.prev, f.goal) /\ (f.goal = "CANCELLED" \/ f.seen = f.prev)
      BY <1>0, <1>5 DEF MarkLog, InHand, HandTrue, Goto, Marking
    <2>2. IsEvent(f.prev, f.goal)
      BY <2>1 DEF IsEvent
    <2>3. StoresTrue' /\ Logged(trail', a, f.goal)
      BY <1>0, <1>1, <2>1, <2>2, AppendKeeps DEF SerialInv
    <2>4. ASSUME NEW k \in Notices(f.seen, r.status)
          PROVE  Unsaid(inbox, a, k) /\ Logged(trail', a, KindEvent(k))
      <3>1. \/ k = f.goal /\ k \in {"TARGET_HIT", "STOP_HIT", "EXPIRED"}
            \/ k = "ENTRY_TRIGGERED" /\ f.goal = "OPEN"
        BY <2>1, <2>4, NoNews DEF Notices
      <3>2. k \in Kinds /\ KindEvent(k) = f.goal
        BY <3>1 DEF Kinds, KindEvent
      <3>3. f.prev \in Statuses \cup {"NONE"} /\ f.goal \in Statuses \cup {"NONE"}
        BY <1>0 DEF Frame
      <3>4. Rank(f.prev) < Rank(f.goal)
        BY <2>2, <3>3, EdgeUp
      <3>5. QED
        BY <1>3, <2>1, <2>3, <3>2, <3>4
    <2>5. HandTrue(alerts', trail', inbox', "mark_sync", f)
      BY <1>1, <2>1, <2>4 DEF HandTrue
    <2>6. QED
      BY <2>1, <2>3, <2>5, HandMoves DEF SerialInv
  <1>6. CASE OpenLog(t)
    <2> DEFINE f == frame[t]
    <2>1. /\ Append1(a, "ENTRY_TRIGGERED", "OPEN") /\ Move(t, "emit", f)
          /\ f.rec = r /\ r.status = "OPEN" /\ TrailUpTo(trail, a, "ENTRY_TRIGGERED")
          /\ f.seen \in {"PENDING_ENTRY", "ENTRY_TRIGGERED"}
      BY <1>0, <1>6 DEF OpenLog, InHand, HandTrue, Goto
    <2>2. IsEvent("ENTRY_TRIGGERED", "OPEN")
      BY DEF IsEvent, Book!Edge
    <2>3. StoresTrue' /\ Logged(trail', a, "OPEN")
      BY <1>0, <1>1, <2>1, <2>2, AppendKeeps DEF SerialInv
    <2>4. ASSUME NEW k \in Notices(f.seen, r.status)
          PROVE  Unsaid(inbox, a, k) /\ Logged(trail', a, KindEvent(k))
      <3>1. k = "ENTRY_TRIGGERED"
        BY <2>1, <2>4 DEF Notices
      <3>2. k \in Kinds /\ KindEvent(k) = "OPEN" /\ Rank("ENTRY_TRIGGERED") < Rank("OPEN")
        BY <3>1 DEF Kinds, KindEvent, Rank
      <3>3. QED
        BY <1>3, <2>1, <2>3, <3>2
    <2>5. HandTrue(alerts', trail', inbox', "emit", f)
      BY <1>1, <2>1, <2>4 DEF HandTrue
    <2>6. QED
      BY <2>1, <2>3, <2>5, HandMoves DEF SerialInv
  <1>7. QED
    BY <1>4, <1>5, <1>6

LEMMA PaperTrue ==
    ASSUME OneThread, TypeOK, LocalsBacked, SerialInv, NEW t \in Threads,
           MarkSync(t) \/ Sync(t) \/ BackfillSave(t)
    PROVE  SerialInv'
  <1> DEFINE a == frame[t].alert
             r == alerts[a]
  <1>0. /\ HandTrue(alerts, trail, inbox, pc[t], frame[t])
        /\ frame[t] \in Frame
        /\ a \in Alerts /\ r \in Row /\ frame[t].rec = r
    BY HandFacts DEF MarkSync, Sync, BackfillSave, HandTrue
  <1>1. UNCHANGED <<alerts, trail, inbox>>
    BY DEF MarkSync, Sync, BackfillSave
  <1>2. UNCHANGED paper \/ paper' = [paper EXCEPT ![a] = PaperRow(r)]
    BY <1>0 DEF MarkSync, Sync, BackfillSave
  <1>3. StoresTrue'
    BY <1>0, <1>1, <1>2, PaperKeeps, StillTrue DEF SerialInv
  <1>4. CASE Return(t)
    BY <1>3, <1>4, ReturnTrue DEF SerialInv
  <1>5. CASE MarkSync(t) /\ frame[t].goal # "CANCELLED"
    <2> DEFINE f == frame[t]
               l == IF f.goal = "ENTRY_TRIGGERED" THEN "open_save" ELSE "emit"
    <2>1. InHand(alerts, pc[t], f) /\ pc[t] = "mark_sync"
      BY <1>5 DEF MarkSync, LocalsBacked
    <2>2. /\ Move(t, l, f) /\ r.status = f.goal
          /\ Book!Edge(f.prev, f.goal) /\ f.seen = f.prev
          /\ \A k \in Notices(f.seen, r.status) :
               Unsaid(inbox, a, k) /\ Logged(trail, a, KindEvent(k))
      BY <1>0, <1>5, <2>1 DEF MarkSync, Goto, HandTrue, InHand, Marking
    <2>3. f.goal = "ENTRY_TRIGGERED" => f.seen = "PENDING_ENTRY"
      BY <2>2 DEF Book!Edge
    <2>4. HandTrue(alerts', trail', inbox', l, f)
      BY <1>0, <1>1, <2>2, <2>3 DEF HandTrue
    <2>5. QED
      BY <1>3, <2>2, <2>4, HandMoves DEF SerialInv
  <1>6. QED
    BY <1>4, <1>5 DEF MarkSync, Sync, BackfillSave

LEMMA TellTrue ==
    ASSUME OneThread, TypeOK, LocalsBacked, SerialInv, NEW t \in Threads,
           CreateNote(t) \/ Emit(t)
    PROVE  SerialInv'
  <1> DEFINE a == frame[t].alert
             r == alerts[a]
  <1>0. HandTrue(alerts, trail, inbox, pc[t], frame[t]) /\ a \in Alerts
    BY HandFacts DEF CreateNote, Emit
  <1>1. UNCHANGED <<alerts, trail, paper>>
    BY DEF CreateNote, Emit
  <1>2. CASE CreateNote(t)
    <2>1. \A k \in {"ALERT_CREATED"} : Unsaid(inbox, a, k) /\ Logged(trail, a, KindEvent(k))
      BY <1>0, <1>2 DEF CreateNote, HandTrue, KindEvent
    <2>2. StoresTrue'
      BY <1>0, <1>1, <1>2, <2>1, NotifyKeeps DEF CreateNote, SerialInv
    <2>3. QED
      BY <1>2, <2>2, ReturnTrue DEF CreateNote, SerialInv
  <1>3. CASE Emit(t)
    <2> DEFINE kinds == Notices(frame[t].seen, frame[t].rec.status)
    <2>1. /\ frame[t].rec = r
          /\ \A k \in kinds : Unsaid(inbox, a, k) /\ Logged(trail, a, KindEvent(k))
      BY <1>0, <1>3 DEF Emit, HandTrue
    <2>2. Notify(t, a, kinds) /\ Move(t, "sync", frame[t])
      BY <1>3 DEF Emit, Goto
    <2> HIDE DEF kinds
    <2>3. StoresTrue'
      BY <1>0, <1>1, <2>1, <2>2, NotifyKeeps DEF SerialInv
    <2>4. HandTrue(alerts', trail', inbox', "sync", frame[t])
      BY <1>1, <2>1 DEF HandTrue
    <2>5. QED
      BY <2>2, <2>3, <2>4, HandMoves DEF SerialInv
  <1>4. QED
    BY <1>2, <1>3

(* A restart forgets the notifications of a process and what its threads   *)
(* held; a lapse changes nothing these are about.                          *)
LEMMA OutsideTrue ==
    ASSUME OneThread, TypeOK, SerialInv,
           (\E p \in Processes : Restart(p)) \/ (\E a \in Alerts : Lapse(a))
    PROVE  SerialInv'
  <1>1. ASSUME NEW p \in Processes, Restart(p)
        PROVE  SerialInv'
    <2>1. \A q \in Processes, a \in Alerts, k \in Kinds : inbox'[q][a][k] \in {0, inbox[q][a][k]}
      BY <1>1 DEF Restart, TypeOK, StoresOK
    <2>2. NoticeIsTrue'
      BY <1>1, <2>1 DEF Restart, SerialInv, StoresTrue, NoticeIsTrue
    <2>3. StoresTrue'
      BY <1>1, <2>2 DEF Restart, SerialInv, StoresTrue, RowsLegal, PaperBehind, TrailBehind
    <2>4. ASSUME NEW t \in Threads
          PROVE  HandTrue(alerts', trail', inbox', pc'[t], frame'[t])
      <3>1. CASE ProcessOf[t] = p
        BY <1>1, <3>1, HandEmpty DEF Restart
      <3>2. CASE ProcessOf[t] # p
        <4>1. /\ pc'[t] = pc[t] /\ frame'[t] = frame[t] /\ UNCHANGED <<alerts, trail>>
              /\ HandTrue(alerts, trail, inbox, pc[t], frame[t])
          BY <1>1, <3>2 DEF Restart, SerialInv, HandsTrue
        <4>2. ASSUME NEW k \in Kinds, Unsaid(inbox, frame[t].alert, k),
                     pc[t] \notin {"idle", "batch"}
              PROVE  Unsaid(inbox', frame[t].alert, k)
          BY <2>1, <4>2 DEF Unsaid, TypeOK, LocalsOK
        <4>3. "ALERT_CREATED" \in Kinds /\ \A x, y : Notices(x, y) \subseteq Kinds
          BY DEF Kinds, Notices
        <4>4. QED
          BY <4>1, <4>2, <4>3 DEF HandTrue
      <3>3. QED
        BY <3>1, <3>2
    <2>5. QED
      BY <2>3, <2>4 DEF SerialInv, HandsTrue
  <1>2. ASSUME NEW a \in Alerts, Lapse(a)
        PROVE  SerialInv'
    BY <1>2, StillTrue DEF Lapse, SerialInv, HandsTrue
  <1>3. QED
    BY <1>1, <1>2

LEMMA SerialStep ==
    ASSUME OneThread, TypeOK, LocalsBacked, SerialInv, [Next]_vars
    PROVE  SerialInv'
  <1>1. CASE UNCHANGED vars
    BY <1>1, StillTrue DEF vars, SerialInv, HandsTrue
  <1>2. ASSUME NEW t \in Threads, Step(t)
        PROVE  SerialInv'
    BY <1>2, ReadTrue, SaveTrue, LogTrue, PaperTrue, TellTrue DEF Step
  <1>3. ASSUME NEW t \in Threads, Schedule(t) \/ Refresh(t)
        PROVE  SerialInv'
    <2>1. PICK a \in Alerts : TRUE
      BY <1>3 DEF Schedule, Refresh, ListActive
    <2>2. QED
      BY <1>3, <2>1, StartTrue
  <1>4. QED
    BY <1>1, <1>2, <1>3, StartTrue, ReadTrue, OutsideTrue DEF Next

LEMMA SerialInit == Init => SerialInv
  <1> SUFFICES ASSUME Init PROVE SerialInv
    OBVIOUS
  <1>1. HandsTrue
    BY HandEmpty DEF Init, HandsTrue
  <1>2. RowsLegal /\ PaperBehind /\ TrailBehind
    BY DEF Init, RowsLegal, PaperBehind, TrailBehind, LegalRow, NoRow, Terminal
  <1>3. NoticeIsTrue
    BY DEF Init, NoticeIsTrue
  <1>4. QED
    BY <1>1, <1>2, <1>3 DEF SerialInv, StoresTrue

LEMMA SerialInvariant ==
    ASSUME OneThread
    PROVE  Spec => []SerialInv
  <1>1. TypeOK /\ LocalsBacked /\ SerialInv /\ [Next]_vars => SerialInv'
    BY SerialStep
  <1>2. QED
    BY <1>1, SerialInit, BackedInvariant, PTL DEF Spec

(* The records of the alert's stores tell one life of it.                  *)
LEMMA SerialRecords == TypeOK /\ SerialInv => RecordsAreTrue
  <1> SUFFICES ASSUME TypeOK, SerialInv PROVE RecordsAreTrue
    OBVIOUS
  <1>0. /\ \A a \in Alerts : alerts[a] \in Row /\ LegalRow(alerts[a])
        /\ paper \in [Alerts -> Row]
    BY DEF TypeOK, StoresOK, SerialInv, StoresTrue, RowsLegal
  <1>1. OutcomeIsTrue
    BY <1>0 DEF OutcomeIsTrue, LegalRow
  <1>2. TrailIsTrue
    <2> SUFFICES ASSUME NEW a \in Alerts, NEW i \in 1..Len(trail[a])
                 PROVE  /\ IsEvent(trail[a][i].from, trail[a][i].to)
                        /\ Rank(trail[a][i].to) <= Rank(alerts[a].status)
                        /\ i > 1 => Rank(trail[a][i-1].to) <= Rank(trail[a][i].from)
      BY DEF TrailIsTrue, IsEvent
    <2>1. QED
      BY RankType DEF SerialInv, StoresTrue, TrailBehind
  <1>3. PaperFollows
    <2> SUFFICES ASSUME NEW a \in Alerts
                 PROVE  LET p == paper[a]
                            r == alerts[a]
                        IN  /\ Rank(p.status) <= Rank(r.status)
                            /\ Rank(p.status) = Rank(r.status) =>
                                 /\ p.status = r.status
                                 /\ p.status \in {"TARGET_HIT", "STOP_HIT"} => p.exit = r.exit
                                 /\ p.status \in {"EXPIRED", "CANCELLED"}
                                       => p.exit = "none" /\ p.exited
      BY DEF PaperFollows
    <2>1. \/ paper[a] = alerts[a]
          \/ LegalRow(paper[a]) /\ Rank(paper[a].status) < Rank(alerts[a].status)
      BY DEF SerialInv, StoresTrue, PaperBehind
    <2>2. QED
      BY <1>0, <2>1, RankType DEF LegalRow, Terminal
  <1>4. QED
    BY <1>1, <1>2, <1>3 DEF RecordsAreTrue, SerialInv, StoresTrue

(* With one thread at work, what is on record of an alert is true however  *)
(* many calls fail and processes restart: its outcome, its event log, its  *)
(* paper row and what its user was told are of one life of the alert.      *)
THEOREM RecordsStayTrue ==
    ASSUME OneThread
    PROVE  Spec => []RecordsAreTrue
  BY SerialInvariant, SerialRecords, BackedInvariant, PTL

-----------------------------------------------------------------------------
(* The lifecycle implements the book.                                      *)

StatusOf == [a \in Alerts |-> alerts[a].status]

LEMMA BookStep ==
    ASSUME NEW a \in Alerts, Book!Create(a) \/ Book!Advance(a)
    PROVE  Book!Next
  BY DEF Book!Next

(* A step that saves an alert takes it along one edge, or creates it while *)
(* its symbol has no active alert.                                         *)
LEMMA SaveWalks ==
    ASSUME TypeOK, LocalsBacked, SerialInv, NEW t \in Threads,
           Insert(t) \/ MarkSave(t) \/ OpenSave(t)
    PROVE  Book!Next
  <1>b. PICK a \in Alerts : a = frame[t].alert
    BY DEF TypeOK, LocalsOK, Insert, MarkSave, OpenSave
  <1> DEFINE r == alerts[a]
  <1>0. /\ InHand(alerts, pc[t], frame[t])
        /\ HandTrue(alerts, trail, inbox, pc[t], frame[t])
        /\ a = frame[t].alert /\ r \in Row /\ LegalRow(r)
    BY <1>b, HandFacts DEF Insert, MarkSave, OpenSave
  <1>1. ASSUME NEW row, alerts' = [alerts EXCEPT ![a] = row]
        PROVE  StatusOf' = [StatusOf EXCEPT ![a] = row.status]
    BY <1>0, <1>1 DEF StatusOf, TypeOK, StoresOK
  <1>2. StatusOf[a] = r.status
    BY <1>0 DEF StatusOf
  <1>a. SUFFICES Book!Create(a) \/ Book!Advance(a)
    BY <1>0, BookStep
  <1>3. CASE Insert(t)
    <2>1. /\ r.status = "NONE" /\ alerts' = [alerts EXCEPT ![a] = FreshRow]
          /\ \A b \in Alerts : SymbolOf[b] = SymbolOf[a] => alerts[b].status \notin Active
      BY <1>0, <1>3 DEF Insert, InHand, HandTrue
    <2>2. StatusOf' = [StatusOf EXCEPT ![a] = "PENDING_ENTRY"]
      <3>1. FreshRow.status = "PENDING_ENTRY"
        BY DEF FreshRow, NoRow
      <3>2. QED
        BY <1>1, <2>1, <3>1
    <2>3. Book!Create(a)
      BY <1>0, <1>2, <2>1, <2>2 DEF Book!Create, Book!Active, Active, StatusOf
    <2>4. QED
      BY <1>0, <2>3
  <1>4. ASSUME NEW to \in Statuses, NEW row, row.status = to, Book!Edge(r.status, to),
               alerts' = [alerts EXCEPT ![a] = row]
        PROVE  Book!Advance(a)
    <2>1. StatusOf' = [StatusOf EXCEPT ![a] = to]
      BY <1>1, <1>4
    <2>2. to \in Book!Active \cup Book!Terminal
      BY <1>4 DEF Book!Active, Book!Terminal, Statuses, Active, Terminal
    <2>3. QED
      BY <1>2, <1>4, <2>1, <2>2 DEF Book!Advance, StatusOf
  <1>5. CASE MarkSave(t)
    <2>1. /\ frame[t].rec = WithStatus(r, frame[t].goal) /\ Book!Edge(r.status, frame[t].goal)
          /\ frame[t].goal \in Statuses /\ alerts' = [alerts EXCEPT ![a] = frame[t].rec]
      BY <1>0, <1>5 DEF MarkSave, InHand, HandTrue, Marking
    <2>2. frame[t].rec.status = frame[t].goal
      BY <2>1 DEF WithStatus
    <2>3. QED
      BY <1>0, <1>4, <2>1, <2>2
  <1>6. CASE OpenSave(t)
    <2>1. r.status = "ENTRY_TRIGGERED" /\ frame[t].rec = r
      BY <1>0, <1>6 DEF OpenSave, HandTrue
    <2>2. /\ alerts' = [alerts EXCEPT ![a] = WithStatus(r, "OPEN")]
          /\ WithStatus(r, "OPEN").status = "OPEN"
      <3>1. alerts' = [alerts EXCEPT ![a] = WithStatus(r, "OPEN")]
        BY <1>0, <1>6, <2>1 DEF OpenSave
      <3>2. WithStatus(r, "OPEN").status = "OPEN"
        BY DEF WithStatus
      <3>3. QED
        BY <3>1, <3>2
    <2>3. "OPEN" \in Statuses /\ Book!Edge(r.status, "OPEN")
      BY <2>1 DEF Book!Edge, Statuses, Active
    <2>4. QED
      BY <1>0, <1>4, <2>2, <2>3
  <1>7. QED
    BY <1>3, <1>5, <1>6

LEMMA StepWalks ==
    ASSUME TypeOK, LocalsBacked, SerialInv, [Next]_vars
    PROVE  Book!Next \/ UNCHANGED StatusOf
  <1>1. CASE UNCHANGED alerts
    BY <1>1 DEF StatusOf
  <1>2. ASSUME NEW t \in Threads, Insert(t) \/ MarkSave(t) \/ OpenSave(t)
        PROVE  Book!Next
    BY <1>2, SaveWalks DEF Book!Next
  <1>3. QED
    BY <1>1, <1>2 DEF Next, vars, Step, Request, Create, CreateLog, CreateNote, Schedule,
       Refresh, ListActive, Fetch, NoPrice, Push, Prior, Load, PriceLog, MarkLoad, MarkLog,
       MarkSync, OpenLog, Reread, Emit, Sync, Cancel, BackfillList, BackfillCheck,
       BackfillSave, StoreFault, Restart, Lapse

(* With one thread at work the service, its two layers and their stores    *)
(* implement the book of alerts: each save is one edge of the status graph *)
(* or the creation of a symbol's only active alert, everything else        *)
(* (reads, logs, paper rows, failures, restarts) is a stutter.             *)
THEOREM BookImplemented ==
    ASSUME OneThread
    PROVE  Spec => ImplementsBook
  <1>1. Init => Book!Init
    BY DEF Init, Book!Init, NoRow
  <1>2. TypeOK /\ LocalsBacked /\ SerialInv /\ [Next]_vars => [Book!Next]_StatusOf
    BY StepWalks
  <1>3. QED
    BY <1>1, <1>2, SerialInvariant, BackedInvariant, PTL
    DEF Spec, ImplementsBook, Book!Spec, StatusOf

-----------------------------------------------------------------------------
(* An alert is created once, whatever the threads do.                      *)

Creating == {"insert", "create_log", "create_note"}
Born(log, a) == \E i \in 1..Len(log[a]) : log[a][i].from = "NONE"

(* The thread that creates an alert is the only one to, and logs the       *)
(* creation before it announces it; every other event is appended with the *)
(* status it left.                                                         *)
HandKnown(log, box, l, f) ==
    /\ l \in {"price_log", "open_save"} => f.rec.status # "NONE"
    /\ l \in {"mark_save", "mark_log", "open_log"} => f.prev # "NONE"
    /\ l \in {"insert", "create_log"} => ~Born(log, f.alert)
    /\ l = "create_note" => Born(log, f.alert)
    /\ l \in Creating => Unsaid(box, f.alert, "ALERT_CREATED")
OneMaker(t) ==
    pc[t] \in Creating =>
        \A u \in Threads \ {t} : pc[u] \in Creating => frame[u].alert # frame[t].alert
MakersKnown ==
    \A t \in Threads : HandKnown(trail, inbox, pc[t], frame[t]) /\ OneMaker(t)

LEMMA MoveKnown ==
    ASSUME TypeOK, MakersKnown, NEW t \in Threads, NEW l, NEW f, Move(t, l, f),
           HandKnown(trail', inbox', l, f),
           l \in Creating => \/ pc[t] \in Creating /\ f.alert = frame[t].alert
                             \/ \A u \in Threads \ {t} : frame[u].alert # f.alert,
           \A u \in Threads \ {t} : pc[u] \in Creating =>
               /\ Born(trail', frame[u].alert) <=> Born(trail, frame[u].alert)
               /\ Unsaid(inbox, frame[u].alert, "ALERT_CREATED")
                     => Unsaid(inbox', frame[u].alert, "ALERT_CREATED")
    PROVE  MakersKnown'
  <1>1. /\ pc'[t] = l /\ frame'[t] = f
        /\ \A u \in Threads \ {t} : pc'[u] = pc[u] /\ frame'[u] = frame[u]
    BY DEF Move, TypeOK, LocalsOK
  <1>2. ASSUME NEW u \in Threads
        PROVE  HandKnown(trail', inbox', pc'[u], frame'[u])
    <2>1. CASE u = t
      BY <1>1, <2>1
    <2>2. CASE u # t
      BY <1>1, <2>2 DEF MakersKnown, HandKnown, Creating
    <2>3. QED
      BY <2>1, <2>2
  <1>3. ASSUME NEW u \in Threads
        PROVE  OneMaker(u)'
    <2> SUFFICES ASSUME pc'[u] \in Creating, NEW w \in Threads \ {u}, pc'[w] \in Creating
                 PROVE  frame'[w].alert # frame'[u].alert
      BY DEF OneMaker
    <2>1. CASE u = t
      BY <1>1, <2>1 DEF MakersKnown, OneMaker
    <2>2. CASE w = t
      BY <1>1, <2>2 DEF MakersKnown, OneMaker
    <2>3. CASE u # t /\ w # t
      BY <1>1, <2>3 DEF MakersKnown, OneMaker
    <2>4. QED
      BY <2>1, <2>2, <2>3
  <1>4. QED
    BY <1>2, <1>3 DEF MakersKnown

LEMMA ReturnKnown ==
    ASSUME TypeOK, MakersKnown, NEW t \in Threads, Return(t),
           \A u \in Threads \ {t} : pc[u] \in Creating =>
               /\ Born(trail', frame[u].alert) <=> Born(trail, frame[u].alert)
               /\ Unsaid(inbox, frame[u].alert, "ALERT_CREATED")
                     => Unsaid(inbox', frame[u].alert, "ALERT_CREATED")
    PROVE  MakersKnown'
  <1> DEFINE l == IF frame[t].todo = {} THEN "idle" ELSE "batch"
             f == [IdleFrame EXCEPT !.todo = frame[t].todo,
                                    !.late = frame[t].late \cap frame[t].todo]
  <1>1. Move(t, l, f) /\ l \in {"idle", "batch"}
    BY DEF Return
  <1> HIDE DEF l, f
  <1>2. HandKnown(trail', inbox', l, f) /\ l \notin Creating
    BY <1>1 DEF HandKnown, Creating
  <1>3. QED
    BY <1>1, <1>2, MoveKnown

(* The steps that neither log nor tell.                                    *)
LEMMA SilentKnown ==
    ASSUME TypeOK, LocalsBacked, MakersKnown, CreatedOnce, NEW t \in Threads, NEW a \in Alerts,
           UNCHANGED <<trail, inbox>>,
           \/ Request(t, a) \/ Fetch(t, a) \/ NoPrice(t, a) \/ Schedule(t) \/ Refresh(t)
           \/ Step(t) \/ StoreFault(t)
    PROVE  MakersKnown'
  <1>0. /\ InHand(alerts, pc[t], frame[t]) /\ frame[t] \in Frame
        /\ HandKnown(trail, inbox, pc[t], frame[t])
        /\ alerts \in [Alerts -> Row]
        /\ pc[t] \notin {"idle", "batch"} => frame[t].alert \in Alerts
    BY DEF LocalsBacked, TypeOK, LocalsOK, StoresOK, MakersKnown
  <1>1. ASSUME NEW l, NEW f, Move(t, l, f), HandKnown(trail, inbox, l, f),
               l \in Creating => \/ pc[t] \in Creating /\ f.alert = frame[t].alert
                                 \/ \A u \in Threads \ {t} : frame[u].alert # f.alert
        PROVE  MakersKnown'
    BY <1>1, MoveKnown
  <1>2. ASSUME Return(t) PROVE MakersKnown'
    BY <1>2, ReturnKnown
  <1>3. ASSUME NEW l, NEW f, Move(t, l, f),
               l \in {"idle", "batch", "prior", "load", "mark_load", "reread", "emit", "sync",
                      "mark_sync", "backfill_check", "backfill_save"}
        PROVE  MakersKnown'
    <2>1. HandKnown(trail, inbox, l, f) /\ l \notin Creating
      BY <1>3 DEF HandKnown, Creating
    <2>2. QED
      BY <1>1, <1>3, <2>1
  <1>4. CASE Create(t, a)
    <2> DEFINE f == [frame[t] EXCEPT !.alert = a, !.rec = FreshRow]
    <2>1. /\ Move(t, "insert", f) /\ f.alert = a /\ alerts[a].status = "NONE"
          /\ \A u \in Threads : frame[u].alert # a
      BY <1>0, <1>4 DEF Create, Frame, Exists
    <2>2. ~Born(trail, a)
      BY <2>1 DEF CreatedOnce, Born, Exists
    <2>3. Unsaid(inbox, a, "ALERT_CREATED")
      <3>1. \A p \in Processes : inbox[p][a]["ALERT_CREATED"] \in Nat
        BY DEF TypeOK, StoresOK, Kinds
      <3>2. \A p \in Processes : ~(inbox[p][a]["ALERT_CREATED"] > 0)
        BY <2>2 DEF CreatedOnce, Born
      <3>3. QED
        BY <3>1, <3>2 DEF Unsaid
    <2> HIDE DEF f
    <2>4. HandKnown(trail, inbox, "insert", f)
      BY <2>1, <2>2, <2>3 DEF HandKnown
    <2>5. QED
      BY <1>1, <2>1, <2>4
  <1>5. CASE \/ Cancel(t, a) \/ BackfillList(t, a) \/ Fetch(t, a) \/ NoPrice(t, a)
             \/ Schedule(t) \/ Refresh(t) \/ Prior(t) \/ Reread(t)
             \/ \E late \in BOOLEAN : Push(t, a, late)
    <2>1. CASE NoPrice(t, a)
      <3> DEFINE l == IF frame[t].todo = {a} THEN "idle" ELSE "batch"
      <3>1. /\ Move(t, l, [frame[t] EXCEPT !.todo = @ \ {a}, !.late = @ \ {a}])
            /\ l \in {"idle", "batch"}
        BY <2>1 DEF NoPrice
      <3>2. QED
        BY <1>3, <3>1
    <2>2. QED
      BY <1>3, <1>5, <2>1 DEF Cancel, BackfillList, Fetch, Schedule, Refresh, ListActive,
         Prior, Reread, Push
  <1>6. CASE Load(t)
    <2> DEFINE f == [frame[t] EXCEPT !.rec = alerts[frame[t].alert]]
               l == IF alerts[frame[t].alert].status \in Terminal THEN "emit" ELSE "price_log"
    <2>1. Move(t, l, f) /\ f.rec.status # "NONE" /\ l \in {"emit", "price_log"}
      BY <1>0, <1>6 DEF Load, Frame, InHand
    <2> HIDE DEF f, l
    <2>2. HandKnown(trail, inbox, l, f) /\ l \notin Creating
      BY <2>1 DEF HandKnown, Creating
    <2>3. QED
      BY <1>1, <2>1, <2>2
  <1>7. ASSUME NEW px \in Prices, PriceLog(t, px)
        PROVE  MakersKnown'
    <2> DEFINE goal == Decide(frame[t].rec.status, frame[t].alert \in frame[t].late, px)
               f == [frame[t] EXCEPT !.goal = goal, !.late = @ \ {frame[t].alert}]
               l == CASE goal = "NONE" -> "reread"
                      [] goal = "OPEN" -> "open_save"
                      [] OTHER         -> "mark_load"
    <2>1. Move(t, l, f) /\ f.rec = frame[t].rec /\ frame[t].rec.status # "NONE"
      BY <1>0, <1>7 DEF PriceLog, Frame, HandKnown
    <2> HIDE DEF f, goal
    <2>2. HandKnown(trail, inbox, l, f) /\ l \notin Creating
      BY <2>1 DEF HandKnown, Creating
    <2>3. QED
      BY <1>1, <2>1, <2>2
  <1>8. CASE MarkLoad(t)
    <2> DEFINE row == alerts[frame[t].alert]
               f == [frame[t] EXCEPT !.prev = row.status, !.rec = WithStatus(row, frame[t].goal)]
    <2>1. Move(t, "mark_save", f) /\ f.prev # "NONE"
      BY <1>0, <1>8 DEF MarkLoad, Frame, InHand
    <2> HIDE DEF f
    <2>2. HandKnown(trail, inbox, "mark_save", f) /\ "mark_save" \notin Creating
      BY <2>1 DEF HandKnown, Creating
    <2>3. QED
      BY <1>1, <2>1, <2>2
  <1>9. CASE OpenSave(t)
    <2> DEFINE f == [frame[t] EXCEPT !.prev = frame[t].rec.status,
                                     !.rec = WithStatus(frame[t].rec, "OPEN")]
    <2>1. Move(t, "open_log", f) /\ f.prev # "NONE"
      BY <1>0, <1>9 DEF OpenSave, Frame, HandKnown
    <2> HIDE DEF f
    <2>2. HandKnown(trail, inbox, "open_log", f) /\ "open_log" \notin Creating
      BY <2>1 DEF HandKnown, Creating
    <2>3. QED
      BY <1>1, <2>1, <2>2
  <1>10. CASE Insert(t)
    <2>1. HandKnown(trail, inbox, "create_log", frame[t]) /\ pc[t] \in Creating
      BY <1>0, <1>10 DEF Insert, HandKnown, Creating
    <2>2. QED
      BY <1>1, <1>10, <2>1 DEF Insert, Goto
  <1>11. CASE MarkSave(t)
    <2>1. HandKnown(trail, inbox, "mark_log", frame[t]) /\ "mark_log" \notin Creating
      BY <1>0, <1>11 DEF MarkSave, HandKnown, Creating
    <2>2. QED
      BY <1>1, <1>11, <2>1 DEF MarkSave, Goto
  <1>12. CASE MarkSync(t)
    <2>1. CASE frame[t].goal = "CANCELLED"
      BY <1>2, <1>12, <2>1 DEF MarkSync
    <2>2. CASE frame[t].goal # "CANCELLED"
      <3> DEFINE l == IF frame[t].goal = "ENTRY_TRIGGERED" THEN "open_save" ELSE "emit"
      <3>1. Move(t, l, frame[t]) /\ frame[t].rec.status \in Statuses
        BY <1>0, <1>12, <2>2 DEF MarkSync, Goto, InHand, Marking
      <3>2. HandKnown(trail, inbox, l, frame[t]) /\ l \notin Creating
        BY <3>1, Statuses7 DEF HandKnown, Creating
      <3> HIDE DEF l
      <3>3. QED
        BY <1>1, <3>1, <3>2
    <2>3. QED
      BY <2>1, <2>2
  <1>13. CASE \/ Sync(t) \/ BackfillCheck(t) \/ BackfillSave(t) \/ StoreFault(t)
    BY <1>2, <1>3, <1>13 DEF Sync, BackfillCheck, BackfillSave, StoreFault, Goto
  <1>14. ASSUME CreateLog(t) \/ MarkLog(t) \/ OpenLog(t) PROVE FALSE
    <2>1. \E x, from, to : x \in Alerts /\ Append1(x, from, to)
      BY <1>0, <1>14 DEF CreateLog, MarkLog, OpenLog
    <2>2. QED
      BY <2>1, Appended
  <1>15. CASE CreateNote(t)
    BY <1>2, <1>15 DEF CreateNote
  <1>16. CASE Emit(t)
    BY <1>3, <1>16 DEF Emit, Goto
  <1>17. QED
    BY <1>4, <1>5, <1>6, <1>7, <1>8, <1>9, <1>10, <1>11, <1>12, <1>13, <1>14, <1>15, <1>16
    DEF Request, Step

(* An event of a transition, or the creation of an alert that has none.    *)
LEMMA AppendOnce ==
    ASSUME TypeOK, CreatedOnce, Grows, NEW a \in Alerts, NEW from, NEW to,
           Append1(a, from, to), UNCHANGED inbox,
           from = "NONE" => ~Born(trail, a) /\ alerts'[a].status # "NONE"
    PROVE  CreatedOnce' /\ (Born(trail, a) \/ from = "NONE" <=> Born(trail', a))
  <1>1. /\ \A b \in Alerts \ {a} : trail'[b] = trail[b]
        /\ Len(trail[a]) \in Nat /\ Len(trail'[a]) = Len(trail[a]) + 1
        /\ \A i \in 1..Len(trail[a]) : trail'[a][i] = trail[a][i]
        /\ trail'[a][Len(trail'[a])].from = from
    BY Appended
  <1>2. Born(trail, a) \/ from = "NONE" <=> Born(trail', a)
    <2>1. ASSUME NEW i \in 1..Len(trail[a]), trail[a][i].from = "NONE"
          PROVE  Born(trail', a)
      BY <1>1, <2>1 DEF Born
    <2>2. CASE from = "NONE"
      BY <1>1, <2>2 DEF Born
    <2>3. ASSUME NEW i \in 1..Len(trail'[a]), trail'[a][i].from = "NONE"
          PROVE  Born(trail, a) \/ from = "NONE"
      BY <1>1, <2>3 DEF Born
    <2>4. QED
      BY <2>1, <2>2, <2>3 DEF Born
  <1>3. ASSUME NEW b \in Alerts, NEW i \in 1..Len(trail'[b]), trail'[b][i].from = "NONE"
        PROVE  /\ alerts'[b].status # "NONE"
               /\ \A j \in 1..Len(trail'[b]) : trail'[b][j].from = "NONE" => i = j
    <2>1. \A c \in Alerts : \A k \in 1..Len(trail[c]) : trail[c][k].from = "NONE" =>
             /\ alerts'[c].status # "NONE"
             /\ \A j \in 1..Len(trail[c]) : trail[c][j].from = "NONE" => k = j
      BY DEF CreatedOnce, Grows, Exists
    <2>2. CASE b # a
      BY <1>1, <1>3, <2>1, <2>2
    <2>3. CASE b = a /\ from # "NONE"
      <3>1. \A j \in 1..Len(trail'[a]) : trail'[a][j].from = "NONE" =>
               j \in 1..Len(trail[a]) /\ trail[a][j].from = "NONE"
        BY <1>1, <2>3
      <3>2. QED
        BY <1>3, <2>1, <2>3, <3>1
    <2>4. CASE b = a /\ from = "NONE"
      <3>1. \A j \in 1..Len(trail'[a]) : trail'[a][j].from = "NONE" => j = Len(trail'[a])
        BY <1>1, <2>4 DEF Born
      <3>2. QED
        BY <1>3, <2>4, <3>1
    <2>5. QED
      BY <2>2, <2>3, <2>4
  <1>4. ASSUME NEW b \in Alerts, Born(trail, b)
        PROVE  Born(trail', b)
    BY <1>1, <1>2, <1>4 DEF Born
  <1>5. QED
    BY <1>2, <1>3, <1>4 DEF CreatedOnce, Exists, Born

LEMMA StepMakers ==
    ASSUME TypeOK, LocalsBacked, MakersKnown, CreatedOnce, Next
    PROVE  MakersKnown' /\ CreatedOnce'
  <1>0. Grows
    BY StepGrows
  <1>1. CASE UNCHANGED <<trail, inbox>>
    <2>1. CreatedOnce'
      BY <1>0, <1>1 DEF Grows, CreatedOnce, Exists
    <2>2. ASSUME NEW t \in Threads, Step(t) \/ Schedule(t) \/ Refresh(t) \/ StoreFault(t)
          PROVE  MakersKnown'
      <3>1. CASE Alerts = {}
        <4>1. pc[t] = "idle" \/ pc[t] = "batch"
          BY <3>1 DEF TypeOK, LocalsOK
        <4>2. QED
          BY <2>2, <3>1, <4>1 DEF Step, Schedule, Refresh, ListActive, StoreFault, AtStore,
             Insert, CreateLog, CreateNote, Prior, Load, PriceLog, MarkLoad, MarkSave, MarkLog,
             MarkSync, OpenSave, OpenLog, Reread, Emit, Sync, BackfillCheck, BackfillSave
      <3>2. CASE Alerts # {}
        BY <1>1, <2>2, <3>2, SilentKnown
      <3>3. QED
        BY <3>1, <3>2
    <2>3. ASSUME NEW t \in Threads, NEW a \in Alerts, Request(t, a) \/ Fetch(t, a) \/ NoPrice(t, a)
          PROVE  MakersKnown'
      BY <1>1, <2>3, SilentKnown
    <2>4. ASSUME NEW p \in Processes, Restart(p)
          PROVE  MakersKnown'
      BY <1>1, <2>4 DEF Restart, MakersKnown, HandKnown, OneMaker, Creating
    <2>5. ASSUME NEW a \in Alerts, Lapse(a)
          PROVE  MakersKnown'
      BY <1>1, <2>5 DEF Lapse, MakersKnown, HandKnown, OneMaker
    <2>6. QED
      BY <2>1, <2>2, <2>3, <2>4, <2>5 DEF Next
  <1>2. ASSUME NEW t \in Threads, CreateLog(t) \/ MarkLog(t) \/ OpenLog(t)
        PROVE  MakersKnown' /\ CreatedOnce'
    <2> DEFINE f == frame[t]
    <2>0. /\ f.alert \in Alerts /\ InHand(alerts, pc[t], f)
          /\ HandKnown(trail, inbox, pc[t], f) /\ OneMaker(t)
          /\ UNCHANGED <<alerts, inbox>>
      BY <1>2 DEF CreateLog, MarkLog, OpenLog, TypeOK, LocalsOK, LocalsBacked, MakersKnown
    <2>1. CASE CreateLog(t)
      <3>1. PICK to : Append1(f.alert, "NONE", to) /\ Move(t, "create_note", f)
        BY <2>1 DEF CreateLog, Goto
      <3>2. ~Born(trail, f.alert) /\ alerts'[f.alert].status # "NONE"
            /\ Unsaid(inbox, f.alert, "ALERT_CREATED") /\ pc[t] \in Creating
        BY <2>0, <2>1 DEF CreateLog, HandKnown, InHand, Creating
      <3>3. CreatedOnce' /\ Born(trail', f.alert)
        BY <1>0, <2>0, <3>1, <3>2, AppendOnce
      <3>4. HandKnown(trail', inbox', "create_note", f)
        BY <2>0, <3>2, <3>3 DEF HandKnown
      <3>5. ASSUME NEW u \in Threads \ {t}, pc[u] \in Creating
            PROVE  /\ Born(trail', frame[u].alert) <=> Born(trail, frame[u].alert)
                   /\ Unsaid(inbox, frame[u].alert, "ALERT_CREATED")
                        => Unsaid(inbox', frame[u].alert, "ALERT_CREATED")
        <4>1. frame[u].alert # f.alert /\ frame[u].alert \in Alerts
          BY <2>0, <3>2, <3>5 DEF OneMaker, TypeOK, LocalsOK, Creating
        <4>2. trail'[frame[u].alert] = trail[frame[u].alert]
          BY <2>0, <3>1, <4>1, Appended
        <4>3. QED
          BY <2>0, <4>2 DEF Born
      <3>6. QED
        BY <3>1, <3>2, <3>3, <3>4, <3>5, MoveKnown
    <2>2. CASE MarkLog(t) \/ OpenLog(t)
      <3>1. PICK l, from, to :
               /\ l \in {"mark_sync", "emit"}
               /\ Append1(f.alert, from, to) /\ Move(t, l, f) /\ from # "NONE"
        BY <2>0, <2>2 DEF MarkLog, OpenLog, Goto, HandKnown
      <3>2. CreatedOnce' /\ (Born(trail, f.alert) <=> Born(trail', f.alert))
        BY <1>0, <2>0, <3>1, AppendOnce
      <3>3. HandKnown(trail', inbox', l, f) /\ l \notin Creating
        BY <3>1 DEF HandKnown, Creating
      <3>4. ASSUME NEW u \in Threads \ {t}, pc[u] \in Creating
            PROVE  /\ Born(trail', frame[u].alert) <=> Born(trail, frame[u].alert)
                   /\ Unsaid(inbox, frame[u].alert, "ALERT_CREATED")
                        => Unsaid(inbox', frame[u].alert, "ALERT_CREATED")
        <4>1. frame[u].alert \in Alerts
          BY <3>4 DEF TypeOK, LocalsOK, Creating
        <4>2. \/ frame[u].alert = f.alert
              \/ trail'[frame[u].alert] = trail[frame[u].alert]
          BY <2>0, <3>1, <4>1, Appended
        <4>3. QED
          BY <2>0, <3>2, <4>2 DEF Born
      <3>5. QED
        BY <3>1, <3>2, <3>3, <3>4, MoveKnown
    <2>3. QED
      BY <1>2, <2>1, <2>2
  <1>3. ASSUME NEW t \in Threads, CreateNote(t)
        PROVE  MakersKnown' /\ CreatedOnce'
    <2> DEFINE a == frame[t].alert
    <2>0. /\ a \in Alerts /\ Born(trail, a) /\ Unsaid(inbox, a, "ALERT_CREATED") /\ OneMaker(t)
          /\ UNCHANGED <<alerts, trail>> /\ pc[t] \in Creating /\ Return(t)
          /\ Notify(t, a, {"ALERT_CREATED"})
      BY <1>3 DEF CreateNote, TypeOK, LocalsOK, MakersKnown, HandKnown, Creating
    <2>1. /\ ProcessOf[t] \in Processes
          /\ \A p \in Processes, b \in Alerts :
               inbox'[p][b]["ALERT_CREATED"] =
                  IF p = ProcessOf[t] /\ b = a THEN inbox[p][b]["ALERT_CREATED"] + 1
                                               ELSE inbox[p][b]["ALERT_CREATED"]
      BY <2>0, Notified DEF Kinds
    <2>2. ASSUME NEW u \in Threads \ {t}, pc[u] \in Creating
          PROVE  /\ Born(trail', frame[u].alert) <=> Born(trail, frame[u].alert)
                 /\ Unsaid(inbox, frame[u].alert, "ALERT_CREATED")
                      => Unsaid(inbox', frame[u].alert, "ALERT_CREATED")
      <3>1. frame[u].alert # a /\ frame[u].alert \in Alerts
        BY <2>0, <2>2 DEF OneMaker, TypeOK, LocalsOK, Creating
      <3>2. QED
        BY <2>0, <2>1, <3>1 DEF Born, Unsaid
    <2>3. MakersKnown'
      BY <2>0, <2>2, ReturnKnown
    <2>4. ASSUME NEW b \in Alerts, NEW p \in Processes, NEW q \in Processes,
                 inbox'[p][b]["ALERT_CREATED"] > 0
          PROVE  /\ Born(trail, b) /\ inbox'[p][b]["ALERT_CREATED"] = 1
                 /\ inbox'[q][b]["ALERT_CREATED"] > 0 => p = q
      <3>1. CASE b = a
        BY <2>0, <2>1, <2>4, <3>1 DEF Unsaid
      <3>2. CASE b # a
        BY <2>1, <2>4, <3>2 DEF CreatedOnce, Born
      <3>3. QED
        BY <3>1, <3>2
    <2>5. CreatedOnce'
      BY <2>0, <2>4 DEF CreatedOnce, Exists, Born
    <2>6. QED
      BY <2>3, <2>5
  <1>4. ASSUME NEW t \in Threads, Emit(t)
        PROVE  MakersKnown' /\ CreatedOnce'
    <2> DEFINE a == frame[t].alert
               kinds == Notices(frame[t].seen, frame[t].rec.status)
    <2>0. /\ a \in Alerts /\ UNCHANGED <<alerts, trail>> /\ Move(t, "sync", frame[t])
          /\ Notify(t, a, kinds) /\ "ALERT_CREATED" \notin kinds
      BY <1>4 DEF Emit, Goto, TypeOK, LocalsOK, Notices
    <2> HIDE DEF kinds
    <2>1. \A p \in Processes, b \in Alerts :
             inbox'[p][b]["ALERT_CREATED"] = inbox[p][b]["ALERT_CREATED"]
      BY <2>0, Notified DEF Kinds
    <2>2. CreatedOnce'
      BY <2>0, <2>1 DEF CreatedOnce, Exists
    <2>3. HandKnown(trail', inbox', "sync", frame[t]) /\ "sync" \notin Creating
      BY DEF HandKnown, Creating
    <2>4. ASSUME NEW u \in Threads \ {t}, pc[u] \in Creating
          PROVE  /\ Born(trail', frame[u].alert) <=> Born(trail, frame[u].alert)
                 /\ Unsaid(inbox, frame[u].alert, "ALERT_CREATED")
                      => Unsaid(inbox', frame[u].alert, "ALERT_CREATED")
      BY <2>0, <2>1, <2>4 DEF Born, Unsaid, TypeOK, LocalsOK, Creating
    <2>5. QED
      BY <2>0, <2>2, <2>3, <2>4, MoveKnown
  <1>5. ASSUME NEW p \in Processes, Restart(p)
        PROVE  MakersKnown' /\ CreatedOnce'
    <2>1. \A q \in Processes, b \in Alerts :
             inbox'[q][b]["ALERT_CREATED"] \in {0, inbox[q][b]["ALERT_CREATED"]}
      BY <1>5 DEF Restart, TypeOK, StoresOK, Kinds
    <2>2. CreatedOnce'
      BY <1>5, <2>1 DEF Restart, CreatedOnce, Exists
    <2>3. ASSUME NEW t \in Threads
          PROVE  HandKnown(trail', inbox', pc'[t], frame'[t])
      <3>1. CASE ProcessOf[t] = p
        BY <1>5, <3>1 DEF Restart, HandKnown, Creating
      <3>2. CASE ProcessOf[t] # p
        BY <1>5, <2>1, <3>2 DEF Restart, MakersKnown, HandKnown, Creating, Unsaid, TypeOK, LocalsOK
      <3>3. QED
        BY <3>1, <3>2
    <2>4. ASSUME NEW t \in Threads
          PROVE  OneMaker(t)'
      BY <1>5 DEF Restart, MakersKnown, OneMaker, Creating
    <2>5. QED
      BY <2>2, <2>3, <2>4 DEF MakersKnown
  <1>6. QED
    BY <1>1, <1>2, <1>3, <1>4, <1>5
    DEF Next, Step, Request, Create, Insert, Schedule, Refresh, ListActive, Fetch, NoPrice,
        Push, Prior, Load, PriceLog, MarkLoad, MarkSave, MarkSync, OpenSave, Reread, Sync, Cancel,
        BackfillList, BackfillCheck, BackfillSave, StoreFault, Lapse

(* Whatever requests, schedulers, failures and restarts do together, an    *)
(* alert has one CREATED event and one ALERT_CREATED notification at most, *)
(* and neither before its row exists.                                      *)
THEOREM OneCreation == Spec => []CreatedOnce
  <1>1. Init => MakersKnown /\ CreatedOnce
    BY DEF Init, MakersKnown, HandKnown, OneMaker, Creating, CreatedOnce, Kinds
  <1>2. TypeOK /\ LocalsBacked /\ MakersKnown /\ CreatedOnce /\ [Next]_vars
           => MakersKnown' /\ CreatedOnce'
    <2>1. ASSUME MakersKnown, CreatedOnce, UNCHANGED vars
          PROVE  MakersKnown' /\ CreatedOnce'
      BY <2>1 DEF vars, MakersKnown, HandKnown, OneMaker, CreatedOnce, Exists, Born, Unsaid
    <2>2. QED
      BY <2>1, StepMakers
  <1>3. QED
    BY <1>1, <1>2, BackedInvariant, PTL DEF Spec
-----------------------------------------------------------------------------
(* Nothing failing: the records are complete but for what the thread has   *)
(* still to write.                                                         *)

(* The event log is an unbroken walk from creation to status s.            *)
Walk(log, s) ==
    /\ s = "NONE" <=> Len(log) = 0
    /\ Len(log) > 0 => log[Len(log)].to = s
    /\ \A i \in 1..Len(log) : log[i].from = IF i = 1 THEN "NONE" ELSE log[i-1].to

Told(box, a, k) == \E p \in Processes : box[p][a][k] > 0

(* The records of alert a, when the thread is at l with locals f: each is  *)
(* complete, or what it lacks is written by a call the thread comes to.    *)
Caught(rows, log, pap, box, l, f, a) ==
    LET s == rows[a].status
        at(L) == l \in L /\ f.alert = a
        news(k) == /\ at({"open_log", "mark_log", "mark_sync", "emit"})
                   /\ k \in Notices(f.seen, s)
    IN  /\ at({"mark_log", "open_log"}) => Walk(log[a], f.prev)
        /\ ~at({"mark_log", "open_log", "insert", "create_log"}) => Walk(log[a], s)
        /\ at({"insert", "create_log"}) => Walk(log[a], "NONE")
        /\ \/ s \in NotEntered \/ pap[a].status = s
           \/ at({"mark_log", "mark_sync", "open_log", "emit", "sync"})
        /\ s # "NONE" => Told(box, a, "ALERT_CREATED") \/ at({"create_log", "create_note"})
        /\ s \in {"OPEN", "TARGET_HIT", "STOP_HIT"}
              => Told(box, a, "ENTRY_TRIGGERED") \/ news("ENTRY_TRIGGERED")
        /\ s \in {"TARGET_HIT", "STOP_HIT", "EXPIRED"} => Told(box, a, s) \/ news(s)

NoFailure == faults = 0 /\ restarts = 0
Complete ==
    NoFailure => \A a \in Alerts :
        /\ \A t \in Threads : Caught(alerts, trail, paper, inbox, pc[t], frame[t], a)
        /\ Quiet => Caught(alerts, trail, paper, inbox, "idle", IdleFrame, a)

(* Where the thread has nothing to write that the records lack.            *)
Owing == {"insert", "create_log", "create_note", "mark_log", "mark_sync", "open_log",
          "emit", "sync"}

LEMMA CaughtMoves ==
    ASSUME OneThread, TypeOK, NEW t \in Threads, NEW l, NEW f, Move(t, l, f),
           \A a \in Alerts : Caught(alerts', trail', paper', inbox', l, f, a)
    PROVE  Complete'
  <1>1. Threads = {t} /\ pc'[t] = l /\ frame'[t] = f
    BY DEF OneThread, TypeOK, LocalsOK, Move
  <1>2. ASSUME NEW a \in Alerts, l = "idle"
        PROVE  Caught(alerts', trail', paper', inbox', l, IdleFrame, a)
    BY <1>2 DEF Caught
  <1>3. QED
    BY <1>1, <1>2 DEF Complete, Quiet

(* A thread that leaves a place where it owes nothing, for one where the   *)
(* log is complete.                                                        *)
LEMMA CaughtRead ==
    ASSUME OneThread, TypeOK, Complete, NoFailure, NEW t \in Threads, pc[t] \notin Owing,
           NEW l, NEW f, Move(t, l, f),
           l \notin {"insert", "create_log", "mark_log", "open_log"},
           UNCHANGED <<alerts, trail, paper, inbox>>
    PROVE  Complete'
  <1> SUFFICES ASSUME NEW a \in Alerts
               PROVE  Caught(alerts, trail, paper, inbox, l, f, a)
    BY CaughtMoves
  <1>1. Caught(alerts, trail, paper, inbox, pc[t], frame[t], a)
    BY DEF Complete
  <1>2. QED
    BY <1>1 DEF Caught, Owing

LEMMA CaughtReturn ==
    ASSUME OneThread, TypeOK, NEW t \in Threads, Return(t),
           \A a \in Alerts : Caught(alerts', trail', paper', inbox', "idle", IdleFrame, a)
    PROVE  Complete'
  <1> DEFINE l == IF frame[t].todo = {} THEN "idle" ELSE "batch"
             f == [IdleFrame EXCEPT !.todo = frame[t].todo,
                                    !.late = frame[t].late \cap frame[t].todo]
  <1>1. Move(t, l, f) /\ l \in {"idle", "batch"}
    BY DEF Return
  <1> HIDE DEF l, f
  <1>2. \A a \in Alerts : Caught(alerts', trail', paper', inbox', l, f, a)
    BY <1>1 DEF Caught
  <1>3. QED
    BY <1>1, <1>2, CaughtMoves

(* The steps that write to no store.                                       *)
LEMMA ReadCaught ==
    ASSUME OneThread, TypeOK, Complete, NoFailure, NEW t \in Threads,
           \/ Prior(t) \/ Load(t) \/ (\E px \in Prices : PriceLog(t, px))
           \/ MarkLoad(t) \/ Reread(t) \/ BackfillCheck(t) \/ Schedule(t) \/ Refresh(t)
           \/ \E a \in Alerts : \/ Fetch(t, a) \/ NoPrice(t, a) \/ Cancel(t, a)
                                \/ BackfillList(t, a)
                                \/ \E late \in BOOLEAN : Push(t, a, late)
    PROVE  Complete'
  <1>1. UNCHANGED <<alerts, trail, paper, inbox>>
    BY DEF Prior, Load, PriceLog, MarkLoad, Reread, BackfillCheck, Schedule, Refresh,
       ListActive, Fetch, NoPrice, Cancel, BackfillList, Push
  <1>2. pc[t] \notin Owing
    BY DEF Prior, Load, PriceLog, MarkLoad, Reread, BackfillCheck, Schedule, Refresh,
       Asked, Fetch, NoPrice, Cancel, BackfillList, Push, Owing
  <1>3. ASSUME NEW l, NEW f, Move(t, l, f),
               l \notin {"insert", "create_log", "mark_log", "open_log"}
        PROVE  Complete'
    BY <1>1, <1>2, <1>3, CaughtRead
  <1>4. CASE Prior(t)
    BY <1>3, <1>4 DEF Prior
  <1>5. CASE Load(t)
    <2> DEFINE l == IF alerts[frame[t].alert].status \in Terminal THEN "emit" ELSE "price_log"
    <2>1. Move(t, l, [frame[t] EXCEPT !.rec = alerts[frame[t].alert]])
      BY <1>5 DEF Load
    <2>2. QED
      BY <1>3, <2>1
  <1>6. ASSUME NEW px \in Prices, PriceLog(t, px)
        PROVE  Complete'
    <2> DEFINE goal == Decide(frame[t].rec.status, frame[t].alert \in frame[t].late, px)
               l == CASE goal = "NONE" -> "reread"
                      [] goal = "OPEN" -> "open_save"
                      [] OTHER         -> "mark_load"
    <2>1. Move(t, l, [frame[t] EXCEPT !.goal = goal, !.late = @ \ {frame[t].alert}])
      BY <1>6 DEF PriceLog
    <2>2. l \in {"reread", "open_save", "mark_load"}
      OBVIOUS
    <2> HIDE DEF l
    <2>3. QED
      BY <1>3, <2>1, <2>2
  <1>7. CASE MarkLoad(t)
    BY <1>3, <1>7 DEF MarkLoad
  <1>8. CASE Reread(t)
    BY <1>3, <1>8 DEF Reread
  <1>9. CASE BackfillCheck(t)
    <2>1. CASE Return(t)
      <3> DEFINE l == IF frame[t].todo = {} THEN "idle" ELSE "batch"
                 f == [IdleFrame EXCEPT !.todo = frame[t].todo,
                                        !.late = frame[t].late \cap frame[t].todo]
      <3>1. Move(t, l, f)
        BY <2>1 DEF Return
      <3> HIDE DEF f
      <3>2. QED
        BY <1>3, <3>1
    <2>2. CASE Goto(t, "backfill_save")
      BY <1>3, <2>2 DEF Goto
    <2>3. QED
      BY <1>9, <2>1, <2>2 DEF BackfillCheck
  <1>10. CASE Schedule(t) \/ Refresh(t)
    BY <1>3, <1>10 DEF Schedule, Refresh, ListActive
  <1>11. ASSUME NEW a \in Alerts, Fetch(t, a) \/ Cancel(t, a) \/ BackfillList(t, a)
         PROVE  Complete'
    <2>1. CASE Fetch(t, a)
      <3> DEFINE f == [frame[t] EXCEPT !.alert = a, !.todo = @ \ {a}]
      <3>1. Move(t, "prior", f)
        BY <2>1 DEF Fetch
      <3> HIDE DEF f
      <3>2. QED
        BY <1>3, <3>1
    <2>2. CASE Cancel(t, a)
      <3> DEFINE f == [frame[t] EXCEPT !.alert = a, !.goal = "CANCELLED"]
      <3>1. Move(t, "mark_load", f)
        BY <2>2 DEF Cancel
      <3> HIDE DEF f
      <3>2. QED
        BY <1>3, <3>1
    <2>3. CASE BackfillList(t, a)
      <3> DEFINE f == [frame[t] EXCEPT !.alert = a, !.rec = alerts[a]]
      <3>1. Move(t, "backfill_check", f)
        BY <2>3 DEF BackfillList
      <3> HIDE DEF f
      <3>2. QED
        BY <1>3, <3>1
    <2>4. QED
      BY <1>11, <2>1, <2>2, <2>3
  <1>12. ASSUME NEW a \in Alerts, NoPrice(t, a)
         PROVE  Complete'
    <2> DEFINE l == IF frame[t].todo = {a} THEN "idle" ELSE "batch"
    <2>1. Move(t, l, [frame[t] EXCEPT !.todo = @ \ {a}, !.late = @ \ {a}])
      BY <1>12 DEF NoPrice
    <2>2. QED
      BY <1>3, <2>1
  <1>13. ASSUME NEW a \in Alerts, NEW late \in BOOLEAN, Push(t, a, late)
         PROVE  Complete'
    <2> DEFINE f == [frame[t] EXCEPT !.alert = a, !.late = IF late THEN {a} ELSE {}]
    <2>1. Move(t, "prior", f)
      BY <1>13 DEF Push
    <2> HIDE DEF f
    <2>2. QED
      BY <1>3, <2>1
  <1>14. QED
    BY <1>4, <1>5, <1>6, <1>7, <1>8, <1>9, <1>10, <1>11, <1>12, <1>13

(* An alert that no thread works on, before or after a step, and whose     *)
(* records the step leaves alone.                                          *)
LEMMA CaughtOther ==
    ASSUME NEW a \in Alerts, NEW l, NEW f, NEW m, NEW g, f.alert # a, g.alert # a,
           Caught(alerts, trail, paper, inbox, l, f, a),
           alerts'[a] = alerts[a], trail'[a] = trail[a], paper'[a] = paper[a],
           \A p \in Processes : inbox'[p][a] = inbox[p][a]
    PROVE  Caught(alerts', trail', paper', inbox', m, g, a)
  BY DEF Caught, Told

(* Appending an event that starts where the log ends.                      *)
LEMMA AppendWalks ==
    ASSUME TypeOK, NEW a \in Alerts, NEW from, NEW to, to # "NONE",
           Walk(trail[a], from), Append1(a, from, to)
    PROVE  Walk(trail'[a], to) /\ \A b \in Alerts \ {a} : trail'[b] = trail[b]
  <1>1. /\ \A b \in Alerts \ {a} : trail'[b] = trail[b]
        /\ Len(trail[a]) \in Nat /\ Len(trail'[a]) = Len(trail[a]) + 1
        /\ \A i \in 1..Len(trail[a]) : trail'[a][i] = trail[a][i]
        /\ trail'[a][Len(trail'[a])].from = from
        /\ trail'[a][Len(trail'[a])].to = to
    BY Appended
  <1> SUFFICES ASSUME NEW i \in 1..Len(trail'[a])
               PROVE  trail'[a][i].from = IF i = 1 THEN "NONE" ELSE trail'[a][i-1].to
    BY <1>1 DEF Walk
  <1>2. CASE i \in 1..Len(trail[a])
    <2>1. /\ trail'[a][i] = trail[a][i] /\ (i # 1 => trail'[a][i-1] = trail[a][i-1])
          /\ trail[a][i].from = IF i = 1 THEN "NONE" ELSE trail[a][i-1].to
      BY <1>1, <1>2 DEF Walk
    <2>2. QED
      BY <2>1
  <1>3. CASE i = Len(trail'[a])
    <2>1. i = Len(trail[a]) + 1 /\ (i # 1 => trail'[a][i-1] = trail[a][Len(trail[a])])
      BY <1>1, <1>3
    <2>2. CASE i = 1
      BY <1>1, <1>3, <2>1, <2>2 DEF Walk
    <2>3. CASE i # 1
      BY <1>1, <1>3, <2>1, <2>3 DEF Walk
    <2>4. QED
      BY <2>2, <2>3
  <1>4. QED
    BY <1>1, <1>2, <1>3

(* A row is saved: the walk in the log still ends where the row was.       *)
LEMMA SaveCaught ==
    ASSUME OneThread, TypeOK, LocalsBacked, SerialInv, Complete, NoFailure, NEW t \in Threads,
           \/ \E a \in Alerts : Create(t, a)
           \/ Insert(t) \/ MarkSave(t) \/ OpenSave(t)
    PROVE  Complete'
  <1>0. /\ InHand(alerts, pc[t], frame[t])
        /\ HandTrue(alerts, trail, inbox, pc[t], frame[t])
        /\ frame[t] \in Frame /\ DOMAIN alerts = Alerts
        /\ \A a \in Alerts : /\ Caught(alerts, trail, paper, inbox, pc[t], frame[t], a)
                             /\ alerts[a] \in Row
        /\ pc[t] \notin {"idle", "batch"} => frame[t].alert \in Alerts
    BY HandFacts DEF Complete, TypeOK, StoresOK
  <1>1. UNCHANGED <<trail, paper, inbox>>
    BY DEF Create, Insert, MarkSave, OpenSave
  <1>2. ASSUME NEW a \in Alerts, Create(t, a)
        PROVE  Complete'
    <2> DEFINE f == [frame[t] EXCEPT !.alert = a, !.rec = FreshRow]
    <2>1. /\ Move(t, "insert", f) /\ f.alert = a /\ alerts[a].status = "NONE"
          /\ pc[t] = "idle" /\ UNCHANGED alerts
      BY <1>0, <1>2 DEF Create, Exists, Asked, Frame
    <2> HIDE DEF f
    <2>2. ASSUME NEW b \in Alerts
          PROVE  Caught(alerts', trail', paper', inbox', "insert", f, b)
      BY <1>0, <1>1, <2>1 DEF Caught, NotEntered
    <2>3. QED
      BY <2>1, <2>2, CaughtMoves
  <1>3. CASE Insert(t)
    <2> DEFINE a == frame[t].alert
               f == frame[t]
    <2>1. /\ a \in Alerts /\ pc[t] = "insert" /\ Move(t, "create_log", f)
          /\ alerts' = [alerts EXCEPT ![a] = FreshRow] /\ FreshRow.status = "PENDING_ENTRY"
      BY <1>0, <1>3 DEF Insert, InHand, Goto, FreshRow, NoRow
    <2>2. ASSUME NEW b \in Alerts
          PROVE  Caught(alerts', trail', paper', inbox', "create_log", f, b)
      <3>1. CASE b # a
        BY <1>0, <1>1, <2>1, <3>1, CaughtOther
      <3>2. CASE b = a
        BY <1>0, <1>1, <2>1, <3>2 DEF Caught, NotEntered
      <3>3. QED
        BY <3>1, <3>2
    <2>3. QED
      BY <2>1, <2>2, CaughtMoves
  <1>4. CASE MarkSave(t)
    <2> DEFINE f == frame[t]
               a == f.alert
    <2>1. /\ a \in Alerts /\ pc[t] = "mark_save" /\ Move(t, "mark_log", f)
          /\ alerts' = [alerts EXCEPT ![a] = f.rec] /\ f.rec.status = f.goal
          /\ f.prev = alerts[a].status /\ Book!Edge(f.prev, f.goal)
          /\ f.goal = "CANCELLED" \/ f.seen = f.prev
      BY <1>0, <1>4 DEF MarkSave, InHand, HandTrue, Goto, Marking
    <2>2. ASSUME NEW b \in Alerts
          PROVE  Caught(alerts', trail', paper', inbox', "mark_log", f, b)
      <3>1. CASE b # a
        BY <1>0, <1>1, <2>1, <3>1, CaughtOther
      <3>2. CASE b = a
        <4>1. alerts'[a].status = f.goal
          BY <1>0, <2>1
        <4>2. /\ Walk(trail[a], f.prev)
              /\ f.prev # "NONE" /\ f.goal # f.prev /\ Told(inbox, a, "ALERT_CREATED")
          BY <1>0, <2>1 DEF Caught, Book!Edge, Book!Active
        <4>3. f.goal = "OPEN" => "ENTRY_TRIGGERED" \in Notices(f.seen, f.goal)
          BY <2>1 DEF Notices, Book!Edge, Book!Active
        <4>4. f.goal \in {"TARGET_HIT", "STOP_HIT"} => Told(inbox, a, "ENTRY_TRIGGERED")
          BY <1>0, <2>1 DEF Caught, Book!Edge, Book!Active
        <4>5. f.goal \in {"TARGET_HIT", "STOP_HIT", "EXPIRED"} =>
                 f.goal \in Notices(f.seen, f.goal)
          BY <2>1, <4>2 DEF Notices
        <4>6. QED
          BY <1>1, <2>1, <3>2, <4>1, <4>2, <4>3, <4>4, <4>5 DEF Caught
      <3>3. QED
        BY <3>1, <3>2
    <2>3. QED
      BY <2>1, <2>2, CaughtMoves
  <1>5. CASE OpenSave(t)
    <2> DEFINE row == WithStatus(frame[t].rec, "OPEN")
               f == [frame[t] EXCEPT !.prev = frame[t].rec.status, !.rec = row]
               a == frame[t].alert
    <2>1. /\ a \in Alerts /\ pc[t] = "open_save" /\ Move(t, "open_log", f)
          /\ alerts' = [alerts EXCEPT ![a] = row] /\ row.status = "OPEN"
          /\ f.alert = a /\ f.prev = "ENTRY_TRIGGERED" /\ f.seen = frame[t].seen
          /\ frame[t].seen \in {"PENDING_ENTRY", "ENTRY_TRIGGERED"}
          /\ alerts[a].status = "ENTRY_TRIGGERED"
      BY <1>0, <1>5 DEF OpenSave, HandTrue, Frame, WithStatus
    <2> HIDE DEF f, row
    <2>2. ASSUME NEW b \in Alerts
          PROVE  Caught(alerts', trail', paper', inbox', "open_log", f, b)
      <3>1. CASE b # a
        BY <1>0, <1>1, <2>1, <3>1, CaughtOther
      <3>2. CASE b = a
        <4>1. alerts'[a].status = "OPEN"
          BY <1>0, <2>1
        <4>2. Walk(trail[a], "ENTRY_TRIGGERED") /\ Told(inbox, a, "ALERT_CREATED")
          BY <1>0, <2>1 DEF Caught
        <4>3. "ENTRY_TRIGGERED" \in Notices(f.seen, "OPEN")
          BY <2>1 DEF Notices
        <4>4. QED
          BY <1>1, <2>1, <3>2, <4>1, <4>2, <4>3 DEF Caught
      <3>3. QED
        BY <3>1, <3>2
    <2>3. QED
      BY <2>1, <2>2, CaughtMoves
  <1>6. QED
    BY <1>2, <1>3, <1>4, <1>5

(* An event is appended: the walk goes on to the row's status.             *)
LEMMA LogCaught ==
    ASSUME OneThread, TypeOK, LocalsBacked, SerialInv, Complete, NoFailure, NEW t \in Threads,
           CreateLog(t) \/ MarkLog(t) \/ OpenLog(t)
    PROVE  Complete'
  <1> DEFINE f == frame[t]
             a == f.alert
  <1>0. /\ InHand(alerts, pc[t], f)
        /\ HandTrue(alerts, trail, inbox, pc[t], f)
        /\ a \in Alerts
        /\ \A b \in Alerts : Caught(alerts, trail, paper, inbox, pc[t], f, b)
    BY HandFacts DEF Complete, CreateLog, MarkLog, OpenLog
  <1>1. UNCHANGED <<alerts, paper, inbox>>
    BY DEF CreateLog, MarkLog, OpenLog
  <1>2. ASSUME NEW from, NEW to, Walk(trail[a], from), to # "NONE", Append1(a, from, to),
               to = alerts[a].status
        PROVE  /\ Walk(trail'[a], alerts'[a].status)
               /\ \A b \in Alerts \ {a}, l \in Locations :
                    Caught(alerts', trail', paper', inbox', l, f, b)
    <2>1. Walk(trail'[a], alerts'[a].status) /\ \A b \in Alerts \ {a} : trail'[b] = trail[b]
      BY <1>0, <1>1, <1>2, AppendWalks
    <2>2. QED
      BY <1>0, <1>1, <2>1, CaughtOther
  <1>3. CASE CreateLog(t)
    <2>1. /\ pc[t] = "create_log" /\ Move(t, "create_note", f)
          /\ Append1(a, "NONE", "PENDING_ENTRY") /\ alerts[a].status = "PENDING_ENTRY"
      BY <1>0, <1>3 DEF CreateLog, InHand, HandTrue, FreshRow, NoRow, Goto
    <2>2. Walk(trail[a], "NONE")
      BY <1>0, <2>1 DEF Caught
    <2>3. /\ Walk(trail'[a], alerts'[a].status)
          /\ \A b \in Alerts \ {a} : Caught(alerts', trail', paper', inbox', "create_note", f, b)
      BY <1>2, <2>1, <2>2 DEF Locations
    <2>4. Caught(alerts', trail', paper', inbox', "create_note", f, a)
      BY <1>1, <2>1, <2>3 DEF Caught, NotEntered
    <2>5. QED
      BY <2>1, <2>3, <2>4, CaughtMoves
  <1>4. CASE MarkLog(t)
    <2>1. /\ pc[t] = "mark_log" /\ Move(t, "mark_sync", f)
          /\ Append1(a, f.prev, f.goal) /\ alerts[a].status = f.goal
          /\ f.goal # "NONE"
      BY <1>0, <1>4 DEF MarkLog, InHand, HandTrue, Goto, Marking, Statuses, Active, Terminal
    <2>2. Walk(trail[a], f.prev)
      BY <1>0, <2>1 DEF Caught
    <2>3. /\ Walk(trail'[a], alerts'[a].status)
          /\ \A b \in Alerts \ {a} : Caught(alerts', trail', paper', inbox', "mark_sync", f, b)
      BY <1>2, <2>1, <2>2 DEF Locations
    <2>4. Caught(alerts', trail', paper', inbox', "mark_sync", f, a)
      BY <1>0, <1>1, <2>1, <2>3 DEF Caught
    <2>5. QED
      BY <2>1, <2>3, <2>4, CaughtMoves
  <1>5. CASE OpenLog(t)
    <2>1. /\ pc[t] = "open_log" /\ Move(t, "emit", f)
          /\ Append1(a, f.prev, "OPEN") /\ alerts[a].status = "OPEN"
      BY <1>0, <1>5 DEF OpenLog, InHand, HandTrue, Goto
    <2>2. Walk(trail[a], f.prev)
      BY <1>0, <2>1 DEF Caught
    <2>3. /\ Walk(trail'[a], alerts'[a].status)
          /\ \A b \in Alerts \ {a} : Caught(alerts', trail', paper', inbox', "emit", f, b)
      BY <1>2, <2>1, <2>2 DEF Locations
    <2>4. Caught(alerts', trail', paper', inbox', "emit", f, a)
      BY <1>0, <1>1, <2>1, <2>3 DEF Caught
    <2>5. QED
      BY <2>1, <2>3, <2>4, CaughtMoves
  <1>6. QED
    BY <1>3, <1>4, <1>5

(* The paper row is written from the row the alert has.                    *)
LEMMA PaperCaught ==
    ASSUME OneThread, TypeOK, LocalsBacked, SerialInv, Complete, NoFailure, NEW t \in Threads,
           MarkSync(t) \/ Sync(t) \/ BackfillSave(t)
    PROVE  Complete'
  <1> DEFINE f == frame[t]
             a == f.alert
  <1>0. /\ InHand(alerts, pc[t], f)
        /\ HandTrue(alerts, trail, inbox, pc[t], f)
        /\ a \in Alerts /\ f.rec = alerts[a] /\ LegalRow(alerts[a]) /\ alerts[a] \in Row
        /\ \A b \in Alerts : Caught(alerts, trail, paper, inbox, pc[t], f, b)
    BY HandFacts DEF Complete, MarkSync, Sync, BackfillSave, HandTrue
  <1>1. /\ UNCHANGED <<alerts, trail, inbox>>
        /\ \A b \in Alerts \ {a} : paper'[b] = paper[b]
        /\ alerts[a].status \in NotEntered \/ paper'[a].status = alerts[a].status
    <2>1. PaperRow(f.rec) = f.rec
      BY <1>0, LegalPaper
    <2>2. DOMAIN paper = Alerts
      BY DEF TypeOK, StoresOK
    <2>3. QED
      BY <1>0, <2>1, <2>2 DEF MarkSync, Sync, BackfillSave, NotEntered
  <1>2. ASSUME NEW b \in Alerts \ {a}, NEW l
        PROVE  Caught(alerts', trail', paper', inbox', l, f, b)
    BY <1>0, <1>1, <1>2, CaughtOther
  <1>3. CASE Sync(t) \/ BackfillSave(t)
    <2>1. pc[t] \in {"sync", "backfill_save"} /\ Return(t)
      BY <1>3 DEF Sync, BackfillSave
    <2>2. ASSUME NEW b \in Alerts
          PROVE  Caught(alerts', trail', paper', inbox', "idle", IdleFrame, b)
      <3>1. CASE b # a
        BY <1>2, <3>1 DEF Caught
      <3>2. CASE b = a
        BY <1>0, <1>1, <2>1, <3>2 DEF Caught
      <3>3. QED
        BY <3>1, <3>2
    <2>3. QED
      BY <2>1, <2>2, CaughtReturn
  <1>4. CASE MarkSync(t)
    <2>1. /\ pc[t] = "mark_sync" /\ alerts[a].status = f.goal
          /\ Book!Edge(f.prev, f.goal)
      BY <1>0, <1>4 DEF MarkSync, InHand, HandTrue, Marking
    <2>2. CASE f.goal = "CANCELLED"
      <3>1. ASSUME NEW b \in Alerts
            PROVE  Caught(alerts', trail', paper', inbox', "idle", IdleFrame, b)
        <4>1. CASE b # a
          BY <1>2, <4>1 DEF Caught
        <4>2. CASE b = a
          BY <1>0, <1>1, <2>1, <2>2, <4>2 DEF Caught
        <4>3. QED
          BY <4>1, <4>2
      <3>2. QED
        BY <1>4, <2>2, <3>1, CaughtReturn DEF MarkSync
    <2>3. CASE f.goal # "CANCELLED"
      <3> DEFINE l == IF f.goal = "ENTRY_TRIGGERED" THEN "open_save" ELSE "emit"
      <3>1. Move(t, l, f)
        BY <1>4, <2>3 DEF MarkSync, Goto
      <3>2. Caught(alerts', trail', paper', inbox', l, f, a)
        BY <1>0, <1>1, <2>1 DEF Caught
      <3> HIDE DEF l
      <3>3. ASSUME NEW b \in Alerts
            PROVE  Caught(alerts', trail', paper', inbox', l, f, b)
        BY <1>2, <3>2
      <3>4. QED
        BY <3>1, <3>3, CaughtMoves
    <2>4. QED
      BY <2>2, <2>3
  <1>5. QED
    BY <1>3, <1>4

(* The user is told what there is to tell.                                 *)
LEMMA TellCaught ==
    ASSUME OneThread, TypeOK, LocalsBacked, SerialInv, Complete, NoFailure, NEW t \in Threads,
           CreateNote(t) \/ Emit(t)
    PROVE  Complete'
  <1> DEFINE f == frame[t]
             a == f.alert
  <1>0. /\ HandTrue(alerts, trail, inbox, pc[t], f)
        /\ a \in Alerts
        /\ \A b \in Alerts : Caught(alerts, trail, paper, inbox, pc[t], f, b)
    BY HandFacts DEF Complete, CreateNote, Emit
  <1>1. UNCHANGED <<alerts, trail, paper>>
    BY DEF CreateNote, Emit
  <1>2. ASSUME NEW kinds, Notify(t, a, kinds), kinds \subseteq Kinds
        PROVE  /\ \A b \in Alerts, k \in Kinds : Told(inbox, b, k) => Told(inbox', b, k)
               /\ \A k \in kinds : Told(inbox', a, k)
    <2>1. /\ ProcessOf[t] \in Processes
          /\ \A p \in Processes, b \in Alerts, k \in Kinds :
                inbox'[p][b][k] = IF p = ProcessOf[t] /\ b = a /\ k \in kinds
                                  THEN inbox[p][b][k] + 1 ELSE inbox[p][b][k]
      BY <1>0, <1>2, Notified
    <2>2. \A p \in Processes, b \in Alerts, k \in Kinds : inbox[p][b][k] \in Nat
      BY DEF TypeOK, StoresOK
    <2>3. QED
      BY <1>0, <1>2, <2>1, <2>2 DEF Told
  <1>3. {"ALERT_CREATED", "ENTRY_TRIGGERED", "TARGET_HIT", "STOP_HIT", "EXPIRED"} = Kinds
    BY DEF Kinds
  <1>4. CASE CreateNote(t)
    <2>1. /\ pc[t] = "create_note" /\ Notify(t, a, {"ALERT_CREATED"}) /\ Return(t)
          /\ alerts[a].status = "PENDING_ENTRY"
      BY <1>0, <1>4 DEF CreateNote, HandTrue, FreshRow, NoRow
    <2>2. /\ \A b \in Alerts, k \in Kinds : Told(inbox, b, k) => Told(inbox', b, k)
          /\ Told(inbox', a, "ALERT_CREATED")
      BY <1>2, <1>3, <2>1
    <2>3. ASSUME NEW b \in Alerts
          PROVE  Caught(alerts', trail', paper', inbox', "idle", IdleFrame, b)
      BY <1>0, <1>1, <1>3, <2>1, <2>2 DEF Caught
    <2>4. QED
      BY <2>1, <2>3, CaughtReturn
  <1>5. CASE Emit(t)
    <2> DEFINE kinds == Notices(f.seen, alerts[a].status)
    <2>1. /\ pc[t] = "emit" /\ Notify(t, a, kinds) /\ Move(t, "sync", f)
      BY <1>0, <1>5 DEF Emit, HandTrue, Goto
    <2>2. kinds \subseteq Kinds
      BY <1>3 DEF Notices
    <2>3. /\ \A b \in Alerts, k \in Kinds : Told(inbox, b, k) => Told(inbox', b, k)
          /\ \A k \in kinds : Told(inbox', a, k)
      BY <1>2, <2>1, <2>2
    <2>4. ASSUME NEW b \in Alerts
          PROVE  Caught(alerts', trail', paper', inbox', "sync", f, b)
      BY <1>0, <1>1, <1>3, <2>1, <2>3 DEF Caught
    <2>5. QED
      BY <2>1, <2>4, CaughtMoves
  <1>6. QED
    BY <1>4, <1>5

LEMMA CompleteStep ==
    ASSUME OneThread, TypeOK, LocalsBacked, SerialInv, Complete, [Next]_vars
    PROVE  Complete'
  <1>1. CASE UNCHANGED vars
    BY <1>1 DEF vars, Complete, NoFailure, Quiet
  <1>2. CASE ~NoFailure'
    BY <1>2 DEF Complete
  <1>3. CASE Next /\ NoFailure'
    <2>1. NoFailure
      <3>1. restarts \in Nat /\ faults \in Nat
        BY BoundAssumption DEF TypeOK, BoundsOK
      <3>2. restarts' \in {restarts, restarts + 1} /\ faults' \in {faults, faults + 1}
        BY <1>3 DEF Next, Step, Schedule, Refresh, StoreFault, Request, Fetch, NoPrice,
           Restart, Lapse, Insert, CreateLog, CreateNote, Prior, Load, PriceLog, MarkLoad,
           MarkSave, MarkLog, MarkSync, OpenSave, OpenLog, Reread, Emit, Sync,
           BackfillCheck, BackfillSave, Create, Cancel, BackfillList, Push, ListActive
      <3>3. QED
        BY <1>3, <3>1, <3>2 DEF NoFailure
    <2>2. \A t \in Threads : ~StoreFault(t)
      BY <1>3, <2>1 DEF NoFailure, StoreFault
    <2>3. \A p \in Processes : ~Restart(p)
      BY <1>3, <2>1 DEF NoFailure, Restart
    <2>4. ASSUME NEW a \in Alerts, Lapse(a)
          PROVE  Complete'
      BY <2>1, <2>4 DEF Lapse, Complete, NoFailure, Quiet
    <2>5. ASSUME NEW t \in Threads, Step(t)
          PROVE  Complete'
      BY <2>1, <2>5, ReadCaught, SaveCaught, LogCaught, PaperCaught, TellCaught DEF Step
    <2>6. ASSUME NEW t \in Threads, NEW a \in Alerts, Request(t, a)
          PROVE  Complete'
      BY <2>1, <2>6, ReadCaught, SaveCaught DEF Request
    <2>7. QED
      BY <1>3, <2>1, <2>2, <2>3, <2>4, <2>5, <2>6, ReadCaught DEF Next
  <1>4. QED
    BY <1>1, <1>2, <1>3

LEMMA CompleteInit == Init => Complete
  <1> SUFFICES ASSUME Init, NEW a \in Alerts, NEW f
               PROVE  Caught(alerts, trail, paper, inbox, "idle", f, a)
    BY DEF Init, Complete
  <1>1. alerts[a].status = "NONE" /\ trail[a] = <<>>
    BY DEF Init, NoRow
  <1>2. Walk(trail[a], "NONE")
    BY <1>1 DEF Walk
  <1>3. QED
    BY <1>1, <1>2 DEF Caught, NotEntered

LEMMA CompleteCatchesUp == TypeOK /\ Complete => RecordsCatchUp
  <1> SUFFICES ASSUME TypeOK, Complete, Settled PROVE RecordsCatchUp
    BY DEF RecordsCatchUp, PaperAgrees, TrailComplete, NoticeDelivered
  <1>1. \A a \in Alerts : Caught(alerts, trail, paper, inbox, "idle", IdleFrame, a)
    BY DEF Complete, Settled, NoFailure
  <1>2. PaperAgrees
    BY <1>1 DEF PaperAgrees, Caught
  <1>3. TrailComplete
    <2> SUFFICES ASSUME NEW a \in Alerts, alerts[a].status # "NONE"
                 PROVE  /\ Len(trail[a]) > 0
                        /\ trail[a][Len(trail[a])].to = alerts[a].status
                        /\ \A i \in 1..Len(trail[a]) :
                             trail[a][i].from = IF i = 1 THEN "NONE" ELSE trail[a][i-1].to
      BY DEF TrailComplete, Exists
    <2>1. Walk(trail[a], alerts[a].status) /\ Len(trail[a]) \in Nat
      BY <1>1 DEF Caught, TypeOK, StoresOK
    <2>2. QED
      BY <2>1 DEF Walk
  <1>4. NoticeDelivered
    BY <1>1 DEF NoticeDelivered, Caught, Told, Exists
  <1>5. QED
    BY <1>2, <1>3, <1>4 DEF RecordsCatchUp

(* With one thread at work and nothing failing, between requests the paper *)
(* row of every alert agrees with it, its event log is an unbroken walk to *)
(* its status, and its user has been told of every transition.             *)
THEOREM RecordsComplete ==
    ASSUME OneThread
    PROVE  Spec => []RecordsCatchUp
  <1>1. TypeOK /\ LocalsBacked /\ SerialInv /\ Complete /\ [Next]_vars => Complete'
    BY CompleteStep
  <1>2. QED
    BY <1>1, CompleteInit, CompleteCatchesUp, BackedInvariant, SerialInvariant, PTL DEF Spec
=============================================================================
