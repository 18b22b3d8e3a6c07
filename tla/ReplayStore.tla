------------------------------ MODULE ReplayStore ------------------------------
(***************************************************************************)
(* What the replays of one symbol leave in the database on one trading     *)
(* day: plans, the events of the stories, and one missed-move row per      *)
(* setup and side.  A refresh is asked for by a visitor (the missed-move   *)
(* page, or the refresh route) or by the scheduler, which runs once in     *)
(* each window after the close, in the window of a weekend day again for   *)
(* the same date.  Each of its statements is a step of its own, beside     *)
(* those of other refreshes, and may fail.                                 *)
(*                                                                         *)
(* A plan's other contents (bias, confidence, action) only matter to       *)
(* whether two plans are the same; the setup stands for them.              *)
(***************************************************************************)
EXTENDS DayTradeReplay

CONSTANTS
    Visitors,       \* the requests that may be under way at once
    Shapes,         \* the bars, each as [low, high, close, open]
    LivePlans,      \* what the live analysis may make of the day, in any mode
    MaxBars,        \* bound: bars of the day
    MaxRequests,    \* bound: refreshes asked for by visitors
    MaxFaults,      \* bound: failed refreshes and restarts
    MaxDays         \* bound: windows of the date, the weekend's included

Scheduler == "scheduler"
Threads == Visitors \cup {Scheduler}
Setups == {p.setup : p \in LivePlans}

ASSUME StoreBounds ==
    /\ Scheduler \notin Visitors
    /\ \A b \in Shapes : b.low <= b.close /\ b.close <= b.high /\ b.low <= b.open /\ b.open <= b.high
    /\ \A p \in LivePlans : p.mode \in Modes
    /\ Shapes \subseteq [low : Int, high : Int, close : Int, open : Int]
    /\ {MaxBars, MaxRequests, MaxFaults} \subseteq Nat /\ MaxDays \in Nat \ {0}

VARIABLES
    bars,       \* what the market data service knows of the day
    cache,      \* the bars the adapter keeps for five minutes, or none
    plans,      \* the plan table, in the order of insertion; an index is a plan id
    events,     \* the event table: key -> bar and plan id
    rows,       \* the missed-move table: setup and side -> trigger and end
    th,         \* the refreshes under way
    clock,      \* the day, of the date or of the weekend after it, and the hour
    done,       \* the date is among the scheduler's completed dates
    asked,      \* refreshes asked for so far
    faults,     \* faults so far
    overlapped, \* history variable: two refreshes were under way at once
    reported,   \* history variable: rows that finished refreshes were to write
    latest,     \* history variable: the rows the last finished refresh was to write
    runs        \* history variable: the scheduler's runs in this window, since it started

store == <<plans, events, rows>>
history == <<overlapped, reported, latest, runs>>
vars == <<bars, cache, store, th, clock, done, asked, faults, history>>

-----------------------------------------------------------------------------
Idle == [at |-> "idle"]
At(w) == th[w].at

(* The walk over the bars of the day.                                      *)
Replayed(p, day) ==
    LET told[i \in 0 .. Len(day)] ==
            IF i = 0 THEN NothingTold ELSE AfterBar(p, told[i - 1], day[i], i)
    IN  told[Len(day)].events

(* An event is stored once for its type and the levels its text names.     *)
Key(p, e) ==
    <<e.type, e.side, CASE e.type \in {"stop", "ambiguous"} -> p.stop
                        [] e.type = "target_2" -> p.second[e.side]
                        [] OTHER -> NoLevel>>

RowKey(p, m) == <<p.setup, m.trigger.side>>
RowsOf(p, day) ==
    LET moves == MissedMoves(Replayed(p, day))
    IN  [k \in {RowKey(p, m) : m \in moves} |-> CHOOSE m \in moves : RowKey(p, m) = k]

Init ==
    /\ bars = <<>> /\ cache = <<>>
    /\ plans = <<>> /\ events = <<>> /\ rows = <<>>
    /\ th = [w \in Threads |-> Idle]
    /\ clock = [day |-> 1, hour |-> "before"]
    /\ done = FALSE /\ asked = 0 /\ faults = 0
    /\ overlapped = FALSE /\ reported = {} /\ latest = <<>> /\ runs = 0

-----------------------------------------------------------------------------
(* The market data service: a bar is added, the last one is still forming. *)
NewBar(b) ==
    /\ clock.day = 1 /\ Len(bars) < MaxBars
    /\ bars' = Append(bars, b)
    /\ UNCHANGED <<cache, store, th, clock, done, asked, faults, history>>

Grow(b) ==
    /\ clock.day = 1 /\ bars # <<>>
    /\ LET last == bars[Len(bars)]
       IN  b # last /\ b.open = last.open /\ b.low <= last.low /\ b.high >= last.high
    /\ bars' = [bars EXCEPT ![Len(bars)] = b]
    /\ UNCHANGED <<cache, store, th, clock, done, asked, faults, history>>

CacheExpires ==
    /\ cache # <<>>
    /\ cache' = <<>>
    /\ UNCHANGED <<bars, store, th, clock, done, asked, faults, history>>

(* After a window the scheduler waits for the next day's.                  *)
TimePasses ==
    /\ clock' = IF clock.hour = "before" THEN [clock EXCEPT !.hour = "window"]
                ELSE [day |-> clock.day + 1, hour |-> "before"]
    /\ clock'.day <= MaxDays
    /\ runs' = IF clock'.hour = "window" THEN 0 ELSE runs
    /\ UNCHANGED <<bars, cache, store, th, done, asked, faults, overlapped, reported, latest>>

-----------------------------------------------------------------------------
(* A refresh starts with the plan the live analysis makes.                 *)
Starts(w, p) ==
    /\ At(w) = "idle"
    /\ th' = [th EXCEPT ![w] = [at |-> "save", asked |-> p, plan |-> p, id |-> 0,
                                day |-> <<>>, known |-> {}]]
    /\ overlapped' = (overlapped \/ \E v \in Threads : At(v) # "idle")
    /\ UNCHANGED <<bars, cache, store, clock, reported, latest, faults>>

Ask(w, p) ==
    /\ w # Scheduler
    /\ asked < MaxRequests
    /\ asked' = asked + 1
    /\ Starts(w, p)
    /\ UNCHANGED <<done, runs>>

RunSchedule(p) ==
    /\ clock.hour = "window" /\ ~done
    /\ p.mode = "long_and_short"
    /\ runs' = runs + 1
    /\ Starts(Scheduler, p)
    /\ UNCHANGED <<done, asked>>

(* Before the window the scheduler's loop, which waits for its run, forgets *)
(* the date.                                                               *)
ForgetDate ==
    /\ At(Scheduler) = "idle"
    /\ clock.hour = "before" /\ done
    /\ done' = FALSE
    /\ UNCHANGED <<bars, cache, store, th, clock, asked, faults, history>>

(* Mutant of SavePlan: the table lets the same plan in again.              *)
SavePlan_Again(w) ==
    /\ At(w) = "save"
    /\ LET p == th[w].plan
           latest_same == plans # <<>> /\ plans[Len(plans)] = p
       IN  /\ plans' = IF latest_same THEN plans ELSE Append(plans, p)
           /\ th' = [th EXCEPT ![w] = [@ EXCEPT !.at = "load", !.id = Len(plans')]]
    /\ UNCHANGED <<bars, cache, events, rows, clock, done, asked, faults, history>>

(* Mutant of SavePlan: a plan that is refused keeps its own id.            *)
SavePlan_KeepsOwn(w) ==
    /\ At(w) = "save"
    /\ LET p == th[w].plan
           latest_same == plans # <<>> /\ plans[Len(plans)] = p
           same == {i \in DOMAIN plans : plans[i] = p}
       IN  /\ plans' = IF same = {} THEN Append(plans, p) ELSE plans
           /\ th' = [th EXCEPT ![w] = [@ EXCEPT !.at = "load",
                        !.id = IF same = {} \/ latest_same THEN Len(plans') ELSE 0]]
    /\ UNCHANGED <<bars, cache, events, rows, clock, done, asked, faults, history>>

(* The latest plan is kept if it is the same; another one is inserted, and *)
(* if the table has it already, which it then keeps, that one is found by  *)
(* its signature.  Nothing removes a plan, so what happens between the     *)
(* look and the insertion changes nothing, and it is one step.             *)
SavePlan(w) ==
    /\ At(w) = "save"
    /\ LET p == th[w].plan
           same == {i \in DOMAIN plans : plans[i] = p}
       IN  /\ plans' = IF same = {} THEN Append(plans, p) ELSE plans
           /\ th' = [th EXCEPT ![w] = [@ EXCEPT !.at = "load",
                                                !.id = CHOOSE i \in DOMAIN plans' : plans'[i] = p]]
    /\ UNCHANGED <<bars, cache, events, rows, clock, done, asked, faults, history>>

(* The bars come from the cache, or are fetched and cached; a fetch that   *)
(* fails gives none and is not cached.                                     *)
LoadBars(w) ==
    /\ At(w) = "load"
    /\ \E day \in IF cache # <<>> THEN {cache} ELSE {bars, <<>>} :
          /\ th' = [th EXCEPT ![w] = [@ EXCEPT !.at = "append", !.day = day]]
          /\ cache' = day
    /\ UNCHANGED <<bars, store, clock, done, asked, faults, history>>

Told(w) == LET story == Replayed(th[w].plan, th[w].day) IN {story[i] : i \in DOMAIN story}
Moves(w) == RowsOf(th[w].plan, th[w].day)

(* One transaction: an event that is stored already, or whose plan is not, *)
(* is refused and skipped.                                                 *)
AppendEvents(w) ==
    /\ At(w) = "append"
    /\ LET p == th[w].plan
           new == {e \in Told(w) : Key(p, e) \notin DOMAIN events /\ th[w].id \in DOMAIN plans}
       IN  events' = [k \in DOMAIN events \cup {Key(p, e) : e \in new} |->
                         IF k \in DOMAIN events THEN events[k]
                         ELSE [bar |-> (CHOOSE e \in new : Key(p, e) = k).bar, plan |-> th[w].id]]
    /\ th' = [th EXCEPT ![w].at = "match"]
    /\ UNCHANGED <<bars, cache, plans, rows, clock, done, asked, faults, history>>

(* What the MERGE finds when it looks for the rows of its moves.           *)
MatchRows(w) ==
    /\ At(w) = "match"
    /\ th' = [th EXCEPT ![w] = [@ EXCEPT !.at = "merge", !.known = DOMAIN Moves(w) \cap DOMAIN rows]]
    /\ UNCHANGED <<bars, cache, store, clock, done, asked, faults, history>>

(* Mutant of CompletesDate: a run that failed leaves the date open.        *)
CompletesDate_IfRun(w, failed) == done' = (done \/ (w = Scheduler /\ ~failed))

(* The scheduler takes the date for completed whatever became of the run.  *)
CompletesDate(w, failed) == done' = (done \/ w = Scheduler)

(* Mutant of Merged: rows are written once.                                *)
Merged_Once(moves, seen) ==
    [k \in DOMAIN rows \cup DOMAIN moves |-> IF k \in DOMAIN rows THEN rows[k] ELSE moves[k]]

(* Mutant of Merged: a row written in between takes all of them back.      *)
Merged_AllOrNone(moves, seen) ==
    IF (DOMAIN moves \cap DOMAIN rows) \subseteq seen
    THEN [k \in DOMAIN rows \cup DOMAIN moves |-> IF k \in DOMAIN moves THEN moves[k] ELSE rows[k]]
    ELSE rows

(* A row that was seen is updated and one that nobody has is inserted; one *)
(* that was written in between is refused, and the update by the ids of    *)
(* its events, which are new every time, finds nothing.                    *)
Merged(moves, seen) ==
    [k \in DOMAIN rows \cup DOMAIN moves |->
        IF k \in DOMAIN rows /\ k \notin seen THEN rows[k] ELSE IF k \in DOMAIN moves THEN moves[k] ELSE rows[k]]

(* Row by row in one transaction; a row that came after the first look may *)
(* have been seen by its own MERGE.  With it the refresh has finished.     *)
MergeRows(w) ==
    /\ At(w) = "merge"
    /\ LET moves == Moves(w)
           want == RowsOf(th[w].asked, th[w].day)
       IN  /\ \E seen \in SUBSET (DOMAIN moves \cap DOMAIN rows) :
                 th[w].known \subseteq seen /\ rows' = Merged(moves, seen)
           /\ reported' = reported \cup DOMAIN want
           /\ latest' = want
    /\ th' = [th EXCEPT ![w] = Idle]
    /\ CompletesDate(w, FALSE)
    /\ UNCHANGED <<bars, cache, plans, events, clock, asked, faults, overlapped, runs>>

(* A statement fails, or the analysis does: what is not committed is gone. *)
(* The page shows the rows there are, the scheduler goes on.               *)
Fails(w) ==
    /\ At(w) # "idle"
    /\ faults < MaxFaults
    /\ faults' = faults + 1
    /\ th' = [th EXCEPT ![w] = Idle]
    /\ CompletesDate(w, TRUE)
    /\ UNCHANGED <<bars, cache, store, clock, asked, history>>

Restart ==
    /\ faults < MaxFaults
    /\ faults' = faults + 1
    /\ th' = [w \in Threads |-> Idle]
    /\ cache' = <<>> /\ done' = FALSE /\ runs' = 0
    /\ UNCHANGED <<bars, store, clock, asked, overlapped, reported, latest>>

Steps(w) ==
    \/ SavePlan(w) \/ LoadBars(w) \/ AppendEvents(w)
    \/ MatchRows(w) \/ MergeRows(w) \/ Fails(w)

Next ==
    \/ \E b \in Shapes : NewBar(b) \/ Grow(b)
    \/ CacheExpires \/ TimePasses \/ ForgetDate \/ Restart
    \/ \E p \in LivePlans : RunSchedule(p) \/ \E w \in Visitors : Ask(w, p)
    \/ \E w \in Threads : Steps(w)

Spec == Init /\ [][Next]_vars

-----------------------------------------------------------------------------
TypeOK ==
    /\ bars \in Seq(Shapes) /\ Len(bars) <= MaxBars
    /\ \A i \in DOMAIN plans : plans[i] \in LivePlans /\ \A j \in DOMAIN plans : plans[i] = plans[j] => i = j
    /\ \A k \in DOMAIN events : events[k].bar \in DOMAIN bars /\ events[k].plan \in DOMAIN plans
    /\ DOMAIN rows \subseteq Setups \X Sides
    /\ \A w \in Threads : At(w) \in {"idle", "save", "load", "append", "match", "merge"}
    /\ clock.day \in 1 .. MaxDays /\ clock.hour \in {"before", "window"}
    /\ {done, overlapped} \subseteq BOOLEAN
    /\ asked \in 0 .. MaxRequests /\ faults \in 0 .. MaxFaults

(* Whatever plan a refresh walked, and whichever bar was still forming, a  *)
(* stored trigger is at the first bar that reached the entry, and every    *)
(* row of a side, under whatever setup, is of that trigger.                *)
TriggersStand ==
    LET Reached(s) == {i \in DOMAIN bars : Seen(s, bars[i]).high >= Entry(s)}
        First(s, i) == i \in Reached(s) /\ \A j \in Reached(s) : i <= j
    IN  /\ \A s \in Sides : LET k == <<"trigger", s, NoLevel>>
                            IN  k \in DOMAIN events => First(s, events[k].bar)
        /\ \A k \in DOMAIN rows : First(k[2], rows[k].trigger.bar)

(* A missed move is of stored events: its trigger, and an end of the kind  *)
(* it shows, at no earlier bar.                                            *)
RowsAreTold ==
    \A k \in DOMAIN rows :
       LET move == rows[k]
       IN  /\ <<"trigger", move.trigger.side, NoLevel>> \in DOMAIN events
           /\ \E e \in DOMAIN events : e[1] = move.end.type /\ e[2] = move.end.side
           /\ move.trigger.bar <= move.end.bar

(* What is stored is well formed and holds, though plans change, bars are  *)
(* still forming and refreshes overlap (append_events, save_missed_moves). *)
StoredIsTrue == TypeOK /\ TriggersStand /\ RowsAreTold

(* No finished refresh, whatever ran beside it, leaves one of its missed   *)
(* moves without a row.                                                    *)
NoMoveLost == reported \subseteq DOMAIN rows

(* While refreshes never overlap, the rows of the last finished one are    *)
(* those of the plan it was asked for.                                     *)
LatestWhenAlone == ~overlapped => \A k \in DOMAIN latest : k \in DOMAIN rows /\ rows[k] = latest[k]

(* What a finished refresh found is served (the rows the day's page reads).*)
MovesAreServed == NoMoveLost /\ LatestWhenAlone

(* Between two starts the scheduler runs once in a window.                 *)
OneRunPerWindow == runs <= 1
=============================================================================
