--------------------------- MODULE ReplayStoreProofs ---------------------------
(***************************************************************************)
(* Proofs about ReplayStore, for any bars, plans, visitors and faults.     *)
(* What a refresh writes depends on what it carries from one statement to  *)
(* the next: the plan it saved, the bars it loaded, the rows it matched.   *)
(* The invariant says how far that can be trusted when it is written.      *)
(* That what is stored holds of the day needs what the walk over the bars  *)
(* and the sorting of its events compute: the second half of the module.   *)
(***************************************************************************)
EXTENDS ReplayStore, FiniteSetTheorems, WellFoundedInduction, TLAPS

Frame ==
    [at : {"save", "load", "append", "match", "merge"}, asked : LivePlans, plan : LivePlans,
     id : Nat, day : Seq(Shapes), known : SUBSET DOMAIN rows]

(* What the steps below keep of the types.                                 *)
Typed ==
    /\ bars \in Seq(Shapes) /\ cache \in Seq(Shapes)
    /\ plans \in Seq(LivePlans)
    /\ th \in [Threads -> Frame \cup {Idle}]
    /\ clock \in [day : Nat, hour : {"before", "window"}]

(* The plan that was saved is the plan that was asked for.                 *)
PlanKept == \A w \in Threads : At(w) # "idle" => th[w].plan = th[w].asked

(* In a window with a run, the date is completed or the run goes on.       *)
RunsInv ==
    /\ runs \in {0, 1}
    /\ runs = 1 /\ clock.hour = "window" => done \/ At(Scheduler) # "idle"

(* A refresh beside no other merges into the rows it matched.              *)
AloneInv ==
    ~overlapped =>
        /\ \A v, w \in Threads : At(v) # "idle" /\ At(w) # "idle" => v = w
        /\ \A w \in Threads : At(w) = "merge" => th[w].known = DOMAIN Moves(w) \cap DOMAIN rows
        /\ \A k \in DOMAIN latest : k \in DOMAIN rows /\ rows[k] = latest[k]

Inv == Typed /\ PlanKept /\ NoMoveLost /\ RunsInv /\ AloneInv

LEMMA InitInv == Init => Inv
<1>1. SUFFICES ASSUME Init PROVE Inv
  OBVIOUS
<1>2. Typed
  BY <1>1 DEF Init, Typed
<1>3. \A w \in Threads : At(w) = "idle"
  BY <1>1 DEF Init, At, Idle
<1>4. QED
  BY <1>1, <1>2, <1>3 DEF Init, Inv, PlanKept, NoMoveLost, RunsInv, AloneInv

-----------------------------------------------------------------------------
(* What a refresh would write is the same as long as its frame is.         *)
LEMMA SameFrame ==
    ASSUME NEW w \in Threads, th[w]' = th[w]
    PROVE  At(w)' = At(w) /\ Moves(w)' = Moves(w)
BY DEF At, Moves, RowsOf, Replayed

LEMMA FrameOf == ASSUME Typed, NEW w \in Threads, At(w) # "idle" PROVE th[w] \in Frame
BY DEF Typed, At, Idle

(* The steps outside a refresh: the market, the cache, the clock, the date.*)
LEMMA QuietInv ==
    ASSUME Inv, UNCHANGED <<plans, rows, th, overlapped, reported, latest>>,
           bars' \in Seq(Shapes), cache' \in Seq(Shapes), RunsInv',
           clock' \in [day : Nat, hour : {"before", "window"}]
    PROVE  Inv'
<1>1. Typed'
  BY DEF Inv, Typed, Frame
<1>2. \A w \in Threads : At(w)' = At(w) /\ Moves(w)' = Moves(w)
  BY SameFrame
<1>3. PlanKept' /\ NoMoveLost'
  BY <1>2 DEF Inv, PlanKept, NoMoveLost
<1>4. AloneInv'
  BY <1>2 DEF Inv, AloneInv
<1>5. QED
  BY <1>1, <1>3, <1>4 DEF Inv

LEMMA NewBarInv == ASSUME Inv, NEW b \in Shapes, NewBar(b) PROVE Inv'
<1>1. bars' \in Seq(Shapes)
  BY DEF Inv, Typed, NewBar
<1>2. RunsInv'
  BY DEF Inv, RunsInv, NewBar, history, At
<1>3. QED
  BY <1>1, <1>2, QuietInv DEF Inv, Typed, NewBar, store, history

LEMMA GrowInv == ASSUME Inv, NEW b \in Shapes, Grow(b) PROVE Inv'
<1>1. bars' \in Seq(Shapes)
  BY DEF Inv, Typed, Grow
<1>2. RunsInv'
  BY DEF Inv, RunsInv, Grow, history, At
<1>3. QED
  BY <1>1, <1>2, QuietInv DEF Inv, Typed, Grow, store, history

LEMMA CacheInv == ASSUME Inv, CacheExpires PROVE Inv'
<1>1. cache' \in Seq(Shapes)
  BY DEF CacheExpires
<1>2. RunsInv'
  BY DEF Inv, RunsInv, CacheExpires, history, At
<1>3. QED
  BY <1>1, <1>2, QuietInv DEF Inv, Typed, CacheExpires, store, history

LEMMA TimeInv == ASSUME Inv, TimePasses PROVE Inv'
<1>1. clock.hour = "before" => clock' = [clock EXCEPT !.hour = "window"]
  BY DEF TimePasses
<1>2. clock.hour = "window" => clock'.hour = "before"
  BY DEF TimePasses
<1>3. clock' \in [day : Nat, hour : {"before", "window"}]
  BY <1>1, <1>2 DEF Inv, Typed, TimePasses
<1>4. RunsInv'
  BY <1>3 DEF Inv, RunsInv, TimePasses, At
<1>5. QED
  BY <1>3, <1>4, QuietInv DEF Inv, Typed, TimePasses, store

LEMMA ForgetInv == ASSUME Inv, ForgetDate PROVE Inv'
<1>1. RunsInv'
  BY DEF Inv, RunsInv, ForgetDate, history, At
<1>2. QED
  BY <1>1, QuietInv DEF Inv, Typed, ForgetDate, store, history

LEMMA RestartInv == ASSUME Inv, Restart PROVE Inv'
<1>1. \A w \in Threads : At(w)' = "idle"
  BY DEF Restart, At, Idle
<1>2. Typed'
  BY DEF Inv, Typed, Restart, store, Frame
<1>3. PlanKept' /\ NoMoveLost'
  BY <1>1 DEF Inv, PlanKept, NoMoveLost, Restart, store
<1>4. RunsInv'
  BY DEF RunsInv, Restart
<1>5. AloneInv'
  BY <1>1 DEF Inv, AloneInv, Restart, store
<1>6. QED
  BY <1>2, <1>3, <1>4, <1>5 DEF Inv

-----------------------------------------------------------------------------
(* The steps of a refresh: the frame of one thread changes, and no other.  *)
LEMMA OthersStay ==
    ASSUME Typed, NEW w \in Threads, NEW f, th' = [th EXCEPT ![w] = f]
    PROVE  /\ th'[w] = f /\ At(w)' = f.at
           /\ \A v \in Threads \ {w} : th'[v] = th[v] /\ At(v)' = At(v) /\ Moves(v)' = Moves(v)
<1>1. th'[w] = f /\ \A v \in Threads \ {w} : th'[v] = th[v]
  BY DEF Typed
<1>2. QED
  BY <1>1, SameFrame DEF At

LEMMA StartsInv ==
    ASSUME Inv, NEW w \in Threads, NEW p \in LivePlans, Starts(w, p), UNCHANGED done,
           \/ w # Scheduler /\ UNCHANGED runs
           \/ w = Scheduler /\ runs' = runs + 1 /\ clock.hour = "window" /\ ~done
    PROVE  Inv'
<1> DEFINE f == [at |-> "save", asked |-> p, plan |-> p, id |-> 0, day |-> <<>>, known |-> {}]
<1>1. th' = [th EXCEPT ![w] = f] /\ At(w) = "idle" /\ UNCHANGED <<bars, cache, store, clock, reported, latest>>
  BY DEF Starts
<1>2. /\ th'[w] = f /\ At(w)' = "save"
      /\ \A v \in Threads \ {w} : th'[v] = th[v] /\ At(v)' = At(v) /\ Moves(v)' = Moves(v)
  BY <1>1, OthersStay DEF Inv
<1>3. f \in Frame
  BY DEF Frame
<1>4. Typed'
  BY <1>1, <1>3 DEF Inv, Typed, Frame, store
<1>5. PlanKept' /\ NoMoveLost'
  BY <1>1, <1>2 DEF Inv, PlanKept, NoMoveLost, store
<1>6. RunsInv'
  BY <1>1, <1>2 DEF Inv, RunsInv, Threads
<1>7. AloneInv'
  <2>1. SUFFICES ASSUME ~overlapped' PROVE AloneInv'
    BY DEF AloneInv
  <2>2. ~overlapped /\ \A v \in Threads : At(v) = "idle"
    BY <2>1 DEF Starts
  <2>3. QED
    BY <1>1, <1>2, <2>2 DEF Inv, AloneInv, store
<1>8. QED
  BY <1>4, <1>5, <1>6, <1>7 DEF Inv

-----------------------------------------------------------------------------
(* A statement before the MERGE changes the refresh's frame and no row.    *)
LEMMA StatementInv ==
    ASSUME Inv, NEW w \in Threads, NEW f \in Frame, th' = [th EXCEPT ![w] = f],
           At(w) # "idle", f.plan = th[w].plan, f.asked = th[w].asked,
           f.at = "merge" => f.known = DOMAIN RowsOf(f.plan, f.day) \cap DOMAIN rows,
           UNCHANGED <<bars, rows, clock, done, history>>,
           cache' \in Seq(Shapes), plans' \in Seq(LivePlans)
    PROVE  Inv'
<1>1. /\ th'[w] = f /\ At(w)' = f.at
      /\ \A v \in Threads \ {w} : th'[v] = th[v] /\ At(v)' = At(v) /\ Moves(v)' = Moves(v)
  BY OthersStay DEF Inv
<1>2. f.at # "idle"
  BY DEF Frame
<1>3. Typed'
  BY DEF Inv, Typed, Frame
<1>4. PlanKept' /\ NoMoveLost'
  BY <1>1 DEF Inv, PlanKept, NoMoveLost, history
<1>5. RunsInv'
  BY <1>1, <1>2 DEF Inv, RunsInv, history, Threads
<1>6. Moves(w)' = RowsOf(f.plan, f.day)
  <2>1. Moves(w)' = RowsOf(th'[w].plan, th'[w].day)
    BY DEF Moves, RowsOf, Replayed
  <2>2. QED
    BY <1>1, <2>1
<1>7. AloneInv'
  BY <1>1, <1>2, <1>6 DEF Inv, AloneInv, history
<1>8. QED
  BY <1>3, <1>4, <1>5, <1>7 DEF Inv

LEMMA SavePlanInv == ASSUME Inv, NEW w \in Threads, SavePlan(w) PROVE Inv'
<1> DEFINE p == th[w].plan
           f == [th[w] EXCEPT !.at = "load", !.id = CHOOSE i \in DOMAIN plans' : plans'[i] = p]
<1>1. th[w] \in Frame /\ At(w) # "idle"
  BY FrameOf DEF Inv, SavePlan
<1>2. plans' \in Seq(LivePlans) /\ \E i \in DOMAIN plans' : plans'[i] = p
  <2>1. plans \in Seq(LivePlans) /\ p \in LivePlans
    BY <1>1 DEF Inv, Typed, Frame
  <2>2. CASE \E i \in DOMAIN plans : plans[i] = p
    <3>1. plans' = plans
      BY <2>2 DEF SavePlan
    <3>2. QED
      BY <2>1, <2>2, <3>1
  <2>3. CASE \A i \in DOMAIN plans : plans[i] # p
    <3>1. plans' = Append(plans, p)
      BY <2>3 DEF SavePlan
    <3>2. Len(plans) + 1 \in DOMAIN Append(plans, p) /\ Append(plans, p)[Len(plans) + 1] = p
      BY <2>1
    <3>3. QED
      BY <2>1, <3>1, <3>2
  <2>4. QED
    BY <2>2, <2>3
<1>3. (CHOOSE i \in DOMAIN plans' : plans'[i] = p) \in Nat
  BY <1>2
<1>4. f \in Frame /\ f.plan = th[w].plan /\ f.asked = th[w].asked /\ f.at # "merge"
  BY <1>1, <1>3 DEF Frame
<1>5. th' = [th EXCEPT ![w] = f]
  BY DEF SavePlan, Inv, Typed
<1>6. QED
  BY <1>1, <1>2, <1>4, <1>5, StatementInv DEF SavePlan, Inv, Typed

LEMMA LoadBarsInv == ASSUME Inv, NEW w \in Threads, LoadBars(w) PROVE Inv'
<1>1. th[w] \in Frame /\ At(w) # "idle"
  BY FrameOf DEF Inv, LoadBars
<1>2. PICK day \in IF cache # <<>> THEN {cache} ELSE {bars, <<>>} :
          th' = [th EXCEPT ![w] = [@ EXCEPT !.at = "append", !.day = day]] /\ cache' = day
  BY DEF LoadBars
<1>3. day \in Seq(Shapes)
  BY DEF Inv, Typed
<1> DEFINE f == [th[w] EXCEPT !.at = "append", !.day = day]
<1>4. f \in Frame /\ f.plan = th[w].plan /\ f.asked = th[w].asked /\ f.at # "merge"
  BY <1>1, <1>3 DEF Frame
<1>5. th' = [th EXCEPT ![w] = f]
  BY <1>2 DEF Inv, Typed
<1>6. QED
  BY <1>1, <1>2, <1>3, <1>4, <1>5, StatementInv DEF LoadBars, store, Inv, Typed

LEMMA AppendInv == ASSUME Inv, NEW w \in Threads, AppendEvents(w) PROVE Inv'
<1> DEFINE f == [th[w] EXCEPT !.at = "match"]
<1>1. th[w] \in Frame /\ At(w) # "idle"
  BY FrameOf DEF Inv, AppendEvents
<1>2. f \in Frame /\ f.plan = th[w].plan /\ f.asked = th[w].asked /\ f.at # "merge"
  BY <1>1 DEF Frame
<1>3. th' = [th EXCEPT ![w] = f]
  BY DEF AppendEvents, Inv, Typed
<1>4. QED
  BY <1>1, <1>2, <1>3, StatementInv DEF AppendEvents, Inv, Typed

LEMMA MatchInv == ASSUME Inv, NEW w \in Threads, MatchRows(w) PROVE Inv'
<1> DEFINE f == [th[w] EXCEPT !.at = "merge", !.known = DOMAIN Moves(w) \cap DOMAIN rows]
<1>1. th[w] \in Frame /\ At(w) # "idle"
  BY FrameOf DEF Inv, MatchRows
<1>2. f \in Frame /\ f.plan = th[w].plan /\ f.asked = th[w].asked /\ f.day = th[w].day
  BY <1>1 DEF Frame
<1>3. f.known = DOMAIN RowsOf(f.plan, f.day) \cap DOMAIN rows
  BY <1>1, <1>2 DEF Frame, Moves
<1>4. th' = [th EXCEPT ![w] = f]
  BY DEF MatchRows, Inv, Typed
<1>5. QED
  BY <1>1, <1>2, <1>3, <1>4, StatementInv DEF MatchRows, store, Inv, Typed

(* What a refresh wrote has a row, whichever of the rows it saw; and if it *)
(* saw all of those it has, its rows are as it wrote them.                 *)
LEMMA MergedRows ==
    ASSUME NEW moves, NEW seen
    PROVE  /\ DOMAIN Merged(moves, seen) = DOMAIN rows \cup DOMAIN moves
           /\ seen = DOMAIN moves \cap DOMAIN rows =>
                 \A k \in DOMAIN moves : Merged(moves, seen)[k] = moves[k]
BY DEF Merged

LEMMA MergeInv == ASSUME Inv, NEW w \in Threads, MergeRows(w) PROVE Inv'
<1> DEFINE moves == Moves(w)
<1>1. th[w] \in Frame /\ At(w) = "merge" /\ th[w].plan = th[w].asked
  BY FrameOf DEF Inv, PlanKept, MergeRows
<1>2. RowsOf(th[w].asked, th[w].day) = moves
  BY <1>1 DEF Moves
<1>3. PICK seen \in SUBSET (DOMAIN moves \cap DOMAIN rows) :
          th[w].known \subseteq seen /\ rows' = Merged(moves, seen)
  BY DEF MergeRows
<1>4. reported' = reported \cup DOMAIN moves /\ latest' = moves /\ overlapped' = overlapped
  BY <1>2 DEF MergeRows
<1>5. DOMAIN rows' = DOMAIN rows \cup DOMAIN moves
  BY <1>3, MergedRows
<1>6. th' = [th EXCEPT ![w] = Idle]
  BY DEF MergeRows
<1>7. /\ th'[w] = Idle /\ At(w)' = "idle"
      /\ \A v \in Threads \ {w} : th'[v] = th[v] /\ At(v)' = At(v) /\ Moves(v)' = Moves(v)
  BY <1>6, OthersStay DEF Inv, Idle
<1>8. Typed'
  <2>1. \A v \in Threads : th'[v] \in Frame' \cup {Idle}
    BY <1>5, <1>7 DEF Inv, Typed, Frame
  <2>2. QED
    BY <1>6, <2>1 DEF Inv, Typed, MergeRows
<1>9. PlanKept' /\ NoMoveLost'
  BY <1>4, <1>5, <1>7 DEF Inv, PlanKept, NoMoveLost
<1>10. RunsInv'
  BY <1>7 DEF Inv, RunsInv, MergeRows, CompletesDate, Threads
<1>11. AloneInv'
  <2>1. SUFFICES ASSUME ~overlapped PROVE AloneInv'
    BY <1>4 DEF AloneInv
  <2>2. \A v \in Threads : v # w => At(v) = "idle"
    BY <1>1, <2>1 DEF Inv, AloneInv
  <2>3. \A v \in Threads : At(v)' = "idle"
    BY <1>7, <2>2
  <2>4. seen = DOMAIN moves \cap DOMAIN rows
    BY <1>1, <1>3, <2>1 DEF Inv, AloneInv
  <2>5. \A k \in DOMAIN latest' : k \in DOMAIN rows' /\ rows'[k] = latest'[k]
    BY <1>3, <1>4, <1>5, <2>4, MergedRows
  <2>6. QED
    BY <2>3, <2>5 DEF AloneInv
<1>12. QED
  BY <1>8, <1>9, <1>10, <1>11 DEF Inv

LEMMA FailsInv == ASSUME Inv, NEW w \in Threads, Fails(w) PROVE Inv'
<1>1. th' = [th EXCEPT ![w] = Idle]
  BY DEF Fails
<1>2. /\ th'[w] = Idle /\ At(w)' = "idle"
      /\ \A v \in Threads \ {w} : th'[v] = th[v] /\ At(v)' = At(v) /\ Moves(v)' = Moves(v)
  BY <1>1, OthersStay DEF Inv, Idle
<1>3. Typed'
  BY <1>1 DEF Inv, Typed, Frame, Fails, store
<1>4. PlanKept' /\ NoMoveLost'
  BY <1>2 DEF Inv, PlanKept, NoMoveLost, Fails, store, history
<1>5. RunsInv'
  BY <1>2 DEF Inv, RunsInv, Fails, CompletesDate, history, Threads
<1>6. AloneInv'
  BY <1>2 DEF Inv, AloneInv, Fails, store, history
<1>7. QED
  BY <1>3, <1>4, <1>5, <1>6 DEF Inv

LEMMA StutterInv == ASSUME Inv, UNCHANGED vars PROVE Inv'
<1>1. RunsInv'
  BY DEF Inv, RunsInv, vars, history, At
<1>2. QED
  BY <1>1, QuietInv DEF Inv, Typed, vars, store, history

LEMMA NextInv == Inv /\ [Next]_vars => Inv'
<1>1. SUFFICES ASSUME Inv, [Next]_vars PROVE Inv'
  OBVIOUS
<1>2. CASE \E b \in Shapes : NewBar(b) \/ Grow(b)
  BY <1>1, <1>2, NewBarInv, GrowInv
<1>3. CASE CacheExpires \/ TimePasses \/ ForgetDate \/ Restart
  BY <1>1, <1>3, CacheInv, TimeInv, ForgetInv, RestartInv
<1>4. ASSUME NEW p \in LivePlans, RunSchedule(p) PROVE Inv'
  BY <1>1, <1>4, StartsInv DEF RunSchedule, Threads
<1>5. ASSUME NEW p \in LivePlans, NEW w \in Visitors, Ask(w, p) PROVE Inv'
  BY <1>1, <1>5, StartsInv DEF Ask, Threads
<1>6. ASSUME NEW w \in Threads, Steps(w) PROVE Inv'
  BY <1>1, <1>6, SavePlanInv, LoadBarsInv, AppendInv, MatchInv, MergeInv, FailsInv DEF Steps
<1>7. CASE UNCHANGED vars
  BY <1>1, <1>7, StutterInv
<1>8. QED
  BY <1>1, <1>2, <1>3, <1>4, <1>5, <1>6, <1>7 DEF Next

LEMMA Invariance == Spec => []Inv
BY InitInv, NextInv, PTL DEF Spec

-----------------------------------------------------------------------------
(* No finished refresh leaves one of its missed moves without a row, with  *)
(* any number of visitors, plans and faults.                               *)
THEOREM MovesAreKept == Spec => []NoMoveLost
<1>1. Inv => NoMoveLost
  BY DEF Inv
<1>2. QED
  BY <1>1, Invariance, PTL

(* While refreshes never overlap, the rows of the last finished one are    *)
(* those of the plan it was asked for.                                     *)
THEOREM LatestIsServed == Spec => []LatestWhenAlone
<1>1. Inv => LatestWhenAlone
  BY DEF Inv, AloneInv, LatestWhenAlone
<1>2. QED
  BY <1>1, Invariance, PTL

(* What a finished refresh found is served.                                *)
THEOREM MovesStayServed == Spec => []MovesAreServed
BY MovesAreKept, LatestIsServed, PTL DEF MovesAreServed

(* The scheduler runs at most once in a window between two starts.         *)
THEOREM WindowHasOneRun == Spec => []OneRunPerWindow
<1>1. Inv => OneRunPerWindow
  BY DEF Inv, RunsInv, OneRunPerWindow
<1>2. QED
  BY <1>1, Invariance, PTL
-----------------------------------------------------------------------------
(* Induction over the naturals, for sets.                                  *)
Below == {p \in Nat \X Nat : p[1] < p[2]}

LEMMA Least ==
    ASSUME NEW T, T \subseteq Nat, T # {}
    PROVE  \E n \in T : \A m \in T : n <= m
<1>1. IsWellFoundedOn(Below, Nat)
  BY NatLessThanWellFounded DEF Below, OpToRel
<1>2. PICK x \in T : \A y \in T : ~ (<<y, x>> \in Below)
  BY <1>1, WFMin
<1>3. ASSUME NEW y \in T PROVE x <= y
  <2>1. <<y, x>> \in Nat \X Nat /\ <<y, x>>[1] = y /\ <<y, x>>[2] = x
    OBVIOUS
  <2>2. ~(y < x)
    BY <1>2, <2>1 DEF Below
  <2>3. QED
    BY <2>2
<1>4. QED
  BY <1>3

LEMMA SetInduction ==
    ASSUME NEW S, 0 \in S, \A n \in Nat : n \in S => n + 1 \in S
    PROVE  Nat \subseteq S
<1>1. SUFFICES ASSUME Nat \ S # {} PROVE FALSE
  OBVIOUS
<1>2. PICK n \in Nat \ S : \A m \in Nat \ S : n <= m
  BY <1>1, Least
<1>3. n - 1 \in S
  BY <1>2
<1>4. QED
  BY <1>2, <1>3

-----------------------------------------------------------------------------
(* What one bar adds to a story.                                           *)
Kinds == {"trigger", "target_1", "target_2", "stop", "ambiguous", "extended", "invalidated"}
Events == [type : Kinds, side : Sides, bar : Nat]
States == [active : BOOLEAN, first : BOOLEAN, done : BOOLEAN]
Replays == [side : [Sides -> States], events : Seq(Events), cut : BOOLEAN]

EventsOf(story) == {story[i] : i \in DOMAIN story}
Event(type, s, k) == [type |-> type, side |-> s, bar |-> k]
Live(d, s) == d.side[s].active \/ d.side[s].done
Reaches(p, s, bar) == Allowed(s, p.mode) /\ Seen(s, bar).high >= Entry(s)

(* From d to e only events of the n-th bar are told, a trigger only of a   *)
(* side that had none, and a side that was live stays it.                  *)
Adds(p, d, e, bar, n) ==
    /\ e \in Replays
    /\ \A x \in EventsOf(e.events) :
          x \in EventsOf(d.events) \/ /\ x.bar = n
                                      /\ x.type = "trigger" => ~Live(d, x.side) /\ Reaches(p, x.side, bar)
    /\ \A s \in Sides : Live(d, s) => Live(e, s)

LEMMA TellingAdds ==
    ASSUME NEW d \in Replays, NEW type \in Kinds, NEW s \in Sides, NEW n \in Nat
    PROVE  /\ Tells(d, type, s, n) \in Seq(Events)
           /\ EventsOf(Tells(d, type, s, n)) = EventsOf(d.events) \cup {Event(type, s, n)}
<1> DEFINE x == Event(type, s, n)
           old == d.events
           new == Tells(d, type, s, n)
<1>1. x \in Events /\ old \in Seq(Events) /\ new = Append(old, x)
  BY DEF Event, Events, Replays, Tells
<1> HIDE DEF x, old, new
<1>2. /\ new \in Seq(Events) /\ Len(new) = Len(old) + 1 /\ new[Len(old) + 1] = x
      /\ \A i \in 1 .. Len(old) : new[i] = old[i]
  BY <1>1
<1>3. DOMAIN old = 1 .. Len(old) /\ DOMAIN new = 1 .. Len(old) + 1 /\ Len(old) \in Nat
  BY <1>1, <1>2
<1>4. \A i \in DOMAIN new : i \in DOMAIN old \/ i = Len(old) + 1
  BY <1>3
<1>5. EventsOf(new) = EventsOf(old) \cup {x}
  BY <1>2, <1>3, <1>4 DEF EventsOf
<1>6. QED
  BY <1>2, <1>5 DEF x, old, new

LEMMA Standing ==
    ASSUME NEW p, NEW d \in Replays, NEW bar, NEW n
    PROVE  Adds(p, d, d, bar, n)
BY DEF Adds

LEMMA Chain ==
    ASSUME NEW p, NEW bar, NEW n, NEW d, NEW e, NEW f, Adds(p, d, e, bar, n), Adds(p, e, f, bar, n)
    PROVE  Adds(p, d, f, bar, n)
<1>1. \A x \in EventsOf(f.events) : x.side \in Sides
  <2>1. f.events \in Seq(Events)
    BY DEF Adds, Replays
  <2>2. \A i \in DOMAIN f.events : f.events[i] \in Events
    BY <2>1
  <2>3. QED
    BY <2>2 DEF EventsOf, Events
<1>2. ASSUME NEW x \in EventsOf(f.events), x \notin EventsOf(d.events)
      PROVE  x.bar = n /\ (x.type = "trigger" => ~Live(d, x.side) /\ Reaches(p, x.side, bar))
  <2>1. CASE x \in EventsOf(e.events)
    BY <1>2, <2>1 DEF Adds
  <2>2. CASE x \notin EventsOf(e.events)
    <3>1. x.bar = n /\ (x.type = "trigger" => ~Live(e, x.side) /\ Reaches(p, x.side, bar))
      BY <2>2 DEF Adds
    <3>2. Live(d, x.side) => Live(e, x.side)
      BY <1>1 DEF Adds
    <3>3. QED
      BY <3>1, <3>2
  <2>3. QED
    BY <2>1, <2>2
<1>3. QED
  BY <1>2 DEF Adds

(* A check that tells an event, and leaves the side live.                  *)
LEMMA TellsAdds ==
    ASSUME NEW p, NEW bar, NEW n \in Nat, NEW s \in Sides, NEW type \in Kinds,
           NEW d \in Replays, NEW e \in Replays, e.events = Tells(d, type, s, n),
           Live(e, s), \A r \in Sides \ {s} : e.side[r] = d.side[r],
           type = "trigger" => ~Live(d, s) /\ Reaches(p, s, bar)
    PROVE  Adds(p, d, e, bar, n)
<1>1. EventsOf(e.events) = EventsOf(d.events) \cup {Event(type, s, n)}
  BY TellingAdds
<1>2. Event(type, s, n).bar = n /\ Event(type, s, n).type = type /\ Event(type, s, n).side = s
  BY DEF Event
<1>3. \A r \in Sides : Live(d, r) => Live(e, r)
  BY DEF Live
<1>4. QED
  BY <1>1, <1>2, <1>3 DEF Adds

LEMMA TriggerAdds ==
    ASSUME NEW p, NEW d \in Replays, NEW s \in Sides, NEW bar, NEW n \in Nat
    PROVE  /\ Adds(p, d, Trigger(p, d, s, bar, n), bar, n)
           /\ Reaches(p, s, bar) => Live(Trigger(p, d, s, bar, n), s)
<1> DEFINE e == Trigger(p, d, s, bar, n)
<1>1. CASE ~(Reaches(p, s, bar) /\ ~Live(d, s))
  <2>1. e = d
    BY <1>1 DEF Trigger, Reaches, Live
  <2>2. QED
    BY <1>1, <2>1, Standing
<1>2. CASE Reaches(p, s, bar) /\ ~Live(d, s)
  <2>1. e = [d EXCEPT !.side[s].active = TRUE, !.events = Tells(d, "trigger", s, n)]
    BY <1>2 DEF Trigger, Reaches, Live
  <2>2. Tells(d, "trigger", s, n) \in Seq(Events) /\ "trigger" \in Kinds
    BY TellingAdds DEF Kinds
  <2> HIDE DEF e
  <2>3. e \in Replays /\ e.events = Tells(d, "trigger", s, n)
    BY <2>1, <2>2 DEF Replays, States
  <2>4. e.side[s].active /\ \A r \in Sides \ {s} : e.side[r] = d.side[r]
    BY <2>1 DEF Replays, States
  <2>5. Live(e, s)
    BY <2>4 DEF Live
  <2>6. Adds(p, d, e, bar, n)
    BY <1>2, <2>2, <2>3, <2>4, <2>5, TellsAdds
  <2>7. QED
    BY <2>5, <2>6 DEF e
<1>3. QED
  BY <1>1, <1>2

LEMMA SideEnds ==
    ASSUME NEW f \in [Sides -> States], NEW s \in Sides, NEW g,
           g = [f EXCEPT ![s].active = FALSE, ![s].done = TRUE]
    PROVE  g \in [Sides -> States] /\ g[s].done /\ \A r \in Sides \ {s} : g[r] = f[r]
BY DEF States

LEMMA EndsAdds ==
    ASSUME NEW p, NEW d \in Replays, NEW type \in Kinds \ {"trigger"}, NEW s \in Sides, NEW bar, NEW n \in Nat
    PROVE  Adds(p, d, Ends(d, type, s, n), bar, n)
<1> DEFINE e == Ends(d, type, s, n)
<1>1. e = [d EXCEPT !.side[s].active = FALSE, !.side[s].done = TRUE, !.events = Tells(d, type, s, n)]
  BY DEF Ends
<1>2. Tells(d, type, s, n) \in Seq(Events)
  BY TellingAdds
<1> HIDE DEF e
<1>3. e.events = Tells(d, type, s, n)
  BY <1>1, <1>2 DEF Replays
<1>4. /\ e.side \in [Sides -> States] /\ e.side[s].done
      /\ \A r \in Sides \ {s} : e.side[r] = d.side[r]
  <2>1. e.side = [d.side EXCEPT ![s].active = FALSE, ![s].done = TRUE]
    BY <1>1 DEF Replays
  <2>2. QED
    BY <2>1, SideEnds DEF Replays
<1>8. e = [side |-> e.side, events |-> e.events, cut |-> e.cut] /\ e.cut = d.cut
  BY <1>1 DEF Replays
<1>9. e \in Replays
  BY <1>2, <1>3, <1>4, <1>8 DEF Replays
<1>5. Live(e, s)
  BY <1>4 DEF Live
<1>6. Adds(p, d, e, bar, n)
  BY <1>3, <1>4, <1>5, <1>9, TellsAdds
<1>7. QED
  BY <1>6 DEF e

LEMMA FirstTargetAdds ==
    ASSUME NEW p, NEW d \in Replays, NEW s \in Sides, NEW bar, NEW n \in Nat
    PROVE  Adds(p, d, FirstTarget(p, d, s, bar, n), bar, n)
<1> DEFINE e == FirstTarget(p, d, s, bar, n)
           reached == [d EXCEPT !.side[s].first = TRUE, !.events = Tells(d, "target_1", s, n)]
           over == [reached EXCEPT !.side[s].active = FALSE, !.side[s].done = TRUE]
           halted == Ends(d, "ambiguous", s, n)
           cut == [halted EXCEPT !.cut = TRUE]
<1>1. e \in {d, reached, over, cut} /\ (e \in {reached, over} => e = d \/ d.side[s].active)
  BY DEF FirstTarget
<1> HIDE DEF e
<1>2. /\ Tells(d, "target_1", s, n) \in Seq(Events) /\ "target_1" \in Kinds /\ "ambiguous" \in Kinds
  BY TellingAdds DEF Kinds
<1>3. CASE e = d
  BY <1>3, Standing DEF e
<1>4. CASE e = cut
  <2>1. Adds(p, d, halted, bar, n)
    BY <1>2, EndsAdds
  <2> HIDE DEF halted
  <2>2. cut \in Replays /\ cut.events = halted.events /\ cut.side = halted.side
    BY <2>1 DEF Adds, Replays
  <2> HIDE DEF cut
  <2>3. QED
    BY <1>4, <2>1, <2>2 DEF Adds, Live, e
<1>5. CASE e = reached /\ d.side[s].active
  <2>1. /\ e \in Replays /\ e.events = Tells(d, "target_1", s, n)
        /\ e.side[s].active
        /\ \A r \in Sides \ {s} : e.side[r] = d.side[r]
    BY <1>2, <1>5 DEF Replays, States
  <2>2. Live(e, s)
    BY <2>1 DEF Live
  <2>3. Adds(p, d, e, bar, n)
    BY <1>2, <2>1, <2>2, TellsAdds
  <2>4. QED
    BY <2>3 DEF e
<1>6. CASE e = over /\ d.side[s].active
  <2> HIDE DEF reached
  <2>1. /\ reached \in Replays /\ reached.events = Tells(d, "target_1", s, n)
        /\ \A r \in Sides \ {s} : reached.side[r] = d.side[r]
    BY <1>2 DEF Replays, States, reached
  <2>2. over = [reached EXCEPT !.side[s].active = FALSE, !.side[s].done = TRUE]
    OBVIOUS
  <2> HIDE DEF over
  <2>3. /\ over.events = reached.events /\ over.cut = reached.cut
        /\ over = [side |-> over.side, events |-> over.events, cut |-> over.cut]
    BY <2>1, <2>2 DEF Replays
  <2>4. /\ over.side \in [Sides -> States] /\ over.side[s].done
        /\ \A r \in Sides \ {s} : over.side[r] = reached.side[r]
    <3>1. over.side = [reached.side EXCEPT ![s].active = FALSE, ![s].done = TRUE]
      BY <2>1, <2>2 DEF Replays
    <3>2. QED
      BY <2>1, <3>1, SideEnds DEF Replays
  <2>5. over \in Replays
    BY <2>1, <2>3, <2>4 DEF Replays
  <2>6. Live(over, s)
    BY <2>4 DEF Live
  <2>7. Adds(p, d, over, bar, n)
    BY <1>2, <2>1, <2>3, <2>4, <2>5, <2>6, TellsAdds
  <2>8. QED
    BY <1>6, <2>7 DEF e
<1>7. QED
  BY <1>1, <1>3, <1>4, <1>5, <1>6

LEMMA LooksAdd ==
    ASSUME NEW p, NEW d \in Replays, NEW s \in Sides, NEW bar, NEW n \in Nat
    PROVE  /\ Adds(p, d, SecondTarget(p, d, s, bar, n), bar, n)
           /\ Adds(p, d, StopHit(p, d, s, bar, n), bar, n)
           /\ Adds(p, d, Extended(p, d, s, bar, n), bar, n)
           /\ Adds(p, d, Invalidated(d, s, bar, n), bar, n)
<1>1. {"target_2", "stop", "extended", "invalidated"} \subseteq Kinds \ {"trigger"}
  BY DEF Kinds
<1>2. Adds(p, d, SecondTarget(p, d, s, bar, n), bar, n)
  BY <1>1, EndsAdds, Standing DEF SecondTarget
<1>3. Adds(p, d, StopHit(p, d, s, bar, n), bar, n)
  BY <1>1, EndsAdds, Standing DEF StopHit
<1>4. Adds(p, d, Extended(p, d, s, bar, n), bar, n)
  BY <1>1, EndsAdds, Standing DEF Extended
<1>5. Adds(p, d, Invalidated(d, s, bar, n), bar, n)
  BY <1>1, EndsAdds, Standing DEF Invalidated
<1>6. QED
  BY <1>2, <1>3, <1>4, <1>5

(* The whole bar: a side it reaches is live after it.                      *)
LEMMA BarAdds ==
    ASSUME NEW p, NEW d \in Replays, NEW bar, NEW n \in Nat
    PROVE  /\ Adds(p, d, AfterBar(p, d, bar, n), bar, n)
           /\ \A s \in Sides : Reaches(p, s, bar) => Live(AfterBar(p, d, bar, n), s)
<1> DEFINE t1 == Trigger(p, d, "long", bar, n)
           t2 == Trigger(p, t1, "short", bar, n)
           f1 == FirstTarget(p, t2, "long", bar, n)
           f2 == FirstTarget(p, f1, "short", bar, n)
           g1 == SecondTarget(p, f2, "long", bar, n)
           g2 == SecondTarget(p, g1, "short", bar, n)
           h1 == StopHit(p, g2, "long", bar, n)
           h2 == StopHit(p, h1, "short", bar, n)
           x1 == Extended(p, h2, "long", bar, n)
           x2 == Extended(p, x1, "short", bar, n)
           c1 == Invalidated(x2, "long", bar, n)
           c2 == Invalidated(c1, "short", bar, n)
           e == [c2 EXCEPT !.cut = FALSE]
<1>0. AfterBar(p, d, bar, n) = e
  BY DEF AfterBar
<1>1. "long" \in Sides /\ "short" \in Sides /\ Sides = {"long", "short"}
  BY DEF Sides
<1>2. Adds(p, d, t1, bar, n) /\ (Reaches(p, "long", bar) => Live(t1, "long"))
  BY <1>1, TriggerAdds
<1> HIDE DEF t1
<1>3. t1 \in Replays
  BY <1>2 DEF Adds
<1>4. Adds(p, t1, t2, bar, n) /\ (Reaches(p, "short", bar) => Live(t2, "short"))
  BY <1>1, <1>3, TriggerAdds
<1> HIDE DEF t2
<1>5. t2 \in Replays /\ \A s \in Sides : Reaches(p, s, bar) => Live(t2, s)
  BY <1>1, <1>2, <1>4 DEF Adds
<1>6. Adds(p, t2, f1, bar, n)
  BY <1>1, <1>5, FirstTargetAdds
<1> HIDE DEF f1
<1>7. Adds(p, t2, f2, bar, n)
  <2>1. Adds(p, f1, f2, bar, n)
    BY <1>1, <1>6, FirstTargetAdds DEF Adds
  <2>2. QED
    BY <1>6, <2>1, Chain
<1> HIDE DEF f2
<1>8. Adds(p, t2, g1, bar, n)
  <2>1. Adds(p, f2, g1, bar, n)
    BY <1>1, <1>7, LooksAdd DEF Adds
  <2>2. QED
    BY <1>7, <2>1, Chain
<1> HIDE DEF g1
<1>9. Adds(p, t2, g2, bar, n)
  <2>1. Adds(p, g1, g2, bar, n)
    BY <1>1, <1>8, LooksAdd DEF Adds
  <2>2. QED
    BY <1>8, <2>1, Chain
<1> HIDE DEF g2
<1>10. Adds(p, t2, h1, bar, n)
  <2>1. Adds(p, g2, h1, bar, n)
    BY <1>1, <1>9, LooksAdd DEF Adds
  <2>2. QED
    BY <1>9, <2>1, Chain
<1> HIDE DEF h1
<1>11. Adds(p, t2, h2, bar, n)
  <2>1. Adds(p, h1, h2, bar, n)
    BY <1>1, <1>10, LooksAdd DEF Adds
  <2>2. QED
    BY <1>10, <2>1, Chain
<1> HIDE DEF h2
<1>12. Adds(p, t2, x1, bar, n)
  <2>1. Adds(p, h2, x1, bar, n)
    BY <1>1, <1>11, LooksAdd DEF Adds
  <2>2. QED
    BY <1>11, <2>1, Chain
<1> HIDE DEF x1
<1>13. Adds(p, t2, x2, bar, n)
  <2>1. Adds(p, x1, x2, bar, n)
    BY <1>1, <1>12, LooksAdd DEF Adds
  <2>2. QED
    BY <1>12, <2>1, Chain
<1> HIDE DEF x2
<1>14. Adds(p, t2, c1, bar, n)
  <2>1. Adds(p, x2, c1, bar, n)
    BY <1>1, <1>13, LooksAdd DEF Adds
  <2>2. QED
    BY <1>13, <2>1, Chain
<1> HIDE DEF c1
<1>15. Adds(p, t2, c2, bar, n)
  <2>1. Adds(p, c1, c2, bar, n)
    BY <1>1, <1>14, LooksAdd DEF Adds
  <2>2. QED
    BY <1>14, <2>1, Chain
<1> HIDE DEF c2
<1>16. e \in Replays /\ e.events = c2.events /\ e.side = c2.side
  BY <1>15 DEF Adds, Replays
<1> HIDE DEF e
<1>17. Adds(p, t2, e, bar, n)
  BY <1>15, <1>16 DEF Adds, Live
<1>18. Adds(p, d, e, bar, n)
  BY <1>2, <1>4, <1>17, Chain
<1>19. \A s \in Sides : Reaches(p, s, bar) => Live(e, s)
  BY <1>5, <1>17 DEF Adds
<1>20. QED
  BY <1>0, <1>18, <1>19
-----------------------------------------------------------------------------
(* The walk: f is the replay after each of the first n bars.               *)
Walks(f, p, day, n) ==
    f = [i \in 0 .. n |-> IF i = 0 THEN NothingTold ELSE AfterBar(p, f[i - 1], day[i], i)]

LEMMA WalkExists ==
    ASSUME NEW p, NEW day, NEW n \in Nat
    PROVE  \E f : Walks(f, p, day, n)
<1> DEFINE S == {i \in Nat : \E f : Walks(f, p, day, i)}
<1>1. 0 \in S
  <2> DEFINE f == [i \in 0 .. 0 |-> NothingTold]
  <2>1. Walks(f, p, day, 0)
    BY DEF Walks
  <2>2. QED
    BY <2>1
<1>2. ASSUME NEW i \in Nat, i \in S PROVE i + 1 \in S
  <2>1. PICK f : Walks(f, p, day, i)
    BY <1>2
  <2> DEFINE g == [j \in 0 .. (i + 1) |-> IF j = i + 1 THEN AfterBar(p, f[i], day[j], j) ELSE f[j]]
  <2>2. ASSUME NEW j \in 0 .. (i + 1)
        PROVE  g[j] = IF j = 0 THEN NothingTold ELSE AfterBar(p, g[j - 1], day[j], j)
    <3>1. CASE j = 0
      BY <2>1, <3>1 DEF Walks
    <3>2. CASE j \in 1 .. i
      BY <2>1, <3>2 DEF Walks
    <3>3. CASE j = i + 1
      BY <3>3
    <3>4. QED
      BY <3>1, <3>2, <3>3
  <2>3. Walks(g, p, day, i + 1)
    BY <2>2 DEF Walks
  <2>4. QED
    BY <2>3
<1> HIDE DEF S
<1>3. Nat \subseteq S
  BY <1>1, <1>2, SetInduction
<1>4. QED
  BY <1>3 DEF S

LEMMA ReplayedIs ==
    ASSUME NEW p, NEW day, Len(day) \in Nat
    PROVE  \E f : Walks(f, p, day, Len(day)) /\ Replayed(p, day) = f[Len(day)].events
<1> DEFINE f == CHOOSE f : Walks(f, p, day, Len(day))
<1>1. Walks(f, p, day, Len(day))
  BY WalkExists
<1>2. Replayed(p, day) = f[Len(day)].events
  BY DEF Replayed, Walks
<1>3. QED
  BY <1>1, <1>2

(* What is told after n bars: a trigger is told at the first bar that      *)
(* reaches its entry, for a side it has not reached is not live.           *)
Tale(p, day, n, d) ==
    /\ d \in Replays
    /\ \A x \in EventsOf(d.events) :
          /\ x \in Events /\ x.bar \in 1 .. n
          /\ x.type = "trigger" => /\ Reaches(p, x.side, day[x.bar])
                                   /\ \A j \in 1 .. x.bar - 1 : ~Reaches(p, x.side, day[j])
    /\ \A s \in Sides : ~Live(d, s) => \A j \in 1 .. n : ~Reaches(p, s, day[j])

LEMMA TaleBegins == ASSUME NEW p, NEW day PROVE Tale(p, day, 0, NothingTold)
<1>1. NothingTold \in Replays /\ EventsOf(NothingTold.events) = {}
  BY DEF NothingTold, Replays, States, Unmoved, EventsOf
<1>2. QED
  BY <1>1 DEF Tale

LEMMA TaleGoesOn ==
    ASSUME NEW p, NEW day, NEW n \in Nat, NEW d, Tale(p, day, n, d)
    PROVE  Tale(p, day, n + 1, AfterBar(p, d, day[n + 1], n + 1))
<1> DEFINE bar == day[n + 1]
           e == AfterBar(p, d, bar, n + 1)
<1>1. Adds(p, d, e, bar, n + 1) /\ \A s \in Sides : Reaches(p, s, bar) => Live(e, s)
  BY BarAdds DEF Tale
<1> HIDE DEF e
<1>2. e \in Replays
  BY <1>1 DEF Adds
<1>3. \A x \in EventsOf(e.events) : x \in Events
  <2>1. e.events \in Seq(Events)
    BY <1>2 DEF Replays
  <2>2. \A i \in DOMAIN e.events : e.events[i] \in Events
    BY <2>1
  <2>3. QED
    BY <2>2 DEF EventsOf
<1>4. ASSUME NEW x \in EventsOf(e.events)
      PROVE  /\ x.bar \in 1 .. n + 1
             /\ x.type = "trigger" => /\ Reaches(p, x.side, day[x.bar])
                                      /\ \A j \in 1 .. x.bar - 1 : ~Reaches(p, x.side, day[j])
  <2>1. CASE x \in EventsOf(d.events)
    BY <2>1 DEF Tale
  <2>2. CASE x \notin EventsOf(d.events)
    <3>1. x.bar = n + 1 /\ (x.type = "trigger" => ~Live(d, x.side) /\ Reaches(p, x.side, bar))
      BY <1>1, <2>2 DEF Adds
    <3>2. x.side \in Sides
      BY <1>3 DEF Events
    <3>3. x.type = "trigger" => \A j \in 1 .. n : ~Reaches(p, x.side, day[j])
      BY <3>1, <3>2 DEF Tale
    <3>4. QED
      BY <3>1, <3>3
  <2>3. QED
    BY <2>1, <2>2
<1>5. ASSUME NEW s \in Sides, ~Live(e, s), NEW j \in 1 .. n + 1
      PROVE  ~Reaches(p, s, day[j])
  <2>1. CASE j = n + 1
    BY <1>1, <1>5, <2>1
  <2>2. CASE j # n + 1
    <3>1. ~Live(d, s)
      BY <1>1, <1>5 DEF Adds
    <3>2. j \in 1 .. n
      BY <2>2
    <3>3. QED
      BY <3>1, <3>2 DEF Tale
  <2>3. QED
    BY <2>1, <2>2
<1>6. Tale(p, day, n + 1, e)
  BY <1>2, <1>3, <1>4, <1>5 DEF Tale
<1>7. QED
  BY <1>6 DEF e

LEMMA ReplayedIsTale ==
    ASSUME NEW p, NEW T, NEW day \in Seq(T)
    PROVE  \E d : Tale(p, day, Len(day), d) /\ Replayed(p, day) = d.events
<1> DEFINE n == Len(day)
<1>1. n \in Nat
  OBVIOUS
<1>2. PICK f : Walks(f, p, day, n) /\ Replayed(p, day) = f[n].events
  BY <1>1, ReplayedIs
<1> DEFINE S == {i \in Nat : i <= n => Tale(p, day, i, f[i])}
<1>3. 0 \in S
  <2>1. f[0] = NothingTold
    BY <1>1, <1>2 DEF Walks
  <2>2. QED
    BY <2>1, TaleBegins
<1>4. ASSUME NEW i \in Nat, i \in S PROVE i + 1 \in S
  <2>1. SUFFICES ASSUME i + 1 <= n PROVE Tale(p, day, i + 1, f[i + 1])
    OBVIOUS
  <2>2. Tale(p, day, i, f[i])
    BY <1>1, <1>4, <2>1
  <2>3. f[i + 1] = AfterBar(p, f[i], day[i + 1], i + 1)
    <3>1. i + 1 \in 0 .. n /\ i + 1 # 0 /\ (i + 1) - 1 = i
      BY <1>1, <2>1
    <3>2. QED
      BY <1>2, <3>1 DEF Walks
  <2>4. QED
    BY <2>2, <2>3, TaleGoesOn
<1> HIDE DEF S
<1>5. Nat \subseteq S
  BY <1>3, <1>4, SetInduction
<1>6. Tale(p, day, n, f[n])
  BY <1>1, <1>5 DEF S
<1>7. QED
  BY <1>2, <1>6

-----------------------------------------------------------------------------
(* Sorting: the rank of an event is its place, and places follow the order.*)
Precedes(tale, i, j) ==
    \/ tale[i].bar < tale[j].bar
    \/ /\ tale[i].bar = tale[j].bar
       /\ \/ Rank(tale[i]) < Rank(tale[j])
          \/ Rank(tale[i]) = Rank(tale[j]) /\ i < j

Ahead(tale, j) == {i \in DOMAIN tale : Precedes(tale, i, j)}
RankOf(tale) == [j \in DOMAIN tale |-> Cardinality(Ahead(tale, j)) + 1]

LEMMA PrecedesIsOrder ==
    ASSUME NEW tale \in Seq(Events)
    PROVE  /\ \A i \in DOMAIN tale : ~Precedes(tale, i, i)
           /\ \A i, j \in DOMAIN tale : i # j => Precedes(tale, i, j) \/ Precedes(tale, j, i)
           /\ \A i, j, k \in DOMAIN tale :
                 Precedes(tale, i, j) /\ Precedes(tale, j, k) => Precedes(tale, i, k)
<1> DEFINE bar(i) == tale[i].bar
           rank(i) == Rank(tale[i])
<1>1. \A i \in DOMAIN tale : i \in Nat /\ bar(i) \in Int /\ rank(i) \in Int
  <2> TAKE i \in DOMAIN tale
  <2>1. tale[i] \in Events /\ i \in Nat
    OBVIOUS
  <2>2. tale[i].type \in Kinds /\ tale[i].bar \in Nat
    BY <2>1 DEF Events
  <2>3. rank(i) \in Int
    BY <2>2 DEF Rank, Kinds
  <2>4. QED
    BY <2>1, <2>2, <2>3
<1>2. \A i, j \in DOMAIN tale :
         Precedes(tale, i, j) <=> \/ bar(i) < bar(j)
                                    \/ /\ bar(i) = bar(j)
                                       /\ \/ rank(i) < rank(j)
                                          \/ rank(i) = rank(j) /\ i < j
  BY DEF Precedes
<1> HIDE DEF bar, rank
<1>3. QED
  BY <1>1, <1>2

LEMMA RanksAreOneToOne ==
    ASSUME NEW tale \in Seq(Events)
    PROVE  /\ RankOf(tale) \in [DOMAIN tale -> DOMAIN tale]
           /\ \A i, j \in DOMAIN tale : Precedes(tale, i, j) => RankOf(tale)[i] < RankOf(tale)[j]
           /\ \A k \in DOMAIN tale : \E j \in DOMAIN tale : RankOf(tale)[j] = k
<1> DEFINE n == Len(tale)
           D == DOMAIN tale
           rank == RankOf(tale)
<1>1. n \in Nat /\ D = 1 .. n /\ IsFiniteSet(D) /\ Cardinality(D) = n
  <2>1. n \in Nat /\ D = 1 .. n
    OBVIOUS
  <2>2. IsFiniteSet(1 .. n) /\ Cardinality(1 .. n) = n
    BY <2>1, FS_Interval
  <2>3. QED
    BY <2>1, <2>2
<1>2. \A j \in D : /\ IsFiniteSet(Ahead(tale, j)) /\ Cardinality(Ahead(tale, j)) \in 0 .. n - 1
  <2> TAKE j \in D
  <2>1. Ahead(tale, j) \subseteq D \ {j}
    BY PrecedesIsOrder DEF Ahead
  <2>2. IsFiniteSet(D \ {j}) /\ Cardinality(D \ {j}) = n - 1
    BY <1>1, FS_RemoveElement
  <2>3. IsFiniteSet(Ahead(tale, j)) /\ Cardinality(Ahead(tale, j)) <= n - 1
    BY <2>1, <2>2, FS_Subset
  <2>4. Cardinality(Ahead(tale, j)) \in Nat
    BY <2>3, FS_CardinalityType
  <2>5. QED
    BY <1>1, <2>3, <2>4
<1>3. rank \in [D -> D]
  BY <1>1, <1>2 DEF RankOf
<1>4. ASSUME NEW i \in D, NEW j \in D, Precedes(tale, i, j)
      PROVE  rank[i] < rank[j]
  <2>1. Ahead(tale, i) \subseteq Ahead(tale, j) /\ Ahead(tale, i) # Ahead(tale, j)
    BY <1>4, PrecedesIsOrder DEF Ahead
  <2>2. /\ Cardinality(Ahead(tale, i)) <= Cardinality(Ahead(tale, j))
        /\ Cardinality(Ahead(tale, i)) # Cardinality(Ahead(tale, j))
    BY <1>2, <2>1, FS_Subset
  <2>3. QED
    BY <1>1, <1>2, <2>2 DEF RankOf
<1>5. \A i, j \in D : rank[i] = rank[j] => i = j
  <2>1. SUFFICES ASSUME NEW i \in D, NEW j \in D, rank[i] = rank[j], i # j PROVE FALSE
    OBVIOUS
  <2>2. Precedes(tale, i, j) \/ Precedes(tale, j, i)
    BY <2>1, PrecedesIsOrder
  <2>3. rank[i] \in Int /\ rank[j] \in Int
    BY <1>1, <1>3
  <2>4. QED
    BY <1>4, <2>1, <2>2, <2>3
<1>6. rank \in Injection(D, D)
  BY <1>3, <1>5 DEF Injection, IsInjective
<1>7. rank \in Surjection(D, D)
  BY <1>1, <1>6, FS_Injection
<1>8. QED
  BY <1>3, <1>4, <1>7 DEF Surjection

LEMMA SortedIsOrdered ==
    ASSUME NEW tale \in Seq(Events)
    PROVE  /\ Sorted(tale) \in Seq(Events) /\ Len(Sorted(tale)) = Len(tale)
           /\ EventsOf(Sorted(tale)) \subseteq EventsOf(tale)
           /\ \A k, l \in 1 .. Len(tale) : k < l => Sorted(tale)[k].bar <= Sorted(tale)[l].bar
<1> DEFINE n == Len(tale)
           D == DOMAIN tale
           rank == RankOf(tale)
           place(k) == CHOOSE j \in D : rank[j] = k
           story == [k \in D |-> tale[place(k)]]
<1>1. Sorted(tale) = story
  BY DEF Sorted, RankOf, Ahead, Precedes
<1>2. n \in Nat /\ D = 1 .. n
  OBVIOUS
<1>3. /\ \A i, j \in D : Precedes(tale, i, j) => rank[i] < rank[j]
      /\ \A k \in D : \E j \in D : rank[j] = k
  BY RanksAreOneToOne
<1> HIDE DEF rank
<1>4. \A k \in D : place(k) \in D /\ rank[place(k)] = k
  BY <1>3
<1> HIDE DEF place
<1>5. \A k \in D : story[k] = tale[place(k)] /\ story[k] \in Events
  BY <1>4
<1>6. story \in Seq(Events) /\ Len(story) = n
  BY <1>2, <1>5
<1>7. ASSUME NEW k \in D, NEW l \in D, k < l PROVE story[k].bar <= story[l].bar
  <2> DEFINE i == place(k)
             j == place(l)
  <2>1. i \in D /\ j \in D /\ rank[i] = k /\ rank[j] = l
    BY <1>4
  <2> HIDE DEF i, j
  <2>2. ~Precedes(tale, j, i)
    <3>1. ~(rank[j] < rank[i])
      BY <1>2, <1>7, <2>1
    <3>2. QED
      BY <1>3, <2>1, <3>1
  <2>3. tale[i].bar \in Nat /\ tale[j].bar \in Nat
    <3>1. tale[i] \in Events /\ tale[j] \in Events
      BY <2>1
    <3>2. QED
      BY <3>1 DEF Events
  <2>4. tale[i].bar <= tale[j].bar
    BY <2>2, <2>3 DEF Precedes
  <2>5. QED
    BY <1>5, <2>4 DEF i, j
<1>8. EventsOf(story) \subseteq EventsOf(tale)
  BY <1>4, <1>5 DEF EventsOf
<1> HIDE DEF story
<1>9. QED
  BY <1>1, <1>2, <1>6, <1>7, <1>8

(* A missed move is a trigger of the story and a later event that is none. *)
LEMMA MovesAreTold ==
    ASSUME NEW tale \in Seq(Events), NEW m \in MissedMoves(tale)
    PROVE  /\ m.trigger \in EventsOf(tale) /\ m.end \in EventsOf(tale)
           /\ m.trigger.type = "trigger" /\ m.trigger.bar <= m.end.bar
<1> DEFINE story == Sorted(tale)
<1>1. /\ story \in Seq(Events) /\ Len(story) = Len(tale)
      /\ EventsOf(story) \subseteq EventsOf(tale)
      /\ \A k, l \in 1 .. Len(tale) : k < l => story[k].bar <= story[l].bar
  BY SortedIsOrdered
<1>2. PICK k \in 1 .. Len(story) - 1 :
         story[k].type = "trigger" /\ m = [trigger |-> story[k], end |-> story[k + 1]]
  BY DEF MissedMoves
<1> HIDE DEF story
<1>3. k \in DOMAIN story /\ k + 1 \in DOMAIN story /\ k < k + 1
  BY <1>1, <1>2
<1>4. story[k] \in EventsOf(story) /\ story[k + 1] \in EventsOf(story)
  BY <1>3 DEF EventsOf
<1>5. story[k].bar <= story[k + 1].bar
  <2>1. k \in 1 .. Len(tale) /\ k + 1 \in 1 .. Len(tale)
    BY <1>1, <1>3
  <2>2. QED
    BY <1>1, <1>3, <2>1
<1>6. QED
  BY <1>1, <1>2, <1>4, <1>5
-----------------------------------------------------------------------------
(* What is stored holds of the bars as they are, not as a refresh saw them:*)
(* the bars it loaded are an earlier look at the day, in which only the    *)
(* last may have been forming still.                                       *)
Older(day) ==
    /\ Len(day) <= Len(bars)
    /\ \A i \in 1 .. Len(day) : bars[i].low <= day[i].low /\ day[i].high <= bars[i].high
    /\ \A i \in 1 .. Len(day) - 1 : day[i] = bars[i]

ReachedAt(s, i) == Seen(s, bars[i]).high >= Entry(s)
FirstAt(s, i) ==
    /\ i \in DOMAIN bars /\ ReachedAt(s, i)
    /\ \A j \in 1 .. i - 1 : ~ReachedAt(s, j)

(* What a refresh carries: its bars, a plan that is stored and, once they  *)
(* are appended, its events.                                               *)
Carries(w) ==
    /\ Older(th[w].day)
    /\ At(w) # "save" => th[w].id \in DOMAIN plans
    /\ At(w) \in {"match", "merge"} => \A e \in Told(w) : Key(th[w].plan, e) \in DOMAIN events

PlansInv == \A i, j \in DOMAIN plans : plans[i] = plans[j] => i = j

EventsInv ==
    /\ \A k \in DOMAIN events : events[k].bar \in DOMAIN bars /\ events[k].plan \in DOMAIN plans
    /\ \A s \in Sides : <<"trigger", s, NoLevel>> \in DOMAIN events =>
                           FirstAt(s, events[<<"trigger", s, NoLevel>>].bar)

RowsInv ==
    /\ DOMAIN rows \subseteq Setups \X Sides
    /\ \A k \in DOMAIN rows : FirstAt(k[2], rows[k].trigger.bar)
    /\ RowsAreTold

StoredInv ==
    /\ Older(cache) /\ PlansInv /\ EventsInv /\ RowsInv
    /\ \A w \in Threads : At(w) # "idle" => Carries(w)

CountsInv ==
    /\ Len(bars) <= MaxBars
    /\ clock.day \in 1 .. MaxDays /\ {done, overlapped} \subseteq BOOLEAN
    /\ asked \in 0 .. MaxRequests /\ faults \in 0 .. MaxFaults

LEMMA SeenHigh ==
    ASSUME NEW s \in Sides, NEW b \in Shapes
    PROVE  /\ Seen(s, b).high = IF s = "long" THEN b.high ELSE -b.low
           /\ b.low \in Int /\ b.high \in Int /\ Entry(s) \in Int /\ Seen(s, b).high \in Int
<1>1. b \in [low : Int, high : Int, close : Int, open : Int]
  BY StoreBounds
<1>2. Entry(s) \in Int
  BY DayBounds DEF Entry, Edge, Buffer
<1>3. Seen(s, b).high = IF s = "long" THEN b.high ELSE -b.low
  BY <1>1 DEF Seen
<1>4. QED
  BY <1>1, <1>2, <1>3

LEMMA NothingIsOlder == ASSUME Typed PROVE Older(<<>>)
BY DEF Typed, Older

(* A trigger told of an earlier look at the day is at the first bar that   *)
(* reaches the entry now.                                                  *)
LEMMA FirstOfOlder ==
    ASSUME Typed, NEW day \in Seq(Shapes), Older(day), NEW p \in LivePlans, NEW s \in Sides,
           NEW i \in 1 .. Len(day), Reaches(p, s, day[i]), \A j \in 1 .. i - 1 : ~Reaches(p, s, day[j])
    PROVE  FirstAt(s, i)
<1>1. /\ Len(day) \in Nat /\ Len(bars) \in Nat /\ DOMAIN bars = 1 .. Len(bars) /\ DOMAIN day = 1 .. Len(day)
      /\ \A j \in 1 .. Len(day) : day[j] \in Shapes /\ bars[j] \in Shapes
  BY DEF Typed, Older
<1>2. i \in DOMAIN bars
  BY <1>1 DEF Older
<1>3. ReachedAt(s, i)
  <2>1. Seen(s, day[i]).high >= Entry(s)
    BY DEF Reaches
  <2>2. bars[i].low <= day[i].low /\ day[i].high <= bars[i].high
    BY DEF Older
  <2>3. day[i] \in Shapes /\ bars[i] \in Shapes
    BY <1>1
  <2>4. Seen(s, bars[i]).high >= Seen(s, day[i]).high
    BY <2>2, <2>3, SeenHigh
  <2>5. Seen(s, bars[i]).high \in Int /\ Seen(s, day[i]).high \in Int /\ Entry(s) \in Int
    BY <2>3, SeenHigh
  <2>6. QED
    BY <2>1, <2>4, <2>5 DEF ReachedAt
<1>4. ASSUME NEW j \in 1 .. i - 1 PROVE ~ReachedAt(s, j)
  <2>1. j \in 1 .. Len(day) - 1 /\ day[j] = bars[j]
    BY <1>1 DEF Older
  <2>2. ~Reaches(p, s, day[j]) /\ Allowed(s, p.mode)
    BY DEF Reaches
  <2>3. QED
    BY <2>1, <2>2 DEF Reaches, ReachedAt
<1>5. QED
  BY <1>2, <1>3, <1>4 DEF FirstAt

LEMMA StoryOfOlder ==
    ASSUME Typed, NEW day \in Seq(Shapes), Older(day), NEW p \in LivePlans
    PROVE  /\ Replayed(p, day) \in Seq(Events)
           /\ \A e \in EventsOf(Replayed(p, day)) :
                 e \in Events /\ e.bar \in DOMAIN bars /\ (e.type = "trigger" => FirstAt(e.side, e.bar))
<1>1. PICK d : Tale(p, day, Len(day), d) /\ Replayed(p, day) = d.events
  BY ReplayedIsTale
<1>2. Replayed(p, day) \in Seq(Events)
  BY <1>1 DEF Tale, Replays
<1>3. ASSUME NEW e \in EventsOf(d.events)
      PROVE  e \in Events /\ e.bar \in DOMAIN bars /\ (e.type = "trigger" => FirstAt(e.side, e.bar))
  <2>1. /\ e \in Events /\ e.bar \in 1 .. Len(day)
        /\ e.type = "trigger" => /\ Reaches(p, e.side, day[e.bar])
                                 /\ \A j \in 1 .. e.bar - 1 : ~Reaches(p, e.side, day[j])
    BY <1>1 DEF Tale
  <2>2. e.bar \in DOMAIN bars
    BY <2>1 DEF Typed, Older
  <2>3. e.side \in Sides
    BY <2>1 DEF Events
  <2>4. e.type = "trigger" => FirstAt(e.side, e.bar)
    BY <2>1, <2>3, FirstOfOlder
  <2>5. QED
    BY <2>1, <2>2, <2>4
<1>4. QED
  BY <1>1, <1>2, <1>3

(* A row is of a move of the story, under its setup and side.              *)
LEMMA RowIsMove ==
    ASSUME NEW p \in LivePlans, NEW day, Replayed(p, day) \in Seq(Events), NEW k \in DOMAIN RowsOf(p, day)
    PROVE  LET m == RowsOf(p, day)[k]
               told == EventsOf(Replayed(p, day))
           IN  /\ k = <<p.setup, m.trigger.side>> /\ p.setup \in Setups
               /\ m.trigger \in told /\ m.end \in told
               /\ m.trigger.type = "trigger" /\ m.trigger.bar <= m.end.bar
<1> DEFINE moves == MissedMoves(Replayed(p, day))
           m == RowsOf(p, day)[k]
<1>1. k \in {RowKey(p, x) : x \in moves} /\ m = CHOOSE x \in moves : RowKey(p, x) = k
  BY DEF RowsOf
<1>2. m \in moves /\ RowKey(p, m) = k
  BY <1>1
<1> HIDE DEF m
<1>3. /\ m.trigger \in EventsOf(Replayed(p, day)) /\ m.end \in EventsOf(Replayed(p, day))
      /\ m.trigger.type = "trigger" /\ m.trigger.bar <= m.end.bar
  BY <1>2, MovesAreTold
<1>4. k = <<p.setup, m.trigger.side>> /\ p.setup \in Setups
  BY <1>2 DEF RowKey, Setups
<1>5. QED
  BY <1>3, <1>4 DEF m

LEMMA ToldIs == \A w \in Threads : Told(w) = EventsOf(Replayed(th[w].plan, th[w].day))
BY DEF Told, EventsOf

LEMMA KeyParts ==
    ASSUME NEW p, NEW e \in Events
    PROVE  /\ Key(p, e)[1] = e.type /\ Key(p, e)[2] = e.side
           /\ e.type = "trigger" => Key(p, e) = <<"trigger", e.side, NoLevel>>
           /\ \A s : Key(p, e) = <<"trigger", s, NoLevel>> => e.type = "trigger" /\ e.side = s
BY DEF Key, Events, Kinds

LEMMA SameTold ==
    ASSUME NEW w \in Threads, th[w]' = th[w]
    PROVE  Told(w)' = Told(w) /\ At(w)' = At(w)
BY DEF Told, Replayed, At

-----------------------------------------------------------------------------
(* The market: a bar is added, or the last one grows.                      *)
LEMMA MarketKeeps ==
    ASSUME Typed, StoredInv, UNCHANGED <<cache, store, th>>, bars' \in Seq(Shapes),
           DOMAIN bars \subseteq DOMAIN bars',
           \A i \in DOMAIN bars : bars'[i].low <= bars[i].low /\ bars[i].high <= bars'[i].high,
           \A i \in DOMAIN bars : i < Len(bars) => bars'[i] = bars[i]
    PROVE  StoredInv'
<1>1. /\ Len(bars) \in Nat /\ Len(bars') \in Nat /\ Len(bars) <= Len(bars')
      /\ DOMAIN bars = 1 .. Len(bars) /\ DOMAIN bars' = 1 .. Len(bars')
      /\ \A i \in DOMAIN bars : bars[i] \in Shapes /\ bars'[i] \in Shapes
  BY DEF Typed
<1>2. \A i \in DOMAIN bars : /\ bars[i].low \in Int /\ bars[i].high \in Int
                             /\ bars'[i].low \in Int /\ bars'[i].high \in Int
  BY <1>1, StoreBounds
<1>3. ASSUME NEW day \in Seq(Shapes), Older(day)
      PROVE  /\ Len(day) <= Len(bars')
             /\ \A i \in 1 .. Len(day) : bars'[i].low <= day[i].low /\ day[i].high <= bars'[i].high
             /\ \A i \in 1 .. Len(day) - 1 : day[i] = bars'[i]
  <2>1. Len(day) \in Nat /\ Len(day) <= Len(bars)
    BY <1>3 DEF Older
  <2>2. Len(day) <= Len(bars')
    BY <1>1, <2>1
  <2>3. ASSUME NEW i \in 1 .. Len(day)
        PROVE  bars'[i].low <= day[i].low /\ day[i].high <= bars'[i].high
    <3>1. i \in DOMAIN bars /\ day[i] \in Shapes
      BY <1>1, <2>1
    <3>2. day[i].low \in Int /\ day[i].high \in Int
      BY <3>1, StoreBounds
    <3>3. bars[i].low <= day[i].low /\ day[i].high <= bars[i].high
      BY <1>3 DEF Older
    <3>4. bars'[i].low <= bars[i].low /\ bars[i].high <= bars'[i].high
      BY <3>1
    <3>5. QED
      BY <1>2, <3>1, <3>2, <3>3, <3>4
  <2>4. ASSUME NEW i \in 1 .. Len(day) - 1 PROVE day[i] = bars'[i]
    <3>1. i \in DOMAIN bars /\ i < Len(bars) /\ day[i] = bars[i]
      BY <1>1, <1>3, <2>1 DEF Older
    <3>2. QED
      BY <3>1
  <2>5. QED
    BY <2>2, <2>3, <2>4
<1>4. ASSUME NEW s \in Sides, NEW i, FirstAt(s, i) PROVE FirstAt(s, i)'
  <2>1. i \in DOMAIN bars /\ i \in DOMAIN bars' /\ Seen(s, bars[i]).high >= Entry(s)
    BY <1>4 DEF FirstAt, ReachedAt
  <2>2. bars[i] \in Shapes /\ bars'[i] \in Shapes
    BY <1>1, <2>1
  <2>3. Seen(s, bars'[i]).high >= Seen(s, bars[i]).high
    <3>1. bars'[i].low <= bars[i].low /\ bars[i].high <= bars'[i].high
      BY <2>1
    <3>2. /\ Seen(s, bars[i]).high = IF s = "long" THEN bars[i].high ELSE -bars[i].low
          /\ Seen(s, bars'[i]).high = IF s = "long" THEN bars'[i].high ELSE -bars'[i].low
      BY <2>2, SeenHigh
    <3>3. QED
      BY <1>2, <2>1, <3>1, <3>2
  <2>4. /\ Seen(s, bars[i]).high \in Int /\ Seen(s, bars'[i]).high \in Int /\ Entry(s) \in Int
    BY <2>2, SeenHigh
  <2>5. Seen(s, bars'[i]).high >= Entry(s)
    BY <2>1, <2>3, <2>4
  <2>6. ASSUME NEW j \in 1 .. i - 1 PROVE ~(Seen(s, bars'[j]).high >= Entry(s))
    <3>1. j \in DOMAIN bars /\ j < Len(bars)
      BY <1>1, <2>1
    <3>2. bars'[j] = bars[j] /\ ~ReachedAt(s, j)
      BY <1>4, <3>1 DEF FirstAt
    <3>3. QED
      BY <3>2 DEF ReachedAt
  <2>7. QED
    BY <2>1, <2>5, <2>6 DEF FirstAt, ReachedAt
<1>5. Older(cache)'
  BY <1>3 DEF StoredInv, Typed, Older
<1>6. PlansInv'
  BY DEF StoredInv, PlansInv, store
<1>7. EventsInv'
  <2>1. \A k \in DOMAIN events : events[k].bar \in DOMAIN bars' /\ events[k].plan \in DOMAIN plans
    BY DEF StoredInv, EventsInv
  <2>2. ASSUME NEW s \in Sides, <<"trigger", s, NoLevel>> \in DOMAIN events
        PROVE  FirstAt(s, events[<<"trigger", s, NoLevel>>].bar)'
    <3>1. FirstAt(s, events[<<"trigger", s, NoLevel>>].bar)
      BY <2>2 DEF StoredInv, EventsInv
    <3>2. \A i : i = events[<<"trigger", s, NoLevel>>].bar => FirstAt(s, i)'
      BY <1>4, <3>1
    <3>3. QED
      BY <3>2 DEF store
  <2>3. QED
    BY <2>1, <2>2 DEF EventsInv, store
<1>8. RowsInv'
  <2>1. ASSUME NEW k \in DOMAIN rows PROVE FirstAt(k[2], rows[k].trigger.bar)'
    <3>1. FirstAt(k[2], rows[k].trigger.bar) /\ k[2] \in Sides
      BY DEF StoredInv, RowsInv
    <3>2. \A i : i = rows[k].trigger.bar => FirstAt(k[2], i)'
      BY <1>4, <3>1
    <3>3. QED
      BY <3>2 DEF store
  <2>2. RowsAreTold'
    BY DEF StoredInv, RowsInv, RowsAreTold, store
  <2>3. QED
    BY <2>1, <2>2 DEF StoredInv, RowsInv, store
<1>9. ASSUME NEW w \in Threads, At(w)' # "idle" PROVE Carries(w)'
  <2>1. At(w)' = At(w) /\ Told(w)' = Told(w)
    BY SameTold
  <2>2. Carries(w) /\ th[w] \in Frame
    BY <1>9, <2>1, FrameOf DEF StoredInv
  <2>3. Older(th[w].day)'
    <3>1. th[w].day \in Seq(Shapes) /\ Older(th[w].day)
      BY <2>2 DEF Frame, Carries
    <3>2. QED
      BY <1>3, <3>1 DEF Older
  <2>4. QED
    BY <2>1, <2>2, <2>3 DEF Carries, store
<1>10. QED
  BY <1>5, <1>6, <1>7, <1>8, <1>9 DEF StoredInv

-----------------------------------------------------------------------------
(* A statement of one refresh, which leaves the bars alone and removes     *)
(* nothing: what the others carry stays.                                   *)
LEMMA RefreshKeeps ==
    ASSUME Typed, StoredInv, NEW w \in Threads, NEW f, th' = [th EXCEPT ![w] = f], UNCHANGED bars,
           DOMAIN plans \subseteq DOMAIN plans', DOMAIN events \subseteq DOMAIN events',
           Older(cache'), PlansInv', EventsInv', RowsInv', At(w)' # "idle" => Carries(w)'
    PROVE  StoredInv'
<1>1. ASSUME NEW v \in Threads, v # w, At(v)' # "idle" PROVE Carries(v)'
  <2>1. th[v]' = th[v]
    BY <1>1 DEF Typed
  <2>2. At(v)' = At(v) /\ Told(v)' = Told(v)
    BY <2>1, SameTold
  <2>3. Carries(v)
    BY <1>1, <2>2 DEF StoredInv
  <2>4. QED
    BY <2>1, <2>2, <2>3 DEF Carries, Older
<1>2. Older(cache)'
  BY DEF Older
<1>3. QED
  BY <1>1, <1>2 DEF StoredInv

(* What is stored is untouched.                                            *)
LEMMA StoreStands ==
    ASSUME StoredInv, UNCHANGED <<bars, store>>
    PROVE  PlansInv' /\ EventsInv' /\ RowsInv'
<1>1. PlansInv'
  BY DEF StoredInv, PlansInv, store
<1>2. \A s, i : FirstAt(s, i)' <=> FirstAt(s, i)
  BY DEF FirstAt, ReachedAt
<1>3. EventsInv'
  BY <1>2 DEF StoredInv, EventsInv, store
<1>4. RowsInv'
  BY <1>2 DEF StoredInv, RowsInv, RowsAreTold, store
<1>5. QED
  BY <1>1, <1>3, <1>4

LEMMA StoredBegins == Init => StoredInv /\ CountsInv
<1>1. SUFFICES ASSUME Init PROVE StoredInv /\ CountsInv
  OBVIOUS
<1>2. \A w \in Threads : At(w) = "idle"
  BY <1>1 DEF Init, At, Idle
<1>3. Older(cache)
  BY <1>1 DEF Init, Older
<1>4. PlansInv /\ EventsInv /\ RowsInv
  BY <1>1 DEF Init, PlansInv, EventsInv, RowsInv, RowsAreTold
<1>5. CountsInv
  <2>1. Len(bars) = 0 /\ clock.day = 1 /\ asked = 0 /\ faults = 0
    BY <1>1 DEF Init
  <2>2. {done, overlapped} \subseteq BOOLEAN
    BY <1>1 DEF Init
  <2>3. QED
    BY <2>1, <2>2, StoreBounds DEF CountsInv
<1>6. QED
  BY <1>2, <1>3, <1>4, <1>5 DEF StoredInv

LEMMA NewBarKeeps == ASSUME Typed, StoredInv, NEW b \in Shapes, NewBar(b) PROVE StoredInv'
<1>1. bars \in Seq(Shapes) /\ bars' = Append(bars, b)
  BY DEF Typed, NewBar
<1>2. /\ bars' \in Seq(Shapes) /\ DOMAIN bars = 1 .. Len(bars) /\ Len(bars) \in Nat
      /\ DOMAIN bars' = 1 .. Len(bars) + 1
      /\ \A i \in DOMAIN bars : bars'[i] = bars[i] /\ bars[i] \in Shapes
  BY <1>1
<1>3. \A i \in DOMAIN bars : bars[i].low \in Int /\ bars[i].high \in Int
  BY <1>2, StoreBounds
<1>4. \A i \in DOMAIN bars : bars'[i].low <= bars[i].low /\ bars[i].high <= bars'[i].high
  BY <1>2, <1>3
<1>5. DOMAIN bars \subseteq DOMAIN bars'
  BY <1>2
<1>6. UNCHANGED <<cache, store, th>>
  BY DEF NewBar
<1>7. QED
  BY <1>2, <1>4, <1>5, <1>6, MarketKeeps

LEMMA GrowKeeps == ASSUME Typed, StoredInv, NEW b \in Shapes, Grow(b) PROVE StoredInv'
<1>1. /\ bars \in Seq(Shapes) /\ bars' = [bars EXCEPT ![Len(bars)] = b] /\ bars # <<>>
      /\ b.low <= bars[Len(bars)].low /\ b.high >= bars[Len(bars)].high
  BY DEF Typed, Grow
<1>2. /\ bars' \in Seq(Shapes) /\ DOMAIN bars = 1 .. Len(bars) /\ Len(bars) \in Nat
      /\ DOMAIN bars' = DOMAIN bars
      /\ \A i \in DOMAIN bars : i # Len(bars) => bars'[i] = bars[i]
      /\ \A i \in DOMAIN bars : bars[i] \in Shapes
      /\ bars'[Len(bars)] = b
  BY <1>1
<1>3. \A i \in DOMAIN bars : bars[i].low \in Int /\ bars[i].high \in Int
  BY <1>2, StoreBounds
<1>4. ASSUME NEW i \in DOMAIN bars
      PROVE  bars'[i].low <= bars[i].low /\ bars[i].high <= bars'[i].high
  <2>1. CASE i = Len(bars)
    <3>1. b.low \in Int /\ b.high \in Int
      BY StoreBounds
    <3>2. QED
      BY <1>1, <1>2, <1>3, <2>1, <3>1
  <2>2. CASE i # Len(bars)
    BY <1>2, <1>3, <2>2
  <2>3. QED
    BY <2>1, <2>2
<1>5. \A i \in DOMAIN bars : i < Len(bars) => bars'[i] = bars[i]
  BY <1>2
<1>6. UNCHANGED <<cache, store, th>>
  BY DEF Grow
<1>7. QED
  BY <1>2, <1>4, <1>5, <1>6, MarketKeeps

(* The cache, the clock and the date.                                      *)
LEMMA AsideKeeps ==
    ASSUME Typed, StoredInv, UNCHANGED <<bars, store, th>>, cache' \in {cache, <<>>}
    PROVE  StoredInv'
<1>1. PlansInv' /\ EventsInv' /\ RowsInv'
  BY StoreStands
<1>2. Older(cache)'
  BY NothingIsOlder DEF StoredInv, Older
<1>3. ASSUME NEW w \in Threads, At(w)' # "idle" PROVE Carries(w)'
  <2>1. At(w)' = At(w) /\ Told(w)' = Told(w)
    BY SameTold
  <2>2. Carries(w)
    BY <1>3, <2>1 DEF StoredInv
  <2>3. QED
    BY <2>1, <2>2 DEF Carries, Older, store
<1>4. QED
  BY <1>1, <1>2, <1>3 DEF StoredInv

LEMMA RestartKeeps == ASSUME Typed, StoredInv, Restart PROVE StoredInv'
<1>1. \A w \in Threads : At(w)' = "idle"
  BY DEF Restart, At, Idle
<1>2. UNCHANGED <<bars, store>> /\ cache' = <<>>
  BY DEF Restart
<1>3. PlansInv' /\ EventsInv' /\ RowsInv'
  BY <1>2, StoreStands
<1>4. Older(cache)'
  BY <1>2, NothingIsOlder DEF Older
<1>5. QED
  BY <1>1, <1>3, <1>4 DEF StoredInv

LEMMA StartsKeep ==
    ASSUME Typed, StoredInv, NEW w \in Threads, NEW p \in LivePlans, Starts(w, p)
    PROVE  StoredInv'
<1> DEFINE f == [at |-> "save", asked |-> p, plan |-> p, id |-> 0, day |-> <<>>, known |-> {}]
<1>1. th' = [th EXCEPT ![w] = f] /\ UNCHANGED <<bars, cache, store>>
  BY DEF Starts
<1>2. th'[w] = f /\ At(w)' = "save"
  BY <1>1, OthersStay
<1>3. Carries(w)'
  <2>1. th[w]'.day = <<>>
    BY <1>2
  <2>2. Older(<<>>)'
    BY <1>1, NothingIsOlder DEF Older
  <2>3. QED
    BY <1>2, <2>1, <2>2 DEF Carries, Older
<1>4. PlansInv' /\ EventsInv' /\ RowsInv'
  BY <1>1, StoreStands
<1>5. Older(cache')
  BY <1>1 DEF StoredInv
<1>6. QED
  BY <1>1, <1>3, <1>4, <1>5, RefreshKeeps DEF store

LEMMA SavePlanKeeps == ASSUME Typed, StoredInv, NEW w \in Threads, SavePlan(w) PROVE StoredInv'
<1> DEFINE p == th[w].plan
           id == CHOOSE i \in DOMAIN plans' : plans'[i] = p
           f == [th[w] EXCEPT !.at = "load", !.id = id]
<1>1. th[w] \in Frame /\ At(w) # "idle" /\ Carries(w)
  BY FrameOf DEF StoredInv, SavePlan
<1>2. plans \in Seq(LivePlans) /\ p \in LivePlans /\ UNCHANGED <<bars, cache, events, rows>>
  BY <1>1 DEF Typed, Frame, SavePlan
<1>3. /\ DOMAIN plans \subseteq DOMAIN plans' /\ PlansInv' /\ \E i \in DOMAIN plans' : plans'[i] = p
  <2>1. CASE \E i \in DOMAIN plans : plans[i] = p
    <3>1. plans' = plans
      BY <2>1 DEF SavePlan
    <3>2. QED
      BY <2>1, <3>1 DEF StoredInv, PlansInv
  <2>2. CASE \A i \in DOMAIN plans : plans[i] # p
    <3>1. plans' = Append(plans, p)
      BY <2>2 DEF SavePlan
    <3>2. /\ Len(plans) \in Nat /\ DOMAIN plans = 1 .. Len(plans)
          /\ DOMAIN plans' = 1 .. Len(plans) + 1 /\ plans'[Len(plans) + 1] = p
          /\ \A i \in DOMAIN plans : plans'[i] = plans[i]
      BY <1>2, <3>1
    <3>3. PlansInv'
      BY <2>2, <3>2 DEF StoredInv, PlansInv
    <3>4. QED
      BY <3>2, <3>3
  <2>3. QED
    BY <2>1, <2>2
<1>4. id \in DOMAIN plans'
  BY <1>3
<1> HIDE DEF id
<1>5. th' = [th EXCEPT ![w] = f]
  BY DEF SavePlan, Typed, id
<1>6. f.at = "load" /\ f.id = id /\ f.day = th[w].day
  BY <1>1 DEF Frame
<1> HIDE DEF f
<1>7. th'[w] = f /\ At(w)' = "load"
  BY <1>5, <1>6, OthersStay
<1>8. Carries(w)'
  BY <1>1, <1>2, <1>4, <1>6, <1>7 DEF Carries, Older
<1>9. \A s, i : FirstAt(s, i)' <=> FirstAt(s, i)
  BY <1>2 DEF FirstAt, ReachedAt
<1>10. EventsInv'
  BY <1>2, <1>3, <1>9 DEF StoredInv, EventsInv
<1>11. RowsInv'
  BY <1>2, <1>9 DEF StoredInv, RowsInv, RowsAreTold
<1>12. Older(cache')
  BY <1>2 DEF StoredInv
<1>13. QED
  BY <1>2, <1>3, <1>5, <1>8, <1>10, <1>11, <1>12, RefreshKeeps

LEMMA LoadBarsKeeps == ASSUME Typed, StoredInv, NEW w \in Threads, LoadBars(w) PROVE StoredInv'
<1>1. th[w] \in Frame /\ At(w) = "load" /\ Carries(w)
  BY FrameOf DEF StoredInv, LoadBars
<1>2. PICK day \in IF cache # <<>> THEN {cache} ELSE {bars, <<>>} :
          th' = [th EXCEPT ![w] = [@ EXCEPT !.at = "append", !.day = day]] /\ cache' = day
  BY DEF LoadBars
<1>3. UNCHANGED <<bars, store>>
  BY DEF LoadBars
<1>4. Older(day)
  <2>1. Older(bars)
    <3>1. \A i \in 1 .. Len(bars) : bars[i] \in Shapes
      BY DEF Typed
    <3>2. \A i \in 1 .. Len(bars) : bars[i].low \in Int /\ bars[i].high \in Int
      BY <3>1, StoreBounds
    <3>3. QED
      BY <3>2 DEF Older, Typed
  <2>2. QED
    BY <2>1, NothingIsOlder DEF StoredInv
<1> DEFINE f == [th[w] EXCEPT !.at = "append", !.day = day]
<1>5. th' = [th EXCEPT ![w] = f]
  BY <1>2 DEF Typed
<1>6. f.at = "append" /\ f.id = th[w].id /\ f.day = day
  BY <1>1 DEF Frame
<1> HIDE DEF f
<1>7. th'[w] = f /\ At(w)' = "append"
  BY <1>5, <1>6, OthersStay
<1>8. Carries(w)'
  BY <1>1, <1>3, <1>4, <1>6, <1>7 DEF Carries, Older, store
<1>9. PlansInv' /\ EventsInv' /\ RowsInv'
  BY <1>3, StoreStands
<1>10. Older(cache')
  BY <1>2, <1>4
<1>11. QED
  BY <1>3, <1>5, <1>8, <1>9, <1>10, RefreshKeeps DEF store

LEMMA AppendKeeps == ASSUME Typed, StoredInv, NEW w \in Threads, AppendEvents(w) PROVE StoredInv'
<1> DEFINE p == th[w].plan
           new == {e \in Told(w) : Key(p, e) \notin DOMAIN events /\ th[w].id \in DOMAIN plans}
           f == [th[w] EXCEPT !.at = "match"]
<1>1. th[w] \in Frame /\ At(w) = "append" /\ Carries(w)
  BY FrameOf DEF StoredInv, AppendEvents
<1>2. UNCHANGED <<bars, cache, plans, rows>>
  BY DEF AppendEvents
<1>3. p \in LivePlans /\ th[w].day \in Seq(Shapes) /\ th[w].id \in DOMAIN plans /\ Older(th[w].day)
  BY <1>1 DEF Frame, Carries
<1>4. \A e \in Told(w) : e \in Events /\ e.bar \in DOMAIN bars /\ (e.type = "trigger" => FirstAt(e.side, e.bar))
  BY <1>3, StoryOfOlder, ToldIs
<1>5. events' = [k \in DOMAIN events \cup {Key(p, e) : e \in new} |->
                    IF k \in DOMAIN events THEN events[k]
                    ELSE [bar |-> (CHOOSE e \in new : Key(p, e) = k).bar, plan |-> th[w].id]]
  BY DEF AppendEvents
<1>6. new \subseteq Told(w) /\ \A e \in Told(w) : Key(p, e) \in DOMAIN events \/ e \in new
  BY <1>3
<1> HIDE DEF new
<1>7. /\ DOMAIN events \subseteq DOMAIN events'
      /\ \A e \in Told(w) : Key(p, e) \in DOMAIN events'
      /\ \A k \in DOMAIN events : events'[k] = events[k]
  BY <1>5, <1>6
<1>8. ASSUME NEW k \in DOMAIN events', k \notin DOMAIN events
      PROVE  \E e \in Told(w) : Key(p, e) = k /\ events'[k].bar = e.bar /\ events'[k].plan = th[w].id
  <2>1. k \in {Key(p, e) : e \in new}
    BY <1>5, <1>8
  <2> DEFINE x == CHOOSE e \in new : Key(p, e) = k
  <2>2. x \in new /\ Key(p, x) = k
    BY <2>1
  <2>3. events'[k] = [bar |-> x.bar, plan |-> th[w].id]
    BY <1>5, <1>8
  <2> HIDE DEF x
  <2>4. QED
    BY <1>6, <2>2, <2>3
<1>9. \A s, i : FirstAt(s, i)' <=> FirstAt(s, i)
  BY <1>2 DEF FirstAt, ReachedAt
<1>10. EventsInv'
  <2>1. ASSUME NEW k \in DOMAIN events' PROVE events'[k].bar \in DOMAIN bars /\ events'[k].plan \in DOMAIN plans
    <3>1. CASE k \in DOMAIN events
      BY <1>7, <3>1 DEF StoredInv, EventsInv
    <3>2. CASE k \notin DOMAIN events
      BY <1>3, <1>4, <1>8, <3>2
    <3>3. QED
      BY <3>1, <3>2
  <2>2. ASSUME NEW s \in Sides, <<"trigger", s, NoLevel>> \in DOMAIN events'
        PROVE  FirstAt(s, events'[<<"trigger", s, NoLevel>>].bar)
    <3> DEFINE k == <<"trigger", s, NoLevel>>
    <3>1. CASE k \in DOMAIN events
      BY <1>7, <3>1 DEF StoredInv, EventsInv
    <3>2. CASE k \notin DOMAIN events
      <4>1. PICK e \in Told(w) : Key(p, e) = k /\ events'[k].bar = e.bar
        BY <1>8, <2>2, <3>2
      <4>2. e.type = "trigger" /\ e.side = s
        BY <1>4, <4>1, KeyParts
      <4>3. QED
        BY <1>4, <4>1, <4>2
    <3>3. QED
      BY <3>1, <3>2
  <2>3. \A s \in Sides : <<"trigger", s, NoLevel>> \in DOMAIN events' =>
                            FirstAt(s, events[<<"trigger", s, NoLevel>>].bar)'
    BY <1>9, <2>2
  <2>4. QED
    BY <1>2, <2>1, <2>3 DEF EventsInv
<1>11. RowsInv'
  <2>1. \A k \in DOMAIN rows : FirstAt(k[2], rows[k].trigger.bar)'
    BY <1>2, <1>9 DEF StoredInv, RowsInv
  <2>2. RowsAreTold'
    BY <1>2, <1>7 DEF StoredInv, RowsInv, RowsAreTold
  <2>3. QED
    BY <1>2, <2>1, <2>2 DEF StoredInv, RowsInv
<1>12. th' = [th EXCEPT ![w] = f]
  BY DEF AppendEvents, Typed
<1>13. f.at = "match" /\ f.id = th[w].id /\ f.day = th[w].day /\ f.plan = p
  BY <1>1 DEF Frame
<1> HIDE DEF f
<1>14. th'[w] = f /\ At(w)' = "match"
  BY <1>12, <1>13, OthersStay
<1>15. Told(w)' = Told(w)
  <2>1. Told(w)' = EventsOf(Replayed(th'[w].plan, th'[w].day))
    BY DEF Told, EventsOf, Replayed
  <2>2. QED
    BY <1>13, <1>14, <2>1, ToldIs
<1>16. Carries(w)'
  BY <1>2, <1>3, <1>7, <1>13, <1>14, <1>15 DEF Carries, Older
<1>17. Older(cache')
  BY <1>2 DEF StoredInv
<1>18. QED
  BY <1>2, <1>7, <1>10, <1>11, <1>12, <1>16, <1>17, RefreshKeeps DEF StoredInv, PlansInv

LEMMA MatchKeeps == ASSUME Typed, StoredInv, NEW w \in Threads, MatchRows(w) PROVE StoredInv'
<1> DEFINE f == [th[w] EXCEPT !.at = "merge", !.known = DOMAIN Moves(w) \cap DOMAIN rows]
<1>1. th[w] \in Frame /\ At(w) = "match" /\ Carries(w)
  BY FrameOf DEF StoredInv, MatchRows
<1>2. UNCHANGED <<bars, cache, store>>
  BY DEF MatchRows
<1>3. th' = [th EXCEPT ![w] = f]
  BY DEF MatchRows, Typed
<1>4. f.at = "merge" /\ f.id = th[w].id /\ f.day = th[w].day /\ f.plan = th[w].plan
  BY <1>1 DEF Frame
<1> HIDE DEF f
<1>5. th'[w] = f /\ At(w)' = "merge"
  BY <1>3, <1>4, OthersStay
<1>6. Told(w)' = Told(w)
  <2>1. Told(w)' = EventsOf(Replayed(th'[w].plan, th'[w].day))
    BY DEF Told, EventsOf, Replayed
  <2>2. QED
    BY <1>4, <1>5, <2>1, ToldIs
<1>7. Carries(w)'
  BY <1>1, <1>2, <1>4, <1>5, <1>6 DEF Carries, Older, store
<1>8. PlansInv' /\ EventsInv' /\ RowsInv'
  BY <1>2, StoreStands
<1>9. Older(cache')
  BY <1>2 DEF StoredInv
<1>10. QED
  BY <1>2, <1>3, <1>7, <1>8, <1>9, RefreshKeeps DEF store

LEMMA MergeKeeps == ASSUME Typed, StoredInv, NEW w \in Threads, MergeRows(w) PROVE StoredInv'
<1> DEFINE p == th[w].plan
           moves == RowsOf(p, th[w].day)
<1>1. th[w] \in Frame /\ At(w) = "merge" /\ Carries(w)
  BY FrameOf DEF StoredInv, MergeRows
<1>2. UNCHANGED <<bars, cache, plans, events>>
  BY DEF MergeRows
<1>3. p \in LivePlans /\ th[w].day \in Seq(Shapes) /\ Older(th[w].day)
  BY <1>1 DEF Frame, Carries
<1>4. /\ Replayed(p, th[w].day) \in Seq(Events)
      /\ \A e \in Told(w) : /\ e \in Events /\ (e.type = "trigger" => FirstAt(e.side, e.bar))
                            /\ Key(p, e) \in DOMAIN events
  BY <1>1, <1>3, StoryOfOlder, ToldIs DEF Carries
<1>5. PICK seen : rows' = Merged(moves, seen)
  BY DEF MergeRows, Moves
<1>6. /\ DOMAIN rows' = DOMAIN rows \cup DOMAIN moves
      /\ \A k \in DOMAIN rows' : \/ k \in DOMAIN rows /\ rows'[k] = rows[k]
                                 \/ k \in DOMAIN moves /\ rows'[k] = moves[k]
  BY <1>5 DEF Merged
<1>7. ASSUME NEW k \in DOMAIN moves
      PROVE  /\ k \in Setups \X Sides /\ FirstAt(k[2], moves[k].trigger.bar)
             /\ <<"trigger", moves[k].trigger.side, NoLevel>> \in DOMAIN events
             /\ \E e \in DOMAIN events : e[1] = moves[k].end.type /\ e[2] = moves[k].end.side
             /\ moves[k].trigger.bar <= moves[k].end.bar
  <2> DEFINE m == moves[k]
  <2>1. /\ k = <<p.setup, m.trigger.side>> /\ p.setup \in Setups
        /\ m.trigger \in Told(w) /\ m.end \in Told(w)
        /\ m.trigger.type = "trigger" /\ m.trigger.bar <= m.end.bar
    BY <1>3, <1>4, RowIsMove, ToldIs
  <2> HIDE DEF m
  <2>2. m.trigger \in Events /\ m.end \in Events /\ FirstAt(m.trigger.side, m.trigger.bar)
    BY <1>4, <2>1
  <2>3. k[2] = m.trigger.side /\ k \in Setups \X Sides
    BY <2>1, <2>2 DEF Events
  <2>4. <<"trigger", m.trigger.side, NoLevel>> \in DOMAIN events
    BY <1>4, <2>1, <2>2, KeyParts
  <2>5. Key(p, m.end) \in DOMAIN events /\ Key(p, m.end)[1] = m.end.type /\ Key(p, m.end)[2] = m.end.side
    BY <1>4, <2>1, <2>2, KeyParts
  <2>6. QED
    BY <2>1, <2>2, <2>3, <2>4, <2>5 DEF m
<1> HIDE DEF moves
<1>8. \A s, i : FirstAt(s, i)' <=> FirstAt(s, i)
  BY <1>2 DEF FirstAt, ReachedAt
<1>9. RowsInv'
  <2>1. DOMAIN rows' \subseteq Setups \X Sides
    BY <1>6, <1>7 DEF StoredInv, RowsInv
  <2>2. ASSUME NEW k \in DOMAIN rows' PROVE FirstAt(k[2], rows'[k].trigger.bar)
    BY <1>6, <1>7, <2>2 DEF StoredInv, RowsInv
  <2>3. ASSUME NEW k \in DOMAIN rows'
        PROVE  /\ <<"trigger", rows'[k].trigger.side, NoLevel>> \in DOMAIN events
               /\ \E e \in DOMAIN events : e[1] = rows'[k].end.type /\ e[2] = rows'[k].end.side
               /\ rows'[k].trigger.bar <= rows'[k].end.bar
    <3>1. CASE k \in DOMAIN rows /\ rows'[k] = rows[k]
      BY <3>1 DEF StoredInv, RowsInv, RowsAreTold
    <3>2. CASE k \in DOMAIN moves /\ rows'[k] = moves[k]
      BY <1>7, <3>2
    <3>3. QED
      BY <1>6, <3>1, <3>2
  <2>4. \A k \in DOMAIN rows' : FirstAt(k[2], rows[k].trigger.bar)'
    BY <1>8, <2>2
  <2>5. RowsAreTold'
    BY <1>2, <2>3 DEF RowsAreTold
  <2>6. QED
    BY <2>1, <2>4, <2>5 DEF RowsInv
<1>10. EventsInv'
  BY <1>2, <1>8 DEF StoredInv, EventsInv
<1>11. th' = [th EXCEPT ![w] = Idle] /\ Idle.at = "idle"
  BY DEF MergeRows, Idle
<1>12. At(w)' = "idle"
  BY <1>11, OthersStay
<1>13. PlansInv' /\ Older(cache')
  BY <1>2 DEF StoredInv, PlansInv
<1>14. QED
  BY <1>2, <1>9, <1>10, <1>11, <1>12, <1>13, RefreshKeeps

LEMMA FailsKeeps == ASSUME Typed, StoredInv, NEW w \in Threads, Fails(w) PROVE StoredInv'
<1>1. th' = [th EXCEPT ![w] = Idle] /\ Idle.at = "idle" /\ UNCHANGED <<bars, cache, store>>
  BY DEF Fails, Idle
<1>2. At(w)' = "idle"
  BY <1>1, OthersStay
<1>3. PlansInv' /\ EventsInv' /\ RowsInv'
  BY <1>1, StoreStands
<1>4. Older(cache')
  BY <1>1 DEF StoredInv
<1>5. QED
  BY <1>1, <1>2, <1>3, <1>4, RefreshKeeps DEF store

LEMMA StoredKeeps == Inv /\ StoredInv /\ [Next]_vars => StoredInv'
<1>1. SUFFICES ASSUME Typed, StoredInv, [Next]_vars PROVE StoredInv'
  BY DEF Inv
<1>2. CASE \E b \in Shapes : NewBar(b) \/ Grow(b)
  BY <1>1, <1>2, NewBarKeeps, GrowKeeps
<1>3. CASE CacheExpires \/ TimePasses \/ ForgetDate
  <2>1. UNCHANGED <<bars, store, th>> /\ cache' \in {cache, <<>>}
    BY <1>3 DEF CacheExpires, TimePasses, ForgetDate
  <2>2. QED
    BY <1>1, <2>1, AsideKeeps
<1>4. CASE Restart
  BY <1>1, <1>4, RestartKeeps
<1>5. ASSUME NEW p \in LivePlans, RunSchedule(p) PROVE StoredInv'
  BY <1>1, <1>5, StartsKeep DEF RunSchedule, Threads
<1>6. ASSUME NEW p \in LivePlans, NEW w \in Visitors, Ask(w, p) PROVE StoredInv'
  BY <1>1, <1>6, StartsKeep DEF Ask, Threads
<1>7. ASSUME NEW w \in Threads, Steps(w) PROVE StoredInv'
  BY <1>1, <1>7, SavePlanKeeps, LoadBarsKeeps, AppendKeeps, MatchKeeps, MergeKeeps, FailsKeeps DEF Steps
<1>8. CASE UNCHANGED vars
  <2>1. UNCHANGED <<bars, store, th>> /\ cache' \in {cache, <<>>}
    BY <1>8 DEF vars
  <2>2. QED
    BY <1>1, <2>1, AsideKeeps
<1>9. QED
  BY <1>1, <1>2, <1>3, <1>4, <1>5, <1>6, <1>7, <1>8 DEF Next

(* The bounds are those in the guards.                                     *)
LEMMA CountsKeep == Inv /\ CountsInv /\ [Next]_vars => CountsInv'
<1>1. SUFFICES ASSUME Typed, CountsInv, [Next]_vars PROVE CountsInv'
  BY DEF Inv
<1>2. Len(bars)' <= MaxBars
  <2>1. bars \in Seq(Shapes) /\ Len(bars) <= MaxBars /\ Len(bars) \in Nat /\ MaxBars \in Nat
    BY <1>1, StoreBounds DEF Typed, CountsInv
  <2>2. ASSUME NEW b \in Shapes, NewBar(b) PROVE Len(bars') <= MaxBars
    <3>1. bars' = Append(bars, b) /\ Len(bars) < MaxBars
      BY <2>2 DEF NewBar
    <3>2. QED
      BY <2>1, <3>1
  <2>3. ASSUME NEW b \in Shapes, Grow(b) PROVE Len(bars') <= MaxBars
    <3>1. bars' = [bars EXCEPT ![Len(bars)] = b]
      BY <2>3 DEF Grow
    <3>2. Len(bars') = Len(bars)
      BY <2>1, <3>1
    <3>3. QED
      BY <2>1, <3>2
  <2>4. (\E b \in Shapes : NewBar(b) \/ Grow(b)) \/ UNCHANGED bars
    BY <1>1 DEF Next, CacheExpires, TimePasses, ForgetDate, Restart, RunSchedule, Ask, Starts, Steps,
                SavePlan, LoadBars, AppendEvents, MatchRows, MergeRows, Fails, vars
  <2>5. QED
    BY <2>1, <2>2, <2>3, <2>4
<1>3. clock'.day \in 1 .. MaxDays
  <2>1. clock \in [day : Nat, hour : {"before", "window"}] /\ clock.day \in 1 .. MaxDays
    BY <1>1 DEF Typed, CountsInv
  <2>2. CASE TimePasses
    BY <2>1, <2>2, StoreBounds DEF TimePasses
  <2>3. TimePasses \/ UNCHANGED clock
    BY <1>1 DEF Next, NewBar, Grow, CacheExpires, ForgetDate, Restart, RunSchedule, Ask, Starts, Steps,
                SavePlan, LoadBars, AppendEvents, MatchRows, MergeRows, Fails, vars
  <2>4. QED
    BY <2>1, <2>2, <2>3
<1>4. {done', overlapped'} \subseteq BOOLEAN
  <2>1. done \in BOOLEAN /\ overlapped \in BOOLEAN
    BY <1>1 DEF CountsInv
  <2>2. done' \in BOOLEAN
    BY <1>1, <2>1 DEF Next, NewBar, Grow, CacheExpires, TimePasses, ForgetDate, Restart, RunSchedule, Ask,
                Starts, Steps, CompletesDate,
                SavePlan, LoadBars, AppendEvents, MatchRows, MergeRows, Fails, vars
  <2>3. overlapped' \in BOOLEAN
    BY <1>1, <2>1 DEF Next, NewBar, Grow, CacheExpires, TimePasses, ForgetDate, Restart, RunSchedule, Ask,
                Starts, Steps, history,
                SavePlan, LoadBars, AppendEvents, MatchRows, MergeRows, Fails, vars
  <2>4. QED
    BY <2>2, <2>3
<1>5. asked' \in 0 .. MaxRequests
  <2>1. asked \in 0 .. MaxRequests /\ MaxRequests \in Nat
    BY <1>1, StoreBounds DEF CountsInv
  <2>2. UNCHANGED asked \/ (asked < MaxRequests /\ asked' = asked + 1)
    BY <1>1 DEF Next, NewBar, Grow, CacheExpires, TimePasses, ForgetDate, Restart, RunSchedule, Ask, Steps,
                SavePlan, LoadBars, AppendEvents, MatchRows, MergeRows, Fails, vars
  <2>3. QED
    BY <2>1, <2>2
<1>6. faults' \in 0 .. MaxFaults
  <2>1. faults \in 0 .. MaxFaults /\ MaxFaults \in Nat
    BY <1>1, StoreBounds DEF CountsInv
  <2>2. UNCHANGED faults \/ (faults < MaxFaults /\ faults' = faults + 1)
    BY <1>1 DEF Next, NewBar, Grow, CacheExpires, TimePasses, ForgetDate, Restart, RunSchedule, Ask, Starts,
                Steps, SavePlan, LoadBars, AppendEvents, MatchRows, MergeRows, Fails, vars
  <2>3. QED
    BY <2>1, <2>2
<1>7. QED
  BY <1>2, <1>3, <1>4, <1>5, <1>6 DEF CountsInv

(* What is stored is well formed and holds of the day, though plans change,*)
(* bars are still forming and refreshes overlap, fail and are restarted:   *)
(* each stored trigger is at the first bar that reached its entry, and a   *)
(* row is of events that are stored (append_events, save_missed_moves).    *)
THEOREM StoredStaysTrue == Spec => []StoredIsTrue
<1>1. Init => Inv /\ StoredInv /\ CountsInv
  BY InitInv, StoredBegins
<1>2. Inv /\ StoredInv /\ CountsInv /\ [Next]_vars => (Inv /\ StoredInv /\ CountsInv)'
  BY NextInv, StoredKeeps, CountsKeep
<1>3. Inv /\ StoredInv /\ CountsInv => StoredIsTrue
  <2>1. SUFFICES ASSUME Typed, StoredInv, CountsInv PROVE StoredIsTrue
    BY DEF Inv
  <2>2. TypeOK
    <3>1. \A i \in DOMAIN plans : plans[i] \in LivePlans
      BY <2>1 DEF Typed
    <3>2. \A w \in Threads : At(w) \in {"idle", "save", "load", "append", "match", "merge"}
      <4> TAKE w \in Threads
      <4>1. th[w] \in Frame \/ th[w] = Idle
        BY <2>1 DEF Typed
      <4>2. QED
        BY <4>1 DEF At, Frame, Idle
    <3>3. QED
      BY <2>1, <3>1, <3>2 DEF TypeOK, Typed, StoredInv, PlansInv, EventsInv, RowsInv, CountsInv
  <2>3. ASSUME NEW s \in Sides, NEW i, FirstAt(s, i)
        PROVE  /\ i \in {j \in DOMAIN bars : Seen(s, bars[j]).high >= Entry(s)}
               /\ \A j \in {h \in DOMAIN bars : Seen(s, bars[h]).high >= Entry(s)} : i <= j
    <3>1. i \in {j \in DOMAIN bars : Seen(s, bars[j]).high >= Entry(s)}
      BY <2>3 DEF FirstAt, ReachedAt
    <3>2. ASSUME NEW j \in DOMAIN bars, Seen(s, bars[j]).high >= Entry(s) PROVE i <= j
      <4>1. i \in Nat /\ j \in Nat /\ j >= 1
        BY <2>1, <3>1 DEF Typed
      <4>2. j \notin 1 .. i - 1
        BY <2>3, <3>2 DEF FirstAt, ReachedAt
      <4>3. QED
        BY <4>1, <4>2
    <3>3. QED
      BY <3>1, <3>2
  <2>4. TriggersStand
    <3>1. \A s \in Sides : <<"trigger", s, NoLevel>> \in DOMAIN events =>
                              FirstAt(s, events[<<"trigger", s, NoLevel>>].bar)
      BY <2>1 DEF StoredInv, EventsInv
    <3>2. \A k \in DOMAIN rows : k[2] \in Sides /\ FirstAt(k[2], rows[k].trigger.bar)
      BY <2>1 DEF StoredInv, RowsInv
    <3>3. QED
      BY <2>3, <3>1, <3>2 DEF TriggersStand
  <2>5. RowsAreTold
    BY <2>1 DEF StoredInv, RowsInv
  <2>6. QED
    BY <2>2, <2>4, <2>5 DEF StoredIsTrue
<1>4. QED
  BY <1>1, <1>2, <1>3, PTL DEF Spec
=============================================================================
