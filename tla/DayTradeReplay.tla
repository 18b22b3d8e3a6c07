---------------------------- MODULE DayTradeReplay ----------------------------
(***************************************************************************)
(* The replay of a day trade plan: the bars after the opening range are    *)
(* walked once, each side may trigger once, and what a bar does to an      *)
(* active side is looked at in a fixed order, the long side first.  The    *)
(* story is the list of what was told, sorted; a missed move is a trigger  *)
(* of the story and what the story tells next.                             *)
(*                                                                         *)
(* Prices are whole numbers of cents, Buffer one of them.  The two sides   *)
(* mirror each other: a short plan is the long one of the negated prices,  *)
(* which is how Levels and Seen give them.                                 *)
(***************************************************************************)
EXTENDS Integers, Sequences, FiniteSets

CONSTANTS
    OrLow, OrHigh,  \* the opening range, 9:30 to 10:00
    Vwap,           \* VWAP of the opening range
    NoLevel         \* a level the plan does not have

ASSUME DayBounds ==
    /\ OrLow \in Int /\ OrHigh \in Int /\ Vwap \in Int
    /\ OrLow < Vwap /\ Vwap < OrHigh
    /\ NoLevel \notin Int

Buffer == 1
Width == OrHigh - OrLow

Sides == {"long", "short"}
Other(s) == IF s = "long" THEN "short" ELSE "long"
Modes == {"long_only", "short_only", "long_and_short"}
Allowed(s, mode) == mode = "long_and_short" \/ mode = (IF s = "long" THEN "long_only" ELSE "short_only")

Mirrored(s, price) == IF s = "long" THEN price ELSE -price
Edge(s) == IF s = "long" THEN OrHigh ELSE -OrLow
Entry(s) == Edge(s) + Buffer
FirstLevel(s) == Entry(s) + Width

Seen(s, bar) ==
    IF s = "long" THEN bar
    ELSE [bar EXCEPT !.low = -bar.high, !.high = -bar.low, !.close = -bar.close, !.open = -bar.open]

-----------------------------------------------------------------------------
(* A plan p has the mode it was made for, the stop of both sides (the VWAP *)
(* of the live analysis, or none) and the second target of each side, the  *)
(* daily resistance or support, mirrored.  d is a replay under way.        *)
Unmoved == [active |-> FALSE, first |-> FALSE, done |-> FALSE]
NothingTold == [side |-> [s \in Sides |-> Unmoved], events |-> <<>>, cut |-> FALSE]

StopAt(p, s) == IF p.stop = NoLevel THEN NoLevel ELSE Mirrored(s, p.stop)

Tells(d, type, s, n) == Append(d.events, [type |-> type, side |-> s, bar |-> n])

(* Mutant of Ends: the side is told to have ended and may come back.       *)
Ends_Reopens(d, type, s, n) ==
    [d EXCEPT !.side[s].active = FALSE, !.side[s].first = FALSE, !.events = Tells(d, type, s, n)]

(* The side is told to have ended and never comes back that day.           *)
Ends(d, type, s, n) ==
    [d EXCEPT !.side[s].active = FALSE, !.side[s].done = TRUE, !.events = Tells(d, type, s, n)]

(* Mutant of Trigger: the trigger has to be exceeded.                      *)
Trigger_Exceeded(p, d, s, bar, n) ==
    IF /\ Allowed(s, p.mode)
       /\ ~d.side[s].done /\ ~d.side[s].active
       /\ Seen(s, bar).high > Entry(s)
    THEN [d EXCEPT !.side[s].active = TRUE, !.events = Tells(d, "trigger", s, n)]
    ELSE d

Trigger(p, d, s, bar, n) ==
    IF /\ Allowed(s, p.mode)
       /\ ~d.side[s].done /\ ~d.side[s].active
       /\ Seen(s, bar).high >= Entry(s)
    THEN [d EXCEPT !.side[s].active = TRUE, !.events = Tells(d, "trigger", s, n)]
    ELSE d

(* Mutant of FirstTarget: a bar that touches target and stop has reached   *)
(* the target.                                                             *)
FirstTarget_Hopeful(p, d, s, bar, n) ==
    LET reached == [d EXCEPT !.side[s].first = TRUE, !.events = Tells(d, "target_1", s, n)]
    IN  IF \/ d.cut \/ ~d.side[s].active \/ d.side[s].first
           \/ Seen(s, bar).high < FirstLevel(s)
        THEN d
        ELSE IF p.second[s] # NoLevel THEN reached
             ELSE [reached EXCEPT !.side[s].active = FALSE, !.side[s].done = TRUE]

(* A bar that touches the stop too ends the side, and the rest of the bar  *)
(* is not looked at, whichever side it is about.                           *)
FirstTarget(p, d, s, bar, n) ==
    LET reached == [d EXCEPT !.side[s].first = TRUE, !.events = Tells(d, "target_1", s, n)]
    IN  IF \/ d.cut \/ ~d.side[s].active \/ d.side[s].first
           \/ Seen(s, bar).high < FirstLevel(s)
        THEN d
        ELSE IF p.stop # NoLevel /\ Seen(s, bar).low <= StopAt(p, s)
             THEN [Ends(d, "ambiguous", s, n) EXCEPT !.cut = TRUE]
             ELSE IF p.second[s] # NoLevel THEN reached
                  ELSE [reached EXCEPT !.side[s].active = FALSE, !.side[s].done = TRUE]

SecondTarget(p, d, s, bar, n) ==
    IF /\ ~d.cut /\ d.side[s].active /\ d.side[s].first
       /\ p.second[s] # NoLevel /\ Seen(s, bar).high >= p.second[s]
    THEN Ends(d, "target_2", s, n)
    ELSE d

(* Mutant of StopHit: a side past its first target is not stopped.         *)
StopHit_BeforeTarget(p, d, s, bar, n) ==
    IF /\ ~d.cut /\ d.side[s].active /\ ~d.side[s].first
       /\ p.stop # NoLevel /\ Seen(s, bar).low <= StopAt(p, s)
    THEN Ends(d, "stop", s, n)
    ELSE d

StopHit(p, d, s, bar, n) ==
    IF ~d.cut /\ d.side[s].active /\ p.stop # NoLevel /\ Seen(s, bar).low <= StopAt(p, s)
    THEN Ends(d, "stop", s, n)
    ELSE d

(* What is left to gain is no more than what is at risk.                   *)
Extended(p, d, s, bar, n) ==
    LET aim == IF d.side[s].first /\ p.second[s] # NoLevel THEN p.second[s] ELSE FirstLevel(s)
        close == Seen(s, bar).close
    IN  IF /\ ~d.cut /\ d.side[s].active /\ p.stop # NoLevel
           /\ \/ aim - close <= close - StopAt(p, s)
              \/ aim - close <= 0
        THEN Ends(d, "extended", s, n)
        ELSE d

Invalidated(d, s, bar, n) ==
    IF ~d.cut /\ d.side[s].active /\ Seen(s, bar).close < Edge(s)
    THEN Ends(d, "invalidated", s, n)
    ELSE d

(* One bar, the n-th: every check for the long side and then the short.    *)
AfterBar(p, d, bar, n) ==
    LET trigger == Trigger(p, Trigger(p, d, "long", bar, n), "short", bar, n)
        first == FirstTarget(p, FirstTarget(p, trigger, "long", bar, n), "short", bar, n)
        second == SecondTarget(p, SecondTarget(p, first, "long", bar, n), "short", bar, n)
        stop == StopHit(p, StopHit(p, second, "long", bar, n), "short", bar, n)
        extended == Extended(p, Extended(p, stop, "long", bar, n), "short", bar, n)
        closed == Invalidated(Invalidated(extended, "long", bar, n), "short", bar, n)
    IN  [closed EXCEPT !.cut = FALSE]

-----------------------------------------------------------------------------
(* Mutant of Rank: a trigger is sorted behind what its bar led to.         *)
Rank_TriggerLast(e) ==
    CASE e.type = "trigger" -> 50
      [] e.type = "target_1" -> 20
      [] e.type = "extended" -> 30
      [] e.type \in {"stop", "invalidated", "ambiguous"} -> 40
      [] e.type = "target_2" -> 100

(* The story: sorted by the time of the bar, then by the kind of event; an *)
(* event of the second target is a microsecond late.  No key is told twice *)
(* (StoryWellFormed), so the deduplication before it changes nothing.      *)
Rank(e) ==
    CASE e.type = "trigger" -> 10
      [] e.type = "target_1" -> 20
      [] e.type = "extended" -> 30
      [] e.type \in {"stop", "invalidated", "ambiguous"} -> 40
      [] e.type = "target_2" -> 100

(* Mutant of Sorted: the kind of an event counts before its time.          *)
Sorted_ByKind(events) ==
    LET Before(i, j) ==
            \/ Rank(events[i]) < Rank(events[j])
            \/ /\ Rank(events[i]) = Rank(events[j])
               /\ \/ events[i].bar < events[j].bar
                  \/ events[i].bar = events[j].bar /\ i < j
        rank == [j \in DOMAIN events |-> Cardinality({i \in DOMAIN events : Before(i, j)}) + 1]
    IN  [k \in DOMAIN events |-> events[CHOOSE j \in DOMAIN events : rank[j] = k]]

Sorted(events) ==
    LET Before(i, j) ==
            \/ events[i].bar < events[j].bar
            \/ /\ events[i].bar = events[j].bar
               /\ \/ Rank(events[i]) < Rank(events[j])
                  \/ Rank(events[i]) = Rank(events[j]) /\ i < j
        rank == [j \in DOMAIN events |-> Cardinality({i \in DOMAIN events : Before(i, j)}) + 1]
    IN  [k \in DOMAIN events |-> events[CHOOSE j \in DOMAIN events : rank[j] = k]]

(* A trigger replaces the one before it; the first thing told after it is  *)
(* its outcome, for every other event of a story is one.                   *)
MissedMoves(events) ==
    LET story == Sorted(events)
    IN  {[trigger |-> story[k], end |-> story[k + 1]] :
            k \in {i \in 1 .. Len(story) - 1 : /\ story[i].type = "trigger"
                                               /\ story[i + 1].type # "trigger"}}
=============================================================================
