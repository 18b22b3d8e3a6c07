------------------------------- MODULE DayTrade -------------------------------
(***************************************************************************)
(* One day of bars, walked by the replay of the live plan and, until the   *)
(* session closes, by the backtest of the same rules: what the two say of  *)
(* the day, and what they may say of each other.                           *)
(***************************************************************************)
EXTENDS DayTradeBacktest

CONSTANTS
    Lows, Highs, Closes,    \* the prices bars are made of
    Asked,          \* the filters a backtest is asked for
    LiveStops,      \* what the live analysis may take for the VWAP, or NoLevel
    LiveTargets,    \* distances from the range to resistance and support: side -> one or NoLevel
    MaxBars         \* bound: bars of the day

ASSUME PricesAreInts ==
    Lows \cup Highs \cup Closes \subseteq Int /\ LiveStops \subseteq Int \cup {NoLevel}
    /\ LiveTargets \subseteq [Sides -> Int \cup {NoLevel}]
    /\ Asked \subseteq [confirmed : BOOLEAN, aligned : BOOLEAN, morning : BOOLEAN] /\ MaxBars \in Nat

VARIABLES
    plan,       \* the live plan: mode, stop, second target of each side
    filters,    \* what the backtest was asked for
    told,       \* the replay so far
    row,        \* the row of the backtest so far
    n,          \* bars so far
    ended,      \* whether the session has closed
    wide        \* history variable: side -> the last bar touched its stop

vars == <<plan, filters, told, row, n, ended, wide>>

(* The open of a bar matters only if the bar reaches both triggers; then   *)
(* it is nearer to the one or to the other.                                *)
Bars == {b \in [low : Lows, high : Highs, close : Closes, open : Lows \cup Highs] :
            /\ b.low <= b.close /\ b.close <= b.high
            /\ \/ b.open = b.low
               \/ b.open = b.high /\ b.high >= Entry("long") /\ -b.low >= Entry("short")}

SecondLevel(s, t) == IF t = NoLevel THEN NoLevel ELSE Edge(s) + t

Plans == {[mode |-> m, stop |-> v, second |-> [s \in Sides |-> SecondLevel(s, t[s])]] :
             m \in Modes, v \in LiveStops, t \in LiveTargets}

Init ==
    /\ plan \in Plans
    /\ \E a \in Asked : filters = [mode |-> plan.mode, confirmed |-> a.confirmed,
                                   aligned |-> a.aligned, morning |-> a.morning]
    /\ told = NothingTold
    /\ row = NoTrade
    /\ n = 0
    /\ ended = FALSE
    /\ wide = [s \in Sides |-> FALSE]

(* A bar of the session is seen by both, one after hours by the replay.    *)
Bar(b) ==
    /\ n < MaxBars
    /\ n' = n + 1
    /\ told' = AfterBar(plan, told, b, n + 1)
    /\ row' = IF ended THEN row ELSE AfterCandle(filters, row, b, n + 1)
    /\ wide' = [s \in Sides |-> plan.stop # NoLevel /\ Seen(s, b).low <= StopAt(plan, s)]
    /\ UNCHANGED <<plan, filters, ended>>

CloseSession ==
    /\ ~ended
    /\ n > 0
    /\ ended' = TRUE
    /\ row' = AtTheClose(row, n)
    /\ UNCHANGED <<plan, filters, told, n, wide>>

Next == (\E b \in Bars : Bar(b)) \/ CloseSession

Spec == Init /\ [][Next]_vars

-----------------------------------------------------------------------------
Story == Sorted(told.events)

(* What events tell of the side of the j-th of them before it.             *)
Before(events, j) == {events[i].type : i \in {h \in 1 .. j - 1 : events[h].side = events[j].side}}

(* The j-th event of the story is the next of its side after the i-th.     *)
Follows(i, j) ==
    /\ i < j /\ Story[i].side = Story[j].side
    /\ \A k \in i + 1 .. j - 1 : Story[k].side # Story[i].side

Endings == {"target_2", "stop", "ambiguous", "extended", "invalidated"}

(* The bars at which one of these was told of a side.                      *)
BarsOf(s, types) ==
    {told.events[i].bar : i \in {j \in DOMAIN told.events :
                                    told.events[j].side = s /\ told.events[j].type \in types}}

(* Both sides were under way at one bar.                                   *)
LiveAt(s, k) ==
    /\ \E b \in BarsOf(s, {"trigger"}) : b <= k
    /\ told.side[s].active \/ \E i \in DOMAIN told.events :
                                 told.events[i].side = s /\ told.events[i].bar >= k
BothLive == \E k \in 1 .. n : \A s \in Sides : LiveAt(s, k)

TypeOK ==
    /\ plan \in Plans /\ filters \in Filters
    /\ told.side \in [Sides -> [active : BOOLEAN, first : BOOLEAN, done : BOOLEAN]]
    /\ told.cut = FALSE
    /\ n \in 0 .. MaxBars /\ ended \in BOOLEAN /\ wide \in [Sides -> BOOLEAN]
    /\ row.at \in {"waiting", "open", "over"}
    /\ row.at = "waiting" => row = NoTrade /\ ~ended
    /\ row.at = "open" => row.side \in Sides /\ row.exit = "none" /\ row.inside < Confirmations

(* A side's story starts with its one trigger and stops at its one ending, *)
(* a second target only after the first.                                   *)
Fits(type, before) ==
    CASE type = "trigger" -> before = {}
      [] type = "target_1" -> before = {"trigger"}
      [] type = "target_2" -> before = {"trigger", "target_1"}
      [] OTHER -> before \in {{"trigger"}, {"trigger", "target_1"}}

(* So is every event's place in the story, and a side is active from its   *)
(* trigger until it has ended.                                             *)
StoryWellFormed ==
    /\ \A j \in DOMAIN Story :
          /\ Fits(Story[j].type, Before(Story, j))
          /\ Story[j].type \in Endings => told.side[Story[j].side].done
    /\ \A s \in Sides : told.side[s].active =>
          BarsOf(s, {"trigger"}) # {} /\ ~told.side[s].done

(* No side stays active through a bar that touched its stop, unless the    *)
(* other side's ambiguous bar ended the look at it.                        *)
ActiveIsUnstopped ==
    \A s \in Sides :
       told.side[s].active /\ wide[s] => n \in BarsOf(Other(s), {"ambiguous"})

(* While the two sides are never under way at once, the missed moves are   *)
(* what each side's trigger led to.                                        *)
OwnSideWhenAlone ==
    ~BothLive =>
       MissedMoves(told.events) =
          {[trigger |-> Story[p[1]], end |-> Story[p[2]]] :
              p \in {q \in (DOMAIN Story) \X (DOMAIN Story) :
                        Story[q[1]].type = "trigger" /\ Follows(q[1], q[2])}}

(* The story of the day is well formed, one a trader could have lived, and *)
(* its missed moves pair what belongs together                             *)
(* (build_completed_missed_moves).                                         *)
StoryIsTrue == TypeOK /\ StoryWellFormed /\ OwnSideWhenAlone

(* A later bar only adds to the story, and so to the missed moves: what a  *)
(* refresh stored during the day is still told at its end.                 *)
StoryStands == [][SubSeq(Story', 1, Len(Story)) = Story]_told

(* What the backtest trades, the replay has told by then; and without a    *)
(* filter on the close, nothing was told before: the backtest takes the    *)
(* first side.                                                             *)
EntryIsTriggered ==
    row.side # "none" =>
       /\ \E b \in BarsOf(row.side, {"trigger"}) : b <= row.entered
       /\ ~filters.confirmed /\ ~filters.aligned =>
             \A s \in Sides : \A b \in BarsOf(s, {"trigger"}) : row.entered <= b

Alike == ~filters.confirmed /\ ~filters.aligned /\ plan.stop = Vwap

(* Under the same stop and no filter on the close, a trade the backtest    *)
(* stopped is over in the replay too and had reached no target there; one  *)
(* it won was not stopped.                                                 *)
LossIsTold ==
    Alike /\ row.exit = "stop" =>
       /\ \A b \in BarsOf(row.side, {"target_1"}) : b > row.exited
       /\ \/ \E b \in BarsOf(row.side, Endings) : b <= row.exited
          \/ row.exited \in BarsOf(Other(row.side), {"ambiguous"})

WinIsNotStopped ==
    Alike /\ row.exit \in {"target_1", "target_2"} =>
       \A b \in BarsOf(row.side, {"stop", "ambiguous"}) : b > row.exited

(* The result is one the prices of the trade allow, a trade that touched   *)
(* its stop is a loss even if the same candle reached a target, and one    *)
(* that came back inside or was held to the close had reached none.        *)
ResultIsEarned ==
    row.exit # "none" =>
       /\ -row.worst <= row.result /\ row.result <= row.best
       /\ row.exit = "stop" <=> row.worst >= Risk(row.side)
       /\ row.exit \in {"invalidated", "close"} => row.best < Width

(* Backtest and replay tell the same day (_simulate_day, against the       *)
(* replay of trade_replay_service.py).                                     *)
BacktestAgrees == EntryIsTriggered /\ LossIsTold /\ WinIsNotStopped /\ ResultIsEarned
=============================================================================
