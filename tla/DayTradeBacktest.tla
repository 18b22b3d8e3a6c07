--------------------------- MODULE DayTradeBacktest ---------------------------
(***************************************************************************)
(* The backtest of a day: the first side a candle after the opening range  *)
(* triggers, if the filters let it in, is followed to its exit.  One row   *)
(* comes out, with its result in multiples of the risk.                    *)
(*                                                                         *)
(* Multiples of the risk are kept multiplied by it, that is, as prices: a  *)
(* stop is -Risk, the first target is +Risk whatever its distance is.      *)
(***************************************************************************)
EXTENDS DayTradeReplay

CONSTANTS
    Confirmations,  \* closes back inside the range that end a trade
    Noon            \* candles before noon

ASSUME BacktestBounds ==
    Confirmations \in Nat \ {0} /\ Noon \in Nat

Filters == [mode : Modes, confirmed : BOOLEAN, aligned : BOOLEAN, morning : BOOLEAN]

(* The row of a day: side and number of the entry candle, how and when it  *)
(* ended, the result, and the best and the worst price of the trade.       *)
NoTrade == [at |-> "waiting", side |-> "none", entered |-> 0, inside |-> 0, exit |-> "none",
            exited |-> 0, result |-> 0, best |-> 0, worst |-> 0, last |-> 0]

Risk(s) == Entry(s) - Mirrored(s, Vwap)

-----------------------------------------------------------------------------
(* Both filters look at the close of the candle.                           *)
LetsIn(f, s, candle) ==
    /\ f.confirmed => Seen(s, candle).close > Edge(s)
    /\ f.aligned => Seen(s, candle).close > Mirrored(s, Vwap)

Hit(f, s, candle) ==
    Allowed(s, f.mode) /\ Seen(s, candle).high >= Entry(s) /\ LetsIn(f, s, candle)

Distance(a, b) == IF a < b THEN b - a ELSE a - b

(* A candle that hits both triggers enters at the one nearer to its open.  *)
SideOf(f, candle) ==
    LET toLong == Distance(Entry("long"), candle.open)
        toShort == Distance(candle.open, -Entry("short"))
    IN  CASE Hit(f, "long", candle) /\ Hit(f, "short", candle) ->
                IF toLong <= toShort THEN "long" ELSE "short"
          [] Hit(f, "long", candle) /\ ~Hit(f, "short", candle) -> "long"
          [] ~Hit(f, "long", candle) /\ Hit(f, "short", candle) -> "short"
          [] OTHER -> "none"

Entered(f, row, candle, n) ==
    LET side == SideOf(f, candle)
    IN  IF row.at # "waiting" THEN row
        ELSE IF f.morning /\ n > Noon THEN [row EXCEPT !.at = "over"]
        ELSE IF side = "none" THEN row
        ELSE [row EXCEPT !.at = "open", !.side = side, !.entered = n]

Exits(row, why, n, result) ==
    [row EXCEPT !.at = "over", !.exit = why, !.exited = n, !.result = result]

(* Mutant of Exited: the targets are looked at before the stop.            *)
Exited_TargetsFirst(row, candle, n) ==
    LET s == row.side
        seen == Seen(s, candle)
        held == [row EXCEPT
                    !.best = IF seen.high - Entry(s) > @ THEN seen.high - Entry(s) ELSE @,
                    !.worst = IF Entry(s) - seen.low > @ THEN Entry(s) - seen.low ELSE @,
                    !.last = seen.close - Entry(s)]
        inside == IF n = row.entered THEN 0
                  ELSE IF seen.close < Edge(s) THEN row.inside + 1 ELSE 0
    IN  IF row.at # "open" THEN row
        ELSE IF seen.high >= Entry(s) + 2 * Width THEN Exits(held, "target_2", n, 2 * Risk(s))
        ELSE IF seen.high >= FirstLevel(s) THEN Exits(held, "target_1", n, Risk(s))
        ELSE IF seen.low <= Mirrored(s, Vwap) THEN Exits(held, "stop", n, -Risk(s))
        ELSE IF inside >= Confirmations THEN Exits(held, "invalidated", n, held.last)
        ELSE [held EXCEPT !.inside = inside]

(* What a candle does to the open trade: the stop is looked at before the  *)
(* targets, a close back inside the range counts after the entry candle.   *)
Exited(row, candle, n) ==
    LET s == row.side
        seen == Seen(s, candle)
        held == [row EXCEPT
                    !.best = IF seen.high - Entry(s) > @ THEN seen.high - Entry(s) ELSE @,
                    !.worst = IF Entry(s) - seen.low > @ THEN Entry(s) - seen.low ELSE @,
                    !.last = seen.close - Entry(s)]
        inside == IF n = row.entered THEN 0
                  ELSE IF seen.close < Edge(s) THEN row.inside + 1 ELSE 0
    IN  IF row.at # "open" THEN row
        ELSE IF seen.low <= Mirrored(s, Vwap) THEN Exits(held, "stop", n, -Risk(s))
        ELSE IF seen.high >= Entry(s) + 2 * Width THEN Exits(held, "target_2", n, 2 * Risk(s))
        ELSE IF seen.high >= FirstLevel(s) THEN Exits(held, "target_1", n, Risk(s))
        ELSE IF inside >= Confirmations THEN Exits(held, "invalidated", n, held.last)
        ELSE [held EXCEPT !.inside = inside]

AfterCandle(f, row, candle, n) == Exited(Entered(f, row, candle, n), candle, n)

(* Mutant of AtTheClose: a day without a trade is not closed.              *)
AtTheClose_Waits(row, n) ==
    IF row.at = "open" THEN Exits(row, "close", n, row.last) ELSE row

(* The last candle of the session marks an open trade to the market.       *)
AtTheClose(row, n) ==
    IF row.at = "open" THEN Exits(row, "close", n, row.last) ELSE [row EXCEPT !.at = "over"]
=============================================================================
