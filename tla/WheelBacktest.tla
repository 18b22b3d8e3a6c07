---------------------------- MODULE WheelBacktest ----------------------------
(***************************************************************************)
(* run_wheel_backtest: the simulation of the wheel over daily closes.  In  *)
(* cash it sells a put; a put that ends in the money buys the stock, on    *)
(* which it sells calls until one ends in the money and sells the stock.   *)
(* One bar settles what expires, then may sell the next option; it ends at *)
(* the last bar with a report built from the log of the trades.            *)
(*                                                                         *)
(* Strikes and premiums come from Black-Scholes, here any listed strike    *)
(* the search may return and any premium.  The service hands over closes   *)
(* that are adjusted and no splits or dividends, so the engine's code for  *)
(* these never runs.  Money is counted in twentieths, for the 5% buffer    *)
(* over the collateral.                                                    *)
(***************************************************************************)
EXTENDS Integers, Sequences

CONSTANTS
    Bars,           \* trading days from the first possible entry to the end
    Closes,         \* the closes a bar may have
    Strikes,        \* the listed strikes
    Premiums,       \* premiums per share, in twentieths; 0 is none
    Lot,            \* shares per lot: 100 per contract
    Fee,            \* fee per trade, in twentieths
    Dte             \* bars from the sale of an option to its expiration

ASSUME WheelBounds ==
    /\ Bars \in Nat \ {0} /\ Lot \in Nat \ {0} /\ Dte \in Nat \ {0} /\ Fee \in Nat
    /\ Closes \subseteq Nat \ {0} /\ Strikes \subseteq Nat \ {0} /\ Premiums \subseteq Nat

VARIABLES
    config,     \* maintain_one_lot, call_strike_mode = at_or_above_assignment
    idx, close, \* the bar
    at,         \* "bar", "settle", "open" within the loop, "report" after it
    phase,      \* WheelPhase
    cash, shares,
    floor,      \* stock_strike_floor, 0 for None
    leg,        \* open_leg
    nextEntry,  \* next_entry_idx
    deposited,  \* starting cash and top-ups
    fees,       \* total_fees
    blocked,    \* csp_blocked_active
    completed,  \* completed_cycles
    trades      \* the log: sequence of [action, strike, flow, bar]

wheelVars == <<config, idx, close, at, phase, cash, shares, floor, leg, nextEntry, deposited, fees,
               blocked, completed, trades>>

NoLeg == [kind |-> "none", strike |-> 0, expiration |-> 0, entry |-> 0]
Collateral(strike) == 20 * strike * Lot
Buffered(strike) == 21 * strike * Lot
Record(action, strike, flow) ==
    Append(trades, [action |-> action, strike |-> strike, flow |-> flow, bar |-> idx])

(* The starting wallet secures the first put found, which the first trade  *)
(* need not be: another day, another strike.                               *)
WheelInit ==
    /\ config \in [topUp : BOOLEAN, floor : BOOLEAN]
    /\ idx = 0
    /\ close = 0
    /\ at = "bar"
    /\ phase = "cash"
    /\ \E s \in Strikes : cash = Buffered(s)
    /\ shares = 0
    /\ floor = 0
    /\ leg = NoLeg
    /\ nextEntry = 1
    /\ deposited = cash
    /\ fees = 0
    /\ blocked = FALSE
    /\ completed = 0
    /\ trades = <<>>

-----------------------------------------------------------------------------
NextBar ==
    /\ at = "bar"
    /\ idx < Bars
    /\ idx' = idx + 1
    /\ close' \in Closes
    /\ at' = "settle"
    /\ UNCHANGED <<config, phase, cash, shares, floor, leg, nextEntry, deposited, fees, blocked,
                   completed, trades>>

Settled ==
    /\ leg' = NoLeg
    /\ nextEntry' = idx + 1
    /\ at' = "open"
    /\ UNCHANGED <<config, idx, close, deposited, fees, blocked>>

(* Mutant of Expires: the option is settled a bar after its expiration.    *)
Expires_NextBar(kind) == at = "settle" /\ leg.kind = kind /\ idx = leg.expiration + 1

(* The open option is of this kind and expires today.                      *)
Expires(kind) == at = "settle" /\ leg.kind = kind /\ idx = leg.expiration

(* Mutant of PutAssigned: the strike is not kept for the calls.            *)
PutAssigned_NoFloor ==
    LET cost == Collateral(leg.strike)
    IN  /\ Expires("put") /\ close <= leg.strike
        /\ cash' = cash - cost
        /\ shares' = Lot
        /\ phase' = "long_stock"
        /\ trades' = Record("put_assigned", leg.strike, -cost)
        /\ Settled
        /\ UNCHANGED <<completed, floor>>

PutAssigned ==
    LET cost == Collateral(leg.strike)
    IN  /\ Expires("put") /\ close <= leg.strike
        /\ cash' = cash - cost
        /\ shares' = Lot
        /\ floor' = leg.strike
        /\ phase' = "long_stock"
        /\ trades' = Record("put_assigned", leg.strike, -cost)
        /\ Settled
        /\ UNCHANGED completed

PutExpired ==
    /\ Expires("put") /\ close > leg.strike
    /\ phase' = "cash"
    /\ trades' = Record("put_expired", leg.strike, 0)
    /\ Settled
    /\ UNCHANGED <<cash, shares, floor, completed>>

(* Mutant of CallAssigned: the stock stays in the account.                 *)
CallAssigned_KeepsStock ==
    LET proceeds == Collateral(leg.strike)
    IN  /\ Expires("call") /\ close >= leg.strike
        /\ cash' = cash + proceeds
        /\ floor' = 0
        /\ completed' = completed + 1
        /\ phase' = "cash"
        /\ trades' = Record("call_assigned", leg.strike, proceeds)
        /\ Settled
        /\ UNCHANGED shares

CallAssigned ==
    LET proceeds == Collateral(leg.strike)
    IN  /\ Expires("call") /\ close >= leg.strike
        /\ cash' = cash + proceeds
        /\ shares' = 0
        /\ floor' = 0
        /\ completed' = completed + 1
        /\ phase' = "cash"
        /\ trades' = Record("call_assigned", leg.strike, proceeds)
        /\ Settled

CallExpired ==
    /\ Expires("call") /\ close < leg.strike
    /\ phase' = "long_stock"
    /\ trades' = Record("call_expired", leg.strike, 0)
    /\ Settled
    /\ UNCHANGED <<cash, shares, floor, completed>>

NothingExpires ==
    /\ at = "settle"
    /\ ~Expires("put") /\ ~Expires("call")
    /\ at' = "open"
    /\ UNCHANGED <<config, idx, close, phase, cash, shares, floor, leg, nextEntry, deposited, fees,
                   blocked, completed, trades>>

-----------------------------------------------------------------------------
Entering(p) == at = "open" /\ phase = p /\ idx >= nextEntry /\ leg = NoLeg
EndOfBar == at' = IF idx = Bars THEN "report" ELSE "bar"

(* Mutant of Opened: the expiration may lie after the last bar.            *)
Opened_Uncapped(kind, strike) ==
    leg' = [kind |-> kind, strike |-> strike, expiration |-> idx + Dte, entry |-> idx]

Opened(kind, strike) ==
    leg' = [kind |-> kind, strike |-> strike, entry |-> idx,
            expiration |-> IF idx + Dte < Bars THEN idx + Dte ELSE Bars]

(* No strike is listed, or one so far away that its premium is nothing:    *)
(* tomorrow again.                                                         *)
TryTomorrow == nextEntry' = idx + 1 /\ EndOfBar

(* Without top-ups a put that the cash does not cover is not sold.         *)
Refused(strike) ==
    /\ cash < Collateral(strike)
    /\ ~config.topUp
    /\ blocked' = TRUE
    /\ TryTomorrow
    /\ UNCHANGED <<phase, cash, leg, deposited, fees, trades>>

(* Mutant of Wallet: a deposit covers the put without the buffer, but the  *)
(* log says otherwise.                                                     *)
Wallet_Bare(strike) == IF cash < Collateral(strike) THEN Collateral(strike) ELSE cash

(* Mutant of Wallet: nothing is deposited.                                 *)
Wallet_Unfunded(strike) == cash

(* The cash with which a put is sold, after the deposit it may need.       *)
Wallet(strike) == IF cash < Collateral(strike) THEN Buffered(strike) ELSE cash

(* The deposit is made, and stays, whether or not a premium is found.      *)
SellPut(strike) ==
    LET topUp == Wallet(strike) - cash
        log == IF cash < Collateral(strike)
               THEN Record("capital_top_up", strike, Buffered(strike) - cash) ELSE trades
    IN  /\ cash >= Collateral(strike) \/ config.topUp
        /\ deposited' = deposited + topUp
        /\ blocked' = FALSE
        /\ EndOfBar
        /\ \/ \E premium \in Premiums \ {0} :
                 LET flow == premium * Lot - Fee
                 IN  /\ cash' = Wallet(strike) + flow
                     /\ fees' = fees + Fee
                     /\ Opened("put", strike)
                     /\ phase' = "short_put"
                     /\ trades' = Append(log, [action |-> "sell_csp", strike |-> strike,
                                               flow |-> flow, bar |-> idx])
                     /\ UNCHANGED nextEntry
           \/ /\ 0 \in Premiums
              /\ cash' = Wallet(strike)
              /\ nextEntry' = idx + 1
              /\ trades' = log
              /\ UNCHANGED <<fees, leg, phase>>

(* The puts the search may choose among.                                   *)
PutStrikes(p) == {s \in Strikes : s < p}

OpenShortPut ==
    /\ Entering("cash")
    /\ \/ /\ PutStrikes(close) = {}
          /\ TryTomorrow
          /\ UNCHANGED <<phase, cash, leg, deposited, fees, blocked, trades>>
       \/ \E s \in PutStrikes(close) : Refused(s) \/ SellPut(s)
    /\ UNCHANGED <<config, idx, close, shares, floor, completed>>

Distance(a, b) == IF a < b THEN b - a ELSE a - b

(* snap_strike_to_standard_grid, of a price in twentieths.                 *)
Snap(price) ==
    {s \in Strikes : \A t \in Strikes : Distance(20 * s, price) <= Distance(20 * t, price)}

(* The calls the search may choose among: with a floor, the strikes from   *)
(* there, or 0.55 times the close, to 1.45 times the close.                *)
CallStrikes(p) ==
    IF config.floor /\ floor # 0
    THEN {s \in Strikes : /\ s >= floor
                          /\ \E low \in Snap(11 * p) : s >= low
                          /\ \E high \in Snap(29 * p) : s <= high}
    ELSE Strikes

OpenShortCall ==
    /\ Entering("long_stock")
    /\ EndOfBar
    /\ \/ \E s \in CallStrikes(close), premium \in Premiums \ {0} :
             LET flow == premium * Lot - Fee
             IN  /\ cash' = cash + flow
                 /\ fees' = fees + Fee
                 /\ Opened("call", s)
                 /\ phase' = "short_call"
                 /\ trades' = Record("sell_cc", s, flow)
                 /\ UNCHANGED nextEntry
       \/ /\ CallStrikes(close) = {} \/ 0 \in Premiums
          /\ nextEntry' = idx + 1
          /\ UNCHANGED <<cash, fees, leg, phase, trades>>
    /\ UNCHANGED <<config, idx, close, shares, floor, deposited, blocked, completed>>

NothingOpens ==
    /\ at = "open"
    /\ ~Entering("cash") /\ ~Entering("long_stock")
    /\ EndOfBar
    /\ UNCHANGED <<config, idx, close, phase, cash, shares, floor, leg, nextEntry, deposited, fees,
                   blocked, completed, trades>>

WheelNext ==
    \/ NextBar
    \/ PutAssigned \/ PutExpired \/ CallAssigned \/ CallExpired \/ NothingExpires
    \/ OpenShortPut \/ OpenShortCall \/ NothingOpens

WheelSpec == WheelInit /\ [][WheelNext]_wheelVars

-----------------------------------------------------------------------------
(* Mutant of CycleStep: a call that expires ends the cycle too.            *)
CycleStep_AnyCall(event, acc) ==
    CASE event.action = "put_assigned" -> [acc EXCEPT !.open = TRUE, !.put = event.strike]
      [] event.action \in {"call_assigned", "call_expired"} /\ acc.open ->
           [acc EXCEPT !.open = FALSE, !.completed = @ + 1]
      [] OTHER -> acc

(* What _build_wheel_cycles makes of the log: the finished cycles and the  *)
(* one that is not.                                                        *)
CycleStep(event, acc) ==
    CASE event.action = "put_assigned" ->
           [acc EXCEPT !.open = TRUE, !.put = event.strike,
                       !.ended = IF acc.open THEN @ + 1 ELSE @]
      [] event.action = "call_assigned" /\ acc.open ->
           [acc EXCEPT !.open = FALSE, !.completed = @ + 1]
      [] OTHER -> acc

CyclesOf(log) ==
    LET upTo[i \in 0 .. Len(log)] ==
          IF i = 0 THEN [open |-> FALSE, put |-> 0, ended |-> 0, completed |-> 0]
          ELSE CycleStep(log[i], upTo[i - 1])
    IN  upTo[Len(log)]
Cycles == CyclesOf(trades)

(* What the trades of a log moved in all.                                  *)
FlowsOf(log) ==
    LET upTo[i \in 0 .. Len(log)] == IF i = 0 THEN 0 ELSE upTo[i - 1] + log[i].flow
    IN  upTo[Len(log)]
Flows == FlowsOf(trades)

WheelTypeOK ==
    /\ config \in [topUp : BOOLEAN, floor : BOOLEAN]
    /\ idx \in 0 .. Bars /\ close \in Closes \cup {0}
    /\ at \in {"bar", "settle", "open", "report"}
    /\ phase \in {"cash", "short_put", "long_stock", "short_call"}
    /\ cash \in Int /\ deposited \in Nat /\ fees \in Nat /\ completed \in Nat
    /\ shares \in {0, Lot} /\ floor \in Strikes \cup {0}
    /\ leg = NoLeg \/ leg \in [kind : {"put", "call"}, strike : Strikes, expiration : 1 .. Bars,
                               entry : 1 .. Bars]
    /\ nextEntry \in 1 .. Bars + 1 /\ blocked \in BOOLEAN

(* Phase, stock and option agree: a put is sold on cash, a call on stock.  *)
PhaseIsHeld ==
    /\ phase \in {"long_stock", "short_call"} <=> shares > 0
    /\ phase = "short_put" <=> leg.kind = "put"
    /\ phase = "short_call" <=> leg.kind = "call"

(* The put that is open is secured: but for the fees that premiums did not *)
(* cover, its assignment can be paid, and the wallet is never overdrawn:   *)
(* what open_short_put tests must survive until settle_put.                *)
CashSecured ==
    /\ cash + fees >= 0
    /\ leg.kind = "put" => cash + fees >= Collateral(leg.strike)

(* Every contract is covered: a put by cash, a call by stock               *)
(* (run_wheel_backtest and the settlements it calls).                      *)
ContractsAreCovered == PhaseIsHeld /\ CashSecured

(* The report adds up: the wallet is what was put in at the start and what *)
(* the log says came and went, deposits included.                          *)
LedgerBalances ==
    \E s \in Strikes : cash = Buffered(s) + Flows

(* The cycles built from the log are the ones the loop counted, and the    *)
(* unfinished one is the stock that is held.                               *)
CyclesMatch ==
    /\ Cycles.completed = completed
    /\ Cycles.open <=> shares > 0
    /\ Cycles.ended = 0

(* State and report are well formed, and the report is of the run: wallet, *)
(* deposits and cycles                                                     *)
(* (_build_wheel_cycles and the summary of the log).                       *)
ReportMatches == WheelTypeOK /\ LedgerBalances /\ CyclesMatch

(* With the floor, no call is sold below the strike at which the stock was *)
(* bought: its assignment never loses on the stock.                        *)
CallsAboveCost ==
    config.floor /\ leg.kind = "call" => leg.strike >= Cycles.put

(* No option outlives its expiration, and at the end of the run only one   *)
(* that was sold on the last bar is open.                                  *)
OptionsExpire ==
    /\ leg # NoLeg => idx <= leg.expiration
    /\ at = "report" /\ leg # NoLeg => leg.entry = Bars
=============================================================================
