-------------------------- MODULE WheelBacktestProofs --------------------------
(***************************************************************************)
(* The wallet of the wheel, for any prices, strikes, premiums and fees.    *)
(* The loop reads phase, shares and the open option as three variables     *)
(* that must agree; open_short_put tests the cash once, and settle_put     *)
(* pays out of it many bars later without another test.  The invariant     *)
(* carries both across the bars between them.                              *)
(***************************************************************************)
EXTENDS WheelBacktest, WellFoundedInduction, TLAPS

(* What the phase says of the stock and of the option.                     *)
Held ==
    /\ phase \in {"cash", "short_put", "long_stock", "short_call"}
    /\ phase \in {"cash", "short_put"} => shares = 0
    /\ phase \in {"long_stock", "short_call"} => shares = Lot
    /\ phase \in {"cash", "long_stock"} => leg = NoLeg
    /\ phase = "short_put" => leg.kind = "put"
    /\ phase = "short_call" => leg.kind = "call"

(* What the money adds up to; a strike is listed, so it costs something.   *)
Secured ==
    /\ cash \in Int /\ fees \in Nat
    /\ leg.strike \in Strikes \cup {0}
    /\ cash + fees >= 0
    /\ phase = "short_put" => cash + fees >= Collateral(leg.strike)

WheelInv == Held /\ Secured

-----------------------------------------------------------------------------
(* A product of naturals is one.                                           *)
LEMMA Product == ASSUME NEW a \in Nat, NEW b \in Nat PROVE a * b \in Nat
  OBVIOUS

(* What a listed strike costs, with and without the buffer.                *)
LEMMA Cost ==
    ASSUME NEW s \in Strikes \cup {0}
    PROVE  /\ Collateral(s) \in Nat /\ Buffered(s) \in Nat
           /\ Buffered(s) >= Collateral(s)
  <1> DEFINE w == s * Lot
  <1>1. s \in Nat /\ Lot \in Nat
    BY WheelBounds
  <1>2. w \in Nat
    BY <1>1, Product
  <1>3. Collateral(s) = 20 * w /\ Buffered(s) = 21 * w
    BY <1>1 DEF Collateral, Buffered
  <1> HIDE DEF w
  <1> QED BY <1>2, <1>3

(* A sale moves the premium into the cash and the fee out of it.           *)
LEMMA Sale ==
    ASSUME NEW premium \in Premiums \ {0}
    PROVE  /\ premium * Lot - Fee \in Int
           /\ \A c \in Int, f \in Nat : c + (premium * Lot - Fee) + (f + Fee) >= c + f
  <1> DEFINE w == premium * Lot
  <1>1. premium \in Nat /\ Lot \in Nat /\ Fee \in Nat
    BY WheelBounds
  <1>2. w \in Nat
    BY <1>1, Product
  <1> HIDE DEF w
  <1>3. w - Fee \in Int /\ \A c \in Int, f \in Nat : c + (w - Fee) + (f + Fee) >= c + f
    BY <1>1, <1>2
  <1> QED BY <1>3 DEF w

LEMMA WheelStarts == WheelInit => WheelInv
  <1> SUFFICES ASSUME WheelInit PROVE WheelInv
    OBVIOUS
  <1>1. PICK s \in Strikes : cash = Buffered(s)
    BY DEF WheelInit
  <1>2. cash \in Nat
    BY <1>1, Cost
  <1>3. phase = "cash" /\ shares = 0 /\ leg = NoLeg /\ fees = 0
    BY DEF WheelInit
  <1>4. Held
    BY <1>3 DEF Held
  <1>5. Secured
    BY <1>2, <1>3 DEF Secured, NoLeg
  <1> QED BY <1>4, <1>5 DEF WheelInv

LEMMA PutAssignedKeeps == WheelInv /\ PutAssigned => WheelInv'
  <1> SUFFICES ASSUME WheelInv, PutAssigned PROVE WheelInv'
    OBVIOUS
  <1> USE DEF WheelInv
  <1>1. leg.kind = "put" /\ leg' = NoLeg /\ fees' = fees
    BY DEF PutAssigned, Expires, Settled
  <1>2. phase = "short_put"
    BY <1>1 DEF Held, NoLeg
  <1>3. cash' = cash - Collateral(leg.strike) /\ shares' = Lot /\ phase' = "long_stock"
    BY DEF PutAssigned
  <1>4. Collateral(leg.strike) \in Nat
    BY Cost DEF Secured
  <1>5. Held'
    BY <1>1, <1>3 DEF Held
  <1>6. Secured'
    BY <1>1, <1>2, <1>3, <1>4 DEF Secured, NoLeg
  <1> QED BY <1>5, <1>6

LEMMA PutExpiredKeeps == WheelInv /\ PutExpired => WheelInv'
  <1> SUFFICES ASSUME WheelInv, PutExpired PROVE WheelInv'
    OBVIOUS
  <1> USE DEF WheelInv
  <1>1. leg.kind = "put" /\ leg' = NoLeg /\ fees' = fees /\ cash' = cash /\ shares' = shares
        /\ phase' = "cash"
    BY DEF PutExpired, Expires, Settled
  <1>2. phase = "short_put"
    BY <1>1 DEF Held, NoLeg
  <1> QED BY <1>1, <1>2 DEF Held, Secured, NoLeg

LEMMA CallAssignedKeeps == WheelInv /\ CallAssigned => WheelInv'
  <1> SUFFICES ASSUME WheelInv, CallAssigned PROVE WheelInv'
    OBVIOUS
  <1> USE DEF WheelInv
  <1>1. leg' = NoLeg /\ fees' = fees /\ shares' = 0 /\ phase' = "cash"
        /\ cash' = cash + Collateral(leg.strike)
    BY DEF CallAssigned, Settled
  <1>2. Collateral(leg.strike) \in Nat
    BY Cost DEF Secured
  <1>3. Held'
    BY <1>1 DEF Held
  <1>4. Secured'
    BY <1>1, <1>2 DEF Secured, NoLeg
  <1> QED BY <1>3, <1>4

LEMMA CallExpiredKeeps == WheelInv /\ CallExpired => WheelInv'
  <1> SUFFICES ASSUME WheelInv, CallExpired PROVE WheelInv'
    OBVIOUS
  <1> USE DEF WheelInv
  <1>1. leg.kind = "call" /\ leg' = NoLeg /\ fees' = fees /\ cash' = cash /\ shares' = shares
        /\ phase' = "long_stock"
    BY DEF CallExpired, Expires, Settled
  <1>2. phase = "short_call"
    BY <1>1 DEF Held, NoLeg
  <1> QED BY <1>1, <1>2 DEF Held, Secured, NoLeg

(* The put that is sold is covered by the wallet it is sold from.          *)
LEMMA WalletCovers ==
    ASSUME WheelInv, NEW s \in Strikes, cash >= Collateral(s) \/ config.topUp
    PROVE  Wallet(s) \in Int /\ Wallet(s) >= Collateral(s) /\ Wallet(s) >= cash
  BY Cost DEF WheelInv, Secured, Wallet

LEMMA SellPutKeeps ==
    ASSUME WheelInv, NEW s \in Strikes, Entering("cash"), SellPut(s), shares' = shares
    PROVE  WheelInv'
  <1> USE DEF WheelInv
  <1>1. phase = "cash" /\ leg = NoLeg
    BY DEF Entering
  <1>2. Wallet(s) \in Int /\ Wallet(s) >= Collateral(s) /\ Wallet(s) >= cash
    BY WalletCovers DEF SellPut
  <1>3. Collateral(s) \in Nat
    BY Cost
  <1>4. CASE \E premium \in Premiums \ {0} :
                 /\ cash' = Wallet(s) + (premium * Lot - Fee) /\ fees' = fees + Fee
                 /\ Opened("put", s) /\ phase' = "short_put"
    <2>1. PICK premium \in Premiums \ {0} :
                 /\ cash' = Wallet(s) + (premium * Lot - Fee) /\ fees' = fees + Fee
                 /\ Opened("put", s) /\ phase' = "short_put"
      BY <1>4
    <2>2. leg'.kind = "put" /\ leg'.strike = s
      BY <2>1 DEF Opened
    <2>3. cash' + fees' >= Wallet(s) + fees /\ cash' \in Int
      BY <1>2, <2>1, Sale DEF Secured
    <2>4. Held'
      BY <1>1, <2>1, <2>2 DEF Held
    <2>5. Fee \in Nat
      BY WheelBounds
    <2>6. Collateral(leg'.strike) = Collateral(s)
      BY <2>2
    <2>7. (Collateral(leg.strike))' = Collateral(leg'.strike)
      BY DEF Collateral
    <2>8. Secured'
      BY <1>2, <1>3, <2>1, <2>2, <2>3, <2>5, <2>6, <2>7 DEF Secured
    <2> QED BY <2>4, <2>8
  <1>5. CASE cash' = Wallet(s) /\ UNCHANGED <<fees, leg, phase>>
    BY <1>1, <1>2, <1>3, <1>5 DEF Held, Secured, NoLeg
  <1> QED BY <1>4, <1>5 DEF SellPut

LEMMA OpenShortPutKeeps == WheelInv /\ OpenShortPut => WheelInv'
  <1> SUFFICES ASSUME WheelInv, OpenShortPut PROVE WheelInv'
    OBVIOUS
  <1>1. Entering("cash") /\ shares' = shares
    BY DEF OpenShortPut
  <1>2. CASE UNCHANGED <<phase, cash, leg, fees>>
    BY <1>1, <1>2 DEF WheelInv, Held, Secured, Collateral
  <1>3. ASSUME NEW s \in Strikes, SellPut(s) PROVE WheelInv'
    BY <1>1, <1>3, SellPutKeeps
  <1> QED BY <1>2, <1>3 DEF OpenShortPut, Refused, PutStrikes

LEMMA OpenShortCallKeeps == WheelInv /\ OpenShortCall => WheelInv'
  <1> SUFFICES ASSUME WheelInv, OpenShortCall PROVE WheelInv'
    OBVIOUS
  <1> USE DEF WheelInv
  <1>1. phase = "long_stock" /\ leg = NoLeg /\ shares' = shares
    BY DEF OpenShortCall, Entering
  <1>2. CASE UNCHANGED <<cash, fees, leg, phase>>
    BY <1>1, <1>2 DEF Held, Secured, NoLeg
  <1>3. CASE \E s \in CallStrikes(close), premium \in Premiums \ {0} :
                 /\ cash' = cash + (premium * Lot - Fee) /\ fees' = fees + Fee
                 /\ Opened("call", s) /\ phase' = "short_call"
    <2>1. PICK s \in CallStrikes(close), premium \in Premiums \ {0} :
                 /\ cash' = cash + (premium * Lot - Fee) /\ fees' = fees + Fee
                 /\ Opened("call", s) /\ phase' = "short_call"
      BY <1>3
    <2>2. s \in Strikes
      BY DEF CallStrikes
    <2>3. leg'.kind = "call" /\ leg'.strike = s
      BY <2>1 DEF Opened
    <2>4. cash' + fees' >= cash + fees /\ cash' \in Int
      <3> DEFINE flow == premium * Lot - Fee
      <3>1. flow \in Int /\ cash + flow + (fees + Fee) >= cash + fees
        BY Sale DEF Secured
      <3>2. cash' = cash + flow /\ fees' = fees + Fee
        BY <2>1
      <3> HIDE DEF flow
      <3> QED BY <3>1, <3>2 DEF Secured
    <2>5. Fee \in Nat
      BY WheelBounds
    <2>6. Held'
      BY <1>1, <2>1, <2>3 DEF Held
    <2>7. Secured'
      BY <2>1, <2>2, <2>3, <2>4, <2>5 DEF Secured
    <2> QED BY <2>6, <2>7
  <1> QED BY <1>2, <1>3 DEF OpenShortCall

LEMMA WheelKeeps == WheelInv /\ [WheelNext]_wheelVars => WheelInv'
  <1> SUFFICES ASSUME WheelInv, [WheelNext]_wheelVars PROVE WheelInv'
    OBVIOUS
  <1>1. ASSUME UNCHANGED <<phase, cash, shares, leg, fees>> PROVE WheelInv'
    BY <1>1 DEF WheelInv, Held, Secured, Collateral
  <1>2. CASE NextBar
    BY <1>1, <1>2 DEF NextBar
  <1>3. CASE NothingExpires
    BY <1>1, <1>3 DEF NothingExpires
  <1>4. CASE NothingOpens
    BY <1>1, <1>4 DEF NothingOpens
  <1>5. CASE UNCHANGED wheelVars
    BY <1>1, <1>5 DEF wheelVars
  <1> QED BY <1>2, <1>3, <1>4, <1>5, PutAssignedKeeps, PutExpiredKeeps, CallAssignedKeeps,
             CallExpiredKeeps, OpenShortPutKeeps, OpenShortCallKeeps DEF WheelNext

(* Phase, stock and option always agree, for any prices and strikes: the   *)
(* branches of run_wheel_backtest that assume it are safe.                 *)
THEOREM PhaseIsAlwaysHeld == WheelSpec => []PhaseIsHeld
  <1>1. WheelInv => PhaseIsHeld
    <2> SUFFICES ASSUME WheelInv PROVE PhaseIsHeld
      OBVIOUS
    <2>1. Lot > 0 /\ Lot \in Nat
      BY WheelBounds
    <2> QED BY <2>1 DEF WheelInv, Held, PhaseIsHeld, NoLeg
  <1> QED BY <1>1, WheelStarts, WheelKeeps, PTL DEF WheelSpec

(* A put stays secured from the bar that sells it to the one that settles  *)
(* it, and but for fees the wallet of run_wheel_backtest is never empty.   *)
THEOREM PutsAreSecured == WheelSpec => []CashSecured
  <1>1. WheelInv => CashSecured
    BY DEF WheelInv, Held, Secured, CashSecured, NoLeg
  <1> QED BY <1>1, WheelStarts, WheelKeeps, PTL DEF WheelSpec

(* Every contract is covered until it is settled, for any prices, strikes, *)
(* premiums and fees (run_wheel_backtest).                                 *)
THEOREM ContractsStayCovered == WheelSpec => []ContractsAreCovered
  BY PhaseIsAlwaysHeld, PutsAreSecured, PTL DEF ContractsAreCovered

-----------------------------------------------------------------------------
(* Where an option stands among the bars: ahead of the settlement of its   *)
(* bar it has not passed, after it it lies ahead.                          *)
Ahead ==
    /\ idx \in 0 .. Bars
    /\ at \in {"bar", "settle", "open", "report"}
    /\ at = "bar" => idx < Bars
    /\ leg # NoLeg => /\ leg.kind \in {"put", "call"}
                      /\ leg.expiration \in idx .. Bars
                      /\ at \in {"bar", "open"} => leg.expiration > idx
                      /\ at = "report" => leg.entry = Bars

LEMMA SoldAhead ==
    ASSUME Ahead, NEW kind \in {"put", "call"}, NEW strike, Opened(kind, strike),
           at = "open", EndOfBar, idx' = idx
    PROVE  Ahead'
  <1>1. Bars \in Nat /\ Dte \in Nat /\ Dte > 0
    BY WheelBounds
  <1>2. /\ leg'.kind = kind /\ leg'.entry = idx
        /\ leg'.expiration = IF idx + Dte < Bars THEN idx + Dte ELSE Bars
    BY DEF Opened
  <1>3. at' = IF idx = Bars THEN "report" ELSE "bar"
    BY DEF EndOfBar
  <1>4. idx \in 0 .. Bars /\ idx' = idx
    BY DEF Ahead
  <1>5. leg'.expiration \in idx .. Bars /\ (idx < Bars => leg'.expiration > idx)
    BY <1>1, <1>2, <1>4
  <1> QED BY <1>1, <1>2, <1>3, <1>4, <1>5 DEF Ahead

LEMMA NotSoldAhead ==
    ASSUME Ahead, at = "open", EndOfBar, idx' = idx, leg' = leg
    PROVE  Ahead'
  <1>1. Bars \in Nat
    BY WheelBounds
  <1> QED BY <1>1 DEF Ahead, EndOfBar

LEMMA AheadKeeps == Ahead /\ [WheelNext]_wheelVars => Ahead'
  <1> SUFFICES ASSUME Ahead, [WheelNext]_wheelVars PROVE Ahead'
    OBVIOUS
  <1>1. Bars \in Nat
    BY WheelBounds
  <1>2. CASE NextBar
    BY <1>1, <1>2 DEF NextBar, Ahead
  <1>3. ASSUME idx' = idx, leg' = NoLeg, at' = "open" PROVE Ahead'
    BY <1>1, <1>3 DEF Ahead
  <1>4. CASE PutAssigned \/ PutExpired \/ CallAssigned \/ CallExpired
    BY <1>3, <1>4 DEF PutAssigned, PutExpired, CallAssigned, CallExpired, Settled
  <1>5. CASE NothingExpires
    <2>1. at = "settle" /\ at' = "open" /\ idx' = idx /\ leg' = leg
      BY <1>5 DEF NothingExpires
    <2>2. leg # NoLeg => leg.expiration # idx
      BY <1>5, <2>1 DEF NothingExpires, Expires, Ahead
    <2> QED BY <1>1, <2>1, <2>2 DEF Ahead
  <1>6. CASE OpenShortPut
    <2>1. at = "open" /\ idx' = idx
      BY <1>6 DEF OpenShortPut, Entering
    <2>2. \/ EndOfBar /\ leg' = leg
          \/ \E s \in PutStrikes(close) : EndOfBar /\ Opened("put", s)
      BY <1>6 DEF OpenShortPut, TryTomorrow, Refused, SellPut
    <2> QED BY <2>1, <2>2, SoldAhead, NotSoldAhead
  <1>7. CASE OpenShortCall
    <2>1. at = "open" /\ idx' = idx /\ EndOfBar
      BY <1>7 DEF OpenShortCall, Entering
    <2>2. leg' = leg \/ \E s \in CallStrikes(close) : Opened("call", s)
      BY <1>7 DEF OpenShortCall
    <2> QED BY <2>1, <2>2, SoldAhead, NotSoldAhead
  <1>8. CASE NothingOpens
    BY <1>8, NotSoldAhead DEF NothingOpens
  <1>9. CASE UNCHANGED wheelVars
    BY <1>9 DEF wheelVars, Ahead
  <1> QED BY <1>2, <1>4, <1>5, <1>6, <1>7, <1>8, <1>9 DEF WheelNext

(* No option outlives the bar of its expiration, so that idx ==            *)
(* expiration_idx never misses one, and only one sold on the last bar is   *)
(* open in the report.                                                     *)
THEOREM EveryOptionExpires == WheelSpec => []OptionsExpire
  <1>1. WheelInit => Ahead
    BY WheelBounds DEF WheelInit, Ahead
  <1>2. Ahead => OptionsExpire
    BY WheelBounds DEF Ahead, OptionsExpire
  <1> QED BY <1>1, <1>2, AheadKeeps, PTL DEF WheelSpec
-----------------------------------------------------------------------------
(* Induction over the naturals, for sets.                                  *)

Below == {p \in Nat \X Nat : p[1] < p[2]}

LEMMA BelowIsWellFounded == IsWellFoundedOn(Below, Nat)
  BY NatLessThanWellFounded DEF Below, OpToRel

LEMMA Least ==
    ASSUME NEW T, T \subseteq Nat, T # {}
    PROVE  \E n \in T : \A m \in T : n <= m
  <1>1. PICK x \in T : \A y \in T : ~ (<<y, x>> \in Below)
    BY BelowIsWellFounded, WFMin
  <1>2. ASSUME NEW y \in T PROVE x <= y
    <2>1. <<y, x>> \in Nat \X Nat /\ <<y, x>>[1] = y /\ <<y, x>>[2] = x
      OBVIOUS
    <2>2. ~(y < x)
      BY <1>1, <2>1 DEF Below
    <2> QED BY <2>2
  <1> QED BY <1>2

LEMMA SetInduction ==
    ASSUME NEW S, 0 \in S, \A n \in Nat : n \in S => n + 1 \in S
    PROVE  Nat \subseteq S
  <1> SUFFICES ASSUME Nat \ S # {} PROVE FALSE
    OBVIOUS
  <1>1. PICK n \in Nat \ S : \A m \in Nat \ S : n <= m
    BY Least
  <1>2. n - 1 \in S
    BY <1>1
  <1> QED BY <1>1, <1>2

-----------------------------------------------------------------------------
(* What is summed over the log of the trades.                              *)

(* f holds what the first trades of the log moved, up to the n-th.         *)
Sums(f, log, n) == f = [i \in 0 .. n |-> IF i = 0 THEN 0 ELSE f[i - 1] + log[i].flow]

LEMMA SumsExist ==
    ASSUME NEW log, NEW n \in Nat
    PROVE  \E f : Sums(f, log, n)
  <1> DEFINE S == {i \in Nat : \E f : Sums(f, log, i)}
  <1>1. 0 \in S
    <2> DEFINE f == [i \in 0 .. 0 |-> 0]
    <2>1. Sums(f, log, 0)
      BY DEF Sums
    <2> QED BY <2>1
  <1>2. ASSUME NEW i \in Nat, i \in S PROVE i + 1 \in S
    <2>1. PICK f : Sums(f, log, i)
      BY <1>2
    <2> DEFINE g == [j \in 0 .. (i + 1) |-> IF j = i + 1 THEN f[i] + log[j].flow ELSE f[j]]
    <2>2. ASSUME NEW j \in 0 .. (i + 1)
          PROVE  g[j] = IF j = 0 THEN 0 ELSE g[j - 1] + log[j].flow
      <3>1. CASE j = 0
        BY <2>1, <3>1 DEF Sums
      <3>2. CASE j \in 1 .. i
        BY <2>1, <3>2 DEF Sums
      <3>3. CASE j = i + 1
        BY <3>3
      <3> QED BY <3>1, <3>2, <3>3
    <2>3. Sums(g, log, i + 1)
      BY <2>2 DEF Sums
    <2> QED BY <2>3
  <1> HIDE DEF S
  <1>3. Nat \subseteq S
    BY <1>1, <1>2, SetInduction
  <1> QED BY <1>3 DEF S

LEMMA SumsAgree ==
    ASSUME NEW log, NEW more, NEW n \in Nat, NEW m \in Nat, n <= m, NEW f, NEW g,
           Sums(f, log, n), Sums(g, more, m), \A i \in 1 .. n : more[i] = log[i]
    PROVE  \A i \in 0 .. n : f[i] = g[i]
  <1> DEFINE S == {i \in Nat : i <= n => f[i] = g[i]}
  <1>1. 0 \in S
    BY DEF Sums
  <1>2. ASSUME NEW i \in Nat, i \in S PROVE i + 1 \in S
    BY <1>2 DEF Sums
  <1> HIDE DEF S
  <1>3. Nat \subseteq S
    BY <1>1, <1>2, SetInduction
  <1> QED BY <1>3 DEF S

LEMMA FlowsAre ==
    ASSUME NEW log, Len(log) \in Nat
    PROVE  \E f : Sums(f, log, Len(log)) /\ FlowsOf(log) = f[Len(log)]
  <1> DEFINE f == CHOOSE f : Sums(f, log, Len(log))
  <1>1. Sums(f, log, Len(log))
    BY SumsExist
  <1>2. FlowsOf(log) = f[Len(log)]
    BY DEF FlowsOf, Sums
  <1> QED BY <1>1, <1>2

(* One trade more moves its flow more.                                     *)
LEMMA FlowsGrow ==
    ASSUME NEW T, NEW log \in Seq(T), NEW e \in T
    PROVE  FlowsOf(Append(log, e)) = FlowsOf(log) + e.flow
  <1> DEFINE n == Len(log)
             more == Append(log, e)
  <1>1. n \in Nat /\ Len(more) = n + 1 /\ more[n + 1] = e /\ \A i \in 1 .. n : more[i] = log[i]
    OBVIOUS
  <1> HIDE DEF more, n
  <1>2. PICK f : Sums(f, log, n) /\ FlowsOf(log) = f[n]
    BY <1>1, FlowsAre DEF n
  <1>3. PICK g : Sums(g, more, n + 1) /\ FlowsOf(more) = g[n + 1]
    BY <1>1, FlowsAre
  <1>4. f[n] = g[n]
    BY <1>1, <1>2, <1>3, SumsAgree
  <1>5. g[n + 1] = g[n] + e.flow
    BY <1>1, <1>3 DEF Sums
  <1> QED BY <1>2, <1>3, <1>4, <1>5 DEF more

LEMMA FlowsOfNone == FlowsOf(<<>>) = 0
  <1>1. PICK f : Sums(f, <<>>, 0) /\ FlowsOf(<<>>) = f[0]
    BY FlowsAre
  <1> QED BY <1>1 DEF Sums

-----------------------------------------------------------------------------
(* The cycles built from the log of the trades.                            *)

NoCycle == [open |-> FALSE, put |-> 0, ended |-> 0, completed |-> 0]
Builds(f, log, n) ==
    f = [i \in 0 .. n |-> IF i = 0 THEN NoCycle ELSE CycleStep(log[i], f[i - 1])]

LEMMA BuildsExist ==
    ASSUME NEW log, NEW n \in Nat
    PROVE  \E f : Builds(f, log, n)
  <1> DEFINE S == {i \in Nat : \E f : Builds(f, log, i)}
  <1>1. 0 \in S
    <2> DEFINE f == [i \in 0 .. 0 |-> NoCycle]
    <2>1. Builds(f, log, 0)
      BY DEF Builds
    <2> QED BY <2>1
  <1>2. ASSUME NEW i \in Nat, i \in S PROVE i + 1 \in S
    <2>1. PICK f : Builds(f, log, i)
      BY <1>2
    <2> DEFINE g == [j \in 0 .. (i + 1) |-> IF j = i + 1 THEN CycleStep(log[j], f[i]) ELSE f[j]]
    <2>2. ASSUME NEW j \in 0 .. (i + 1)
          PROVE  g[j] = IF j = 0 THEN NoCycle ELSE CycleStep(log[j], g[j - 1])
      <3>1. CASE j = 0
        BY <2>1, <3>1 DEF Builds
      <3>2. CASE j \in 1 .. i
        BY <2>1, <3>2 DEF Builds
      <3>3. CASE j = i + 1
        BY <3>3
      <3> QED BY <3>1, <3>2, <3>3
    <2>3. Builds(g, log, i + 1)
      BY <2>2 DEF Builds
    <2> QED BY <2>3
  <1> HIDE DEF S
  <1>3. Nat \subseteq S
    BY <1>1, <1>2, SetInduction
  <1> QED BY <1>3 DEF S

LEMMA BuildsAgree ==
    ASSUME NEW log, NEW more, NEW n \in Nat, NEW m \in Nat, n <= m, NEW f, NEW g,
           Builds(f, log, n), Builds(g, more, m), \A i \in 1 .. n : more[i] = log[i]
    PROVE  \A i \in 0 .. n : f[i] = g[i]
  <1> DEFINE S == {i \in Nat : i <= n => f[i] = g[i]}
  <1>1. 0 \in S
    BY DEF Builds
  <1>2. ASSUME NEW i \in Nat, i \in S PROVE i + 1 \in S
    BY <1>2 DEF Builds
  <1> HIDE DEF S
  <1>3. Nat \subseteq S
    BY <1>1, <1>2, SetInduction
  <1> QED BY <1>3 DEF S

LEMMA CyclesAre ==
    ASSUME NEW log, Len(log) \in Nat
    PROVE  \E f : Builds(f, log, Len(log)) /\ CyclesOf(log) = f[Len(log)]
  <1> DEFINE f == CHOOSE f : Builds(f, log, Len(log))
  <1>1. Builds(f, log, Len(log))
    BY BuildsExist
  <1>2. CyclesOf(log) = f[Len(log)]
    BY DEF CyclesOf, Builds, NoCycle
  <1> QED BY <1>1, <1>2

(* One trade more is one step more of the builder.                         *)
LEMMA CyclesGrow ==
    ASSUME NEW T, NEW log \in Seq(T), NEW e \in T
    PROVE  CyclesOf(Append(log, e)) = CycleStep(e, CyclesOf(log))
  <1> DEFINE n == Len(log)
             more == Append(log, e)
  <1>1. n \in Nat /\ Len(more) = n + 1 /\ more[n + 1] = e /\ \A i \in 1 .. n : more[i] = log[i]
    OBVIOUS
  <1> HIDE DEF more, n
  <1>2. PICK f : Builds(f, log, n) /\ CyclesOf(log) = f[n]
    BY <1>1, CyclesAre DEF n
  <1>3. PICK g : Builds(g, more, n + 1) /\ CyclesOf(more) = g[n + 1]
    BY <1>1, CyclesAre
  <1>4. f[n] = g[n]
    BY <1>1, <1>2, <1>3, BuildsAgree
  <1>5. g[n + 1] = CycleStep(e, g[n])
    BY <1>1, <1>3 DEF Builds
  <1> QED BY <1>2, <1>3, <1>4, <1>5 DEF more

LEMMA CyclesOfNone == CyclesOf(<<>>) = NoCycle
  <1>1. PICK f : Builds(f, <<>>, 0) /\ CyclesOf(<<>>) = f[0]
    BY CyclesAre
  <1> QED BY <1>1 DEF Builds

-----------------------------------------------------------------------------
(* The run and its log tell the same.                                      *)

Trade == [action : {"sell_csp", "put_assigned", "put_expired", "sell_cc", "call_assigned",
                    "call_expired", "capital_top_up"},
          strike : Strikes, flow : Int, bar : Nat]
Cycle == [open : BOOLEAN, put : Strikes \cup {0}, ended : Nat, completed : Nat]

(* The cycles of a log, when sh shares bought at fl are held and done      *)
(* cycles are finished.                                                    *)
Tells(log, sh, fl, done) ==
    LET c == CyclesOf(log)
    IN  /\ c \in Cycle
        /\ c.open <=> sh = Lot
        /\ c.open => c.put = fl
        /\ c.ended = 0 /\ c.completed = done

(* The ledger of the run: where the money of the wallet comes from.        *)
Ledger ==
    /\ trades \in Seq(Trade)
    /\ FlowsOf(trades) \in Int
    /\ \E s \in Strikes : cash = Buffered(s) + FlowsOf(trades)

Typed ==
    /\ config \in [topUp : BOOLEAN, floor : BOOLEAN]
    /\ close \in Closes \cup {0} /\ deposited \in Nat /\ completed \in Nat /\ blocked \in BOOLEAN
    /\ at \in {"settle", "open"} => idx >= 1
    /\ leg = NoLeg \/ leg \in [kind : {"put", "call"}, strike : Strikes, expiration : 1 .. Bars,
                               entry : 1 .. Bars]
    /\ nextEntry \in 1 .. Bars + 1
    /\ floor \in Strikes \cup {0}
    /\ shares = Lot => floor \in Strikes
    /\ config.floor /\ leg.kind = "call" => leg.strike >= floor

TellsNow == Tells(trades, shares, floor, completed)

RunInv == WheelInv /\ Ahead /\ Typed /\ Ledger /\ TellsNow

(* A trade that is none of the two assignments leaves the cycles alone.    *)
LEMMA TellsOn ==
    ASSUME NEW log \in Seq(Trade), NEW e \in Trade, NEW sh, NEW fl, NEW done,
           Tells(log, sh, fl, done), e.action \notin {"put_assigned", "call_assigned"}
    PROVE  Tells(Append(log, e), sh, fl, done)
  <1>1. CyclesOf(Append(log, e)) = CycleStep(e, CyclesOf(log))
    BY CyclesGrow
  <1>2. CycleStep(e, CyclesOf(log)) = CyclesOf(log)
    BY DEF CycleStep
  <1> QED BY <1>1, <1>2 DEF Tells

LEMMA TellsBought ==
    ASSUME NEW log \in Seq(Trade), NEW e \in Trade, NEW fl, NEW done \in Nat,
           Tells(log, 0, fl, done), e.action = "put_assigned"
    PROVE  Tells(Append(log, e), Lot, e.strike, done)
  <1>1. CyclesOf(Append(log, e)) = CycleStep(e, CyclesOf(log))
    BY CyclesGrow
  <1>2. CyclesOf(log) \in Cycle /\ ~CyclesOf(log).open
    BY WheelBounds DEF Tells
  <1>3. CycleStep(e, CyclesOf(log)) =
          [CyclesOf(log) EXCEPT !.open = TRUE, !.put = e.strike,
                                !.ended = IF CyclesOf(log).open THEN @ + 1 ELSE @]
    BY DEF CycleStep
  <1>4. e.strike \in Strikes
    BY DEF Trade
  <1>5. /\ CyclesOf(Append(log, e)) \in Cycle
        /\ CyclesOf(Append(log, e)).open = TRUE
        /\ CyclesOf(Append(log, e)).put = e.strike
        /\ CyclesOf(Append(log, e)).ended = CyclesOf(log).ended
        /\ CyclesOf(Append(log, e)).completed = CyclesOf(log).completed
    BY <1>1, <1>2, <1>3, <1>4 DEF Cycle
  <1> QED BY <1>5 DEF Tells

LEMMA TellsSold ==
    ASSUME NEW log \in Seq(Trade), NEW e \in Trade, NEW fl, NEW gl, NEW done \in Nat,
           Tells(log, Lot, fl, done), e.action = "call_assigned"
    PROVE  Tells(Append(log, e), 0, gl, done + 1)
  <1>1. CyclesOf(Append(log, e)) = CycleStep(e, CyclesOf(log))
    BY CyclesGrow
  <1>2. CyclesOf(log) \in Cycle /\ CyclesOf(log).open
    BY DEF Tells
  <1>3. PICK c \in Cycle : c = CyclesOf(log)
    BY <1>2
  <1>4. CycleStep(e, c) = [c EXCEPT !.open = FALSE, !.completed = c.completed + 1]
    BY <1>2, <1>3 DEF CycleStep
  <1> DEFINE d == [c EXCEPT !.open = FALSE, !.completed = c.completed + 1]
  <1>5. /\ d \in Cycle /\ d.open = FALSE
        /\ d.ended = c.ended /\ d.completed = c.completed + 1
    <2>1. PICK b : b = [c EXCEPT !.open = FALSE]
      OBVIOUS
    <2>2. b \in Cycle /\ b.open = FALSE /\ b.ended = c.ended /\ b.completed = c.completed
      BY <2>1 DEF Cycle
    <2>3. d = [b EXCEPT !.completed = c.completed + 1]
      BY <2>1
    <2>4. c.completed + 1 \in Nat
      BY DEF Cycle
    <2> HIDE DEF d
    <2> QED BY <2>2, <2>3, <2>4 DEF Cycle
  <1>6. CyclesOf(Append(log, e)) = d
    BY <1>1, <1>3, <1>4
  <1> HIDE DEF d
  <1> QED BY <1>3, <1>5, <1>6, WheelBounds DEF Tells

(* What a record adds to the ledger.                                       *)
LEMMA LedgerGrows ==
    ASSUME NEW log \in Seq(Trade), FlowsOf(log) \in Int, NEW c, NEW e \in Trade,
           NEW s \in Strikes, c = Buffered(s) + FlowsOf(log)
    PROVE  /\ Append(log, e) \in Seq(Trade)
           /\ FlowsOf(Append(log, e)) \in Int
           /\ c + e.flow = Buffered(s) + FlowsOf(Append(log, e))
  <1>1. FlowsOf(Append(log, e)) = FlowsOf(log) + e.flow /\ e.flow \in Int
    BY FlowsGrow DEF Trade
  <1>2. Buffered(s) \in Nat
    BY Cost
  <1> QED BY <1>1, <1>2
LEMMA RunStarts == WheelInit => RunInv
  <1> SUFFICES ASSUME WheelInit PROVE RunInv
    OBVIOUS
  <1>1. PICK s \in Strikes : cash = Buffered(s)
    BY DEF WheelInit
  <1>2. Buffered(s) \in Nat /\ Bars \in Nat /\ Bars > 0 /\ Lot # 0
    BY Cost, WheelBounds
  <1>3. Typed
    <2>1. leg = NoLeg /\ NoLeg.kind = "none" /\ shares = 0 /\ floor = 0 /\ at = "bar"
          /\ nextEntry = 1 /\ close = 0 /\ completed = 0 /\ deposited \in Nat
          /\ blocked \in BOOLEAN /\ config \in [topUp : BOOLEAN, floor : BOOLEAN]
      BY <1>1, <1>2 DEF WheelInit, NoLeg
    <2> QED BY <1>2, <2>1 DEF Typed
  <1>4. Ledger
    BY <1>1, <1>2, FlowsOfNone DEF WheelInit, Ledger
  <1>5. TellsNow
    <2>1. NoCycle \in Cycle
      BY DEF NoCycle, Cycle
    <2>2. NoCycle.open = FALSE /\ NoCycle.ended = 0 /\ NoCycle.completed = 0
      BY DEF NoCycle
    <2>3. Tells(<<>>, 0, 0, 0)
      BY <1>2, <2>1, <2>2, CyclesOfNone DEF Tells
    <2>4. trades = <<>> /\ shares = 0 /\ floor = 0 /\ completed = 0
      BY DEF WheelInit
    <2> QED BY <2>3, <2>4 DEF TellsNow
  <1>6. Ahead
    BY <1>2 DEF WheelInit, Ahead
  <1> QED BY <1>3, <1>4, <1>5, <1>6, WheelStarts DEF RunInv, TellsNow

(* What the invariant says of the option that is open.                     *)
LEMMA LegFacts ==
    ASSUME RunInv, leg.kind \in {"put", "call"}
    PROVE  /\ leg.strike \in Strikes /\ Collateral(leg.strike) \in Nat
           /\ leg.kind = "put" => shares = 0
           /\ leg.kind = "call" => shares = Lot
  BY Cost DEF RunInv, WheelInv, Held, Secured, Typed, NoLeg

(* Buying and selling the stock, and options that expire worthless.        *)
LEMMA SettleKeeps ==
    ASSUME RunInv, PutAssigned \/ PutExpired \/ CallAssigned \/ CallExpired
    PROVE  Typed' /\ Ledger' /\ TellsNow'
  <1>0. /\ leg.kind \in {"put", "call"} /\ at = "settle" /\ Settled
        /\ leg.strike \in Strikes /\ Collateral(leg.strike) \in Nat
        /\ leg.kind = "put" => shares = 0
        /\ leg.kind = "call" => shares = Lot
    BY LegFacts DEF PutAssigned, PutExpired, CallAssigned, CallExpired, Expires
  <1>1. /\ idx \in 1 .. Bars /\ Bars \in Nat /\ Lot \in Nat /\ Lot # 0
        /\ floor \in Strikes \cup {0} /\ (shares = Lot => floor \in Strikes)
        /\ cash \in Int /\ completed \in Nat
    BY <1>0, WheelBounds DEF RunInv, Ahead, Typed, WheelInv, Secured
  <1>2. /\ trades \in Seq(Trade) /\ FlowsOf(trades) \in Int
        /\ TellsNow
    BY DEF RunInv, Ledger, TellsNow
  <1>3. PICK s \in Strikes : cash = Buffered(s) + FlowsOf(trades)
    BY DEF RunInv, Ledger
  <1>4. ASSUME floor' \in Strikes \cup {0}, shares' = Lot => floor' \in Strikes,
               completed' \in Nat
        PROVE  Typed'
    BY <1>0, <1>1, <1>4 DEF RunInv, Typed, Settled, NoLeg
  <1>5. ASSUME NEW e \in Trade, trades' = Append(trades, e), cash' = cash + e.flow
        PROVE  Ledger'
    BY <1>2, <1>3, <1>5, LedgerGrows DEF Ledger
  <1>6. CASE PutAssigned
    <2> DEFINE cost == Collateral(leg.strike)
               e == [action |-> "put_assigned", strike |-> leg.strike, flow |-> -cost, bar |-> idx]
    <2>1. /\ e \in Trade /\ e.flow = -cost /\ e.strike = leg.strike
          /\ e.action = "put_assigned"
      BY <1>0, <1>1 DEF Trade
    <2>2. /\ trades' = Append(trades, e) /\ cash' = cash - cost
          /\ shares' = Lot /\ floor' = leg.strike /\ completed' = completed /\ shares = 0
      BY <1>0, <1>6 DEF PutAssigned, Record, Expires
    <2>3. cash' = cash + e.flow
      BY <1>0, <1>1, <2>1, <2>2
    <2> HIDE DEF e
    <2>4. Tells(Append(trades, e), Lot, leg.strike, completed)
      BY <1>1, <1>2, <2>1, <2>2, TellsBought DEF TellsNow
    <2> QED BY <1>0, <1>1, <1>4, <1>5, <2>1, <2>2, <2>3, <2>4 DEF TellsNow
  <1>7. CASE CallAssigned
    <2> DEFINE cost == Collateral(leg.strike)
               e == [action |-> "call_assigned", strike |-> leg.strike, flow |-> cost, bar |-> idx]
    <2>1. e \in Trade /\ e.flow = cost /\ e.action = "call_assigned"
      BY <1>0, <1>1 DEF Trade
    <2>2. /\ trades' = Append(trades, e) /\ cash' = cash + cost
          /\ shares' = 0 /\ floor' = 0 /\ completed' = completed + 1 /\ shares = Lot
      BY <1>0, <1>7 DEF CallAssigned, Record, Expires
    <2> HIDE DEF e
    <2>3. Tells(Append(trades, e), 0, 0, completed + 1)
      BY <1>1, <1>2, <2>1, <2>2, TellsSold DEF TellsNow
    <2> QED BY <1>0, <1>1, <1>4, <1>5, <2>1, <2>2, <2>3 DEF TellsNow
  <1>8. CASE PutExpired \/ CallExpired
    <2> DEFINE act == IF PutExpired THEN "put_expired" ELSE "call_expired"
               e == [action |-> act, strike |-> leg.strike, flow |-> 0, bar |-> idx]
    <2>1. /\ e \in Trade /\ e.flow = 0 /\ e.action \notin {"put_assigned", "call_assigned"}
      BY <1>0, <1>1 DEF Trade
    <2>2. trades' = Append(trades, e) /\ UNCHANGED <<cash, shares, floor, completed>>
      BY <1>8 DEF PutExpired, CallExpired, Record
    <2> HIDE DEF e
    <2>3. Tells(Append(trades, e), shares, floor, completed)
      BY <1>2, <2>1, TellsOn DEF TellsNow
    <2> QED BY <1>0, <1>1, <1>4, <1>5, <2>1, <2>2, <2>3 DEF TellsNow
  <1> QED BY <1>6, <1>7, <1>8

(* Selling a put, with the deposit that it may need.                       *)
LEMMA SellPutTells ==
    ASSUME RunInv, NEW s \in Strikes, Entering("cash"), SellPut(s),
           UNCHANGED <<config, idx, close, shares, floor, completed>>
    PROVE  Typed' /\ Ledger' /\ TellsNow'
  <1>1. /\ idx \in 1 .. Bars /\ Bars \in Nat /\ Dte \in Nat /\ Dte > 0
        /\ cash \in Int /\ leg = NoLeg /\ deposited \in Nat
        /\ trades \in Seq(Trade) /\ FlowsOf(trades) \in Int /\ TellsNow
    BY WheelBounds DEF RunInv, Ahead, Typed, WheelInv, Secured, Entering, Ledger, TellsNow
  <1>2. /\ Collateral(s) \in Nat /\ Buffered(s) \in Nat /\ Buffered(s) >= Collateral(s)
        /\ Wallet(s) \in Int /\ Wallet(s) >= cash
    BY Cost, WalletCovers DEF SellPut, RunInv
  <1>3. PICK q \in Strikes : cash = Buffered(q) + FlowsOf(trades)
    BY DEF RunInv, Ledger
  <1> DEFINE log == IF cash < Collateral(s)
                    THEN Record("capital_top_up", s, Buffered(s) - cash) ELSE trades
  <1>4. /\ log \in Seq(Trade) /\ FlowsOf(log) \in Int
        /\ Wallet(s) = Buffered(q) + FlowsOf(log)
        /\ Tells(log, shares, floor, completed)
    <2>1. CASE cash < Collateral(s)
      <3> DEFINE e == [action |-> "capital_top_up", strike |-> s,
                       flow |-> Buffered(s) - cash, bar |-> idx]
      <3>1. e \in Trade /\ e.flow = Buffered(s) - cash /\ e.action = "capital_top_up"
        BY <1>1, <1>2 DEF Trade
      <3>2. log = Append(trades, e) /\ Wallet(s) = cash + e.flow
        BY <1>1, <1>2, <2>1, <3>1 DEF Record, Wallet
      <3> HIDE DEF e, log
      <3> QED BY <1>1, <1>3, <3>1, <3>2, LedgerGrows, TellsOn DEF TellsNow
    <2>2. CASE ~(cash < Collateral(s))
      BY <1>1, <1>3, <2>2 DEF Wallet, TellsNow
    <2> QED BY <2>1, <2>2
  <1>5. /\ deposited' = deposited + (Wallet(s) - cash) /\ blocked' = FALSE
        /\ deposited' \in Nat /\ at' # "open" /\ at' # "settle"
    BY <1>1, <1>2 DEF SellPut, EndOfBar
  <1>6. ASSUME NEW premium \in Premiums \ {0},
               cash' = Wallet(s) + (premium * Lot - Fee), Opened("put", s),
               nextEntry' = nextEntry,
               trades' = Append(log, [action |-> "sell_csp", strike |-> s,
                                      flow |-> premium * Lot - Fee, bar |-> idx])
        PROVE  Typed' /\ Ledger' /\ TellsNow'
    <2> DEFINE e == [action |-> "sell_csp", strike |-> s,
                     flow |-> premium * Lot - Fee, bar |-> idx]
    <2>1. e \in Trade /\ e.flow = premium * Lot - Fee /\ e.action = "sell_csp"
      BY <1>1, Sale DEF Trade
    <2>2. trades' = Append(log, e) /\ cash' = Wallet(s) + e.flow
      BY <1>6, <2>1
    <2> HIDE DEF e, log
    <2>3. Ledger'
      BY <1>4, <2>1, <2>2, LedgerGrows DEF Ledger
    <2>4. TellsNow'
      BY <1>4, <2>1, <2>2, TellsOn DEF TellsNow
    <2>5. leg' \in [kind : {"put", "call"}, strike : Strikes, expiration : 1 .. Bars,
                    entry : 1 .. Bars] /\ leg'.kind = "put"
      BY <1>1, <1>6 DEF Opened
    <2>6. Typed'
      <3>1. config' = config /\ close' = close /\ completed' = completed /\ floor' = floor
            /\ shares' = shares /\ blocked' \in BOOLEAN /\ nextEntry' = nextEntry
        BY <1>5, <1>6
      <3>2. leg'.kind # "call"
        BY <2>5
      <3>3. /\ config \in [topUp : BOOLEAN, floor : BOOLEAN] /\ close \in Closes \cup {0}
            /\ completed \in Nat /\ nextEntry \in 1 .. Bars + 1 /\ floor \in Strikes \cup {0}
            /\ shares = Lot => floor \in Strikes
        BY DEF RunInv, Typed
      <3> HIDE DEF log
      <3> QED BY <1>5, <2>5, <3>1, <3>2, <3>3 DEF Typed
    <2> QED BY <2>3, <2>4, <2>6
  <1>7. ASSUME cash' = Wallet(s), nextEntry' = idx + 1, trades' = log, leg' = leg
        PROVE  Typed' /\ Ledger' /\ TellsNow'
    <2> HIDE DEF log
    <2>1. Typed'
      <3>1. /\ config \in [topUp : BOOLEAN, floor : BOOLEAN] /\ close \in Closes \cup {0}
            /\ completed \in Nat /\ floor \in Strikes \cup {0}
            /\ shares = Lot => floor \in Strikes
        BY DEF RunInv, Typed
      <3>2. leg' = NoLeg /\ leg'.kind # "call" /\ nextEntry' \in 1 .. Bars + 1
        BY <1>1, <1>7 DEF NoLeg
      <3>3. blocked' \in BOOLEAN /\ config' = config /\ close' = close /\ completed' = completed
            /\ floor' = floor /\ shares' = shares
        BY <1>5
      <3> QED BY <1>5, <3>1, <3>2, <3>3 DEF Typed
    <2>2. Ledger'
      BY <1>4, <1>7 DEF Ledger
    <2>3. TellsNow'
      BY <1>4, <1>7 DEF TellsNow
    <2> QED BY <2>1, <2>2, <2>3
  <1>8. \/ \E premium \in Premiums \ {0} :
             /\ cash' = Wallet(s) + (premium * Lot - Fee) /\ Opened("put", s)
             /\ nextEntry' = nextEntry
             /\ trades' = Append(log, [action |-> "sell_csp", strike |-> s,
                                       flow |-> premium * Lot - Fee, bar |-> idx])
        \/ cash' = Wallet(s) /\ nextEntry' = idx + 1 /\ trades' = log /\ leg' = leg
    BY DEF SellPut
  <1> HIDE DEF log
  <1> QED BY <1>6, <1>7, <1>8

LEMMA OpenShortCallTells ==
    ASSUME RunInv, OpenShortCall
    PROVE  Typed' /\ Ledger' /\ TellsNow'
  <1>1. /\ idx \in 1 .. Bars /\ Bars \in Nat /\ Dte \in Nat /\ Dte > 0 /\ Lot \in Nat /\ Lot # 0
        /\ cash \in Int /\ leg = NoLeg /\ shares = Lot /\ floor \in Strikes
        /\ trades \in Seq(Trade) /\ FlowsOf(trades) \in Int /\ TellsNow
    BY WheelBounds DEF OpenShortCall, RunInv, Ahead, Typed, WheelInv, Held, Secured, Entering,
       Ledger, TellsNow
  <1>2. PICK q \in Strikes : cash = Buffered(q) + FlowsOf(trades)
    BY DEF RunInv, Ledger
  <1>3. /\ UNCHANGED <<config, idx, close, shares, floor, deposited, blocked, completed>>
        /\ at' # "open" /\ at' # "settle"
    BY DEF OpenShortCall, EndOfBar
  <1>4. ASSUME NEW s \in CallStrikes(close), NEW premium \in Premiums \ {0},
               cash' = cash + (premium * Lot - Fee), Opened("call", s), nextEntry' = nextEntry,
               trades' = Record("sell_cc", s, premium * Lot - Fee)
        PROVE  Typed' /\ Ledger' /\ TellsNow'
    <2> DEFINE e == [action |-> "sell_cc", strike |-> s,
                     flow |-> premium * Lot - Fee, bar |-> idx]
    <2>1. s \in Strikes /\ (config.floor => s >= floor)
      <3>1. floor # 0
        BY <1>1, WheelBounds
      <3> QED BY <3>1 DEF CallStrikes
    <2>2. e \in Trade /\ e.flow = premium * Lot - Fee /\ e.action = "sell_cc"
      BY <1>1, <2>1, Sale DEF Trade
    <2>3. trades' = Append(trades, e) /\ cash' = cash + e.flow
      BY <1>4, <2>2 DEF Record
    <2> HIDE DEF e
    <2>4. Ledger'
      BY <1>1, <1>2, <2>2, <2>3, LedgerGrows DEF Ledger
    <2>5. TellsNow'
      BY <1>1, <1>3, <2>2, <2>3, TellsOn DEF TellsNow
    <2>6. leg' \in [kind : {"put", "call"}, strike : Strikes, expiration : 1 .. Bars,
                    entry : 1 .. Bars] /\ leg'.strike = s
      BY <1>1, <1>4, <2>1 DEF Opened
    <2>7. Typed'
      BY <1>1, <1>3, <1>4, <2>1, <2>6 DEF RunInv, Typed
    <2> QED BY <2>4, <2>5, <2>7
  <1>5. ASSUME nextEntry' = idx + 1, UNCHANGED <<cash, leg, trades>>
        PROVE  Typed' /\ Ledger' /\ TellsNow'
    BY <1>1, <1>3, <1>5 DEF RunInv, Typed, Ledger, TellsNow
  <1> QED BY <1>4, <1>5 DEF OpenShortCall

LEMMA RunKeeps == RunInv /\ [WheelNext]_wheelVars => RunInv'
  <1> SUFFICES ASSUME RunInv, [WheelNext]_wheelVars PROVE Typed' /\ Ledger' /\ TellsNow'
    BY WheelKeeps, AheadKeeps DEF RunInv, TellsNow
  <1>1. ASSUME UNCHANGED <<cash, trades>> PROVE Ledger'
    BY <1>1 DEF RunInv, Ledger
  <1>2. ASSUME UNCHANGED <<trades, shares, floor, completed>> PROVE TellsNow'
    BY <1>2 DEF RunInv, TellsNow
  <1>3. Bars \in Nat /\ idx \in 0 .. Bars
    BY WheelBounds DEF RunInv, Ahead
  <1>4. CASE NextBar
    BY <1>1, <1>2, <1>3, <1>4 DEF NextBar, RunInv, Typed
  <1>5. CASE PutAssigned \/ PutExpired \/ CallAssigned \/ CallExpired
    BY <1>5, SettleKeeps
  <1>6. CASE NothingExpires
    BY <1>1, <1>2, <1>6 DEF NothingExpires, RunInv, Typed
  <1>7. CASE OpenShortPut
    <2>1. ASSUME TryTomorrow, blocked' \in BOOLEAN,
                 UNCHANGED <<config, close, shares, floor, completed, cash, leg, deposited, trades>>
          PROVE  Typed' /\ Ledger' /\ TellsNow'
      <3>1. at' # "open" /\ at' # "settle" /\ nextEntry' = idx + 1
        BY <2>1 DEF TryTomorrow, EndOfBar
      <3>2. at = "open"
        BY <1>7 DEF OpenShortPut, Entering
      <3> QED BY <1>1, <1>2, <1>3, <2>1, <3>1, <3>2 DEF RunInv, Typed
    <2>2. ASSUME NEW s \in PutStrikes(close), SellPut(s)
          PROVE  Typed' /\ Ledger' /\ TellsNow'
      BY <1>7, <2>2, SellPutTells DEF OpenShortPut, PutStrikes
    <2>3. blocked \in BOOLEAN
      BY DEF RunInv, Typed
    <2> QED BY <1>7, <2>1, <2>2, <2>3 DEF OpenShortPut, Refused
  <1>8. CASE OpenShortCall
    BY <1>8, OpenShortCallTells
  <1>9. CASE NothingOpens
    BY <1>1, <1>2, <1>9 DEF NothingOpens, EndOfBar, RunInv, Typed
  <1>10. CASE UNCHANGED wheelVars
    BY <1>1, <1>2, <1>10 DEF wheelVars, RunInv, Typed
  <1> QED BY <1>4, <1>5, <1>6, <1>7, <1>8, <1>9, <1>10 DEF WheelNext

(* The report is of the run, for any prices, strikes, premiums and fees:   *)
(* what the log says came and went is what the wallet gained over its      *)
(* start, and the cycles built from the log are those the loop counted     *)
(* (_build_wheel_cycles and the summary of the log).                       *)
THEOREM ReportIsOfTheRun == WheelSpec => []ReportMatches
  <1>1. RunInv => ReportMatches
    <2> SUFFICES ASSUME RunInv PROVE ReportMatches
      OBVIOUS
    <2>1. Lot > 0 /\ Lot \in Nat
      BY WheelBounds
    <2>2. WheelTypeOK
      BY DEF RunInv, WheelInv, Held, Secured, Ahead, Typed, WheelTypeOK
    <2>3. LedgerBalances
      BY DEF RunInv, Ledger, LedgerBalances, Flows
    <2>4. CyclesMatch
      BY <2>1, <2>2 DEF RunInv, TellsNow, Tells, CyclesMatch, Cycles, WheelTypeOK
    <2> QED BY <2>2, <2>3, <2>4 DEF ReportMatches
  <1> QED BY <1>1, RunStarts, RunKeeps, PTL DEF WheelSpec

(* With the floor, the stock is never called away below the strike it was  *)
(* put at, whatever the search finds (the strikes of open_short_call).     *)
THEOREM StockIsNotSoldLower == WheelSpec => []CallsAboveCost
  <1>1. RunInv => CallsAboveCost
    <2> SUFFICES ASSUME RunInv, config.floor, leg.kind = "call" PROVE leg.strike >= Cycles.put
      BY DEF CallsAboveCost
    <2>1. shares = Lot /\ leg.strike >= floor
      BY LegFacts DEF RunInv, Typed
    <2>2. Cycles.put = floor
      BY <2>1 DEF RunInv, TellsNow, Tells, Cycles
    <2> QED BY <2>1, <2>2
  <1> QED BY <1>1, RunStarts, RunKeeps, PTL DEF WheelSpec
=============================================================================
