---------------------------- MODULE MCReplayStore ----------------------------
EXTENDS ReplayStore

(* A bar that touches the long trigger may grow to reach the first target  *)
(* and then to touch the stop too, or to trigger the short side.           *)
Bar(low, high, close) == [low |-> low, high |-> high, close |-> close, open |-> 25]
MCShapes == {Bar(25, 29, 29), Bar(25, 37, 32), Bar(21, 37, 25), Bar(19, 29, 25)}

(* The running VWAP is above the low of such a bar or below it.            *)
Plan(mode, stop, setup) ==
    [mode |-> mode, stop |-> stop, second |-> [s \in Sides |-> NoLevel], setup |-> setup]
MCPlans == {Plan("long_and_short", 24, "breakout"), Plan("long_only", 18, "gap")}
=============================================================================
