--------------------------- MODULE WatchlistStore ---------------------------
(***************************************************************************)
(* What a user's watchlist promises its clients, as the in-memory adapter  *)
(* of tests/test_watchlist_versioning.py states it: one workspace, one     *)
(* version, and a sync that replaces the one and counts the other up in    *)
(* one step.                                                               *)
(***************************************************************************)
EXTENDS Naturals

CONSTANT Workspaces

VARIABLES workspace, version

Init == workspace \in Workspaces /\ version = 0

Sync ==
    /\ workspace' \in Workspaces
    /\ version' = version + 1

Spec == Init /\ [][Sync]_<<workspace, version>>
=============================================================================
