-------------------------- MODULE MCWatchlistSync --------------------------
(* Small instances of WatchlistSync.                                       *)
EXTENDS WatchlistSync

CONSTANTS c1, c2, w1, w2
=============================================================================
