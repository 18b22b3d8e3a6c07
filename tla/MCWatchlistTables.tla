------------------------- MODULE MCWatchlistTables --------------------------
(* Small instances of WatchlistTables.                                     *)
EXTENDS WatchlistTables

CONSTANTS f1, f2, i1, i2, i3, A, B, upper, lower
=============================================================================
