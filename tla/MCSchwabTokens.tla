--------------------------- MODULE MCSchwabTokens ---------------------------
(* Small instances of SchwabTokens.                                        *)
EXTENDS SchwabTokens, TLC

CONSTANTS s1, s2, t1, t2

(* No definition tells two threads, or two states, apart.                  *)
Symmetry == Permutations(Threads) \cup Permutations(States)
=============================================================================
