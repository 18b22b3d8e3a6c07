--------------------------- MODULE MCMorningBrief ---------------------------
(* A small instance of MorningBrief.                                       *)
EXTENDS MorningBrief

CONSTANTS d1, d2, a, b
=============================================================================
