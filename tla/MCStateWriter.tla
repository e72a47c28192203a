--------------------------- MODULE MCStateWriter ---------------------------
(* StateWriter for TLC: the cfg gives the constants.                       *)
EXTENDS StateWriter
=============================================================================
