---------------------------- MODULE MCStateSync ----------------------------
(* StateSync for TLC: the cfg gives the constants.                         *)
EXTENDS StateSync
=============================================================================
