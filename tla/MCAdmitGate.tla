---------------------------- MODULE MCAdmitGate ----------------------------
(***************************************************************************)
(* AdmitGate for TLC: three interchangeable callers, limits up to two.     *)
(***************************************************************************)
EXTENDS AdmitGate, TLC

Perms == Permutations(Callers)
=============================================================================
