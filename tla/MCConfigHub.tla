---------------------------- MODULE MCConfigHub ----------------------------
(***************************************************************************)
(* ConfigHub for TLC. The bounds on versions, items and faults are guards  *)
(* of the specification.                                                   *)
(***************************************************************************)
EXTENDS ConfigHub, TLC

=============================================================================
