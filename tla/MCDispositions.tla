--------------------------- MODULE MCDispositions ---------------------------
(***************************************************************************)
(* Instances of Dispositions for TLC.                                      *)
(***************************************************************************)
EXTENDS Dispositions, TLC

\* The default policy: one lease at a time, no reuse interval.
exclusive == [mc |-> 1, ri |-> 0, ra |-> "r", rs |-> "e"]
\* Two leases at a time.
shared == [mc |-> 2, ri |-> 0, ra |-> "r", rs |-> "e"]

ExclusiveOnly == {exclusive}
ExclusiveAndShared == {exclusive, shared}

\* Lease ids are interchangeable, and so are groups: the group a record names
\* before its lease is granted is never read.
Perms == Permutations(LeaseIds) \cup Permutations(Groups)
=============================================================================
