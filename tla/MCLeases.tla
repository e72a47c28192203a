------------------------------ MODULE MCLeases ------------------------------
(***************************************************************************)
(* Instances of Leases for TLC.                                            *)
(***************************************************************************)
EXTENDS Leases, TLC

\* The default policy: one lease at a time, no reuse interval.
exclusive == [mc |-> 1, ri |-> 0, ra |-> "r", rs |-> "e"]
\* Two leases at a time, one site-wide use every two instants.
sharedSite == [mc |-> 2, ri |-> 2, ra |-> "a", rs |-> "s"]
\* Two leases at a time, a pause of two after each, site-wide.
pausedSite == [mc |-> 2, ri |-> 2, ra |-> "r", rs |-> "s"]
\* One lease at a time, one use of the endpoint every two instants.
exclusiveEndpoint == [mc |-> 1, ri |-> 2, ra |-> "a", rs |-> "e"]

ExclusiveAndShared == {exclusive, sharedSite}
ReusePolicies == {sharedSite, pausedSite, exclusiveEndpoint}

Perms == Permutations(LeaseIds)
=============================================================================
