------------------------ MODULE LeaseExclusionProofs ------------------------
(***************************************************************************)
(* What the exact accounting of LeasesProofs buys: exclusive leases are    *)
(* exclusive, leases only move forward, no grant passes the probe limit.   *)
(***************************************************************************)
EXTENDS LeasesProofs

(* Exclusivity needs the clocks to agree: with Skew = 0, a renewal finds    *)
(* its lease unexpired exactly when the grants did.                         *)

\* With one clock a grant never joins an unexpired exclusive lease.
LEMMA GrantExclusive ==
  ASSUME IInv, Exclusive, NEW t \in Clocks, NEW i \in Identities, NEW g \in Groups,
         NEW l \in LeaseIds, NEW pol \in Policies, NEW R,
         ls[l].st = "none", al[i] < Lim(i, pol), Held(i) <= t,
         WriteLease(i, g, l, pol, t, R)
  PROVE  Exclusive'
  <1>1. TypeOK /\ TypeOK' /\ t \in Nat /\ t <= now /\ now \in Nat /\ now' = now
    BY ClocksNat, WriteLeaseType DEF IInv, WriteLease
  <1>2. /\ \A k \in LeaseIds : k # l => ls'[k] = ls[k]
        /\ ls'[l].st = "active" /\ ls'[l].i = i /\ ls'[l].pol = pol
    BY <1>1 DEF WriteLease, TypeOK
  <1>3. Active(i)' = Active(i) \cup {l} /\ \A j \in Identities : j # i => Active(j)' = Active(j)
    BY <1>1, GrantActive
  <1> SUFFICES ASSUME NEW k \in LeaseIds, NEW j \in Identities, ls'[k].i = j, ls'[k].st = "active", ls'[k].pol.mc = 1, now < ls'[k].x
               PROVE  Active(j)' = {k}
    BY Zenon, <1>1 DEF Exclusive, TypeOK, Lease
  <1>4. CASE k = l
    <2>1. SoleExclusive' /\ AlExact'
      BY <1>1, GrantIInv DEF IInv
    <2>2. pol.mc \in Nat /\ ProbeMax \in Nat /\ pol.mc = 1
      BY <1>2, <1>4, PoliciesAssumption, TimesAssumption DEF Policy
    <2>3. Lim(i, pol) \in Nat /\ Lim(i, pol) <= 1
      BY <2>2 DEF Lim, Sooner
    <2>4. al[i] \in Nat
      BY <1>1 DEF TypeOK
    <2>5. al[i] = 0
      BY <2>3, <2>4
    <2>6. Active(i) = {}
      BY <2>5, EmptyIffZero DEF IInv, AlExact
    <2> QED BY <1>2, <1>3, <1>4, <2>6
  <1>5. CASE k # l
    <2>1. ls[k].st = "active" /\ ls[k].pol.mc = 1 /\ now < ls[k].x /\ ls[k].i \in Identities
          /\ ls[k].x \in Nat
      BY <1>1, <1>2, <1>5 DEF TypeOK, Lease
    <2>2. Active(ls[k].i) = {k}
      BY <2>1 DEF Exclusive
    <2>3. ls[k].i # i
      <3> SUFFICES ASSUME ls[k].i = i PROVE FALSE
        OBVIOUS
      <3>1. al[i] # 0 /\ al[i] \in Nat
        BY Zenon, <1>1, <2>2, EmptyIffZero DEF IInv, AlExact, TypeOK
      <3>2. Held(i) = xl[i] /\ xl[i] \in Nat
        BY <1>1, <3>1 DEF Held, TypeOK
      <3>3. ls[k].x <= xl[i]
        BY <2>1 DEF IInv, Covered
      <3> QED BY <1>1, <2>1, <3>2, <3>3
    <2> QED BY <1>2, <1>3, <1>5, <2>1, <2>2, <2>3
  <1> QED BY <1>4, <1>5

\* A step that grants nothing and moves no expiry cannot break exclusivity.
LEMMA ShrinkExclusive ==
  ASSUME Exclusive, TypeOK, TypeOK', now <= now',
         \A k \in LeaseIds : ls'[k].st = "active" =>
             /\ ls[k].st = "active" /\ ls'[k].i = ls[k].i
             /\ ls'[k].x = ls[k].x /\ ls'[k].pol = ls[k].pol
  PROVE  Exclusive'
  <1> SUFFICES ASSUME NEW k \in LeaseIds, NEW j \in Identities, ls'[k].i = j, ls'[k].st = "active", ls'[k].pol.mc = 1, now' < ls'[k].x
               PROVE  Active(j)' = {k}
    BY Zenon DEF Exclusive, TypeOK, Lease
  <1>1. ls[k].x \in Nat /\ now \in Int /\ now' \in Int
    BY TimesAssumption DEF TypeOK, Lease
  <1>2. Active(ls[k].i) = {k}
    BY <1>1 DEF Exclusive
  <1> QED BY <1>2 DEF Active

\* A renewal keeps exclusive leases alone.
LEMMA RenewExclusive ==
  ASSUME IInv, Exclusive, NEW l \in LeaseIds, NEW extend \in Nat, Renew(l, extend, now)
  PROVE  Exclusive'
  <1>1. /\ \A k \in LeaseIds : /\ k # l => ls'[k] = ls[k]
                               /\ ls'[k].st = ls[k].st /\ ls'[k].i = ls[k].i /\ ls'[k].pol = ls[k].pol
        /\ ls[l].st = "active" /\ now < ls[l].x /\ now' = now
    BY DEF Renew, IInv, TypeOK, Lease
  <1>0. TypeOK'
    BY RenewType, TimesAssumption DEF IInv, TypeOK
  <1> SUFFICES ASSUME NEW k \in LeaseIds, NEW j \in Identities, ls'[k].i = j, ls'[k].st = "active", ls'[k].pol.mc = 1, now < ls'[k].x
               PROVE  Active(j)' = {k}
    BY Zenon, <1>0, <1>1 DEF Exclusive, TypeOK, Lease
  <1>2. ls[k].st = "active" /\ ls[k].pol.mc = 1 /\ now < ls[k].x
    BY <1>1
  <1>3. Active(ls[k].i) = {k}
    BY <1>2 DEF Exclusive
  <1> QED BY <1>1, <1>3 DEF Active

\* Ending a lease does not expose another one to an exclusive lease.
LEMMA EndExclusive ==
  ASSUME IInv, Exclusive, NEW l \in LeaseIds, NEW newState \in LeaseState \ {"active"},
         NEW end \in Nat, NEW abort \in BOOLEAN, LsEnd(l, newState, end, abort)
  PROVE  Exclusive'
  <1>0. TypeOK /\ newState \in LeaseState
    BY DEF IInv
  <1>a. TypeOK'
    BY <1>0, LsEndType
  <1>b. now' = now
    BY DEF LsEnd
  <1>1. TypeOK /\ TypeOK' /\ now' = now
    BY <1>0, <1>a, <1>b
  <1>2. ls'[l].st = newState /\ \A k \in LeaseIds : k # l => ls'[k] = ls[k]
    BY <1>1 DEF LsEnd, TypeOK, Lease
  <1>3. now <= now'
    BY <1>1, TimesAssumption DEF TypeOK
  <1> QED BY <1>1, <1>2, <1>3, ShrinkExclusive

\* Every step keeps exclusive leases alone.
LEMMA ExclusiveStep ==
  ASSUME Skew = 0
  PROVE  IInv /\ Exclusive /\ [Next \/ Dispose]_vars => Exclusive'
  <1> SUFFICES ASSUME IInv, Exclusive, [Next \/ Dispose]_vars PROVE Exclusive'
    OBVIOUS
  <1>0. TypeOK /\ TypeOK' /\ now \in Int /\ now' \in Int
    BY NextDisposeIInv, TimesAssumption DEF IInv, TypeOK
  <1>1. ASSUME NEW t \in Clocks, NEW g \in Groups, NEW pol \in Policies, Acquire(g, pol, t)
        PROVE  Exclusive'
    <2>1. ASSUME NEW i \in Identities, NEW l \in LeaseIds, AcquireSampled(i, g, l, pol, t)
          PROVE  Exclusive'
      <3>1. PICK R : WriteLease(i, g, l, pol, t, R)
        BY <2>1 DEF AcquireSampled
      <3>2. ls[l].st = "none" /\ al[i] < Lim(i, pol) /\ Held(i) <= t
        BY <2>1 DEF AcquireSampled, Fits
      <3> QED BY <3>1, <3>2, GrantExclusive
    <2>2. ASSUME NEW i \in Identities, NEW l \in LeaseIds, AcquireSticky(i, g, l, pol, t)
          PROVE  Exclusive'
      <3>1. /\ ls[l].st = "none" /\ al[i] < Lim(i, pol) /\ Held(i) <= t
            /\ WriteLease(i, g, l, pol, t, {})
        BY <2>2 DEF AcquireSticky, FitsSticky
      <3> QED BY <3>1, GrantExclusive
    <2>3. ASSUME AcquireExhausted(g, pol, t) PROVE Exclusive'
      <3>1. UNCHANGED <<now, ls>>
        BY <2>3 DEF AcquireExhausted, lsVars
      <3> QED BY <1>0, <3>1, ShrinkExclusive
    <2> QED BY <1>1, <2>1, <2>2, <2>3 DEF Acquire
  <1>2. ASSUME NEW l \in LeaseIds, Deliver(l) PROVE Exclusive'
    <2>1. now' = now /\ \A k \in LeaseIds :
             ls'[k].st = ls[k].st /\ ls'[k].i = ls[k].i /\ ls'[k].x = ls[k].x /\ ls'[k].pol = ls[k].pol
      BY <1>0, <1>2 DEF Deliver, TypeOK, Lease
    <2> QED BY <1>0, <2>1, ShrinkExclusive
  <1>3. ASSUME NEW t \in Clocks, NEW l \in LeaseIds, NEW extend \in Extends, Renew(l, extend, t)
        PROVE  Exclusive'
    BY <1>0, <1>3, ClocksNat, ExtendsAssumption, RenewExclusive
  <1>4. ASSUME NEW t \in Clocks, NEW l \in LeaseIds, Release(l, t) PROVE Exclusive'
    BY Zenon, <1>0, <1>4, ClocksNat, EndExclusive DEF Release, LeaseState
  <1>5. ASSUME NEW t \in Clocks, NEW l \in LeaseIds, Abort(l, t) PROVE Exclusive'
    BY Zenon, <1>0, <1>5, ClocksNat, EndExclusive DEF Abort, LeaseState
  <1>6. ASSUME NEW t \in Clocks, NEW l \in LeaseIds, Reap(l, t) PROVE Exclusive'
    <2>1. LsEnd(l, "expired", ls[l].x, FALSE) /\ ls[l].x \in Nat
      BY Zenon, <1>0, <1>6, ClocksNat, ReapIInv DEF TypeOK, Lease
    <2> QED BY Zenon, <2>1, EndExclusive DEF LeaseState
  <1>7. CASE Tick
    <2>1. now <= now' /\ ls' = ls
      BY <1>0, <1>7 DEF Tick, lsVars
    <2> QED BY <1>0, <2>1, ShrinkExclusive
  <1>8. CASE UNCHANGED vars \/ Dispose
    <2>1. now' = now /\ ls' = ls
      BY <1>8, DisposeIInv DEF vars, lsVars
    <2> QED BY <1>0, <2>1, ShrinkExclusive
  <1> QED BY <1>1, <1>2, <1>3, <1>4, <1>5, <1>6, <1>7, <1>8 DEF Next

\* With synchronised clocks nobody shares an identity with an exclusive lease
\* that has not expired, whatever the policies of the calls, the sessions, the
\* renewals and the dispositions.
THEOREM ExclusiveLease == ASSUME Skew = 0 PROVE SpecDispose => []Exclusive
  <1>1. Init => Exclusive
    BY DEF Init, NoLease, Exclusive
  <1>2. IInv /\ Exclusive /\ [Next \/ Dispose]_vars => Exclusive'
    BY ExclusiveStep
  <1> QED BY <1>1, <1>2, Accounting, PTL DEF SpecDispose

-----------------------------------------------------------------------------
(* What a step may do to a lease.                                          *)

\* Ending a lease moves only that lease, and forward.
LEMMA EndStep ==
  ASSUME IInv, NEW l \in LeaseIds, NEW newState \in LeaseState, NEW end \in Nat,
         NEW abort \in BOOLEAN, ls[l].st = "active", LsEnd(l, newState, end, abort)
  PROVE  \A k \in LeaseIds : LeaseStep(k)
  <1>1. /\ ls'[l].x = ls[l].x /\ ls'[l].cap = ls[l].cap
        /\ \A k \in LeaseIds : k # l => ls'[k] = ls[k]
    BY DEF IInv, LsEnd, TypeOK, Lease
  <1>2. \A k \in LeaseIds : ls[k].x \in Nat /\ (ls[k].st = "active" => ls[k].x <= ls[k].cap)
    BY DEF IInv, WithinCap, TypeOK, Lease
  <1> QED BY <1>1, <1>2 DEF LeaseStep

\* A step that leaves the leases alone is a legal step of every lease.
LEMMA StillStep ==
  ASSUME IInv, ls' = ls
  PROVE  \A k \in LeaseIds : LeaseStep(k)
  <1>1. \A k \in LeaseIds : ls[k].x \in Nat /\ (ls[k].st = "active" => ls[k].x <= ls[k].cap)
    BY DEF IInv, WithinCap, TypeOK, Lease
  <1> QED BY <1>1 DEF LeaseStep

\* A grant moves only a fresh lease.
LEMMA GrantStep ==
  ASSUME IInv, NEW i, NEW g, NEW l \in LeaseIds, NEW pol, NEW t, NEW R,
         ls[l].st = "none", WriteLease(i, g, l, pol, t, R)
  PROVE  \A k \in LeaseIds : LeaseStep(k)
  <1>1. \A k \in LeaseIds : k # l => ls'[k] = ls[k]
    BY DEF IInv, WriteLease, TypeOK
  <1>2. \A k \in LeaseIds : ls[k].x \in Nat /\ (ls[k].st = "active" => ls[k].x <= ls[k].cap)
    BY DEF IInv, WithinCap, TypeOK, Lease
  <1> QED BY <1>1, <1>2 DEF LeaseStep

\* Every step moves every lease forward or not at all.
LEMMA LeaseStepAll ==
  ASSUME IInv, Next \/ Dispose
  PROVE  \A k \in LeaseIds : LeaseStep(k)
  <1> DEFINE Steps == \A k \in LeaseIds : LeaseStep(k)
  <1>0. TypeOK
    BY DEF IInv
  <1>1. ASSUME NEW t \in Clocks, NEW g \in Groups, NEW pol \in Policies, Acquire(g, pol, t)
        PROVE  Steps
    <2>1. ASSUME NEW i \in Identities, NEW l \in LeaseIds, AcquireSampled(i, g, l, pol, t)
          PROVE  Steps
      BY <2>1, GrantStep DEF AcquireSampled
    <2>2. ASSUME NEW i \in Identities, NEW l \in LeaseIds, AcquireSticky(i, g, l, pol, t)
          PROVE  Steps
      BY <2>2, GrantStep DEF AcquireSticky
    <2>3. ASSUME AcquireExhausted(g, pol, t) PROVE Steps
      BY <2>3, StillStep DEF AcquireExhausted, lsVars
    <2> QED BY <1>1, <2>1, <2>2, <2>3 DEF Acquire
  <1>2. ASSUME NEW l \in LeaseIds, Deliver(l) PROVE Steps
    <2>1. /\ ls'[l].x = ls[l].x /\ ls'[l].cap = ls[l].cap /\ ls[l].st = "active"
          /\ \A k \in LeaseIds : k # l => ls'[k] = ls[k]
      BY <1>0, <1>2 DEF Deliver, TypeOK, Lease
    <2>2. \A k \in LeaseIds : ls[k].x \in Nat /\ (ls[k].st = "active" => ls[k].x <= ls[k].cap)
      BY DEF IInv, WithinCap, TypeOK, Lease
    <2> QED BY <2>1, <2>2 DEF LeaseStep
  <1>3. ASSUME NEW t \in Clocks, NEW l \in LeaseIds, NEW extend \in Extends, Renew(l, extend, t)
        PROVE  Steps
    <2> DEFINE nx == Later(ls[l].x, Sooner(t + extend, ls[l].cap))
    <2>1. ls[l].x \in Nat /\ ls[l].cap \in Nat /\ t + extend \in Nat
      BY <1>0, ClocksNat, ExtendsAssumption DEF TypeOK, Lease
    <2>2. ls[l].st = "active" /\ ls[l].x < ls[l].cap
      BY <1>3 DEF Renew
    <2>3. ls[l].x <= nx /\ nx <= ls[l].cap
      BY <2>1, <2>2 DEF Later, Sooner
    <2>4. ls' = [ls EXCEPT ![l].x = nx]
      BY <1>3 DEF Renew
    <2> HIDE DEF nx
    <2>5. /\ ls'[l].x = nx /\ ls'[l].cap = ls[l].cap
          /\ \A k \in LeaseIds : k # l => ls'[k] = ls[k]
      BY <1>0, <2>4 DEF TypeOK, Lease
    <2>6. \A k \in LeaseIds : ls[k].x \in Nat /\ (ls[k].st = "active" => ls[k].x <= ls[k].cap)
      BY DEF IInv, WithinCap, TypeOK, Lease
    <2> QED BY <2>2, <2>3, <2>5, <2>6 DEF LeaseStep
  <1>4. ASSUME NEW t \in Clocks, NEW l \in LeaseIds, Release(l, t) PROVE Steps
    BY Zenon, <1>0, <1>4, ClocksNat, EndStep DEF Release, LeaseState
  <1>5. ASSUME NEW t \in Clocks, NEW l \in LeaseIds, Abort(l, t) PROVE Steps
    BY Zenon, <1>0, <1>5, ClocksNat, EndStep DEF Abort, LeaseState
  <1>6. ASSUME NEW t \in Clocks, NEW l \in LeaseIds, Reap(l, t) PROVE Steps
    <2>1. ls[l].st = "active" /\ LsEnd(l, "expired", ls[l].x, FALSE) /\ ls[l].x \in Nat
      BY Zenon, <1>0, <1>6, ClocksNat, ReapIInv DEF TypeOK, Lease
    <2> QED BY Zenon, <2>1, EndStep DEF LeaseState
  <1>7. CASE Tick
    BY <1>7, StillStep DEF Tick, lsVars
  <1>8. CASE Dispose
    BY <1>8, DisposeIInv, StillStep
  <1> QED BY <1>1, <1>2, <1>3, <1>4, <1>5, <1>6, <1>7, <1>8 DEF Next

\* A lease never gets shorter, never passes its lifetime cap and never changes
\* once it has ended.
THEOREM LeasesOnlyMoveForward == SpecDispose => LeaseSteps
  <1>1. IInv /\ [Next \/ Dispose]_vars => [\A l \in LeaseIds : LeaseStep(l)]_vars
    BY LeaseStepAll
  <1> QED BY <1>1, Accounting, PTL DEF SpecDispose, LeaseSteps

-----------------------------------------------------------------------------
(* The probe limit of a pending identity.                                  *)

\* A grant leaves a pending identity within the probe limit.
LEMMA GrantPending ==
  ASSUME IInv, NEW i \in Identities, NEW g, NEW l \in LeaseIds,
         NEW pol \in Policies, NEW t, NEW R,
         ls[l].st = "none", al[i] < Lim(i, pol), WriteLease(i, g, l, pol, t, R)
  PROVE  \A j \in Identities : PendingGrant(j)
  <1>1. /\ Cardinality(Active(i)') = Cardinality(Active(i)) + 1
        /\ \A j \in Identities : j # i => Active(j)' = Active(j)
    BY GrantActive DEF IInv
  <1>2. al[i] \in Nat /\ al[i] = Cardinality(Active(i))
    BY DEF IInv, TypeOK, AlExact
  <1>3. pol.mc \in Nat /\ ProbeMax \in Nat
    BY PoliciesAssumption, TimesAssumption DEF Policy
  <1>4. st[i] = "pending" => Cardinality(Active(i)) + 1 <= ProbeMax
    <2>1. st[i] = "pending" => Lim(i, pol) \in Nat /\ Lim(i, pol) <= ProbeMax
      BY <1>3 DEF Lim, Sooner
    <2> QED BY SMTT(20), <1>2, <1>3, <2>1
  <1>5. \A j \in Identities : j # i => ~(Cardinality(Active(j)') > Cardinality(Active(j)))
    BY <1>1, ActiveFinite
  <1> QED BY <1>1, <1>4, <1>5 DEF PendingGrant

\* A step after which no lease is active that was not before grants nothing.
LEMMA NoGrant ==
  ASSUME \A k \in LeaseIds : ls'[k].st = "active" =>
             ls[k].st = "active" /\ ls'[k].i = ls[k].i
  PROVE  \A j \in Identities : PendingGrant(j)
  <1> SUFFICES ASSUME NEW j \in Identities PROVE PendingGrant(j)
    OBVIOUS
  <1>1. Active(j)' \subseteq Active(j)
    BY DEF Active
  <1>2. IsFiniteSet(Active(j)) /\ Cardinality(Active(j)) \in Nat
    BY ActiveFinite
  <1>3. Cardinality(Active(j)') <= Cardinality(Active(j)) /\ Cardinality(Active(j)') \in Nat
    BY Zenon, <1>1, <1>2, FS_Subset, FS_CardinalityType
  <1>4. ~(Cardinality(Active(j)') > Cardinality(Active(j)))
    BY <1>2, <1>3
  <1> QED BY <1>4 DEF PendingGrant

\* No step grants a pending identity beyond the probe limit.
LEMMA PendingStep ==
  ASSUME IInv, [Next \/ Dispose]_vars
  PROVE  \A j \in Identities : PendingGrant(j)
  <1> DEFINE Capped == \A j \in Identities : PendingGrant(j)
  <1>0. TypeOK
    BY DEF IInv
  <1>q. ASSUME ls' = ls PROVE Capped
    BY <1>q, NoGrant
  <1>e. ASSUME NEW l \in LeaseIds, NEW newState \in LeaseState \ {"active"}, NEW end,
               NEW abort, LsEnd(l, newState, end, abort)
        PROVE  Capped
    <2>1. ls'[l].st = newState /\ \A k \in LeaseIds : k # l => ls'[k] = ls[k]
      BY <1>0, <1>e DEF LsEnd, TypeOK, Lease
    <2> QED BY <2>1, NoGrant
  <1>1. ASSUME NEW t \in Clocks, NEW g \in Groups, NEW pol \in Policies, Acquire(g, pol, t)
        PROVE  Capped
    <2>1. ASSUME NEW i \in Identities, NEW l \in LeaseIds, AcquireSampled(i, g, l, pol, t)
          PROVE  Capped
      BY <2>1, GrantPending DEF AcquireSampled, Fits
    <2>2. ASSUME NEW i \in Identities, NEW l \in LeaseIds, AcquireSticky(i, g, l, pol, t)
          PROVE  Capped
      BY <2>2, GrantPending DEF AcquireSticky, FitsSticky
    <2>3. ASSUME AcquireExhausted(g, pol, t) PROVE Capped
      BY <1>q, <2>3 DEF AcquireExhausted, lsVars
    <2> QED BY <1>1, <2>1, <2>2, <2>3 DEF Acquire
  <1>2. ASSUME NEW l \in LeaseIds, Deliver(l) PROVE Capped
    <2>1. \A k \in LeaseIds : ls'[k].st = ls[k].st /\ ls'[k].i = ls[k].i
      BY <1>0, <1>2 DEF Deliver, TypeOK, Lease
    <2> QED BY <2>1, NoGrant
  <1>3. ASSUME NEW t \in Clocks, NEW l \in LeaseIds, NEW extend \in Extends, Renew(l, extend, t)
        PROVE  Capped
    <2>1. \A k \in LeaseIds : ls'[k].st = ls[k].st /\ ls'[k].i = ls[k].i
      BY <1>0, <1>3 DEF Renew, TypeOK, Lease
    <2> QED BY <2>1, NoGrant
  <1>4. ASSUME NEW t \in Clocks, NEW l \in LeaseIds, Release(l, t) PROVE Capped
    BY Zenon, <1>4, <1>e DEF Release, LeaseState
  <1>5. ASSUME NEW t \in Clocks, NEW l \in LeaseIds, Abort(l, t) PROVE Capped
    BY Zenon, <1>5, <1>e DEF Abort, LeaseState
  <1>6. ASSUME NEW t \in Clocks, NEW l \in LeaseIds, Reap(l, t) PROVE Capped
    BY Zenon, <1>0, <1>6, <1>e, ClocksNat, ReapIInv DEF LeaseState
  <1>7. CASE Tick
    BY <1>7, <1>q DEF Tick, lsVars
  <1>8. CASE UNCHANGED vars \/ Dispose
    BY <1>8, <1>q, DisposeIInv DEF vars, lsVars
  <1> QED BY <1>1, <1>2, <1>3, <1>4, <1>5, <1>6, <1>7, <1>8 DEF Next

\* No call, of a session or not, under any policy, is granted a pending
\* identity that has as many leases as the probe limit, whatever put the
\* identity on probation and whatever leases it had by then.
THEOREM ProbationCapped == SpecDispose => PendingGrantsCapped
  <1>1. IInv /\ [Next \/ Dispose]_vars => [\A i \in Identities : PendingGrant(i)]_vars
    BY PendingStep
  <1> QED BY <1>1, Accounting, PTL DEF SpecDispose, PendingGrantsCapped

=============================================================================
