---------------------------- MODULE LeasesProofs ----------------------------
(***************************************************************************)
(* Proofs about the lease store, for any identities, groups, leases,       *)
(* policies, clocks and horizon.                                           *)
(*                                                                         *)
(* The argument.  acquire.lua admits a candidate on two comparisons,       *)
(* al < lim and xl <= now.  They mean what the policy asks only if al is   *)
(* the number of active leases (AlExact) and xl is not before the expiry   *)
(* of an exclusive lease among them (Covered).  Neither is inductive       *)
(* alone: the count needs every end to be counted once, hence LsexpExact   *)
(* for the reaper; Covered survives an end that resets xl only because     *)
(* AlExact says that no lease is left then.                                *)
(***************************************************************************)
EXTENDS Dispositions, FiniteSetTheorems, TLAPS

\* The later of two times is a time, and neither is after it.
LEMMA LaterNat == \A a, b \in Nat : Later(a, b) \in Nat /\ Later(a, b) >= a /\ Later(a, b) >= b
  BY DEF Later

\* The sooner of two times is a time, and neither is before it.
LEMMA SoonerNat == \A a, b \in Nat : Sooner(a, b) \in Nat /\ Sooner(a, b) <= a /\ Sooner(a, b) <= b
  BY DEF Sooner

\* The availability score of an identity is a time (sp_avail).
LEMMA AvailNat ==
  ASSUME TypeOK, NEW i \in Identities, NEW g \in Groups
  PROVE  /\ Held(i) \in Nat /\ IdLevel(i) \in Nat /\ Avail(i, g) \in Nat
  <1>1. Held(i) \in Nat
    BY DEF TypeOK, Held
  <1>2. IdLevel(i) \in Nat
    BY Zenon, <1>1, LaterNat DEF TypeOK, IdLevel
  <1> QED BY Zenon, <1>1, <1>2, LaterNat DEF TypeOK, Avail

\* Rescoring the refused candidates keeps the scores times.
LEMMA RescoreType ==
  ASSUME TypeOK, NEW g \in Groups, NEW t \in Nat, NEW R
  PROVE  /\ RescoreRefused(g, t, R) \in [Identities -> [Groups -> Score]]
         /\ MarkRefused(g, t, R) \in [Identities -> SUBSET Groups]
  <1>1. \A i \in Identities : RefusedScore(i, g, t) \in Score
    BY AvailNat, TimesAssumption DEF RefusedScore, Score, NotIn
  <1>2. \A i \in Identities : rdy[i] \in [Groups -> Score]
    BY DEF TypeOK
  <1>3. \A i \in Identities : [rdy[i] EXCEPT ![g] = RefusedScore(i, g, t)] \in [Groups -> Score]
    BY <1>1, <1>2
  <1>4. RescoreRefused(g, t, R) \in [Identities -> [Groups -> Score]]
    BY <1>2, <1>3 DEF RescoreRefused
  <1>5. MarkRefused(g, t, R) \in [Identities -> SUBSET Groups]
    BY DEF MarkRefused, TypeOK
  <1> QED BY <1>4, <1>5

\* Writing a lease keeps every type (write_lease).
LEMMA WriteLeaseType ==
  ASSUME TypeOK, NEW i \in Identities, NEW g \in Groups, NEW l \in LeaseIds,
         NEW pol \in Policies, NEW t \in Nat, NEW R, WriteLease(i, g, l, pol, t, R)
  PROVE  TypeOK'
  <1> DEFINE x == Sooner(t + Ttl, t + Lifetime)
  <1>1. /\ pol \in Policy /\ pol.mc \in Nat /\ pol.ri \in Nat
        /\ Ttl \in Nat /\ Lifetime \in Nat /\ PushDelay \in Nat /\ ProbeMax \in Nat
    BY PoliciesAssumption, TimesAssumption DEF Policy
  <1>2. x \in Nat
    BY <1>1 DEF Sooner
  <1>3. /\ al[i] \in Nat /\ xl[i] \in Nat /\ scd[i] \in Nat /\ sru[i] \in Nat
        /\ cd[i][g] \in Nat /\ ru[i][g] \in Nat
    BY DEF TypeOK
  <1>4. /\ Raised(sru[i], pol, "s", t) \in Nat /\ Raised(ru[i][g], pol, "e", t) \in Nat
    BY <1>1, <1>3, LaterNat DEF Raised
  <1>5. HeldAfter(i, pol, x) \in Nat
    BY Zenon, <1>1, <1>2, <1>3, LaterNat DEF HeldAfter
  <1>6. PrevReuse(i, g, pol, t) \in Score
    BY <1>1, <1>3 DEF PrevReuse, Score
  <1> HIDE DEF x
  <1>7. GrantedScore(i, g, pol, t, x) \in Nat
    <2> DEFINE ready == Later(t, Later(cd[i][g], Later(Raised(ru[i][g], pol, "e", t),
                        Later(scd[i], Later(Raised(sru[i], pol, "s", t), HeldAfter(i, pol, x))))))
    <2>1. ready \in Nat
      BY Zenon, <1>3, <1>4, <1>5, LaterNat
    <2> HIDE DEF ready
    <2>2. GrantedScore(i, g, pol, t, x) = IF al[i] + 1 >= Lim(i, pol) THEN Later(ready, t + PushDelay) ELSE ready
      BY DEF GrantedScore, ready
    <2> QED BY <1>1, <2>1, <2>2 DEF Later
  <1>8. ls' \in [LeaseIds -> Lease]
    <2>1. [st |-> "active", sent |-> FALSE, i |-> i, g |-> g, a |-> t, x |-> x,
           cap |-> t + Lifetime, end |-> 0, pol |-> pol, pru |-> PrevReuse(i, g, pol, t)] \in Lease
      BY <1>1, <1>2, <1>6 DEF Lease, LeaseState
    <2> QED BY <2>1 DEF WriteLease, TypeOK, x
  <1>9. lsexp' \in [LeaseIds -> Score]
    BY <1>2 DEF WriteLease, TypeOK, x, Score
  <1>10. al' \in [Identities -> Nat] /\ xl' \in [Identities -> Nat] /\ sru' \in [Identities -> Nat]
    BY <1>3, <1>4, <1>5 DEF WriteLease, TypeOK, x
  <1>11. ru' \in [Identities -> [Groups -> Nat]]
    BY <1>3, <1>4 DEF WriteLease, TypeOK
  <1>12. rdy' \in [Identities -> [Groups -> Score]]
    <2>1. RescoreRefused(g, t, R) \in [Identities -> [Groups -> Score]]
      BY RescoreType
    <2>2. rdy' = [RescoreRefused(g, t, R) EXCEPT ![i][g] = GrantedScore(i, g, pol, t, x)]
      BY DEF WriteLease, x
    <2>3. GrantedScore(i, g, pol, t, x) \in Score
      BY <1>7 DEF Score
    <2> QED BY <2>1, <2>2, <2>3
  <1>13. xg' \in [Identities -> SUBSET Groups]
    BY RescoreType DEF WriteLease
  <1>14. UNCHANGED <<now, st, scd, cd>>
    BY DEF WriteLease
  <1> QED BY <1>8, <1>9, <1>10, <1>11, <1>12, <1>13, <1>14 DEF TypeOK

\* Renewing a lease keeps every type (renew.lua).
LEMMA RenewType ==
  ASSUME TypeOK, NEW l \in LeaseIds, NEW extend \in Nat, NEW t \in Nat, Renew(l, extend, t)
  PROVE  TypeOK'
  <1> DEFINE r == ls[l]
             nx == Later(r.x, Sooner(t + extend, r.cap))
  <1>1. r \in Lease
    BY DEF TypeOK
  <1>2. r.x \in Nat /\ r.cap \in Nat /\ r.i \in Identities /\ r.g \in Groups
    BY <1>1 DEF Lease
  <1>3. nx \in Nat
    BY <1>2 DEF Later, Sooner
  <1>4. UNCHANGED <<now, st, al, xg, scd, sru, cd, ru>>
    BY DEF Renew
  <1>5. ls' = [ls EXCEPT ![l].x = nx] /\ lsexp' = [lsexp EXCEPT ![l] = nx]
    BY DEF Renew
  <1>6. \/ xl' = [xl EXCEPT ![r.i] = Later(xl[r.i], nx)] /\
           rdy' = [rdy EXCEPT ![r.i][r.g] =
                     IF rdy[r.i][r.g] = NotIn THEN NotIn ELSE Later(rdy[r.i][r.g], nx)]
        \/ UNCHANGED <<xl, rdy>>
    BY DEF Renew
  <1> HIDE DEF nx, r
  <1>7. ls' \in [LeaseIds -> Lease]
    <2>1. [ls[l] EXCEPT !.x = nx] \in Lease
      BY <1>1, <1>3 DEF Lease, r
    <2> QED BY <1>5, <2>1 DEF TypeOK
  <1>8. lsexp' \in [LeaseIds -> Score]
    BY <1>3, <1>5 DEF TypeOK, Score
  <1>9. Later(xl[r.i], nx) \in Nat
    BY Zenon, <1>2, <1>3, LaterNat DEF TypeOK
  <1>10. xl' \in [Identities -> Nat]
    BY <1>2, <1>6, <1>9 DEF TypeOK
  <1>11. (IF rdy[r.i][r.g] = NotIn THEN NotIn ELSE Later(rdy[r.i][r.g], nx)) \in Score
    <2>1. rdy[r.i][r.g] \in Score
      BY <1>2 DEF TypeOK
    <2> QED BY Zenon, <1>3, <2>1, LaterNat DEF Score
  <1>12. rdy' \in [Identities -> [Groups -> Score]]
    <2> DEFINE v == IF rdy[r.i][r.g] = NotIn THEN NotIn ELSE Later(rdy[r.i][r.g], nx)
    <2>1. v \in Score
      BY <1>11
    <2>2. CASE UNCHANGED rdy
      BY <2>2 DEF TypeOK
    <2>3. CASE rdy' = [rdy EXCEPT ![r.i][r.g] = v]
      <3> HIDE DEF v
      <3> QED BY <1>2, <2>1, <2>3 DEF TypeOK
    <2> QED BY <1>6, <2>2, <2>3
  <1> QED BY <1>4, <1>7, <1>8, <1>10, <1>12 DEF TypeOK

\* Ending a lease keeps every type (ls_end).
LEMMA LsEndType ==
  ASSUME TypeOK, NEW l \in LeaseIds, NEW newState \in LeaseState, NEW end \in Nat,
         NEW abort \in BOOLEAN, LsEnd(l, newState, end, abort)
  PROVE  TypeOK'
  <1> DEFINE r == ls[l]
             i == r.i
  <1>1. r \in Lease
    BY DEF TypeOK
  <1>2. /\ r.i \in Identities /\ r.g \in Groups /\ r.a \in Nat /\ r.pru \in Score
        /\ r.pol \in Policy /\ r.pol.ri \in Nat
    BY <1>1 DEF Lease, Policy
  <1>3. /\ al[i] \in Nat /\ xl[i] \in Nat /\ scd[i] \in Nat /\ sru[i] \in Nat
        /\ \A g \in Groups : cd[i][g] \in Nat /\ ru[i][g] \in Nat /\ rdy[i][g] \in Score
    BY <1>2 DEF TypeOK
  <1>4. AlAfter(i) \in Nat /\ XlAfter(i) \in Nat
    BY <1>3 DEF AlAfter, XlAfter
  <1>5. \A scope, old \in Nat : ReuseAfter(r, "s", old, end, abort) \in Nat
                             /\ ReuseAfter(r, "e", old, end, abort) \in Nat
    BY <1>2 DEF ReuseAfter, GivesBack, Later, Score
  <1>6. LevelAfter(r, end, abort) \in Nat
    <2>1. ReuseAfter(r, "s", sru[r.i], end, abort) \in Nat
      BY <1>3, <1>5
    <2> QED BY <1>3, <2>1, LaterNat DEF LevelAfter
  <1>7. \A g \in Groups, reuse \in Nat : ReadyAfter(r, g, reuse, end, abort) \in Nat
    BY Zenon, <1>3, <1>6, LaterNat DEF ReadyAfter
  <1>8. \A score \in Score, limit \in Nat, ready \in Nat : PullBack(score, end, limit, ready) \in Score
    BY DEF PullBack, Sooner, Score, NotIn
  <1>9. \A g \in Groups : ScoreAfter(r, g, end, abort) \in Score
    <2> SUFFICES ASSUME NEW g \in Groups PROVE ScoreAfter(r, g, end, abort) \in Score
      OBVIOUS
    <2> DEFINE reuse == IF g = r.g THEN ReuseAfter(r, "e", ru[r.i][g], end, abort) ELSE ru[r.i][g]
               ready == ReadyAfter(r, g, reuse, end, abort)
               pulled == IF g \in RestoredGroups(r)
                         THEN PullBack(rdy[r.i][g], end, xl[r.i], ready) ELSE rdy[r.i][g]
    <2>1. reuse \in Nat
      BY <1>3, <1>5
    <2> HIDE DEF reuse
    <2>2. ready \in Nat
      BY <1>7, <2>1
    <2> HIDE DEF ready
    <2>3. pulled \in Score
      BY <1>3, <1>8, <2>2
    <2> HIDE DEF pulled
    <2>4. r.a + r.pol.ri \in Nat
      BY <1>2
    <2>5. PullBack(pulled, end, r.a + r.pol.ri, ready) \in Score
      BY <1>8, <2>2, <2>3, <2>4
    <2>6. ready \in Score /\ NotIn \in Score
      BY <2>2 DEF Score
    <2>7. ScoreAfter(r, g, end, abort) =
             IF g = r.g THEN IF rdy[r.i][g] = NotIn THEN NotIn ELSE ready
             ELSE IF abort /\ GivesBack(r, "s", sru[r.i])
                  THEN PullBack(pulled, end, r.a + r.pol.ri, ready) ELSE pulled
      BY DEF ScoreAfter, pulled, ready, reuse
    <2> QED BY <2>3, <2>5, <2>6, <2>7
  <1>10. UNCHANGED <<now, st, scd, cd>>
    BY DEF LsEnd
  <1>11. /\ ls' = [ls EXCEPT ![l] = [ls[l] EXCEPT !.st = newState, !.end = EndKept(ls[l], end)]]
         /\ lsexp' = [lsexp EXCEPT ![l] = NotIn]
    BY DEF LsEnd
  <1>12. \/ /\ al' = [al EXCEPT ![i] = AlAfter(i)]
            /\ xl' = [xl EXCEPT ![i] = XlAfter(i)]
            /\ sru' = [sru EXCEPT ![i] = ReuseAfter(r, "s", sru[i], end, abort)]
            /\ ru' = [ru EXCEPT ![i][r.g] = ReuseAfter(r, "e", ru[i][r.g], end, abort)]
            /\ rdy' = [rdy EXCEPT ![i] = [g \in Groups |-> ScoreAfter(r, g, end, abort)]]
            /\ xg' = [xg EXCEPT ![i] = IF AlAfter(i) = 0 THEN {} ELSE xg[i]]
         \/ UNCHANGED <<al, xl, sru, ru, rdy, xg>>
    BY DEF LsEnd
  <1>13. /\ ReuseAfter(r, "s", sru[i], end, abort) \in Nat
         /\ ReuseAfter(r, "e", ru[i][r.g], end, abort) \in Nat
    BY <1>2, <1>3, <1>5
  <1>14. ls' \in [LeaseIds -> Lease]
    <2>1. EndKept(ls[l], end) \in Nat
      BY DEF EndKept
    <2>2. [ls[l] EXCEPT !.st = newState, !.end = EndKept(ls[l], end)] \in Lease
      BY <1>1, <2>1 DEF Lease
    <2> QED BY <1>11, <2>2 DEF TypeOK
  <1>15. lsexp' \in [LeaseIds -> Score]
    BY <1>11 DEF TypeOK, Score
  <1>0. i \in Identities /\ r.g \in Groups
    BY <1>2
  <1> HIDE DEF r, i
  <1>16. /\ al' \in [Identities -> Nat] /\ xl' \in [Identities -> Nat]
         /\ sru' \in [Identities -> Nat]
    <2>1. al' = [al EXCEPT ![i] = AlAfter(i)] \/ al' = al
      BY <1>12
    <2>2. xl' = [xl EXCEPT ![i] = XlAfter(i)] \/ xl' = xl
      BY <1>12
    <2>3. sru' = [sru EXCEPT ![i] = ReuseAfter(r, "s", sru[i], end, abort)] \/ sru' = sru
      BY <1>12
    <2>4. al' \in [Identities -> Nat]
      BY Zenon, <1>4, <2>1 DEF TypeOK
    <2>5. xl' \in [Identities -> Nat]
      BY Zenon, <1>4, <2>2 DEF TypeOK
    <2>6. sru' \in [Identities -> Nat]
      BY <1>13, <2>3 DEF TypeOK
    <2> QED BY <2>4, <2>5, <2>6
  <1>17. ru' \in [Identities -> [Groups -> Nat]]
    <2> DEFINE v == ReuseAfter(r, "e", ru[i][r.g], end, abort)
    <2>1. ru' = [ru EXCEPT ![i][r.g] = v] \/ ru' = ru
      BY <1>12
    <2>2. v \in Nat
      BY <1>13
    <2> HIDE DEF v
    <2>3. CASE ru' = ru
      BY <2>3 DEF TypeOK
    <2>4. CASE ru' = [ru EXCEPT ![i][r.g] = v]
      BY <1>0, <2>2, <2>4 DEF TypeOK
    <2> QED BY <2>1, <2>3, <2>4
  <1>18. rdy' \in [Identities -> [Groups -> Score]]
    <2> DEFINE row == [g \in Groups |-> ScoreAfter(r, g, end, abort)]
    <2>1. rdy' = [rdy EXCEPT ![i] = row] \/ rdy' = rdy
      BY <1>12
    <2>2. row \in [Groups -> Score]
      BY <1>9
    <2> HIDE DEF row
    <2> QED BY Zenon, <1>0, <2>1, <2>2 DEF TypeOK
  <1>19. xg' \in [Identities -> SUBSET Groups]
    BY <1>12 DEF TypeOK
  <1> QED BY <1>10, <1>14, <1>15, <1>16, <1>17, <1>18, <1>19 DEF TypeOK

-----------------------------------------------------------------------------
(* How a step changes the set of active leases.                            *)

\* An identity has finitely many active leases.
LEMMA ActiveFinite ==
  ASSUME NEW i
  PROVE  IsFiniteSet(Active(i)) /\ Cardinality(Active(i)) \in Nat
  <1>1. Active(i) \subseteq LeaseIds
    BY DEF Active
  <1> QED BY <1>1, LeaseIdsFinite, FS_Subset, FS_CardinalityType

\* A grant adds one lease to the active leases of its identity and to no other.
LEMMA GrantActive ==
  ASSUME TypeOK, NEW i \in Identities, NEW g, NEW l \in LeaseIds, NEW pol, NEW t, NEW R,
         ls[l].st = "none", WriteLease(i, g, l, pol, t, R)
  PROVE  /\ l \notin Active(i)
         /\ Active(i)' = Active(i) \cup {l}
         /\ \A j \in Identities : j # i => Active(j)' = Active(j)
         /\ Cardinality(Active(i)') = Cardinality(Active(i)) + 1
  <1>1. l \notin Active(i)
    BY DEF Active
  <1>2. \A k \in LeaseIds : k # l => ls'[k] = ls[k]
    BY DEF WriteLease, TypeOK
  <1>3. ls'[l].st = "active" /\ ls'[l].i = i
    BY DEF WriteLease, TypeOK
  <1>4. Active(i)' = Active(i) \cup {l}
    BY <1>2, <1>3 DEF Active
  <1>5. \A j \in Identities : j # i => Active(j)' = Active(j)
    BY <1>2, <1>3 DEF Active
  <1>6. Cardinality(Active(i) \cup {l}) = Cardinality(Active(i)) + 1
    BY Zenon, <1>1, ActiveFinite, FS_AddElement
  <1> QED BY <1>1, <1>4, <1>5, <1>6

\* Ending a lease takes it from the active leases of its identity and from no other.
LEMMA EndActive ==
  ASSUME TypeOK, NEW l \in LeaseIds, NEW newState \in LeaseState \ {"active"}, NEW end,
         NEW abort, NEW i \in Identities, ls[l].i = i, ls[l].st = "active",
         LsEnd(l, newState, end, abort)
  PROVE  /\ l \in Active(i)
         /\ Active(i)' = Active(i) \ {l}
         /\ \A j \in Identities : j # i => Active(j)' = Active(j)
         /\ Cardinality(Active(i)') = Cardinality(Active(i)) - 1
  <1>1. l \in Active(i)
    BY DEF Active
  <1>2. \A k \in LeaseIds : k # l => ls'[k] = ls[k]
    BY DEF LsEnd, TypeOK
  <1>3. ls'[l].st = newState /\ ls'[l].i = i
    BY DEF LsEnd, TypeOK, Lease
  <1>4. Active(i)' = Active(i) \ {l}
    <2>1. \A k \in LeaseIds : k # l => ((ls'[k].st = "active" /\ ls'[k].i = i) <=> (ls[k].st = "active" /\ ls[k].i = i))
      BY <1>2
    <2> QED BY <1>3, <2>1 DEF Active
  <1>5. \A j \in Identities : j # i => Active(j)' = Active(j)
    BY <1>2, <1>3 DEF Active
  <1>6. Cardinality(Active(i) \ {l}) = Cardinality(Active(i)) - 1
    BY Zenon, <1>1, ActiveFinite, FS_RemoveElement
  <1> QED BY <1>1, <1>4, <1>5, <1>6

\* An exact count is zero exactly when no lease is active.
LEMMA EmptyIffZero ==
  ASSUME NEW i
  PROVE  (Cardinality(Active(i)) = 0) <=> (Active(i) = {})
  BY ActiveFinite, FS_EmptySet

-----------------------------------------------------------------------------
(* The inductive invariant.  AlExact says how many leases hold an identity; *)
(* Covered says until when: the expiry stored on the identity is never      *)
(* before that of an exclusive lease on it.  Together they are what         *)
(* acquire.lua's two comparisons (al < lim, xl <= now) rest on.             *)

Covered ==
    \A l \in LeaseIds :
        ls[l].st = "active" /\ ls[l].pol.mc = 1 => ls[l].x <= xl[ls[l].i]

WithinCap == \A l \in LeaseIds : ls[l].st = "active" => ls[l].x <= ls[l].cap

Hashed == \A i \in Identities : st[i] # "gone"

IInv == TypeOK /\ LsexpExact /\ WithinCap /\ Hashed /\ AlExact /\ Covered /\ SoleExclusive

\* The initial state meets the inductive invariant.
LEMMA InitIInv == Init => IInv
  <1> SUFFICES ASSUME Init PROVE IInv
    OBVIOUS
  <1>1. NoLease \in Lease
    <2>1. (CHOOSE i \in Identities : TRUE) \in Identities
      BY NonEmpty
    <2>2. (CHOOSE g \in Groups : TRUE) \in Groups
      BY NonEmpty
    <2>3. [mc |-> 1, ri |-> 0, ra |-> "r", rs |-> "e"] \in Policy
      BY DEF Policy
    <2> QED BY <2>1, <2>2, <2>3 DEF NoLease, Lease, LeaseState, Score
  <1>2. \A l \in LeaseIds : ls[l].st = "none"
    BY DEF Init, NoLease
  <1>3. TypeOK
    <2>1. ls \in [LeaseIds -> Lease] /\ lsexp \in [LeaseIds -> Score]
      BY <1>1 DEF Init, Score
    <2>2. now \in 0 .. Horizon
      BY TimesAssumption DEF Init
    <2> QED BY <2>1, <2>2 DEF Init, TypeOK, Score
  <1>4. AlExact
    <2>1. \A i \in Identities : Active(i) = {}
      BY <1>2 DEF Active
    <2> QED BY <2>1, FS_EmptySet DEF AlExact, Init
  <1>5. LsexpExact
    BY <1>2 DEF LsexpExact, Init
  <1>6. Hashed
    BY DEF Hashed, Init
  <1> QED BY <1>2, <1>3, <1>4, <1>5, <1>6 DEF IInv, WithinCap, Covered, SoleExclusive

\* Granting: the identity has no unexpired exclusive lease, and none at all
\* when the new one is exclusive.
LEMMA GrantIInv ==
  ASSUME IInv, NEW i \in Identities, NEW g \in Groups, NEW l \in LeaseIds,
         NEW pol \in Policies, NEW t \in Nat, NEW R,
         ls[l].st = "none", al[i] < Lim(i, pol), WriteLease(i, g, l, pol, t, R)
  PROVE  IInv'
  <1> USE DEF IInv
  <1>1. TypeOK'
    BY WriteLeaseType
  <1> DEFINE x == Sooner(t + Ttl, t + Lifetime)
  <1>2. \A k \in LeaseIds : k # l => ls'[k] = ls[k] /\ lsexp'[k] = lsexp[k]
    BY DEF WriteLease, TypeOK
  <1>3. /\ ls'[l].st = "active" /\ ls'[l].i = i /\ ls'[l].x = x
        /\ ls'[l].cap = t + Lifetime /\ ls'[l].pol = pol /\ lsexp'[l] = x
    BY DEF WriteLease, TypeOK
  <1>4. x \in Nat /\ x <= t + Lifetime
    BY TimesAssumption DEF Sooner
  <1> HIDE DEF x
  <1>5. LsexpExact'
    BY <1>2, <1>3 DEF LsexpExact
  <1>6. WithinCap'
    BY <1>2, <1>3, <1>4 DEF WithinCap
  <1>7. Hashed'
    BY DEF WriteLease, Hashed
  <1>8. al' = [al EXCEPT ![i] = al[i] + 1]
    BY DEF WriteLease
  <1>9. AlExact'
    <2> SUFFICES ASSUME NEW j \in Identities PROVE al'[j] = Cardinality(Active(j)')
      BY DEF AlExact
    <2>0. /\ Cardinality(Active(i)') = Cardinality(Active(i)) + 1
          /\ \A k \in Identities : k # i => Active(k)' = Active(k)
      BY GrantActive
    <2>1. CASE j = i
      BY <1>8, <2>0, <2>1 DEF AlExact, TypeOK
    <2>2. CASE j # i
      BY <1>8, <2>0, <2>2 DEF AlExact, TypeOK
    <2> QED BY <2>1, <2>2
  <1>10. ASSUME pol.mc = 1 PROVE Active(i) = {}
    <2>1. pol.mc \in Nat /\ ProbeMax \in Nat
      BY PoliciesAssumption, TimesAssumption DEF Policy
    <2>2. Lim(i, pol) <= 1
      BY <1>10, <2>1 DEF Lim, Sooner
    <2>3. Lim(i, pol) \in Nat
      BY <1>10, <2>1 DEF Lim, Sooner
    <2>4. al[i] \in Nat /\ al[i] < Lim(i, pol)
      BY DEF TypeOK
    <2>5. al[i] = 0
      BY <2>2, <2>3, <2>4
    <2> QED BY <2>5, EmptyIffZero DEF AlExact
  <1>11. /\ pol.mc = 1 => xl'[i] >= x
         /\ pol.mc # 1 => xl'[i] = xl[i]
         /\ \A j \in Identities : j # i => xl'[j] = xl[j]
    <2>1. xl' = [xl EXCEPT ![i] = IF pol.mc = 1 THEN HeldAfter(i, pol, x) ELSE xl[i]]
      BY DEF WriteLease, x
    <2>2. pol.mc = 1 => HeldAfter(i, pol, x) >= x
      BY <1>4 DEF HeldAfter, Later, TypeOK
    <2> QED BY <2>1, <2>2 DEF TypeOK
  <1>12. Covered'
    <2> SUFFICES ASSUME NEW k \in LeaseIds, ls'[k].st = "active", ls'[k].pol.mc = 1
                 PROVE  ls'[k].x <= xl'[ls'[k].i]
      BY DEF Covered
    <2>1. CASE k = l
      BY <1>3, <1>11, <2>1, <1>4, <1>1 DEF TypeOK
    <2>2. CASE k # l
      <3>1. ls[k].i \in Identities /\ ls[k].x <= xl[ls[k].i]
        BY <1>2, <2>2 DEF Covered, TypeOK, Lease
      <3>2. CASE ls[k].i # i
        BY <1>2, <1>11, <2>2, <3>1, <3>2
      <3>3. CASE ls[k].i = i
        <4>1. Active(i) # {}
          BY <1>2, <2>2, <3>3 DEF Active
        <4> QED BY <1>2, <1>10, <1>11, <2>2, <3>1, <3>3, <4>1
      <3> QED BY <3>2, <3>3
    <2> QED BY <2>1, <2>2
  <1>13. SoleExclusive'
    <2> SUFFICES ASSUME NEW k \in LeaseIds, NEW m \in LeaseIds, k # m, ls'[k].i = ls'[m].i,
                        ls'[k].st = "active", ls'[m].st = "active",
                        ls'[k].pol.mc = 1, ls'[m].pol.mc = 1
                 PROVE  FALSE
      BY DEF SoleExclusive
    <2>1. CASE k = l
      <3>1. m \in Active(i)
        BY <1>2, <1>3, <2>1 DEF Active
      <3> QED BY <1>3, <1>10, <2>1, <3>1
    <2>2. CASE m = l
      <3>1. k \in Active(i)
        BY <1>2, <1>3, <2>2 DEF Active
      <3> QED BY <1>3, <1>10, <2>2, <3>1
    <2>3. CASE k # l /\ m # l
      BY <1>2, <2>3 DEF SoleExclusive
    <2> QED BY <2>1, <2>2, <2>3
  <1> QED BY <1>1, <1>5, <1>6, <1>7, <1>9, <1>12, <1>13

\* Renewing: the stored expiry follows the lease's.
LEMMA RenewIInv ==
  ASSUME IInv, NEW l \in LeaseIds, NEW extend \in Nat, NEW t \in Nat, Renew(l, extend, t)
  PROVE  IInv' /\ \A i \in Identities : Active(i)' = Active(i)
  <1> USE DEF IInv
  <1> DEFINE r == ls[l]
             nx == Later(r.x, Sooner(t + extend, r.cap))
  <1>1. TypeOK'
    BY RenewType
  <1>2. /\ r \in Lease /\ r.i \in Identities /\ r.x \in Nat /\ r.cap \in Nat
        /\ r.st = "active" /\ r.x <= r.cap
    BY DEF TypeOK, Lease, Renew, WithinCap
  <1>3. nx \in Nat /\ r.x <= nx /\ nx <= r.cap
    BY <1>2 DEF Later, Sooner
  <1>4. ls' = [ls EXCEPT ![l].x = nx] /\ lsexp' = [lsexp EXCEPT ![l] = nx]
    BY DEF Renew
  <1>5. IF r.pol.mc = 1 THEN xl' = [xl EXCEPT ![r.i] = Later(xl[r.i], nx)] ELSE xl' = xl
    BY <1>2 DEF Renew, Hashed
  <1> HIDE DEF nx
  <1>6. /\ ls'[l].x = nx /\ lsexp'[l] = nx
        /\ \A k \in LeaseIds : /\ k # l => ls'[k] = ls[k] /\ lsexp'[k] = lsexp[k]
                               /\ ls'[k].st = ls[k].st /\ ls'[k].i = ls[k].i
                               /\ ls'[k].cap = ls[k].cap /\ ls'[k].pol = ls[k].pol
    BY <1>4 DEF TypeOK, Lease
  <1>7. LsexpExact'
    BY SMTT(20), <1>2, <1>6 DEF LsexpExact
  <1>8. WithinCap'
    BY <1>3, <1>6 DEF WithinCap
  <1>9. Hashed' /\ al' = al
    BY DEF Renew, Hashed
  <1>10. \A i \in Identities : Active(i)' = Active(i)
    BY <1>6 DEF Active
  <1>11. AlExact'
    BY <1>9, <1>10 DEF AlExact
  <1>12. \A i \in Identities : xl[i] <= xl'[i]
    <2>1. \A i \in Identities : xl[i] \in Nat
      BY DEF TypeOK
    <2>2. xl[r.i] <= Later(xl[r.i], nx)
      BY Zenon, <1>2, <1>3, <2>1, LaterNat
    <2>3. xl' = [xl EXCEPT ![r.i] = Later(xl[r.i], nx)] \/ xl' = xl
      BY <1>5
    <2> HIDE DEF r
    <2> SUFFICES ASSUME NEW j \in Identities PROVE xl[j] <= xl'[j]
      OBVIOUS
    <2>4. xl'[j] = xl[j] \/ (j = r.i /\ xl'[j] = Later(xl[r.i], nx))
      BY <2>3 DEF TypeOK
    <2> QED BY <2>1, <2>2, <2>4
  <1>13. r.pol.mc = 1 => nx <= xl'[r.i]
    BY <1>2, <1>3, <1>5 DEF TypeOK, Later
  <1>14. Covered'
    <2> SUFFICES ASSUME NEW k \in LeaseIds, ls'[k].st = "active", ls'[k].pol.mc = 1
                 PROVE  ls'[k].x <= xl'[ls'[k].i]
      BY DEF Covered
    <2>1. CASE k = l
      BY <1>6, <1>13, <2>1
    <2>2. CASE k # l
      <3>1. ls[k].i \in Identities /\ ls[k].x <= xl[ls[k].i] /\ ls[k].x \in Nat
        BY <1>6, <2>2 DEF Covered, TypeOK, Lease
      <3>2. xl[ls[k].i] \in Nat /\ xl'[ls[k].i] \in Nat
        BY <1>1, <3>1 DEF TypeOK
      <3> QED BY <1>6, <1>12, <2>2, <3>1, <3>2
    <2> QED BY <2>1, <2>2
  <1>15. SoleExclusive'
    BY <1>6 DEF SoleExclusive
  <1> QED BY <1>1, <1>7, <1>8, <1>9, <1>10, <1>11, <1>14, <1>15

\* Ending: one lease less, and the expiry is dropped only with the last one.
LEMMA EndIInv ==
  ASSUME IInv, NEW l \in LeaseIds, NEW newState \in LeaseState \ {"active"}, NEW end \in Nat,
         NEW abort \in BOOLEAN, ls[l].st = "active", LsEnd(l, newState, end, abort)
  PROVE  IInv'
  <1> USE DEF IInv
  <1>1. TypeOK'
    BY LsEndType
  <1>2. PICK i \in Identities : ls[l].i = i
    BY DEF TypeOK, Lease
  <1>3. /\ ls'[l].st = newState /\ lsexp'[l] = NotIn
        /\ \A k \in LeaseIds : k # l => ls'[k] = ls[k] /\ lsexp'[k] = lsexp[k]
    BY DEF LsEnd, TypeOK, Lease
  <1>4. /\ al' = [al EXCEPT ![i] = AlAfter(i)]
        /\ xl' = [xl EXCEPT ![i] = XlAfter(i)]
    BY <1>2 DEF LsEnd, Hashed
  <1>5. LsexpExact' /\ WithinCap' /\ SoleExclusive'
    BY <1>3 DEF LsexpExact, WithinCap, SoleExclusive
  <1>6. Hashed'
    BY DEF LsEnd, Hashed
  <1>7. /\ l \in Active(i)
        /\ Active(i)' = Active(i) \ {l}
        /\ \A j \in Identities : j # i => Active(j)' = Active(j)
        /\ Cardinality(Active(i)') = Cardinality(Active(i)) - 1
    BY <1>2, EndActive
  <1>8. al[i] \in Nat /\ al[i] # 0
    BY <1>7, EmptyIffZero DEF AlExact, TypeOK
  <1>9. AlExact'
    <2> SUFFICES ASSUME NEW j \in Identities PROVE al'[j] = Cardinality(Active(j)')
      BY DEF AlExact
    <2>1. CASE j = i
      <3>1. al'[i] = AlAfter(i)
        BY <1>4 DEF TypeOK
      <3>2. AlAfter(i) = al[i] - 1
        BY <1>8 DEF AlAfter
      <3>3. al[i] = Cardinality(Active(i))
        BY DEF AlExact
      <3> QED BY <1>7, <2>1, <3>1, <3>2, <3>3
    <2>2. CASE j # i
      BY <1>4, <1>7, <2>2 DEF AlExact, TypeOK
    <2> QED BY <2>1, <2>2
  <1>10. Covered'
    <2> SUFFICES ASSUME NEW k \in LeaseIds, ls'[k].st = "active", ls'[k].pol.mc = 1
                 PROVE  ls'[k].x <= xl'[ls'[k].i]
      BY DEF Covered
    <2>1. k # l /\ ls'[k] = ls[k]
      BY <1>3
    <2>2. ls[k].i \in Identities /\ ls[k].x <= xl[ls[k].i]
      BY <2>1 DEF Covered, TypeOK, Lease
    <2>3. CASE ls[k].i # i
      BY <1>4, <2>1, <2>2, <2>3 DEF TypeOK
    <2>4. CASE ls[k].i = i
      <3>1. k \in Active(i)'
        BY <2>1, <2>4 DEF Active
      <3>2. Cardinality(Active(i)') # 0
        <4>1. IsFiniteSet(Active(i)')
          BY <1>7, ActiveFinite, FS_Subset
        <4> QED BY <3>1, <4>1, FS_EmptySet
      <3>3. AlAfter(i) # 0
        BY <1>4, <1>9, <3>2 DEF AlExact, TypeOK
      <3> QED BY <1>4, <2>1, <2>2, <2>4, <3>3 DEF TypeOK, XlAfter
    <2> QED BY <2>3, <2>4
  <1> QED BY <1>1, <1>5, <1>6, <1>9, <1>10

\* Steps that leave the leases, the counts and the stored expiries alone.
LEMMA QuietIInv ==
  ASSUME IInv, TypeOK', Hashed', UNCHANGED <<ls, lsexp, al, xl>>
  PROVE  IInv' /\ \A i \in Identities : Active(i)' = Active(i)
  <1>1. \A i \in Identities : Active(i)' = Active(i)
    BY DEF Active
  <1>2. LsexpExact' /\ WithinCap' /\ AlExact' /\ Covered' /\ SoleExclusive'
    BY <1>1 DEF IInv, LsexpExact, WithinCap, AlExact, Covered, SoleExclusive
  <1> QED BY <1>1, <1>2 DEF IInv

\* Delivering a lease keeps the inductive invariant.
LEMMA DeliverIInv ==
  ASSUME IInv, NEW l \in LeaseIds, Deliver(l)
  PROVE  IInv' /\ \A i \in Identities : Active(i)' = Active(i)
  <1> USE DEF IInv
  <1>1. ls' = [ls EXCEPT ![l].sent = TRUE] /\ UNCHANGED <<now, idVars, lsexp>>
    BY DEF Deliver
  <1>2. \A k \in LeaseIds : /\ ls'[k].st = ls[k].st /\ ls'[k].i = ls[k].i /\ ls'[k].x = ls[k].x
                            /\ ls'[k].cap = ls[k].cap /\ ls'[k].pol = ls[k].pol
    BY <1>1 DEF TypeOK, Lease
  <1>3. ls' \in [LeaseIds -> Lease]
    <2>1. [ls[l] EXCEPT !.sent = TRUE] \in Lease
      BY Zenon DEF TypeOK, Lease
    <2> QED BY <1>1, <2>1 DEF TypeOK
  <1>4. TypeOK'
    BY <1>1, <1>3 DEF TypeOK, idVars
  <1>5. \A i \in Identities : Active(i)' = Active(i)
    BY <1>2 DEF Active
  <1>6. LsexpExact' /\ WithinCap' /\ Hashed' /\ AlExact' /\ Covered' /\ SoleExclusive'
    BY <1>1, <1>2, <1>5 DEF LsexpExact, WithinCap, Hashed, AlExact, Covered, SoleExclusive, idVars
  <1> QED BY <1>4, <1>5, <1>6

\* A request that gets nothing keeps the inductive invariant.
LEMMA ExhaustedIInv ==
  ASSUME IInv, NEW g \in Groups, NEW pol, NEW t \in Nat, AcquireExhausted(g, pol, t)
  PROVE  IInv' /\ \A i \in Identities : Active(i)' = Active(i)
  <1>1. PICK R : rdy' = RescoreRefused(g, t, R) /\ xg' = MarkRefused(g, t, R)
    BY DEF AcquireExhausted
  <1>2. UNCHANGED <<now, st, al, xl, scd, sru, cd, ru, ls, lsexp>>
    BY DEF AcquireExhausted, lsVars
  <1>3. /\ RescoreRefused(g, t, R) \in [Identities -> [Groups -> Score]]
        /\ MarkRefused(g, t, R) \in [Identities -> SUBSET Groups]
    BY RescoreType DEF IInv
  <1>4. TypeOK'
    BY <1>1, <1>2, <1>3 DEF IInv, TypeOK
  <1>5. Hashed'
    BY <1>2 DEF IInv, Hashed
  <1> QED BY <1>2, <1>4, <1>5, QuietIInv

\* The reaper keeps the inductive invariant.
LEMMA ReapIInv ==
  ASSUME IInv, NEW l \in LeaseIds, NEW t \in Nat, Reap(l, t)
  PROVE  IInv' /\ ls[l].st = "active" /\ LsEnd(l, "expired", ls[l].x, FALSE)
  <1>1. ls[l].st = "active"
    BY DEF Reap, IInv, LsexpExact
  <1>2. LsEnd(l, "expired", ls[l].x, FALSE)
    BY Zenon, <1>1 DEF Reap
  <1>3. ls[l].x \in Nat
    BY DEF IInv, TypeOK, Lease
  <1> QED BY Zenon, <1>1, <1>2, <1>3, EndIInv DEF LeaseState

\* Every clock reading is a time.
LEMMA ClocksNat ==
  ASSUME TypeOK, NEW t \in Clocks
  PROVE  t \in Nat /\ t <= now /\ now \in Nat /\ (Skew = 0 => t = now)
  BY TimesAssumption DEF Clocks, TypeOK

\* Every step of the lease scripts keeps the inductive invariant.
LEMMA NextIInv == IInv /\ [Next]_vars => IInv'
  <1> SUFFICES ASSUME IInv, [Next]_vars PROVE IInv'
    OBVIOUS
  <1>0. TypeOK
    BY DEF IInv
  <1>1. ASSUME NEW t \in Clocks, NEW g \in Groups, NEW pol \in Policies, Acquire(g, pol, t)
        PROVE  IInv'
    <2>0. t \in Nat
      BY <1>0, ClocksNat
    <2>1. ASSUME NEW i \in Identities, NEW l \in LeaseIds, AcquireSampled(i, g, l, pol, t)
          PROVE  IInv'
      <3>1. PICK R : WriteLease(i, g, l, pol, t, R)
        BY <2>1 DEF AcquireSampled
      <3>2. ls[l].st = "none" /\ al[i] < Lim(i, pol)
        BY <2>1 DEF AcquireSampled, Fits
      <3> QED BY <2>0, <3>1, <3>2, GrantIInv
    <2>2. ASSUME NEW i \in Identities, NEW l \in LeaseIds, AcquireSticky(i, g, l, pol, t)
          PROVE  IInv'
      <3>1. ls[l].st = "none" /\ al[i] < Lim(i, pol) /\ WriteLease(i, g, l, pol, t, {})
        BY <2>2 DEF AcquireSticky, FitsSticky
      <3> QED BY <2>0, <3>1, GrantIInv
    <2>3. ASSUME AcquireExhausted(g, pol, t) PROVE IInv'
      BY <2>0, <2>3, ExhaustedIInv
    <2> QED BY <1>1, <2>1, <2>2, <2>3 DEF Acquire
  <1>2. ASSUME NEW l \in LeaseIds, Deliver(l) PROVE IInv'
    BY <1>2, DeliverIInv
  <1>3. ASSUME NEW t \in Clocks, NEW l \in LeaseIds, NEW extend \in Extends, Renew(l, extend, t)
        PROVE  IInv'
    BY <1>0, <1>3, ClocksNat, ExtendsAssumption, RenewIInv
  <1>4. ASSUME NEW t \in Clocks, NEW l \in LeaseIds, Release(l, t) PROVE IInv'
    BY Zenon, <1>0, <1>4, ClocksNat, EndIInv DEF Release, LeaseState
  <1>5. ASSUME NEW t \in Clocks, NEW l \in LeaseIds, Abort(l, t) PROVE IInv'
    BY Zenon, <1>0, <1>5, ClocksNat, EndIInv DEF Abort, LeaseState
  <1>6. ASSUME NEW t \in Clocks, NEW l \in LeaseIds, Reap(l, t) PROVE IInv'
    BY Zenon, <1>0, <1>6, ClocksNat, ReapIInv
  <1>7. CASE Tick
    <2>1. now' \in 0 .. Horizon
      BY <1>7, TimesAssumption DEF Tick, IInv, TypeOK
    <2>2. UNCHANGED <<st, al, xl, xg, scd, sru, cd, ru, rdy, ls, lsexp>>
      BY <1>7 DEF Tick, idVars, lsVars
    <2>3. TypeOK'
      BY <2>1, <2>2 DEF IInv, TypeOK
    <2>4. Hashed'
      BY <2>2 DEF IInv, Hashed
    <2> QED BY <1>7, <2>3, <2>4, QuietIInv DEF Tick, idVars, lsVars
  <1>8. CASE UNCHANGED vars
    <2>1. TypeOK' /\ Hashed'
      BY <1>8 DEF vars, IInv, TypeOK, Hashed, idVars, lsVars
    <2> QED BY <1>8, <2>1, QuietIInv DEF vars, idVars, lsVars
  <1> QED BY <1>1, <1>2, <1>3, <1>4, <1>5, <1>6, <1>7, <1>8 DEF Next

-----------------------------------------------------------------------------
(* The dispositions touch neither the counts nor the leases.               *)

\* Every disposition keeps every type and leaves leases and counts alone.
LEMMA DisposeType ==
  ASSUME TypeOK, Dispose
  PROVE  /\ TypeOK' /\ UNCHANGED <<now, al, xl, ls, lsexp>>
         /\ \A i \in Identities : st[i] = st'[i] \/ (st[i] # "gone" /\ st'[i] # "gone")
  <1> DEFINE Stays == \A i \in Identities : st[i] = st'[i] \/ (st[i] # "gone" /\ st'[i] # "gone")
  <1>1. UNCHANGED <<now, al, xl, xg, sru, ru, ls, lsexp>>
    BY ZenonT(30) DEF Dispose, Cool, Clear, CoolEndpoint, CoolSite, ClearEndpoint, ClearSite, TakeOut,
           Activate, Resync, PutBack, lsVars
  <1>2. \A i \in Identities, g \in Groups :
           /\ cd[i][g] \in Nat /\ ru[i][g] \in Nat /\ scd[i] \in Nat /\ sru[i] \in Nat
           /\ rdy[i][g] \in Score /\ Held(i) \in Nat /\ IdLevel(i) \in Nat /\ Avail(i, g) \in Nat
    BY AvailNat DEF TypeOK
  <1>3. \A t \in Clocks, d \in CoolFor : t + d \in Nat
    BY ClocksNat, CoolForAssumption
  <1>4. ASSUME NEW i \in Identities, NEW row \in [Groups -> Score], rdy' = [rdy EXCEPT ![i] = row]
        PROVE  rdy' \in [Identities -> [Groups -> Score]]
    BY <1>4 DEF TypeOK
  <1>5. ASSUME NEW i \in Identities, NEW g \in Groups, NEW v \in Score,
               rdy' = [rdy EXCEPT ![i][g] = v]
        PROVE  rdy' \in [Identities -> [Groups -> Score]]
    BY <1>5 DEF TypeOK
  <1>6. ASSUME NEW i \in Identities, NEW g \in Groups, NEW u \in Nat, CoolEndpoint(i, g, u)
        PROVE  TypeOK' /\ Stays
    <2> DEFINE v == IF rdy[i][g] = NotIn THEN NotIn ELSE Later(u, Later(ru[i][g], IdLevel(i)))
    <2>1. v \in Score
      BY Zenon, <1>2, LaterNat DEF Score
    <2>2. rdy' = [rdy EXCEPT ![i][g] = v] /\ cd' = [cd EXCEPT ![i][g] = u] /\ UNCHANGED <<st, scd>>
      BY <1>6 DEF CoolEndpoint
    <2> HIDE DEF v
    <2>3. rdy' \in [Identities -> [Groups -> Score]]
      BY Zenon, <1>5, <2>1, <2>2
    <2>4. cd' \in [Identities -> [Groups -> Nat]]
      BY <2>2 DEF TypeOK
    <2> QED BY <1>1, <2>2, <2>3, <2>4 DEF TypeOK
  <1>7. ASSUME NEW i \in Identities, NEW u \in Nat, CoolSite(i, u)
        PROVE  TypeOK' /\ Stays
    <2> DEFINE row == [g \in Groups |-> IF rdy[i][g] = NotIn THEN NotIn ELSE Later(rdy[i][g], u)]
    <2>1. row \in [Groups -> Score]
      <3>1. \A g \in Groups : rdy[i][g] # NotIn => rdy[i][g] \in Nat
        BY <1>2 DEF Score
      <3> QED BY Zenon, <3>1, LaterNat DEF Score
    <2>2. rdy' = [rdy EXCEPT ![i] = row] /\ scd' = [scd EXCEPT ![i] = u] /\ UNCHANGED <<st, cd>>
      BY <1>7 DEF CoolSite, Rescored
    <2> HIDE DEF row
    <2>3. rdy' \in [Identities -> [Groups -> Score]]
      BY Zenon, <1>4, <2>1, <2>2
    <2>4. scd' \in [Identities -> Nat]
      BY <2>2 DEF TypeOK
    <2> QED BY <1>1, <2>2, <2>3, <2>4 DEF TypeOK
  <1>8. ASSUME NEW i \in Identities, NEW g \in Groups, NEW t, ClearEndpoint(i, g, t)
        PROVE  TypeOK' /\ Stays
    <2> DEFINE v == IF rdy[i][g] = NotIn THEN NotIn ELSE Later(ru[i][g], IdLevel(i))
    <2>1. v \in Score
      BY Zenon, <1>2, LaterNat DEF Score
    <2>2. rdy' = [rdy EXCEPT ![i][g] = v] /\ cd' = [cd EXCEPT ![i][g] = 0] /\ UNCHANGED <<st, scd>>
      BY <1>8 DEF ClearEndpoint
    <2> HIDE DEF v
    <2>3. rdy' \in [Identities -> [Groups -> Score]]
      BY Zenon, <1>5, <2>1, <2>2
    <2>4. cd' \in [Identities -> [Groups -> Nat]]
      BY <2>2 DEF TypeOK
    <2> QED BY <1>1, <2>2, <2>3, <2>4 DEF TypeOK
  <1>9. ASSUME NEW i \in Identities, NEW t, ClearSite(i, t)
        PROVE  TypeOK' /\ Stays
    <2> DEFINE row == [g \in Groups |-> IF rdy[i][g] = NotIn THEN NotIn
                         ELSE Later(cd[i][g], Later(ru[i][g], Later(sru[i], Held(i))))]
    <2>1. row \in [Groups -> Score]
      BY Zenon, <1>2, LaterNat DEF Score
    <2>2. rdy' = [rdy EXCEPT ![i] = row] /\ scd' = [scd EXCEPT ![i] = 0] /\ UNCHANGED <<st, cd>>
      BY <1>9 DEF ClearSite, Rescored
    <2> HIDE DEF row
    <2>3. rdy' \in [Identities -> [Groups -> Score]]
      BY Zenon, <1>4, <2>1, <2>2
    <2>4. scd' \in [Identities -> Nat]
      BY <2>2 DEF TypeOK
    <2> QED BY <1>1, <2>2, <2>3, <2>4 DEF TypeOK
  <1>10. ASSUME NEW i \in Identities,
                \/ TakeOut(i) \/ Activate(i) \/ Resync(i)
                \/ \E to \in {"active", "pending"} : PutBack(i, to)
         PROVE  TypeOK' /\ Stays
    <2> DEFINE out == [g \in Groups |-> NotIn]
               kept == [g \in Groups |-> IF rdy[i][g] = NotIn THEN NotIn ELSE Avail(i, g)]
               listed == [g \in Groups |-> Avail(i, g)]
    <2>1. out \in [Groups -> Score] /\ kept \in [Groups -> Score] /\ listed \in [Groups -> Score]
      BY <1>2 DEF Score
    <2>2. \/ rdy' = [rdy EXCEPT ![i] = out]
          \/ rdy' = [rdy EXCEPT ![i] = kept]
          \/ rdy' = [rdy EXCEPT ![i] = listed]
      BY <1>10 DEF TakeOut, Activate, Resync, PutBack, Unlisted, Rescored, Listed
    <2>3. /\ UNCHANGED <<cd, scd>>
          /\ \E s \in {"out", "active", "pending"} : st' = [st EXCEPT ![i] = s] \/ st' = st
      BY <1>10 DEF TakeOut, Activate, Resync, PutBack
    <2> HIDE DEF out, kept, listed
    <2>4. rdy' \in [Identities -> [Groups -> Score]]
      BY <1>4, <2>1, <2>2
    <2>5. st' \in [Identities -> {"active", "pending", "out", "gone"}]
      BY Zenon, <2>3 DEF TypeOK
    <2>6. st[i] # "gone"
      BY <1>10 DEF TakeOut, Activate, Resync, PutBack, Schedulable
    <2>7. Stays
      BY <2>3, <2>6 DEF TypeOK
    <2>8. TypeOK'
      BY <1>1, <2>3, <2>4, <2>5 DEF TypeOK
    <2> QED BY <2>7, <2>8
  <1>11. TypeOK' /\ Stays
    BY <1>3, <1>6, <1>7, <1>8, <1>9, <1>10 DEF Dispose, Cool, Clear
  <1> QED BY <1>1, <1>11

\* Every disposition keeps the inductive invariant.
LEMMA DisposeIInv ==
  ASSUME IInv, Dispose
  PROVE  IInv' /\ UNCHANGED <<now, al, xl, ls, lsexp>>
  <1>1. TypeOK' /\ UNCHANGED <<now, al, xl, ls, lsexp>>
    BY DisposeType DEF IInv
  <1>2. Hashed'
    BY DisposeType DEF IInv, Hashed
  <1> QED BY <1>1, <1>2, QuietIInv

\* Every step of leases and dispositions together keeps the inductive invariant.
LEMMA NextDisposeIInv == IInv /\ [Next \/ Dispose]_vars => IInv'
  BY NextIInv, DisposeIInv

\* The inductive invariant holds under every interleaving of the scheduler's
\* scripts with the dispositions.
THEOREM Accounting == SpecDispose => []IInv
  BY InitIInv, NextDisposeIInv, PTL DEF SpecDispose

\* Every variable keeps its type under the scheduler and the dispositions.
THEOREM TypeCorrect == SpecDispose => []TypeOK
  BY Accounting, PTL DEF IInv

\* The concurrency count of an identity is the number of its active leases.
THEOREM CountExact == SpecDispose => []AlExact
  BY Accounting, PTL DEF IInv

\* The reaper's index lists exactly the active leases, at their expiries.
THEOREM ExpiryIndexExact == SpecDispose => []LsexpExact
  BY Accounting, PTL DEF IInv

\* However the clocks of the instances disagree, two exclusive leases on one
\* identity are never active together.
THEOREM OneExclusive == SpecDispose => []SoleExclusive
  BY Accounting, PTL DEF IInv

=============================================================================
