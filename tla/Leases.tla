------------------------------- MODULE Leases -------------------------------
(***************************************************************************)
(* The lease store of one site: the Redis keys id:<i>, hs:<eg>, rdy:<eg>,  *)
(* ls:<lease> and lsexp, and the scripts of internal/scheduler/lua that    *)
(* grant, renew, release, abort and reap leases.  Redis runs a script      *)
(* atomically, so a script is one action; between two scripts anything may *)
(* happen: another instance's script, the clock, a node that never calls   *)
(* back.                                                                   *)
(*                                                                         *)
(* Every call carries the clock of the instance that makes it (ARGV[1]),   *)
(* which may lag behind the fastest clock by at most Skew.                 *)
(*                                                                         *)
(* Quota windows, proxies and the breaker gate of acquire.lua are left     *)
(* out here (a policy with no quota, proxy mode 'n', a closed breaker).    *)
(***************************************************************************)
EXTENDS Integers, FiniteSets

CONSTANTS
    Identities,  \* identities of the site, all of one client
    Groups,      \* endpoint groups of that client
    LeaseIds,    \* lease ids; an id is never used twice
    Policies,    \* rotation policies a call may carry: [mc, ri, ra, rs]
    Extends,     \* extensions a node may ask for when it renews
    Ttl,         \* rotation.lease_ttl
    Lifetime,    \* rotation.max_lease_lifetime
    PushDelay,   \* short_push - now: min(ttl, 5 s)
    ProbeMax,    \* concurrent leases allowed on a pending identity
    SampleK,     \* candidates sampled per round
    Sticky,      \* TRUE iff calls carry session keys
    Skew,        \* how far an instance's clock may lag
    Horizon      \* bound: the last instant of the model

Policy == [mc : Nat \ {0}, ri : Nat, ra : {"a", "r"}, rs : {"e", "s"}]

ASSUME NonEmpty == Identities # {} /\ Groups # {}
ASSUME LeaseIdsFinite == IsFiniteSet(LeaseIds)
ASSUME PoliciesAssumption == Policies \subseteq Policy
ASSUME ExtendsAssumption == Extends \subseteq Nat \ {0}
ASSUME TimesAssumption ==
    /\ {Ttl, Lifetime, PushDelay, ProbeMax, SampleK} \subseteq Nat \ {0}
    /\ {Skew, Horizon} \subseteq Nat
ASSUME StickyAssumption == Sticky \in BOOLEAN

VARIABLES
    now,    \* the fastest clock of the fleet
    st,     \* id:<i>.st ("gone": the hash does not exist)
    al,     \* id:<i>.al, active leases counted on the identity
    xl,     \* id:<i>.xl, expiry of the exclusive lease holding it
    xg,     \* id:<i>.xg, groups that pushed it because of that lease
    scd,    \* id:<i>.scd, site cooldown
    sru,    \* id:<i>.sru, site reuse time
    cd,     \* hs:<eg>[i].cd, endpoint cooldown
    ru,     \* hs:<eg>[i].ru, endpoint reuse time
    rdy,    \* rdy:<eg>[i], score of the ready set, or NotIn
    ls,     \* ls:<lease>
    lsexp   \* lsexp[lease], score of the expiry set, or NotIn

idVars == <<st, al, xl, xg, scd, sru, cd, ru, rdy>>
lsVars == <<ls, lsexp>>
vars == <<now, idVars, lsVars>>

NotIn == -1
Score == Nat \cup {NotIn}

LeaseState == {"none", "active", "released", "aborted", "expired"}
Lease == [st : LeaseState, sent : BOOLEAN, i : Identities, g : Groups,
          a : Nat, x : Nat, cap : Nat, end : Nat, pol : Policy, pru : Score]

NoLease == [st |-> "none", sent |-> FALSE,
            i |-> CHOOSE i \in Identities : TRUE,
            g |-> CHOOSE g \in Groups : TRUE,
            a |-> 0, x |-> 0, cap |-> 0, end |-> 0,
            pol |-> [mc |-> 1, ri |-> 0, ra |-> "r", rs |-> "e"],
            pru |-> NotIn]

Init ==
    /\ now = 0
    /\ st \in [Identities -> {"active", "pending"}]
    /\ al = [i \in Identities |-> 0]
    /\ xl = [i \in Identities |-> 0]
    /\ xg = [i \in Identities |-> {}]
    /\ scd = [i \in Identities |-> 0]
    /\ sru = [i \in Identities |-> 0]
    /\ cd = [i \in Identities |-> [g \in Groups |-> 0]]
    /\ ru = [i \in Identities |-> [g \in Groups |-> 0]]
    /\ rdy = [i \in Identities |-> [g \in Groups |-> 0]]
    /\ ls = [l \in LeaseIds |-> NoLease]
    /\ lsexp = [l \in LeaseIds |-> NotIn]

-----------------------------------------------------------------------------
Later(a, b) == IF a > b THEN a ELSE b
Sooner(a, b) == IF a < b THEN a ELSE b

\* The clocks an instance may put in ARGV[1] when the fastest reads `now'.
Clocks == {t \in 0 .. now : now - t <= Skew}

\* The active leases of identity i.
Active(i) == {l \in LeaseIds : ls[l].st = "active" /\ ls[l].i = i}

\* sp_avail: when identity i is available to group g again.
Held(i) == IF al[i] > 0 THEN xl[i] ELSE 0
IdLevel(i) == Later(scd[i], Later(sru[i], Held(i)))
Avail(i, g) == Later(cd[i][g], Later(ru[i][g], IdLevel(i)))

-----------------------------------------------------------------------------
(* acquire.lua: the candidate filters.                                     *)

Schedulable(i) == st[i] \in {"active", "pending"}

\* c.lim: the concurrent leases the policy allows on the identity.
Lim(i, pol) ==
    IF st[i] = "pending" THEN Sooner(pol.mc, ProbeMax) ELSE pol.mc

Due(g, t) == {i \in Identities : rdy[i][g] # NotIn /\ rdy[i][g] <= t}

\* Mutant: the exclusive lease that holds the identity is forgotten.
FitsForgetsHeld(i, g, t, pol) ==
    /\ Schedulable(i)
    /\ cd[i][g] <= t /\ ru[i][g] <= t
    /\ scd[i] <= t /\ sru[i] <= t
    /\ al[i] < Lim(i, pol)

\* evaluate(i, hs, false) answers "ok".
Fits(i, g, t, pol) ==
    /\ Schedulable(i)
    /\ cd[i][g] <= t /\ ru[i][g] <= t
    /\ scd[i] <= t /\ sru[i] <= t
    /\ Held(i) <= t
    /\ al[i] < Lim(i, pol)

\* evaluate(i, hs, true) answers "ok": the reuse times are not looked at.
FitsSticky(i, g, t, pol) ==
    /\ Schedulable(i)
    /\ cd[i][g] <= t /\ scd[i] <= t
    /\ Held(i) <= t
    /\ al[i] < Lim(i, pol)

\* The score a refused candidate leaves the sample with.
RefusedScore(i, g, t) ==
    IF ~Schedulable(i) THEN NotIn
    ELSE IF Avail(i, g) > t THEN Avail(i, g) ELSE t + PushDelay

\* Mutant: a push owed to an exclusive lease is not remembered.
NeverMarked(i, t) == FALSE

\* push_xl: the push is owed to an exclusive lease.
PushedByLease(i, t) == Schedulable(i) /\ al[i] > 0 /\ xl[i] > t

\* The effect of a call in group g on the candidates R it sampled and refused:
\* their scores and their "xg" markers.
RescoreRefused(g, t, R) ==
    [i \in Identities |->
        IF i \in R THEN [rdy[i] EXCEPT ![g] = RefusedScore(i, g, t)] ELSE rdy[i]]
MarkRefused(g, t, R) ==
    [i \in Identities |->
        IF i \in R /\ PushedByLease(i, t) THEN xg[i] \cup {g} ELSE xg[i]]

-----------------------------------------------------------------------------
(* acquire.lua: write_lease.  A batch of n leases is n grants in a row with *)
(* the clock standing still, on n different identities.                    *)

\* The reuse time after a grant at t whose policy anchors it at "acquired".
Raised(old, pol, scope, t) ==
    IF pol.ra = "a" /\ pol.ri > 0 /\ pol.rs = scope
    THEN Later(old, t + pol.ri) ELSE old

\* The previous reuse value, kept only when this lease raises it.
PrevReuse(i, g, pol, t) ==
    LET prev == IF pol.rs = "s" THEN sru[i] ELSE ru[i][g]
    IN  IF pol.ra = "a" /\ pol.ri > 0 /\ t + pol.ri > prev THEN prev ELSE NotIn

\* The exclusive expiry after a grant that ends at x.
HeldAfter(i, pol, x) ==
    LET held == IF al[i] > 0 THEN xl[i] ELSE 0
    IN  IF pol.mc = 1 THEN Later(held, x) ELSE held

GrantedScore(i, g, pol, t, x) ==
    LET ready == Later(t, Later(cd[i][g], Later(Raised(ru[i][g], pol, "e", t),
                 Later(scd[i], Later(Raised(sru[i], pol, "s", t),
                                     HeldAfter(i, pol, x))))))
    IN  IF al[i] + 1 >= Lim(i, pol) THEN Later(ready, t + PushDelay) ELSE ready

\* Mutant: the expiry is not entered in lsexp.
WriteLeaseUnlisted(i, g, l, pol, t, R) ==
    LET x == Sooner(t + Ttl, t + Lifetime)
        scored == RescoreRefused(g, t, R)
    IN  /\ ls' = [ls EXCEPT ![l] =
                    [st |-> "active", sent |-> FALSE, i |-> i, g |-> g, a |-> t, x |-> x,
                     cap |-> t + Lifetime, end |-> 0, pol |-> pol,
                     pru |-> PrevReuse(i, g, pol, t)]]
        /\ al' = [al EXCEPT ![i] = @ + 1]
        /\ xl' = [xl EXCEPT ![i] = IF pol.mc = 1 THEN HeldAfter(i, pol, x) ELSE @]
        /\ sru' = [sru EXCEPT ![i] = Raised(@, pol, "s", t)]
        /\ ru' = [ru EXCEPT ![i][g] = Raised(@, pol, "e", t)]
        /\ rdy' = [scored EXCEPT ![i][g] = GrantedScore(i, g, pol, t, x)]
        /\ xg' = MarkRefused(g, t, R)
        /\ UNCHANGED <<now, st, scd, cd, lsexp>>

WriteLease(i, g, l, pol, t, R) ==
    LET x == Sooner(t + Ttl, t + Lifetime)
        scored == RescoreRefused(g, t, R)
    IN  /\ ls' = [ls EXCEPT ![l] =
                    [st |-> "active", sent |-> FALSE, i |-> i, g |-> g, a |-> t, x |-> x,
                     cap |-> t + Lifetime, end |-> 0, pol |-> pol,
                     pru |-> PrevReuse(i, g, pol, t)]]
        /\ lsexp' = [lsexp EXCEPT ![l] = x]
        /\ al' = [al EXCEPT ![i] = @ + 1]
        /\ xl' = [xl EXCEPT ![i] = IF pol.mc = 1 THEN HeldAfter(i, pol, x) ELSE @]
        /\ sru' = [sru EXCEPT ![i] = Raised(@, pol, "s", t)]
        /\ ru' = [ru EXCEPT ![i][g] = Raised(@, pol, "e", t)]
        /\ rdy' = [scored EXCEPT ![i][g] = GrantedScore(i, g, pol, t, x)]
        /\ xg' = MarkRefused(g, t, R)
        /\ UNCHANGED <<now, st, scd, cd>>

\* A call made at t fits in the model when its lease can run out before Horizon.
WithinHorizon(t) == t + Lifetime <= Horizon

\* acquire.lua grants a sampled candidate; R are the ones it refused before.
AcquireSampled(i, g, l, pol, t) ==
    /\ WithinHorizon(t)
    /\ ls[l].st = "none"
    /\ i \in Due(g, t) /\ Fits(i, g, t, pol)
    /\ \E R \in SUBSET {j \in Due(g, t) : ~Fits(j, g, t, pol)} :
          WriteLease(i, g, l, pol, t, R)

\* acquire.lua grants the identity an earlier call bound to the session key.
AcquireSticky(i, g, l, pol, t) ==
    /\ Sticky
    /\ WithinHorizon(t)
    /\ ls[l].st = "none"
    /\ \E k \in LeaseIds : ls[k].st # "none" /\ ls[k].i = i /\ ls[k].g = g
    /\ rdy[i][g] # NotIn
    /\ FitsSticky(i, g, t, pol)
    /\ WriteLease(i, g, l, pol, t, {})

\* acquire.lua answers EXHAUSTED: it refused every due candidate, or as many
\* as three rounds of SampleK look at.
AcquireExhausted(g, pol, t) ==
    /\ WithinHorizon(t)
    /\ \E R \in SUBSET {j \in Due(g, t) : ~Fits(j, g, t, pol)} :
          /\ R # {}
          /\ R = Due(g, t) \/ Cardinality(R) = 3 * SampleK
          /\ rdy' = RescoreRefused(g, t, R)
          /\ xg' = MarkRefused(g, t, R)
    /\ UNCHANGED <<now, st, al, xl, scd, sru, cd, ru, lsVars>>

\* The rendered lease reaches the node that asked for it.
Deliver(l) ==
    /\ ls[l].st = "active" /\ ~ls[l].sent
    /\ ls' = [ls EXCEPT ![l].sent = TRUE]
    /\ UNCHANGED <<now, idVars, lsexp>>

-----------------------------------------------------------------------------
(* renew.lua.                                                              *)

\* The other answers (UNKNOWN, RELEASED, EXPIRED, LIFETIME_EXCEEDED) change
\* nothing.
Renew(l, extend, t) ==
    LET r == ls[l]
        nx == Later(r.x, Sooner(t + extend, r.cap))
    IN  /\ r.st = "active" /\ r.sent
        /\ t < r.x /\ r.x < r.cap
        /\ ls' = [ls EXCEPT ![l].x = nx]
        /\ lsexp' = [lsexp EXCEPT ![l] = nx]
        /\ IF r.pol.mc = 1 /\ st[r.i] # "gone"
           THEN /\ xl' = [xl EXCEPT ![r.i] = Later(@, nx)]
                /\ rdy' = [rdy EXCEPT ![r.i][r.g] = IF @ = NotIn THEN NotIn ELSE Later(@, nx)]
           ELSE UNCHANGED <<xl, rdy>>
        /\ UNCHANGED <<now, st, al, xg, scd, sru, cd, ru>>

-----------------------------------------------------------------------------
(* lease_end.lua: ls_end, shared by release.lua and reap.lua.              *)

AlAfter(i) == IF al[i] > 0 THEN al[i] - 1 ELSE 0
XlAfter(i) == IF AlAfter(i) = 0 THEN 0 ELSE xl[i]

\* Mutant: the value from before the lease is written back, whoever raised it
\* since.
GivesBackBlindly(r, scope, old) ==
    /\ r.pol.ra = "a" /\ r.pol.ri > 0 /\ r.pol.rs = scope
    /\ r.pru # NotIn

\* A delivered lease with a "released" anchor raises the reuse time from its
\* end; an aborted one gives back the value it raised at acquire, unless a
\* later lease raised it again.
GivesBack(r, scope, old) ==
    /\ r.pol.ra = "a" /\ r.pol.ri > 0 /\ r.pol.rs = scope
    /\ r.pru # NotIn
    /\ old = r.a + r.pol.ri

\* Mutant: an abort leaves the reuse time where the lease put it.
ReuseAfterNoRestore(r, scope, old, end, abort) ==
    IF ~abort /\ r.pol.ra = "r" /\ r.pol.ri > 0 /\ r.pol.rs = scope
    THEN Later(old, end + r.pol.ri) ELSE old

ReuseAfter(r, scope, old, end, abort) ==
    IF ~abort /\ r.pol.ra = "r" /\ r.pol.ri > 0 /\ r.pol.rs = scope
    THEN Later(old, end + r.pol.ri)
    ELSE IF abort /\ GivesBack(r, scope, old) THEN r.pru ELSE old

\* idlevel: the identity's part of the availability once the lease is over.
LevelAfter(r, end, abort) ==
    Later(scd[r.i], Later(ReuseAfter(r, "s", sru[r.i], end, abort),
                          IF AlAfter(r.i) > 0 THEN xl[r.i] ELSE 0))

\* The group's availability once the lease is over, not before it ended.
ReadyAfter(r, g, reuse, end, abort) ==
    Later(cd[r.i][g], Later(reuse, Later(LevelAfter(r, end, abort), end)))

\* A score in (end, limit] is pulled back to ready.
PullBack(score, end, limit, ready) ==
    IF end < score /\ score <= limit THEN Sooner(score, ready) ELSE score

\* Groups that pushed the identity away because of the exclusive lease.
RestoredGroups(r) ==
    IF r.pol.mc = 1 /\ xl[r.i] > 0 /\ AlAfter(r.i) = 0 THEN xg[r.i] \ {r.g} ELSE {}

\* Mutant: the end of a lease lists its identity again (ZADD without XX).
ScoreAfterRelists(r, g, end, abort) ==
    LET reuse == IF g = r.g THEN ReuseAfter(r, "e", ru[r.i][g], end, abort) ELSE ru[r.i][g]
        ready == ReadyAfter(r, g, reuse, end, abort)
    IN  IF g = r.g THEN ready
        ELSE IF g \in RestoredGroups(r)
             THEN PullBack(rdy[r.i][g], end, xl[r.i], ready) ELSE rdy[r.i][g]

\* The score of the identity in group g: the lease's own group is rescored,
\* the groups that pushed it for an exclusive lease and, when a site reuse
\* time was given back, every group, are pulled back.
ScoreAfter(r, g, end, abort) ==
    LET reuse == IF g = r.g THEN ReuseAfter(r, "e", ru[r.i][g], end, abort) ELSE ru[r.i][g]
        ready == ReadyAfter(r, g, reuse, end, abort)
        pulled == IF g \in RestoredGroups(r)
                  THEN PullBack(rdy[r.i][g], end, xl[r.i], ready) ELSE rdy[r.i][g]
    IN  IF g = r.g THEN IF rdy[r.i][g] = NotIn THEN NotIn ELSE ready
        ELSE IF abort /\ GivesBack(r, "s", sru[r.i])
             THEN PullBack(pulled, end, r.a + r.pol.ri, ready) ELSE pulled

\* The "end" of a lease, kept here where its reuse interval counts from it.
EndKept(r, end) == IF r.pol.ra = "r" /\ r.pol.ri > 0 THEN end ELSE 0

LsEnd(l, newState, end, abort) ==
    LET r == ls[l]
        i == r.i
    IN  /\ ls' = [ls EXCEPT ![l] = [@ EXCEPT !.st = newState, !.end = EndKept(r, end)]]
        /\ lsexp' = [lsexp EXCEPT ![l] = NotIn]
        /\ IF st[i] # "gone"
           THEN /\ al' = [al EXCEPT ![i] = AlAfter(i)]
                /\ xl' = [xl EXCEPT ![i] = XlAfter(i)]
                /\ sru' = [sru EXCEPT ![i] = ReuseAfter(r, "s", @, end, abort)]
                /\ ru' = [ru EXCEPT ![i][r.g] = ReuseAfter(r, "e", @, end, abort)]
                /\ rdy' = [rdy EXCEPT ![i] = [g \in Groups |-> ScoreAfter(r, g, end, abort)]]
                /\ xg' = [xg EXCEPT ![i] = IF AlAfter(i) = 0 THEN {} ELSE @]
           ELSE UNCHANGED <<al, xl, sru, ru, rdy, xg>>
        /\ UNCHANGED <<now, st, scd, cd>>

\* Mutant: the released lease is decided on before the script and its state is
\* not looked at again.
ReleaseTwice(l, t) ==
    /\ ls[l].st # "none" /\ ls[l].sent
    /\ LsEnd(l, "released", t, FALSE)

\* release.lua for a lease its node holds, asked for by the node or by the
\* worker that processed its last report.
Release(l, t) ==
    /\ ls[l].st = "active" /\ ls[l].sent
    /\ LsEnd(l, "released", t, FALSE)

\* release.lua with abort = 1: rendering failed or the request was cancelled.
Abort(l, t) ==
    /\ ls[l].st = "active" /\ ~ls[l].sent
    /\ LsEnd(l, "aborted", t, TRUE)

\* reap.lua: the overdue leases in the order of their expiry, one at a time.
Reap(l, t) ==
    /\ lsexp[l] # NotIn /\ lsexp[l] <= t
    /\ \A k \in LeaseIds : lsexp[k] # NotIn => lsexp[l] <= lsexp[k]
    /\ IF ls[l].st = "active"
       THEN LsEnd(l, "expired", ls[l].x, FALSE)
       ELSE lsexp' = [lsexp EXCEPT ![l] = NotIn] /\ UNCHANGED <<now, idVars, ls>>

Tick ==
    /\ now < Horizon
    /\ now' = now + 1
    /\ UNCHANGED <<idVars, lsVars>>

-----------------------------------------------------------------------------
Acquire(g, pol, t) ==
    \/ \E i \in Identities, l \in LeaseIds : AcquireSampled(i, g, l, pol, t)
    \/ \E i \in Identities, l \in LeaseIds : AcquireSticky(i, g, l, pol, t)
    \/ AcquireExhausted(g, pol, t)

Next ==
    \/ \E t \in Clocks, g \in Groups, pol \in Policies : Acquire(g, pol, t)
    \/ \E l \in LeaseIds : Deliver(l)
    \/ \E t \in Clocks, l \in LeaseIds, extend \in Extends : Renew(l, extend, t)
    \/ \E t \in Clocks, l \in LeaseIds : Release(l, t) \/ Abort(l, t) \/ Reap(l, t)
    \/ Tick

Spec == Init /\ [][Next]_vars

\* Time passes, and every instance runs the reaper once a second.
FairSpec ==
    /\ Spec
    /\ WF_vars(Tick)
    /\ WF_vars(\E t \in Clocks, l \in LeaseIds : Reap(l, t))

-----------------------------------------------------------------------------
(* Properties.                                                             *)

\* Every variable keeps its shape; scores are never negative but for NotIn.
TypeOK ==
    /\ now \in 0 .. Horizon
    /\ st \in [Identities -> {"active", "pending", "out", "gone"}]
    /\ al \in [Identities -> Nat]
    /\ xl \in [Identities -> Nat]
    /\ xg \in [Identities -> SUBSET Groups]
    /\ scd \in [Identities -> Nat]
    /\ sru \in [Identities -> Nat]
    /\ cd \in [Identities -> [Groups -> Nat]]
    /\ ru \in [Identities -> [Groups -> Nat]]
    /\ rdy \in [Identities -> [Groups -> Score]]
    /\ ls \in [LeaseIds -> Lease]
    /\ lsexp \in [LeaseIds -> Score]

\* The count acquire.lua compares with max_concurrent_leases is the number of
\* active leases, whoever ends them and in whatever order: no end is counted
\* twice (al too low) and none is missed (the identity lost for good).
AlExact == \A i \in Identities : al[i] = Cardinality(Active(i))

\* lsexp lists the active leases with their expiries and nothing else, so the
\* reaper reaches every lease a dead node leaves behind and its "stale entry"
\* branch only ever sees entries nobody needs.
LsexpExact ==
    \A l \in LeaseIds :
        lsexp[l] = IF ls[l].st = "active" THEN ls[l].x ELSE NotIn

\* Nobody else holds an identity while an exclusive lease on it runs: neither
\* another policy's call, nor a sticky one, nor a renewal racing the reaper.
Exclusive ==
    \A l \in LeaseIds :
        ls[l].st = "active" /\ ls[l].pol.mc = 1 /\ now < ls[l].x
            => Active(ls[l].i) = {l}

\* Two exclusive leases on one identity are never active together, not even
\* when one is overdue and the instances' clocks disagree.
SoleExclusive ==
    \A k, l \in LeaseIds :
        /\ k # l /\ ls[k].i = ls[l].i
        /\ ls[k].st = "active" /\ ls[l].st = "active"
        => ls[k].pol.mc # 1 \/ ls[l].pol.mc # 1

\* No call is granted a pending identity that has as many leases as the probe
\* limit. (Leases granted before an identity went back to pending stay.)
PendingGrant(i) ==
    st[i] = "pending" /\ Cardinality(Active(i)') > Cardinality(Active(i))
        => Cardinality(Active(i)') <= ProbeMax
PendingGrantsCapped == [][\A i \in Identities : PendingGrant(i)]_vars

\* When no lease holds an identity it is not kept waiting in any group longer
\* than its cooldowns and reuse times say, but for one short push: every group
\* that pushed it to the expiry of an exclusive lease gets it back when the
\* lease ends early.
AvailabilityRestored ==
    \A i \in Identities, g \in Groups :
        st[i] # "gone" /\ al[i] = 0
            => rdy[i][g] <= Later(Avail(i, g), now + PushDelay)

\* A lease whose reuse interval bears on reuse time `scope' of identity i (in
\* group g), when that interval began and when it is over.
Bears(l, i, g, scope) ==
    /\ ls[l].i = i /\ ls[l].pol.ri > 0 /\ ls[l].pol.rs = scope
    /\ scope = "e" => ls[l].g = g
Began(l) == IF ls[l].pol.ra = "a" THEN ls[l].a ELSE ls[l].end
Over(l) == Began(l) + ls[l].pol.ri
Counts(l) ==
    /\ ls[l].st \notin {"none", "aborted"}
    /\ ls[l].pol.ra = "r" => ls[l].st # "active"

\* Reuse time `until' is the one the leases of the identity ask for. It runs
\* for a lease that was not aborted, or for the lease before a session's call:
\* such a call does not wait for the reuse time and gives it back when it is
\* aborted. And it covers the interval of every lease that was not aborted,
\* but for one that began under a longer interval, now aborted: it raised
\* nothing, and the abort gives back the value from before both.
AsOwed(i, g, scope, until) ==
    /\ until > now =>
          \E l \in LeaseIds :
              /\ Bears(l, i, g, scope)
              /\ \/ Counts(l) /\ Over(l) = until
                 \/ ls[l].st = "aborted" /\ ls[l].pru = until
    /\ \A l \in LeaseIds :
          Bears(l, i, g, scope) /\ Counts(l) =>
              \/ Over(l) <= until
              \/ \E k \in LeaseIds :
                    /\ Bears(k, i, g, scope) /\ ls[k].st = "aborted" /\ ls[k].pol.ra = "a"
                    /\ ls[k].a <= Began(l) /\ Over(l) <= Over(k)

\* With synchronised clocks a reuse time is never longer than what the leases
\* that reached their nodes ask for, and never shorter: an abort takes back its
\* own raise and no other.
ReuseOwed ==
    \A i \in Identities, g \in Groups :
        AsOwed(i, g, "s", sru[i]) /\ AsOwed(i, g, "e", ru[i][g])

\* A renewal never shortens a lease nor passes its lifetime cap, and a lease
\* that ended never changes again.
LeaseStep(l) ==
    /\ ls[l].st = "active" => ls[l].x <= ls'[l].x /\ ls'[l].x <= ls'[l].cap
    /\ ls[l].st \notin {"none", "active"} => ls'[l] = ls[l]
LeaseSteps == [][\A l \in LeaseIds : LeaseStep(l)]_vars

\* A lease ends, whatever its node does: renewals stop at the lifetime cap and
\* the reaper takes what nobody released.
LeaseEnds ==
    \A l \in LeaseIds : ls[l].st = "active" ~> ls[l].st \notin {"none", "active"}

=============================================================================
