---------------------------- MODULE Dispositions ----------------------------
(***************************************************************************)
(* The lease store together with what the rest of the system does to an    *)
(* identity while leases on it run: the operations of action/lua/apply.lua *)
(* (cooldowns, bans, activation, manual state changes, reverts) and of     *)
(* hotstate/lua/sync_identities.lua (materialisation and removal).         *)
(*                                                                         *)
(* The states that are not scheduled (banned, quarantined, expired,        *)
(* disabled) are one state here, "out"; a retired identity has no hash     *)
(* ("gone").                                                               *)
(***************************************************************************)
EXTENDS Leases

CONSTANT CoolFor    \* durations of the cooldowns an action policy asks for

ASSUME CoolForAssumption == CoolFor \subseteq Nat \ {0}

VARIABLE archived   \* history: the identities that were ever archived

\* ZADD XX: a member is rescored, an absent identity is not added.
Rescored(i, score) ==
    [rdy EXCEPT ![i] =
        [g \in Groups |-> IF rdy[i][g] = NotIn THEN NotIn ELSE score[g]]]

Listed(i, score) == [rdy EXCEPT ![i] = score]

Unlisted(i) == [rdy EXCEPT ![i] = [g \in Groups |-> NotIn]]

-----------------------------------------------------------------------------
(* apply.lua.                                                              *)

\* "cd", scope "ie": a longer cooldown replaces a shorter one.
CoolEndpoint(i, g, u) ==
    /\ st[i] # "gone" /\ cd[i][g] < u
    /\ cd' = [cd EXCEPT ![i][g] = u]
    /\ rdy' = [rdy EXCEPT ![i][g] =
                 IF @ = NotIn THEN NotIn ELSE Later(u, Later(ru[i][g], IdLevel(i)))]
    /\ UNCHANGED <<now, st, al, xl, xg, scd, sru, ru, lsVars>>

\* "cd", scope "is": the scores only move forward (ZADD XX GT).
CoolSite(i, u) ==
    /\ st[i] # "gone" /\ scd[i] < u
    /\ scd' = [scd EXCEPT ![i] = u]
    /\ rdy' = Rescored(i, [g \in Groups |-> Later(rdy[i][g], u)])
    /\ UNCHANGED <<now, st, al, xl, xg, sru, cd, ru, lsVars>>

\* "clr", scope "ie": a revert ends a running cooldown.
ClearEndpoint(i, g, t) ==
    /\ st[i] # "gone" /\ cd[i][g] > t
    /\ cd' = [cd EXCEPT ![i][g] = 0]
    /\ rdy' = [rdy EXCEPT ![i][g] =
                 IF @ = NotIn THEN NotIn ELSE Later(ru[i][g], IdLevel(i))]
    /\ UNCHANGED <<now, st, al, xl, xg, scd, sru, ru, lsVars>>

\* Mutant: the revert clears the cooldown and leaves the scores.
ClearSiteNoRescore(i, t) ==
    /\ st[i] # "gone" /\ scd[i] > t
    /\ scd' = [scd EXCEPT ![i] = 0]
    /\ UNCHANGED <<now, st, al, xl, xg, sru, cd, ru, rdy, lsVars>>

\* "clr", scope "is".
ClearSite(i, t) ==
    /\ st[i] # "gone" /\ scd[i] > t
    /\ scd' = [scd EXCEPT ![i] = 0]
    /\ rdy' = Rescored(i, [g \in Groups |-> Later(cd[i][g], Later(ru[i][g], Later(sru[i], Held(i))))])
    /\ UNCHANGED <<now, st, al, xl, xg, sru, cd, ru, lsVars>>

\* "ban", "exp", "qua", or "set" to a state that is not scheduled.
TakeOut(i) ==
    /\ Schedulable(i)
    /\ st' = [st EXCEPT ![i] = "out"]
    /\ rdy' = Unlisted(i)
    /\ UNCHANGED <<now, al, xl, xg, scd, sru, cd, ru, lsVars>>

\* "act": the first good report of a pending identity.
Activate(i) ==
    /\ st[i] = "pending"
    /\ st' = [st EXCEPT ![i] = "active"]
    /\ rdy' = Rescored(i, [g \in Groups |-> Avail(i, g)])
    /\ UNCHANGED <<now, al, xl, xg, scd, sru, cd, ru, lsVars>>

\* "set" to pending or active: unban, enable, ...
PutBack(i, to) ==
    /\ st[i] = "out"
    /\ st' = [st EXCEPT ![i] = to]
    /\ rdy' = Listed(i, [g \in Groups |-> Avail(i, g)])
    /\ UNCHANGED <<now, al, xl, xg, scd, sru, cd, ru, lsVars>>

-----------------------------------------------------------------------------
(* sync_identities.lua.                                                    *)

\* A synchronisation of an identity that stays.
Resync(i) ==
    /\ st[i] # "gone"
    /\ rdy' = IF Schedulable(i) THEN Listed(i, [g \in Groups |-> Avail(i, g)]) ELSE Unlisted(i)
    /\ UNCHANGED <<now, st, al, xl, xg, scd, sru, cd, ru, lsVars>>

\* Mutant: the removed hash keeps its lease count.
ArchiveKeepsCount(i) ==
    /\ st[i] # "gone"
    /\ st' = [st EXCEPT ![i] = "gone"]
    /\ rdy' = Unlisted(i)
    /\ UNCHANGED <<now, al, xl, xg, scd, sru, cd, ru, lsVars>>

\* remove_identity: the row was retired, the hash goes with its counters.
Archive(i) ==
    /\ st[i] # "gone"
    /\ st' = [st EXCEPT ![i] = "gone"]
    /\ al' = [al EXCEPT ![i] = 0]
    /\ xl' = [xl EXCEPT ![i] = 0]
    /\ xg' = [xg EXCEPT ![i] = {}]
    /\ scd' = [scd EXCEPT ![i] = 0]
    /\ sru' = [sru EXCEPT ![i] = 0]
    /\ cd' = [cd EXCEPT ![i] = [g \in Groups |-> 0]]
    /\ ru' = [ru EXCEPT ![i] = [g \in Groups |-> 0]]
    /\ rdy' = Unlisted(i)
    /\ UNCHANGED <<now, lsVars>>

\* Restored: the hash is written again, with no counters.
Unarchive(i) ==
    /\ st[i] = "gone"
    /\ st' = [st EXCEPT ![i] = "pending"]
    /\ rdy' = Listed(i, [g \in Groups |-> 0])
    /\ UNCHANGED <<now, al, xl, xg, scd, sru, cd, ru, lsVars>>

-----------------------------------------------------------------------------
Cool ==
    \E t \in Clocks, d \in CoolFor, i \in Identities :
        \/ \E g \in Groups : CoolEndpoint(i, g, t + d)
        \/ CoolSite(i, t + d)

Clear ==
    \E t \in Clocks, i \in Identities :
        \/ \E g \in Groups : ClearEndpoint(i, g, t)
        \/ ClearSite(i, t)

\* Everything that may happen to an identity that stays in the hot state.
Dispose ==
    \/ Cool
    \/ Clear
    \/ \E i \in Identities : TakeOut(i) \/ Activate(i) \/ Resync(i)
    \/ \E i \in Identities, to \in {"active", "pending"} : PutBack(i, to)

SpecDispose == Init /\ [][Next \/ Dispose]_vars

\* ... and identities that are archived and restored.
SpecArchive ==
    /\ Init /\ archived = {}
    /\ [][\/ (Next \/ Dispose \/ \E i \in Identities : Unarchive(i)) /\ UNCHANGED archived
          \/ \E i \in Identities : Archive(i) /\ archived' = archived \cup {i}]_<<vars, archived>>

-----------------------------------------------------------------------------
(* Properties.                                                             *)

\* An identity is in the ready sets exactly while it may be scheduled: a lease
\* that ends after its identity was banned does not list it again, and no
\* sequence of operations drops a schedulable identity from a group.
ListedIffSchedulable ==
    \A i \in Identities, g \in Groups : (rdy[i][g] # NotIn) = Schedulable(i)

\* The count is exact whatever is done to the identity under its leases. Once
\* it was archived it may be too low, never too high: no sequence of operations
\* makes an identity look busier than it is, so none is lost to the scheduler.
AlKept ==
    \A i \in Identities :
        /\ al[i] <= Cardinality(Active(i))
        /\ i \notin archived => al[i] = Cardinality(Active(i))

\* No cooldown, ban, unban, activation or resynchronisation lets a second call
\* in beside a running exclusive lease.
ExclusiveKept ==
    \A l \in LeaseIds :
        /\ ls[l].st = "active" /\ ls[l].pol.mc = 1 /\ now < ls[l].x
        /\ ls[l].i \notin archived
        => Active(ls[l].i) = {l}

\* The longest an exclusive lease can push its identity ahead.
LongestHold == CHOOSE d \in Extends \cup {Ttl, PushDelay} :
                   \A e \in Extends \cup {Ttl, PushDelay} : e <= d

\* Whatever rescored it, an identity no lease holds waits in a group at most
\* one lease TTL longer than its cooldowns and reuse times say.
WaitBounded ==
    \A i \in Identities, g \in Groups :
        al[i] = 0 => rdy[i][g] <= Later(Avail(i, g), now + LongestHold)
=============================================================================
