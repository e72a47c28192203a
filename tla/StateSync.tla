----------------------------- MODULE StateSync -----------------------------
(***************************************************************************)
(* One identity's lifecycle state in its two homes: the Redis hash the     *)
(* scheduler reads (hot) and the PostgreSQL row the console reads (row).   *)
(* Four kinds of goroutines write them:                                    *)
(*   - a worker applies a report's action in Redis first (apply.lua) and   *)
(*     queues the change for the StateWriter, which updates the row later; *)
(*   - an operator commits a transition in PostgreSQL first and pushes it  *)
(*     to Redis (apply.lua "set", then SyncIdentities);                    *)
(*   - the expiry job releases ended bans the same way and remembers the   *)
(*     pushes that failed;                                                 *)
(*   - an edit of the identity synchronizes it from its row; a new payload *)
(*     first commits the state in which it is validated again.             *)
(* The two homes are kept in agreement by comparing change times only      *)
(* (sct in Redis, state_changed_at in PostgreSQL), each goroutine stamping *)
(* a change with a time it read before it writes.                          *)
(*                                                                         *)
(* The StateWriter appears by what it promises (module StateWriter): a     *)
(* queue whose changes reach the row in order, in batches, perhaps twice.  *)
(* Servers read one clock.  Times are in the milliseconds of the hash.     *)
(***************************************************************************)
EXTENDS Integers, Sequences, FiniteSets

CONSTANTS Calls,        \* goroutines of workers, operators and edits
          Actions,      \* the actions reports lead to, subset of WorkerActions
          Operations,   \* the operators' transitions, subset of AllOperations
          Reverts,      \* whether operators roll back automatic actions
          BanFor,       \* how long a temporary ban or quarantine lasts
          Activation,   \* the state in which a new payload is validated
          Window,       \* expiryCatchUpWindow
          Gap,          \* 3 * expiryInterval
          Timeout,      \* expiryTimeout
          MaxTime,      \* bound on the clock
          MaxCalls,     \* bound on the calls begun
          MaxFaults     \* bound on failed calls and crashes

WorkerActions == {"ban", "ban_permanent", "quarantine", "expire", "activate"}
AllOperations == {"ban", "unban", "quarantine", "unquarantine", "expire",
                  "disable", "enable", "archive", "restore", "activate"}
Revertible == {"banned", "quarantined", "expired"}
States == {"pending", "active", "expired", "banned", "quarantined", "disabled", "retired"}

ASSUME SyncAssumption ==
  /\ Actions \subseteq WorkerActions /\ Operations \subseteq AllOperations
  /\ Reverts \in BOOLEAN
  /\ Activation \in {"pending", "active"}
  /\ BanFor \in Nat \ {0} /\ Window \in Nat /\ Gap \in Nat /\ Timeout \in Nat
  /\ MaxTime \in Nat /\ MaxCalls \in Nat /\ MaxFaults \in Nat

VARIABLES
  now,        \* the clock
  hot,        \* the hash: st (or "none"), until (0 none, -1 permanent) and sct
  row,        \* the row: the same with state_changed_at
  queue,      \* the changes the StateWriter still has to write
  call,       \* per goroutine: where it is and what it holds
  pass,       \* the expiry pass: the same
  retry,      \* the identity is in the hotRetry set
  overflow,   \* the time the set was full when it should have been added, 0 none
  prev,       \* lastExpiry: the time of this instance's last pass, 0 none
  released,   \* the time of the expiry job's last state event, 0 none
  auto,       \* the states and times of the automatic state events stored
  calls,
  faults,
  crossed,    \* a change took effect that was not newer than the one it met,
              \* or on the hash of an identity already archived
  stale,      \* a synchronization used a row read before an archive or a restore
  lost,       \* a committed or applied change lost its way to the other home
  missed      \* the time of the last release that a catch-up was to find and
              \* could not: its query failed, the release was older than the
              \* window, or the overflow was noted too long after it; 0 none

histVars == <<crossed, stale, lost, missed>>
vars == <<now, hot, row, queue, call, pass, retry, overflow, prev, released, auto,
          calls, faults, histVars>>

Max2(a, b) == IF a >= b THEN a ELSE b

Record(st, until, at) == [st |-> st, until |-> until, at |-> at]
Gone == Record("none", 0, 0)
Idle == [pc |-> "idle", at |-> 0, since |-> 0, to |-> "", copy |-> Gone]

Init ==
  /\ now = 1
  /\ row = Record("active", 0, 0) /\ hot = row
  /\ queue = <<>>
  /\ call = [c \in Calls |-> Idle] /\ pass = Idle
  /\ retry = FALSE /\ overflow = 0 /\ prev = 0 /\ released = 0 /\ auto = {}
  /\ calls = 0 /\ faults = 0
  /\ crossed = FALSE /\ stale = FALSE /\ lost = FALSE /\ missed = 0

Fault == faults < MaxFaults /\ faults' = faults + 1

Until(to, at) == IF to \in {"banned", "quarantined"} THEN at + BanFor ELSE 0

-----------------------------------------------------------------------------
(* The scripts.                                                            *)

\* apply.lua: what an automatic action makes of the hash, the time unchecked.
Applied(action, at) ==
  CASE action = "ban" -> Record("banned", at + BanFor, at)
    [] action = "ban_permanent" -> Record("banned", -1, at)
    [] action = "quarantine" -> Record("quarantined", at + BanFor, at)
    [] action = "expire" -> Record("expired", 0, at)
    [] action = "activate" -> Record("active", 0, at)

\* ... and when it applies: never less severe than what is there.
BanApplies(h, until) ==
  /\ h.st \notin {"none", "retired", "disabled"}
  /\ h.st = "banned" => h.until # -1 /\ (until = -1 \/ h.until < until)

QuarantineApplies(h, until) ==
  h.st \in {"pending", "active"} \/ (h.st = "quarantined" /\ h.until < until)

ExpireApplies(h) == h.st \in {"pending", "active", "quarantined"}

ActivateApplies(h) == h.st = "pending"

Applies(action, h, at) ==
  CASE action = "ban" -> BanApplies(h, at + BanFor)
    [] action = "ban_permanent" -> BanApplies(h, -1)
    [] action = "quarantine" -> QuarantineApplies(h, at + BanFor)
    [] action = "expire" -> ExpireApplies(h)
    [] action = "activate" -> ActivateApplies(h)

\* apply.lua "set": a committed transition, unless Redis holds a newer change.
Set(h, to, at) ==
  IF h.st = "none" \/ h.at > at THEN h ELSE Record(to, Until(to, at), at)

\* Mutant: the row always wins.
KeepNothing(h, r) == h.st = "none" /\ r.st = "none"

\* keep_redis_lifecycle in authoritative mode.
KeepHot(h, r) ==
  /\ h.st # "none" /\ h.at > r.at
  /\ h.st = "banned" => h.until = -1 \/ h.until > now
  /\ h.st = "quarantined" => h.until > now

\* sync_identities.lua with a row read earlier.
Synced(h, r) == IF r.st = "retired" THEN Gone ELSE IF KeepHot(h, r) THEN h ELSE r

-----------------------------------------------------------------------------
(* A worker: Redis first.                                                  *)

\* The report's time is taken before its actions are planned.
Report(c, action) ==
  /\ call[c].pc = "idle" /\ calls < MaxCalls /\ calls' = calls + 1
  /\ call' = [call EXCEPT ![c] = [Idle EXCEPT !.pc = "apply", !.at = now, !.to = action]]
  /\ UNCHANGED <<now, hot, row, queue, pass, retry, overflow, prev, released, auto, faults, histVars>>

Apply(c) ==
  LET h == Applied(call[c].to, call[c].at)
  IN /\ call[c].pc = "apply" /\ Applies(call[c].to, hot, call[c].at)
     /\ hot' = h
     /\ crossed' = (crossed \/ h.at <= Max2(hot.at, row.at) \/ row.st = "retired")
     /\ call' = [call EXCEPT ![c] = [Idle EXCEPT !.pc = "enqueue", !.copy = h]]
     /\ UNCHANGED <<now, row, queue, pass, retry, overflow, prev, released, auto, calls, faults, stale, lost, missed>>

\* Skipped: the script reports why and the hash keeps its state.
Skip(c) ==
  /\ call[c].pc = "apply" /\ ~Applies(call[c].to, hot, call[c].at)
  /\ call' = [call EXCEPT ![c] = Idle]
  /\ UNCHANGED <<now, hot, row, queue, pass, retry, overflow, prev, released, auto, calls, faults, histVars>>

\* The change is queued, or dropped when the queue stays full for too long.
Enqueue(c) ==
  /\ call[c].pc = "enqueue"
  /\ \/ queue' = Append(queue, call[c].copy) /\ UNCHANGED <<faults, lost>>
     \/ UNCHANGED queue /\ Fault /\ lost' = TRUE
  /\ call' = [call EXCEPT ![c] = Idle]
  /\ UNCHANGED <<now, hot, row, pass, retry, overflow, prev, released, auto, calls, crossed, stale, missed>>

\* latestUpdates: the newest of a batch, the last of those with one time.
Latest(batch) ==
  batch[CHOOSE i \in DOMAIN batch :
          \A j \in DOMAIN batch : batch[j].at < batch[i].at \/ (batch[j].at = batch[i].at /\ j <= i)]

\* updateIdentitiesSQL: only a newer change, whatever the row's state.
Updated(r, c) == IF r.at < c.at THEN c ELSE r

\* A flush writes the first n changes in one transaction; when its outcome is
\* unknown they stay for another.
Flush(n) ==
  /\ row' = Updated(row, Latest(SubSeq(queue, 1, n)))
  /\ auto' = auto \cup {[st |-> queue[i].st, at |-> queue[i].at] :
                          i \in {j \in 1..n : queue[j].st \in Revertible}}
  /\ \/ queue' = SubSeq(queue, n + 1, Len(queue)) /\ UNCHANGED faults
     \/ UNCHANGED queue /\ Fault
  /\ UNCHANGED <<now, hot, call, pass, retry, overflow, prev, released, calls, histVars>>

-----------------------------------------------------------------------------
(* An operator: PostgreSQL first.                                          *)

Target(operation) ==
  CASE operation = "ban" -> "banned"
    [] operation \in {"unban", "unquarantine", "restore"} -> "pending"
    [] operation = "quarantine" -> "quarantined"
    [] operation = "expire" -> "expired"
    [] operation = "disable" -> "disabled"
    [] operation \in {"enable", "activate"} -> "active"
    [] operation = "archive" -> "retired"

From(operation) ==
  CASE operation = "ban" -> {"active", "pending", "quarantined", "expired", "disabled"}
    [] operation = "unban" -> {"banned"}
    [] operation = "quarantine" -> {"active", "pending"}
    [] operation = "unquarantine" -> {"quarantined"}
    [] operation = "expire" -> {"active", "pending", "quarantined"}
    [] operation = "disable" -> {"pending", "active", "expired", "banned", "quarantined"}
    [] operation = "enable" -> {"disabled"}
    [] operation = "archive" -> {"pending", "active", "expired", "banned", "quarantined", "disabled"}
    [] operation = "restore" -> {"retired"}
    [] operation = "activate" -> {"pending"}

\* OperateIdentities reads the rows and then the clock, once.
Operate(c, operation) ==
  /\ call[c].pc = "idle" /\ calls < MaxCalls /\ calls' = calls + 1
  /\ row.st \in From(operation)
  /\ call' = [call EXCEPT ![c] = [Idle EXCEPT !.pc = "commit", !.at = now, !.to = operation]]
  /\ UNCHANGED <<now, hot, row, queue, pass, retry, overflow, prev, released, auto, faults, histVars>>

\* ActionTransitionIdentities: guarded by the states, not by the time.
Commit(c) ==
  LET to == Target(call[c].to)
      r == Record(to, Until(to, call[c].at), call[c].at)
  IN /\ call[c].pc = "commit" /\ row.st \in From(call[c].to)
     /\ row' = r
     /\ crossed' = (crossed \/ r.at <= Max2(hot.at, row.at))
     /\ call' = [call EXCEPT ![c] = [@ EXCEPT !.pc = "set", !.to = to]]
     /\ UNCHANGED <<now, hot, queue, pass, retry, overflow, prev, released, auto, calls, faults, stale, lost, missed>>

\* FailureStateChanged.
CommitNothing(c) ==
  /\ call[c].pc = "commit" /\ row.st \notin From(call[c].to)
  /\ call' = [call EXCEPT ![c] = Idle]
  /\ UNCHANGED <<now, hot, row, queue, pass, retry, overflow, prev, released, auto, calls, faults, histVars>>

\* RevertActions reads the clock ...
Revert(c) ==
  /\ Reverts /\ call[c].pc = "idle" /\ calls < MaxCalls /\ calls' = calls + 1
  /\ call' = [call EXCEPT ![c] = [Idle EXCEPT !.pc = "revert", !.at = now]]
  /\ UNCHANGED <<now, hot, row, queue, pass, retry, overflow, prev, released, auto, faults, histVars>>

\* ... and moves the identity back that is still in the state, and at the
\* change, of an automatic event.  The query for the event has the condition of
\* the update, which decides; its time range and rule may select any event.
RevertCommit(c) ==
  LET r == Record("pending", 0, call[c].at)
  IN /\ call[c].pc = "revert"
     /\ \E e \in auto : row.st = e.st /\ row.at <= e.at
     /\ row' = r
     /\ crossed' = (crossed \/ r.at <= Max2(hot.at, row.at))
     /\ call' = [call EXCEPT ![c] = [@ EXCEPT !.pc = "set", !.to = "pending"]]
     /\ UNCHANGED <<now, hot, queue, pass, retry, overflow, prev, released, auto, calls, faults, stale, lost, missed>>

\* No event matched, or the identity has changed since it was found.
RevertNothing(c) ==
  /\ call[c].pc = "revert"
  /\ call' = [call EXCEPT ![c] = Idle]
  /\ UNCHANGED <<now, hot, row, queue, pass, retry, overflow, prev, released, auto, calls, faults, histVars>>

\* Mutant: the push ends with the script.
SetHotOnly(c) ==
  /\ call[c].pc = "set"
  /\ hot' = Set(hot, call[c].to, call[c].at)
  /\ call' = [call EXCEPT ![c] = Idle]
  /\ UNCHANGED <<now, row, queue, pass, retry, overflow, prev, released, auto, calls, faults, histVars>>

\* pushTransitions: the script, whose failure is only logged ...
SetHot(c) ==
  /\ call[c].pc = "set"
  /\ \/ hot' = Set(hot, call[c].to, call[c].at) /\ UNCHANGED faults
     \/ UNCHANGED hot /\ Fault
  /\ call' = [call EXCEPT ![c] = [Idle EXCEPT !.pc = "read", !.to = "push"]]
  /\ UNCHANGED <<now, row, queue, pass, retry, overflow, prev, released, auto, calls, histVars>>

\* An edit of the attributes, which keeps the state, begins with the
\* synchronization.
Edit(c) ==
  /\ call[c].pc = "idle" /\ calls < MaxCalls /\ calls' = calls + 1
  /\ call' = [call EXCEPT ![c] = [Idle EXCEPT !.pc = "read"]]
  /\ UNCHANGED <<now, hot, row, queue, pass, retry, overflow, prev, released, auto, faults, histVars>>

\* A new payload, of a request or an import: the clock is read ...
NewPayload(c) ==
  /\ call[c].pc = "idle" /\ calls < MaxCalls /\ calls' = calls + 1
  /\ call' = [call EXCEPT ![c] = [Idle EXCEPT !.pc = "payload", !.at = now]]
  /\ UNCHANGED <<now, hot, row, queue, pass, retry, overflow, prev, released, auto, faults, histVars>>

\* stateAfterPayloadUpdate
Revalidated(st) == IF st \in {"active", "pending", "quarantined", "expired"} THEN Activation ELSE st

\* ... and applyPayloadChange commits the state with the payload, under the
\* lock of the row.  Only a synchronization follows.
StorePayload(c) ==
  LET to == Revalidated(row.st)
  IN /\ call[c].pc = "payload"
     /\ IF to # row.st
        THEN /\ row' = Record(to, 0, call[c].at)
             /\ crossed' = (crossed \/ call[c].at <= Max2(hot.at, row.at))
             /\ call' = [call EXCEPT ![c] = [Idle EXCEPT !.pc = "read", !.to = "push"]]
        ELSE /\ call' = [call EXCEPT ![c] = [Idle EXCEPT !.pc = "read"]]
             /\ UNCHANGED <<row, crossed>>
     /\ UNCHANGED <<now, hot, queue, pass, retry, overflow, prev, released, auto, calls, faults, stale, lost, missed>>

\* SyncIdentities: the rows are read ...
ReadRow(c) ==
  /\ call[c].pc = "read"
  /\ call' = [call EXCEPT ![c] = [@ EXCEPT !.pc = "sync", !.copy = row]]
  /\ UNCHANGED <<now, hot, row, queue, pass, retry, overflow, prev, released, auto, calls, faults, histVars>>

\* The copy crosses the line between archived and not: what the script does
\* then, removing the hash or writing one anew, compares no times.
Stale(copy) == (copy.st = "retired") # (row.st = "retired")

\* ... and the script applies them.
SyncHot(c) ==
  /\ call[c].pc = "sync"
  /\ hot' = Synced(hot, call[c].copy)
  /\ stale' = (stale \/ Stale(call[c].copy))
  /\ call' = [call EXCEPT ![c] = Idle]
  /\ UNCHANGED <<now, row, queue, pass, retry, overflow, prev, released, auto, calls, faults, crossed, lost, missed>>

\* Nobody repeats a synchronization that failed, of an operator or a payload.
SyncFails(c) ==
  /\ call[c].pc \in {"read", "sync"} /\ Fault
  /\ lost' = (lost \/ call[c].to = "push")
  /\ call' = [call EXCEPT ![c] = Idle]
  /\ UNCHANGED <<now, hot, row, queue, pass, retry, overflow, prev, released, auto, calls, crossed, stale, missed>>

-----------------------------------------------------------------------------
(* The expiry job: one pass after another, on one instance at a time.      *)

\* Where a pass goes when its catch-up is over.
Retries(p, again) == [p EXCEPT !.pc = IF again THEN "read" ELSE "due",
                               !.to = IF again THEN "retry" ELSE "", !.copy = Gone]

\* Mutant: every catch-up looks back from the pass.
CatchUpFromPass(at) == IF prev = 0 \/ overflow > 0 THEN at ELSE at + 1

\* catchUpSince: how far back a pass at a time looks for releases, if it does
\* (not after its own time): on the first pass of an instance, after missed
\* passes and after an overflow.
CatchUpSince(at) ==
  LET since == IF prev = 0 THEN at - Window
               ELSE IF at - prev > Gap THEN prev - Timeout
               ELSE at + 1
      from == IF overflow > 0 /\ overflow < since THEN overflow - Timeout ELSE since
  IN Max2(from, at - Window)

\* RunExpiry reads the clock (a pass that finds Redis down does nothing) and
\* forgets the overflow.
Pass ==
  LET since == CatchUpSince(now)
  IN /\ pass.pc = "idle"
     /\ pass' = IF since <= now THEN [Idle EXCEPT !.pc = "catchup", !.at = now, !.since = since]
                ELSE Retries([Idle EXCEPT !.at = now], retry)
     /\ prev' = now /\ overflow' = 0
     /\ UNCHANGED <<now, hot, row, queue, call, retry, released, auto, calls, faults, histVars>>

\* catchUpExpiry: the releases recorded since then are synchronized.
CatchUp ==
  LET recent == released >= pass.since
      p == [pass EXCEPT !.since = 0]
  IN /\ pass.pc = "catchup"
     /\ pass' = IF released > 0 /\ recent THEN [p EXCEPT !.pc = "read", !.to = "catchup"]
                ELSE Retries(p, retry)
     /\ missed' = IF released < pass.at - Window THEN released ELSE missed
     /\ UNCHANGED <<now, hot, row, queue, call, retry, overflow, prev, released, auto, calls, faults, crossed, stale, lost>>

\* Its query fails: the pass goes on, and no later one catches up.
CatchUpFails ==
  /\ pass.pc = "catchup" /\ Fault
  /\ pass' = Retries([pass EXCEPT !.since = 0], retry)
  /\ missed' = released
  /\ UNCHANGED <<now, hot, row, queue, call, retry, overflow, prev, released, auto, calls, crossed, stale, lost>>

PassReads ==
  /\ pass.pc = "read"
  /\ pass' = [pass EXCEPT !.pc = "sync", !.copy = row]
  /\ UNCHANGED <<now, hot, row, queue, call, retry, overflow, prev, released, auto, calls, faults, histVars>>

\* Where a pass goes after a synchronization.
Onward(again) ==
  pass' = CASE pass.to = "catchup" -> Retries(pass, again)
            [] pass.to = "retry" -> Retries(pass, FALSE)
            [] pass.to \in {"release", "unset"} -> Idle

\* hotRetry.add: a full set notes the time of the pass instead, the first time.
\* The catch-up it leads to looks back from there, and not to an older release.
AddRetry ==
  \/ retry' = TRUE /\ UNCHANGED <<overflow, missed>>
  \/ /\ ~retry /\ overflow' = (IF overflow = 0 THEN pass.at ELSE overflow)
     /\ missed' = IF released < overflow' - Timeout THEN released ELSE missed
     /\ UNCHANGED retry

\* A synchronization of the retry set forgets what it synchronized; a release
\* whose script failed is remembered all the same.
PassSyncs ==
  /\ pass.pc = "sync"
  /\ hot' = Synced(hot, pass.copy)
  /\ stale' = (stale \/ Stale(pass.copy))
  /\ CASE pass.to = "retry" -> retry' = FALSE /\ UNCHANGED <<overflow, missed>>
       [] pass.to = "unset" -> AddRetry
       [] pass.to \in {"catchup", "release"} -> UNCHANGED <<retry, overflow, missed>>
  /\ Onward(retry')
  /\ UNCHANGED <<now, row, queue, call, prev, released, auto, calls, faults, crossed, lost>>

\* A synchronization that fails is remembered, or stays remembered.  The outage
\* that failed the script may last.
PassSyncFails ==
  /\ pass.pc \in {"read", "sync"}
  /\ Fault \/ (pass.to = "unset" /\ UNCHANGED faults)
  /\ IF pass.to = "retry" THEN UNCHANGED <<retry, overflow, missed>> ELSE AddRetry
  /\ Onward(retry')
  /\ UNCHANGED <<now, hot, row, queue, call, prev, released, auto, calls, crossed, stale, lost>>

Due(at) == row.st \in {"banned", "quarantined"} /\ row.until >= 0 /\ row.until <= at

\* releaseBans, expireQuarantines: the row and the event in one transaction.
Release(to) ==
  /\ pass.pc = "due" /\ Due(pass.at)
  /\ row.st = "quarantined" => to = "pending"
  /\ row' = Record(to, 0, pass.at) /\ released' = pass.at
  /\ crossed' = (crossed \/ pass.at <= Max2(hot.at, row.at))
  /\ pass' = [pass EXCEPT !.pc = "set", !.to = to]
  /\ UNCHANGED <<now, hot, queue, call, retry, overflow, prev, auto, calls, faults, stale, lost, missed>>

NothingDue ==
  /\ pass.pc = "due" /\ ~Due(pass.at) /\ pass' = Idle
  /\ UNCHANGED <<now, hot, row, queue, call, retry, overflow, prev, released, auto, calls, faults, histVars>>

\* pushExpired: the script of pushTransitions.
PassSets ==
  /\ pass.pc = "set"
  /\ \/ /\ hot' = Set(hot, pass.to, pass.at)
        /\ pass' = [pass EXCEPT !.pc = "read", !.to = "release"] /\ UNCHANGED faults
     \/ /\ Fault /\ UNCHANGED hot
        /\ pass' = [pass EXCEPT !.pc = "read", !.to = "unset"]
  /\ UNCHANGED <<now, row, queue, call, retry, overflow, prev, released, auto, calls, histVars>>

-----------------------------------------------------------------------------
\* The process ends: its queue, its calls and its retry set are gone, and the
\* next leader starts afresh.
Crash ==
  /\ Fault
  /\ queue' = <<>> /\ call' = [c \in Calls |-> Idle] /\ pass' = Idle
  /\ retry' = FALSE /\ overflow' = 0 /\ prev' = 0
  /\ lost' = (lost \/ queue # <<>>
                   \/ \E c \in Calls : call[c].pc \in {"enqueue", "set"} \/ call[c].to = "push")
  /\ UNCHANGED <<now, hot, row, released, auto, calls, crossed, stale, missed>>

Tick ==
  /\ now < MaxTime /\ now' = now + 1
  /\ UNCHANGED <<hot, row, queue, call, pass, retry, overflow, prev, released, auto, calls, faults, histVars>>

Call(c) ==
  \/ \E a \in Actions : Report(c, a)
  \/ \E o \in Operations : Operate(c, o)
  \/ Apply(c) \/ Skip(c) \/ Enqueue(c) \/ Commit(c) \/ CommitNothing(c)
  \/ Revert(c) \/ RevertCommit(c) \/ RevertNothing(c)
  \/ SetHot(c) \/ Edit(c) \/ NewPayload(c) \/ StorePayload(c)
  \/ ReadRow(c) \/ SyncHot(c) \/ SyncFails(c)

Expiry ==
  \/ Pass \/ CatchUp \/ CatchUpFails \/ PassReads \/ PassSyncs \/ PassSyncFails
  \/ (\E to \in {"pending", "active"} : Release(to)) \/ NothingDue \/ PassSets

Next ==
  \/ \E c \in Calls : Call(c)
  \/ \E n \in 1..Len(queue) : Flush(n)
  \/ Expiry \/ Crash \/ Tick

Spec == Init /\ [][Next]_vars

\* The expiry job runs pass after pass; nothing else is needed.
FairSpec == Spec /\ WF_vars(Expiry)

-----------------------------------------------------------------------------
Records == [st : States \cup {"none"}, until : -1..(MaxTime + BanFor), at : 0..now]

\* The variables have the types of the fields they stand for, and no change
\* is stamped with a time to come.
TypeOK ==
  /\ now \in 1..MaxTime /\ hot \in Records /\ row \in Records /\ row.st # "none"
  /\ queue \in Seq(Records)
  /\ \A p \in {pass} \cup {call[c] : c \in Calls} : p.at \in 0..now /\ p.copy \in Records
  /\ {retry, crossed, stale, lost} \subseteq BOOLEAN
  /\ {overflow, prev, missed} \subseteq 0..now /\ pass.since \in (1 - Window)..now
  /\ auto \subseteq [st : Revertible, at : 0..now]
  /\ released \in 0..now /\ calls \in 0..MaxCalls /\ faults \in 0..MaxFaults

Quiet ==
  /\ \A c \in Calls : call[c].pc = "idle"
  /\ pass.pc = "idle" /\ ~retry /\ overflow = 0 /\ prev > 0 /\ ~Due(now)
  /\ queue = <<>>

\* The last release is out of the reach of the catch-ups.
Missed == released > 0 /\ missed = released

\* When nobody is at work, the scheduler and the console agree on the
\* identity: provided changes took effect in the order of their times and
\* none on an archived identity, no synchronization straddled an archive or a
\* restore, and no change lost its way (a synchronization of an operator or a
\* payload that failed, a change that left the queue unwritten, a release no
\* catch-up reached).
Agreed ==
  Quiet /\ ~crossed /\ ~stale /\ ~lost /\ ~Missed =>
    hot = IF row.st = "retired" THEN Gone ELSE row

\* An automatic ban in force is never reverted by an older row, nor any other
\* state in force by an older one (sync_identities.lua 11-19).
HotForward ==
  [][ \/ hot' = hot \/ hot'.at > hot.at \/ "none" \in {hot.st, hot'.st}
      \/ hot.st \in {"banned", "quarantined"} /\ hot.until \in 0..now
      \/ crossed' ]_vars

\* An archived identity stays archived until an operator restores it
\* (documents/en/06-identities.md 1049-1051).
RetiredUntilRestored ==
  [][ row.st = "retired" => row'.st = "retired" \/ \E c \in Calls : Commit(c) ]_vars

\* A release the expiry job committed never stays invisible to the scheduler,
\* whichever push fails or instance ends, unless the catch-up that was to
\* deliver it could not find it (expiry.go 44-54, hotretry.go 223-246).
ReleaseVisible == []<>(hot.at >= released \/ hot.st = "none" \/ crossed \/ stale \/ Missed)
=============================================================================
