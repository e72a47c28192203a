------------------------------ MODULE Catalog ------------------------------
(***************************************************************************)
(* The catalog store (internal/catalog): every instance keeps a snapshot   *)
(* of each namespace in memory and reloads it from PostgreSQL              *)
(*   - when it changed the namespace itself (Invalidate),                  *)
(*   - when a peer's invalidation event arrives (debounced),               *)
(*   - when the shared change mark in Redis is ahead of the mark its last  *)
(*     load observed (Sync, run before admin requests), and                *)
(*   - periodically, all namespaces (ReloadAll).                           *)
(* The loads of a namespace are serialized and coalesced into flights: one *)
(* runs, and one more is queued that all later requests share.             *)
(*                                                                         *)
(* One namespace is modelled; a snapshot is the version of the rows it was *)
(* built from.  The first change creates the namespace and the last one,   *)
(* numbered MaxVersion, deletes it.  The fingerprint that saves a rebuild  *)
(* of equal rows and the bound on concurrent loads only cost or save time. *)
(* Instances meet only in PostgreSQL, in the mark and on the bus: besides  *)
(* the instances modelled in full there is a Peer that is modelled by what *)
(* it does there.                                                          *)
(***************************************************************************)
EXTENDS Integers, FiniteSets, Sequences

CONSTANTS Instances,
          Peer,         \* the other instances
          Callers,      \* goroutines calling Invalidate and Sync
          Remote,       \* the ones of the Peer, calling Invalidate
          QueueSize,    \* eventQueueSize
          MaxVersion,   \* changes committed, the last one deletes
          MaxSyncs,     \* bound on the calls of Sync
          MaxFaults,    \* bound on failures
          Pruners,      \* bound: who stays up long enough to prune marks
          OtherDrops,   \* bound: whether another namespace's event finds the queue full
          Full          \* the waiter that is the instance's full reload

ASSUME CatalogAssumption ==
  /\ QueueSize \in Nat \ {0} /\ MaxVersion \in Nat \ {0, 1}
  /\ MaxSyncs \in Nat /\ MaxFaults \in Nat
  /\ Pruners \subseteq Instances \cup {Peer} /\ OtherDrops \in BOOLEAN
  /\ Full \notin Callers \cup Remote /\ Peer \notin Instances /\ Callers \cap Remote = {}

VARIABLES
  db,         \* the changes committed to PostgreSQL
  mark,       \* the namespace's mark in P:catv, 0 none
  snap,       \* per instance: the version its index holds
  applied,    \* per instance: the mark recorded by its last load
  load,       \* per instance: the flight that runs: where it is, what it read
  riders,     \* per instance: who waits for the flight that runs
  next,       \* per instance: a flight is queued
  waiters,    \* per instance: who waits for the queued one
  call,       \* per caller: where it is
  syncs,      \* the calls of Sync
  full,       \* per instance: where its full reload is
  loaded,     \* per instance: a full reload succeeded
  bus,        \* per instance: invalidations of the namespace on their way to it
  queue,      \* per instance: invalidations received, ours or another namespace's
  dropping,   \* per instance: its handler found the queue full
  overflow,   \* per instance: an invalidation was dropped
  due,        \* per instance: a debounced reload is due
  stray,      \* per instance: a full reload passed over a deleted namespace that a
              \* load had read and was about to add
  faults,
  bumps,      \* the version of PostgreSQL at every mark
  pruned,     \* the mark was deleted
  lost        \* an invalidation or a reload was lost to a failure

store == <<snap, applied, load, riders, next, waiters>>
inbox == <<bus, queue, dropping, due>>
loop == <<full, loaded, inbox, overflow, stray>>
shared == <<db, mark, bumps, pruned>>
vars == <<shared, store, loop, call, syncs, faults, lost>>

Exists(v) == v \in 1..(MaxVersion - 1)

NoLoad == [pc |-> "idle", mark |-> 0, ver |-> 0]
Idle == [pc |-> "idle", kind |-> "", at |-> 0, need |-> 0, seen |-> 0]

\* The namespace was created.  An instance has loaded it, or was (re)started:
\* its index is empty and Run begins with a full reload.
Init ==
  /\ db = 1 /\ mark = 1 /\ bumps = <<1>> /\ pruned = FALSE
  /\ loaded \in [Instances -> BOOLEAN]
  /\ snap = [i \in Instances |-> IF loaded[i] THEN 1 ELSE 0] /\ applied = snap
  /\ full = [i \in Instances |-> IF loaded[i] THEN "idle" ELSE "list"]
  /\ load = [i \in Instances |-> NoLoad] /\ next = [i \in Instances |-> FALSE]
  /\ riders = [i \in Instances |-> {}] /\ waiters = [i \in Instances |-> {}]
  /\ call = [c \in Callers \cup Remote |-> Idle]
  /\ bus = [i \in Instances |-> 0] /\ queue = [i \in Instances |-> <<>>]
  /\ dropping = [i \in Instances |-> FALSE] /\ overflow = [i \in Instances |-> FALSE]
  /\ due = [i \in Instances |-> FALSE] /\ stray = [i \in Instances |-> FALSE]
  /\ syncs = 0 /\ faults = 0 /\ lost = FALSE

Fault == faults < MaxFaults /\ faults' = faults + 1

-----------------------------------------------------------------------------
(* Flights.                                                                *)

\* Mutant: a request joins the load that runs.
RequestJoins(i, who) ==
  /\ load' = [load EXCEPT ![i].pc = IF @ = "idle" THEN "observe" ELSE @]
  /\ riders' = [riders EXCEPT ![i] = @ \cup who]
  /\ UNCHANGED <<snap, applied, next, waiters>>

\* request: a load that starts after the call.  While one runs, every request
\* shares the queued one.
Request(i, who) ==
  /\ IF load[i].pc = "idle"
       THEN /\ load' = [load EXCEPT ![i].pc = "observe"]
            /\ riders' = [riders EXCEPT ![i] = who]
            /\ UNCHANGED <<next, waiters>>
       ELSE /\ next' = [next EXCEPT ![i] = TRUE]
            /\ waiters' = [waiters EXCEPT ![i] = @ \cup who]
            /\ UNCHANGED <<load, riders>>
  /\ UNCHANGED <<snap, applied>>

\* load: the mark is observed before PostgreSQL is read; -1 when it cannot be.
Observe(i) ==
  /\ load[i].pc = "observe"
  /\ \/ load' = [load EXCEPT ![i].pc = "read", ![i].mark = mark] /\ UNCHANGED faults
     \/ load' = [load EXCEPT ![i].pc = "read", ![i].mark = -1] /\ Fault
  /\ UNCHANGED <<shared, snap, applied, riders, next, waiters, loop, call, syncs, lost>>

\* loadRaw: one REPEATABLE READ snapshot.
Read(i) ==
  /\ load[i].pc = "read"
  /\ load' = [load EXCEPT ![i].pc = "swap", ![i].ver = db]
  /\ UNCHANGED <<shared, snap, applied, riders, next, waiters, loop, call, syncs, faults, lost>>

\* Mutant: the flag is cleared although a full reload already runs.
AfterOverflowOnce(i, may) ==
  /\ overflow' = [overflow EXCEPT ![i] = FALSE]
  /\ full' = [full EXCEPT ![i] = IF @ = "idle" /\ (overflow[i] \/ may) THEN "list" ELSE @]

\* fullAfterOverflow, then startFull when may: the flag is kept while a full
\* reload runs.
AfterOverflow(i, may) ==
  /\ overflow' = [overflow EXCEPT ![i] = @ /\ full[i] # "idle"]
  /\ full' = [full EXCEPT ![i] = IF @ = "idle" /\ (overflow[i] \/ may) THEN "list" ELSE @]

\* The end of a full reload and onFullDone: invalidations dropped meanwhile
\* start another, as does a failure while nothing was loaded (after a backoff).
FullEnds(i) ==
  /\ overflow' = [overflow EXCEPT ![i] = FALSE]
  /\ full' = [full EXCEPT ![i] = IF overflow[i] \/ ~loaded'[i] THEN "list" ELSE "idle"]

\* What a caller does with the outcome of the load it waited for.
Woken(k, ok) ==
  IF k.kind = "change" THEN [k EXCEPT !.pc = "publish", !.seen = IF ok THEN 1 ELSE 0]
  ELSE IF ok THEN [k EXCEPT !.pc = "ok"] ELSE Idle

\* The end of runFlights' iteration: the waiters learn the outcome, the queued
\* flight becomes the one that runs.
Finish(i, ok) ==
  /\ call' = [c \in Callers \cup Remote |-> IF c \in riders[i] THEN Woken(call[c], ok) ELSE call[c]]
  /\ loaded' = [loaded EXCEPT ![i] = @ \/ (Full \in riders[i] /\ ok)]
  /\ IF Full \in riders[i] THEN FullEnds(i) ELSE UNCHANGED <<full, overflow>>
  /\ load' = [load EXCEPT ![i] = IF next[i] THEN [NoLoad EXCEPT !.pc = "observe"] ELSE NoLoad]
  /\ riders' = [riders EXCEPT ![i] = waiters[i]]
  /\ next' = [next EXCEPT ![i] = FALSE] /\ waiters' = [waiters EXCEPT ![i] = {}]
  /\ UNCHANGED <<shared, inbox, stray, syncs>>

\* The snapshot is swapped in, or removed, and the mark recorded, in one
\* critical section.
Swap(i) ==
  /\ load[i].pc = "swap"
  /\ snap' = [snap EXCEPT ![i] = load[i].ver]
  /\ applied' = [applied EXCEPT ![i] = IF load[i].mark > @ THEN load[i].mark ELSE @]
  /\ Finish(i, TRUE)
  /\ UNCHANGED <<faults, lost>>

\* Nothing repeats a load that failed.
ReadFails(i) ==
  /\ load[i].pc = "read" /\ Fault /\ lost' = TRUE
  /\ Finish(i, FALSE)
  /\ UNCHANGED <<snap, applied>>

-----------------------------------------------------------------------------
(* Callers.                                                                *)

\* Returned, with success ("ok") or not.
Ready(c) == call[c].pc \in {"idle", "ok"}

\* An admin operation on instance i commits a change ...
Change(c, i) ==
  /\ Ready(c) /\ db < MaxVersion
  /\ db' = db + 1
  /\ call' = [call EXCEPT ![c] = [Idle EXCEPT !.pc = "bump", !.kind = "change", !.at = i]]
  /\ UNCHANGED <<mark, bumps, pruned, store, loop, syncs, faults, lost>>

\* Reload: waits for a load that starts now (Sync does the same).
Ask(c, i, need) ==
  /\ Request(i, {c})
  /\ call' = [call EXCEPT ![c].pc = "wait", ![c].need = need, ![c].seen = 0]

\* ... and calls Invalidate: bumpMark, at best effort, and Reload (which is not
\* modelled for the Peer) ...
Bump(c) ==
  /\ call[c].pc = "bump"
  /\ \/ mark' = mark + 1 /\ bumps' = Append(bumps, db) /\ UNCHANGED faults
     \/ Fault /\ UNCHANGED <<mark, bumps>>
  /\ IF call[c].at = Peer THEN call' = [call EXCEPT ![c].pc = "publish"] /\ UNCHANGED store
     ELSE Ask(c, call[c].at, db)
  /\ UNCHANGED <<db, pruned, loop, syncs, lost>>

\* wait returns when the context ends; the load goes on.  Invalidate then
\* publishes with a context that has ended, which fails.
GiveUp(c) ==
  /\ call[c].pc = "wait" /\ Fault
  /\ lost' = (lost \/ call[c].kind = "change")
  /\ call' = [call EXCEPT ![c] = Idle]
  /\ riders' = [i \in Instances |-> riders[i] \ {c}]
  /\ waiters' = [i \in Instances |-> waiters[i] \ {c}]
  /\ UNCHANGED <<shared, snap, applied, load, next, loop, syncs>>

\* ... and the invalidation is published, whether the reload succeeded or not:
\* the bus carries it to every other instance.  Pub/Sub may lose it.
Publish(c) ==
  /\ call[c].pc = "publish"
  /\ \/ /\ bus' = [i \in Instances |-> IF i = call[c].at THEN bus[i] ELSE bus[i] + 1]
        /\ UNCHANGED <<faults, lost>>
     \/ Fault /\ lost' = TRUE /\ UNCHANGED bus
  /\ call' = [call EXCEPT ![c] = IF call[c].seen = 1 THEN [@ EXCEPT !.pc = "ok", !.seen = 0] ELSE Idle]
  /\ UNCHANGED <<shared, store, full, loaded, queue, dropping, overflow, due, stray, syncs>>

Marked == IF bumps = <<>> THEN 0 ELSE bumps[Len(bumps)]

\* Sync: the marks are read ...
Sync(c, i) ==
  /\ Ready(c) /\ syncs < MaxSyncs /\ syncs' = syncs + 1
  /\ call' = [call EXCEPT ![c] = [Idle EXCEPT !.pc = "compare", !.kind = "sync", !.at = i,
                                              !.need = Marked, !.seen = mark]]
  /\ UNCHANGED <<shared, store, loop, faults, lost>>

\* ... and compared with what this instance's loads observed.
Compare(c) ==
  /\ call[c].pc = "compare"
  /\ IF call[c].seen > applied[call[c].at] THEN Ask(c, call[c].at, call[c].need)
     ELSE call' = [call EXCEPT ![c].pc = "ok", ![c].seen = 0] /\ UNCHANGED store
  /\ UNCHANGED <<shared, loop, syncs, faults, lost>>

-----------------------------------------------------------------------------
(* The Run loop.                                                           *)

\* onEvent, called by the bus for one event at a time: it queues the namespace
\* without blocking ...
Handle(i, ns) ==
  /\ ~dropping[i]
  /\ IF Len(queue[i]) < QueueSize
       THEN queue' = [queue EXCEPT ![i] = Append(@, ns)] /\ UNCHANGED dropping
       ELSE dropping' = [dropping EXCEPT ![i] = TRUE] /\ UNCHANGED queue
  /\ UNCHANGED <<shared, store, full, loaded, overflow, due, stray, call, syncs, faults, lost>>

OnEvent(i) == bus[i] > 0 /\ bus' = [bus EXCEPT ![i] = @ - 1] /\ Handle(i, "ours")

\* (of another namespace; dropped, it brings on a full reload, as Ticker may)
OnOther(i) ==
  /\ Len(queue[i]) < QueueSize \/ OtherDrops
  /\ UNCHANGED bus /\ Handle(i, "other")

\* ... or, in a step of its own, notes that it dropped it.
SetOverflow(i) ==
  /\ dropping[i] /\ dropping' = [dropping EXCEPT ![i] = FALSE]
  /\ overflow' = [overflow EXCEPT ![i] = TRUE]
  /\ UNCHANGED <<shared, store, full, loaded, bus, queue, due, stray, call, syncs, faults, lost>>

\* schedule.
Take(i) ==
  /\ queue[i] # <<>>
  /\ queue' = [queue EXCEPT ![i] = Tail(@)]
  /\ due' = [due EXCEPT ![i] = @ \/ Head(queue[i]) = "ours"]
  /\ AfterOverflow(i, FALSE)
  /\ UNCHANGED <<shared, store, loaded, bus, dropping, stray, call, syncs, faults, lost>>

\* fireDue, reloadAsync.
FireDue(i) ==
  /\ due[i] /\ due' = [due EXCEPT ![i] = FALSE]
  /\ Request(i, {})
  /\ UNCHANGED <<shared, full, loaded, bus, queue, dropping, overflow, stray, call, syncs, faults, lost>>

Ticker(i) ==
  /\ AfterOverflow(i, TRUE)
  /\ UNCHANGED <<shared, store, loaded, inbox, stray, call, syncs, faults, lost>>

-----------------------------------------------------------------------------
(* ReloadAll.                                                              *)

\* Mutant: only the namespaces listed are reloaded.
TargetListed(i) == Exists(db)

\* The namespaces listed and the ones held are reloaded.
Target(i) == Exists(db) \/ Exists(snap[i])

\* The namespaces are listed and every target is requested; with none of them
\* the reload has succeeded.  A namespace deleted while its first load is under
\* way is neither listed nor held, and that load still adds it.
FullList(i) ==
  /\ full[i] = "list"
  /\ IF Target(i)
       THEN /\ full' = [full EXCEPT ![i] = "wait"]
            /\ Request(i, {Full}) /\ UNCHANGED <<loaded, overflow>>
       ELSE /\ loaded' = [loaded EXCEPT ![i] = TRUE]
            /\ FullEnds(i) /\ UNCHANGED store
  /\ stray' = [stray EXCEPT ![i] = @ \/ (~Target(i) /\ load[i].pc = "swap" /\ Exists(load[i].ver))]
  /\ UNCHANGED <<shared, inbox, call, syncs, faults, lost>>

FullListFails(i) ==
  /\ full[i] = "list" /\ Fault /\ lost' = TRUE
  /\ UNCHANGED loaded /\ FullEnds(i)
  /\ UNCHANGED <<shared, store, inbox, stray, call, syncs>>

\* pruneMarks, after two full reloads in a row that missed a namespace still
\* marked: its mark is deleted, here and then in Redis.
Prune(i) ==
  /\ db = MaxVersion /\ mark > 0
  /\ i # Peer => loaded[i] /\ ~Exists(snap[i])
  /\ applied' = [j \in Instances |-> IF j = i THEN 0 ELSE applied[j]]
  /\ mark' = 0 /\ bumps' = <<>> /\ pruned' = TRUE
  /\ UNCHANGED <<db, snap, load, riders, next, waiters, loop, call, syncs, faults, lost>>

-----------------------------------------------------------------------------
Caller(c) == Bump(c) \/ Publish(c) \/ Compare(c)

Loading(i) == Observe(i) \/ Read(i) \/ Swap(i)

Next ==
  \/ \E c \in Callers, i \in Instances : Change(c, i) \/ Sync(c, i)
  \/ \E c \in Remote : Change(c, Peer)
  \/ \E c \in Callers \cup Remote : Caller(c) \/ GiveUp(c)
  \/ \E i \in Pruners : Prune(i)
  \/ \E i \in Instances : Loading(i) \/ ReadFails(i) \/ FullList(i) \/ FullListFails(i)
       \/ OnEvent(i) \/ OnOther(i) \/ SetOverflow(i) \/ Take(i) \/ FireDue(i) \/ Ticker(i)

Spec == Init /\ [][Next]_vars

\* Goroutines go on, and the loop's select takes every case that stays ready;
\* the periodic reload is left out.
FairSpec ==
  /\ Spec
  /\ \A c \in Callers \cup Remote : WF_vars(Caller(c))
  /\ \A i \in Instances :
       WF_vars(Loading(i)) /\ WF_vars(FullList(i))
       /\ WF_vars(OnEvent(i) \/ SetOverflow(i))
       /\ WF_vars(Take(i)) /\ WF_vars(FireDue(i))

-----------------------------------------------------------------------------
\* The variables have the types of the fields they stand for, and whoever
\* waits for a flight waits for one.
TypeOK ==
  /\ db \in 0..MaxVersion /\ mark \in Nat /\ Len(bumps) = mark
  /\ \A i \in Instances :
       /\ snap[i] \in 0..db /\ applied[i] \in Nat /\ Len(queue[i]) <= QueueSize
       /\ load[i].pc = "idle" => ~next[i] /\ riders[i] = {}
       /\ ~next[i] => waiters[i] = {}
       /\ {c \in Callers : call[c].pc = "wait" /\ call[c].at = i} = (riders[i] \cup waiters[i]) \ {Full}
       /\ full[i] = "wait" <=> Full \in riders[i] \cup waiters[i]

\* Instance i shows the change numbered v, or a later one.
Shows(i, v) == snap[i] >= v \/ (v = MaxVersion /\ ~Exists(snap[i]))

\* Whoever invalidated a namespace sees every change committed
\* before the call, and whoever synchronized sees every change marked before
\* the call by any instance (store.go 56-58, marks.go 24-25).
ReadYourWrites ==
  \A c \in Callers : call[c].pc = "ok" /\ (call[c].kind = "sync" => ~pruned) => Shows(call[c].at, call[c].need)

\* A recorded mark is never ahead of the snapshot: what it stands for is in
\* the index (store.go 334-335).
MarkHonest ==
  ~pruned => \A i \in Instances : applied[i] > 0 => applied[i] <= mark /\ snap[i] >= bumps[applied[i]]

Same(v, w) == v = w \/ (~Exists(v) /\ ~Exists(w))
Fresh(i) == Same(snap[i], db)

\* Events alone, and the full reload after an overflow or a restart, bring an
\* instance up to date for good, unless an invalidation or a reload was lost to
\* a failure, a full reload passed over the namespace as a load was adding it,
\* or the overflow flag still waits for the next event, result or tick.
EventsSuffice ==
  \A i \in Instances : <>[](Fresh(i) \/ lost \/ stray[i] \/ overflow[i])

\* With the periodic reload every instance is up to date in the end, whatever
\* was lost.
Converges == (\A i \in Instances : WF_vars(Ticker(i))) => \A i \in Instances : <>[]Fresh(i)
=============================================================================
