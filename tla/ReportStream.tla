---------------------------- MODULE ReportStream ----------------------------
(***************************************************************************)
(* One shard of the report pipeline: a report is de-duplicated and         *)
(* appended to the shard's stream (signal/lua/ingest.lua), read through    *)
(* the consumer group by the worker that holds the shard's owner lock      *)
(* (worker/ownership.go, worker/consumer.go), applied to the hot state     *)
(* under the site's checkpoint (worker/lua/observe.lua, worker/process.go) *)
(* and acknowledged.                                                       *)
(*                                                                         *)
(* Stream ids are positions of log. All reports are of one site, so there  *)
(* is one checkpoint. A report is "leased" (lease and group are known),    *)
(* "gone" (only counted) or "bad" (dropped).                               *)
(***************************************************************************)
EXTENDS Integers, Sequences, FiniteSets, FiniteSetsExt

CONSTANTS
    Workers,      \* worker instances
    Reports,      \* reports the nodes send, each any number of times
    Gone,         \* those whose lease or endpoint group is gone when processed
    Bad,          \* those dropped: undecodable, of an unknown site or namespace
    BatchSize,    \* COUNT of XREADGROUP and XAUTOCLAIM
    None,         \* nobody
    MaxEntries,   \* bound: length of the stream
    MaxFaults     \* bound: failed calls, crashes, stalls and rebalances

ASSUME KindsAssumption == Gone \subseteq Reports /\ Bad \subseteq Reports /\ Gone \cap Bad = {}
ASSUME BatchAssumption == BatchSize \in Nat \ {0}
ASSUME NoneAssumption == None \notin Workers
ASSUME BoundsAssumption == MaxEntries \in Nat /\ MaxFaults \in Nat

VARIABLES
    dd,       \* dedup markers
    log,      \* every entry ever appended
    stream,   \* the ids still in the stream
    ld,       \* last-delivered-id of the group
    pel,      \* ids delivered and not acknowledged
    ckpt,     \* the checkpoint
    tok,      \* ids whose apply.lua call left its replay token
    lock,     \* owner lock of the shard
    pc,       \* of each worker's consumer
    todo,     \* ids of the batch in hand still to process, taken in id order
    done,     \* ids of the batch in hand that were processed
    cursor,   \* XAUTOCLAIM cursor, 0 once the scan has ended, -1 when reading
    acked,    \* every XACK since the last scan began succeeded
    tried,    \* an attempt of the call in progress has failed
    ctx,      \* why the consumer was cancelled
    last,     \* trimmer.lastAcked
    floor,    \* trim floor read so far
    faults,   \* faults so far
    app,      \* history: times the effects of an entry were applied
    exe,      \* history: times its actions were executed
    rec,      \* history: times it was recorded in the statistics
    rel,      \* history: entries whose lease was released
    gave,     \* history: entries dropped, given up on or of unknown outcome
    odd       \* history: a "stall" of the owner, "overlap" of consumers, "lost" read

redis == <<dd, log, stream, ld, pel, ckpt, tok, lock>>
worker == <<pc, todo, done, cursor, acked, tried, ctx, last, floor>>
history == <<app, exe, rec, rel, gave, odd>>
vars == <<redis, worker, faults, history>>

Ids == 1 .. Len(log)
PCs == {"off", "claim", "read", "entry", "observe", "ckpt", "act", "finish", "skip",
        "ack", "due", "info", "trim", "stopped"}

Init ==
    /\ dd = {} /\ log = << >> /\ stream = {} /\ ld = 0 /\ pel = {}
    /\ ckpt = 0 /\ tok = {} /\ lock = None
    /\ pc = [w \in Workers |-> "off"]
    /\ todo = [w \in Workers |-> {}] /\ done = [w \in Workers |-> {}]
    /\ cursor = [w \in Workers |-> 0]
    /\ acked = [w \in Workers |-> TRUE] /\ tried = [w \in Workers |-> FALSE]
    /\ ctx = [w \in Workers |-> "live"]
    /\ last = [w \in Workers |-> 0] /\ floor = [w \in Workers |-> 0]
    /\ faults = 0
    /\ app = << >> /\ exe = << >> /\ rec = << >>
    /\ rel = {} /\ gave = {} /\ odd = {}

Fault == faults < MaxFaults /\ faults' = faults + 1
NoFault == UNCHANGED faults

-----------------------------------------------------------------------------
(* Ingest.                                                                 *)

\* ingest.lua: the marker and the entry are written together; a report whose
\* marker exists changes nothing.
Ingest(r) ==
    /\ r \notin dd
    /\ Len(log) < MaxEntries
    /\ dd' = dd \cup {r}
    /\ log' = Append(log, r)
    /\ stream' = stream \cup {Len(log')}
    /\ app' = Append(app, 0) /\ exe' = Append(exe, 0) /\ rec' = Append(rec, 0)
    /\ UNCHANGED <<ld, pel, ckpt, tok, lock, worker, faults, rel, gave, odd>>

-----------------------------------------------------------------------------
(* Ownership of the shard.                                                 *)

Running(w) == pc[w] # "off"

\* Mutant: the new owner reads on without claiming what is pending.
AcquireReads(w) ==
    /\ ~Running(w) /\ lock \in {None, w}
    /\ lock' = w
    /\ pc' = [pc EXCEPT ![w] = "read"]
    /\ odd' = IF \E v \in Workers \ {w} : pc[v] \notin {"off", "stopped"} THEN odd \cup {"overlap"} ELSE odd
    /\ UNCHANGED <<dd, log, stream, ld, pel, ckpt, tok, todo, done, cursor, acked, tried, ctx, last,
                   floor, faults, app, exe, rec, rel, gave>>

\* acquireShard and startShard: the lock is free or still names w.
Acquire(w) ==
    /\ ~Running(w) /\ lock \in {None, w}
    /\ lock' = w
    /\ pc' = [pc EXCEPT ![w] = "claim"]
    /\ cursor' = [cursor EXCEPT ![w] = 1]
    /\ odd' = IF \E v \in Workers \ {w} : pc[v] \notin {"off", "stopped"} THEN odd \cup {"overlap"} ELSE odd
    /\ UNCHANGED <<dd, log, stream, ld, pel, ckpt, tok, todo, done, acked, tried, ctx, last, floor,
                   faults, app, exe, rec, rel, gave>>

\* The lock's TTL runs out: its owner is dead, or stalled for longer than it.
Expire ==
    /\ lock # None
    /\ IF Running(lock) THEN Fault ELSE NoFault
    /\ lock' = None
    /\ odd' = IF pc[lock] \in {"off", "stopped"} THEN odd ELSE odd \cup {"stall"}
    /\ UNCHANGED <<dd, log, stream, ld, pel, ckpt, tok, worker, app, exe, rec, rel, gave>>

\* loseShard: the refresh finds the lock gone, or has failed for too long.
Lose(w) ==
    /\ pc[w] \notin {"off", "stopped"} /\ ctx[w] = "live"
    /\ IF lock = w THEN Fault ELSE NoFault
    /\ ctx' = [ctx EXCEPT ![w] = "lost"]
    /\ UNCHANGED <<redis, pc, todo, done, cursor, acked, tried, last, floor, history>>

\* Mutant: the lock is deleted while the consumer still runs.
ReleaseUnlocks(w) ==
    /\ pc[w] \notin {"off", "stopped"} /\ ctx[w] = "live"
    /\ Fault
    /\ ctx' = [ctx EXCEPT ![w] = "released"]
    /\ lock' = IF lock = w THEN None ELSE lock
    /\ UNCHANGED <<dd, log, stream, ld, pel, ckpt, tok, pc, todo, done, cursor, acked, tried, last,
                   floor, history>>

\* releaseShard: the rebalance asks the consumer to stop.
ReleaseShard(w) ==
    /\ pc[w] \notin {"off", "stopped"} /\ ctx[w] = "live"
    /\ Fault
    /\ ctx' = [ctx EXCEPT ![w] = "released"]
    /\ UNCHANGED <<redis, pc, todo, done, cursor, acked, tried, last, floor, history>>

\* The consumer's goroutine is gone, and its variables with it.
Exit(w) ==
    /\ pc' = [pc EXCEPT ![w] = "off"]
    /\ todo' = [todo EXCEPT ![w] = {}] /\ done' = [done EXCEPT ![w] = {}]
    /\ cursor' = [cursor EXCEPT ![w] = 0] /\ acked' = [acked EXCEPT ![w] = TRUE]
    /\ tried' = [tried EXCEPT ![w] = FALSE] /\ ctx' = [ctx EXCEPT ![w] = "live"]
    /\ last' = [last EXCEPT ![w] = 0] /\ floor' = [floor EXCEPT ![w] = 0]

\* The consumer has exited; a released shard is unlocked only now.
Stop(w) ==
    /\ pc[w] = "stopped"
    /\ Exit(w)
    /\ lock' = IF ctx[w] = "released" /\ lock = w THEN None ELSE lock
    /\ UNCHANGED <<dd, log, stream, ld, pel, ckpt, tok, faults, history>>

\* The process dies; its lock stays until it expires.
Crash(w) ==
    /\ Running(w) /\ Fault
    /\ Exit(w)
    /\ UNCHANGED <<redis, history>>

-----------------------------------------------------------------------------
(* consume and claimPending.                                               *)

\* At most BatchSize of the ids in S, the smallest ones.
FirstOf(S) == {e \in S : Cardinality({f \in S : f < e}) < BatchSize}

\* XAUTOCLAIM from the cursor with no minimum idle time: whoever they were
\* delivered to, trimmed ids leave the pending list and the others are taken.
AutoClaim(w) ==
    /\ pc[w] = "claim" /\ ctx[w] = "live"
    /\ LET waiting == {e \in pel : e >= cursor[w]}
           scanned == FirstOf(waiting)
           taken == scanned \cap stream
           rest == waiting \ scanned
       IN  /\ pel' = pel \ (scanned \ stream)
           /\ todo' = [todo EXCEPT ![w] = taken]
           /\ cursor' = [cursor EXCEPT ![w] = IF rest = {} THEN 0 ELSE Min(rest)]
           /\ pc' = [pc EXCEPT ![w] = IF taken # {} THEN "entry"
                                      ELSE IF rest # {} THEN "claim" ELSE "read"]
    /\ UNCHANGED <<dd, log, stream, ld, ckpt, tok, lock, done, acked, tried, ctx, last, floor,
                   faults, history>>

\* A scan in which an XACK failed is followed by another one.
Rescan(w) ==
    /\ pc[w] = "read" /\ ctx[w] = "live" /\ ~acked[w]
    /\ pc' = [pc EXCEPT ![w] = "claim"]
    /\ cursor' = [cursor EXCEPT ![w] = 1]
    /\ acked' = [acked EXCEPT ![w] = TRUE]
    /\ UNCHANGED <<redis, todo, done, tried, ctx, last, floor, faults, history>>

\* XREADGROUP ">" delivers the next entries to the group.
Deliver(new) ==
    /\ new = FirstOf({e \in stream : e > ld}) /\ new # {}
    /\ ld' = Max(new)
    /\ pel' = pel \cup new

ReadGroup(w) ==
    /\ pc[w] = "read" /\ ctx[w] = "live" /\ acked[w]
    /\ \E new \in SUBSET stream : Deliver(new) /\ todo' = [todo EXCEPT ![w] = new]
    /\ pc' = [pc EXCEPT ![w] = "entry"]
    /\ cursor' = [cursor EXCEPT ![w] = -1]
    /\ UNCHANGED <<dd, log, stream, ckpt, tok, lock, done, acked, tried, ctx, last, floor, faults,
                   history>>

\* The read times out with nothing to deliver, and a trim is due.
ReadNothing(w) ==
    /\ pc[w] = "read" /\ ctx[w] = "live" /\ acked[w]
    /\ \A e \in stream : e <= ld
    /\ pc' = [pc EXCEPT ![w] = "due"]
    /\ cursor' = [cursor EXCEPT ![w] = -1]
    /\ UNCHANGED <<redis, todo, done, acked, tried, ctx, last, floor, faults, history>>

\* The entries were delivered but the reply did not arrive: the consumer waits
\* and reads on.
ReadLost(w) ==
    /\ pc[w] = "read" /\ ctx[w] = "live" /\ acked[w] /\ Fault
    /\ \E new \in SUBSET stream : Deliver(new)
    /\ odd' = odd \cup {"lost"}
    /\ UNCHANGED <<dd, log, stream, ckpt, tok, lock, worker, app, exe, rec, rel, gave>>

\* A cancelled consumer leaves its loop; the read it was blocked in may have
\* been answered.
Leave(w) ==
    /\ pc[w] \in {"claim", "read", "due", "info", "trim"} /\ ctx[w] # "live"
    /\ \/ UNCHANGED <<ld, pel>>
       \/ pc[w] = "read" /\ acked[w] /\ \E new \in SUBSET stream : Deliver(new)
    /\ pc' = [pc EXCEPT ![w] = "stopped"]
    /\ UNCHANGED <<dd, log, stream, ckpt, tok, lock, todo, done, cursor, acked, tried, ctx, last,
                   floor, faults, history>>

-----------------------------------------------------------------------------
(* processBatch.                                                           *)

\* Where the consumer goes after a batch: on with the scan, or to the loop, by
\* way of a trim when the batch was read, its XACK succeeded and one is due.
AfterBatch(w, ok) ==
    IF ctx[w] # "live" THEN {"stopped"}
    ELSE IF cursor[w] > 0 THEN {"claim"}
    ELSE IF cursor[w] = -1 /\ ok THEN {"read", "due"}
    ELSE {"read"}

\* The batch is processed, or the consumer was cancelled between two entries.
EndBatch(w) ==
    /\ pc[w] = "entry" /\ (todo[w] = {} \/ ctx[w] # "live")
    /\ todo' = [todo EXCEPT ![w] = {}]
    /\ pc' = [pc EXCEPT ![w] = IF done[w] = {} THEN "stopped" ELSE "ack"]
    /\ UNCHANGED <<redis, done, cursor, acked, tried, ctx, last, floor, faults, history>>

Ack(w) ==
    /\ pc[w] = "ack"
    /\ pel' = pel \ done[w]
    /\ last' = [last EXCEPT ![w] = Max(done[w])]
    /\ done' = [done EXCEPT ![w] = {}]
    /\ \E p \in AfterBatch(w, TRUE) : pc' = [pc EXCEPT ![w] = p]
    /\ UNCHANGED <<dd, log, stream, ld, ckpt, tok, lock, todo, cursor, acked, tried, ctx, floor,
                   faults, history>>

\* Mutant: the failure is only logged.
AckFailsForgotten(w) ==
    /\ pc[w] = "ack" /\ Fault
    /\ pel' \in {pel, pel \ done[w]}
    /\ done' = [done EXCEPT ![w] = {}]
    /\ \E p \in AfterBatch(w, TRUE) : pc' = [pc EXCEPT ![w] = p]
    /\ UNCHANGED <<dd, log, stream, ld, ckpt, tok, lock, todo, cursor, acked, tried, ctx, last, floor,
                   history>>

\* XACK fails after its retries, having run or not.
AckFails(w) ==
    /\ pc[w] = "ack" /\ Fault
    /\ pel' \in {pel, pel \ done[w]}
    /\ acked' = [acked EXCEPT ![w] = FALSE]
    /\ done' = [done EXCEPT ![w] = {}]
    /\ \E p \in AfterBatch(w, FALSE) : pc' = [pc EXCEPT ![w] = p]
    /\ UNCHANGED <<dd, log, stream, ld, ckpt, tok, lock, todo, cursor, tried, ctx, last, floor,
                   history>>

-----------------------------------------------------------------------------
(* processEntry. The calls it makes are not cancelled with the consumer.   *)

Cur(w) == Min(todo[w])

\* w is through with its entry and goes to the next one.
NextEntry(w) ==
    /\ todo' = [todo EXCEPT ![w] = @ \ {Cur(w)}]
    /\ done' = [done EXCEPT ![w] = @ \cup {Cur(w)}]
    /\ tried' = [tried EXCEPT ![w] = FALSE]
    /\ pc' = [pc EXCEPT ![w] = "entry"]
    /\ UNCHANGED <<cursor, acked, ctx, last, floor>>

GoTo(w, p) ==
    /\ pc' = [pc EXCEPT ![w] = p]
    /\ tried' = [tried EXCEPT ![w] = FALSE]
    /\ UNCHANGED <<todo, done, cursor, acked, ctx, last, floor>>

AtEntry(w) == pc[w] = "entry" /\ todo[w] # {} /\ ctx[w] = "live"

\* Unsupported version, undecodable, unknown site, wrong namespace.
Drop(w) ==
    /\ AtEntry(w) /\ log[Cur(w)] \in Bad
    /\ gave' = gave \cup {Cur(w)}
    /\ NextEntry(w)
    /\ UNCHANGED <<redis, faults, app, exe, rec, rel, odd>>

\* loadLease.
Load(w) ==
    /\ AtEntry(w) /\ log[Cur(w)] \notin Bad
    /\ GoTo(w, IF log[Cur(w)] \in Gone THEN "ckpt" ELSE "observe")
    /\ UNCHANGED <<redis, faults, history>>

\* The lease cannot be read: the report is only counted.
LoadFails(w) ==
    /\ AtEntry(w) /\ log[Cur(w)] \notin Bad /\ Fault
    /\ gave' = gave \cup {Cur(w)}
    /\ rec' = [rec EXCEPT ![Cur(w)] = @ + 1]
    /\ NextEntry(w)
    /\ UNCHANGED <<redis, app, exe, rel, odd>>

\* Mutant: the entry at the checkpoint is not a duplicate.
DupBelow(e) == e < ckpt

\* observe.lua, in either mode: an id at or below the checkpoint is a duplicate.
Dup(e) == e <= ckpt

RunObserve(e) ==
    IF Dup(e) THEN UNCHANGED <<ckpt, app>>
    ELSE ckpt' = e /\ app' = [app EXCEPT ![e] = @ + 1]

\* observeWithRetry, a call that is answered.
Observe(w) ==
    /\ pc[w] = "observe"
    /\ RunObserve(Cur(w))
    /\ gave' = IF Dup(Cur(w)) /\ tried[w] THEN gave \cup {Cur(w)} ELSE gave
    /\ GoTo(w, IF ~Dup(Cur(w)) THEN "act" ELSE IF tried[w] THEN "finish" ELSE "skip")
    /\ UNCHANGED <<dd, log, stream, ld, pel, tok, lock, faults, exe, rec, rel, odd>>

\* Mutant: duplicates are counted too.
CheckpointCounts(w) ==
    /\ pc[w] = "ckpt"
    /\ RunObserve(Cur(w))
    /\ rec' = [rec EXCEPT ![Cur(w)] = @ + 1]
    /\ gave' = IF Dup(Cur(w)) /\ tried[w] THEN gave \cup {Cur(w)} ELSE gave
    /\ NextEntry(w)
    /\ UNCHANGED <<dd, log, stream, ld, pel, tok, lock, faults, exe, rel, odd>>

\* statsOnly, a call that is answered.
Checkpoint(w) ==
    /\ pc[w] = "ckpt"
    /\ RunObserve(Cur(w))
    /\ IF Dup(Cur(w)) /\ ~tried[w] THEN UNCHANGED <<rec, gave>>
       ELSE /\ rec' = [rec EXCEPT ![Cur(w)] = @ + 1]
            /\ gave' = IF Dup(Cur(w)) THEN gave \cup {Cur(w)} ELSE gave
    /\ NextEntry(w)
    /\ UNCHANGED <<dd, log, stream, ld, pel, tok, lock, faults, exe, rel, odd>>

\* An attempt fails, having run or not.
ObserveFails(w) ==
    /\ pc[w] \in {"observe", "ckpt"} /\ Fault
    /\ RunObserve(Cur(w)) \/ UNCHANGED <<ckpt, app>>
    /\ tried' = [tried EXCEPT ![w] = TRUE]
    /\ UNCHANGED <<dd, log, stream, ld, pel, tok, lock, pc, todo, done, cursor, acked, ctx, last,
                   floor, exe, rec, rel, gave, odd>>

\* ... and so did the last one.
ObserveGivenUp(w) ==
    /\ pc[w] \in {"observe", "ckpt"} /\ tried[w]
    /\ gave' = gave \cup {Cur(w)}
    /\ \/ pc[w] = "observe" /\ GoTo(w, "finish") /\ UNCHANGED rec
       \/ pc[w] = "ckpt" /\ NextEntry(w) /\ rec' = [rec EXCEPT ![Cur(w)] = @ + 1]
    /\ UNCHANGED <<redis, faults, app, exe, rel, odd>>

\* The policy plans nothing, or the report is late or suppressed.
NoAction(w) ==
    /\ pc[w] = "act" /\ ~tried[w]
    /\ GoTo(w, "finish")
    /\ UNCHANGED <<redis, faults, history>>

\* apply.lua with the report's token: a recorded call is not run again.
RunApply(e) ==
    /\ tok' = tok \cup {e}
    /\ exe' = IF e \in tok THEN exe ELSE [exe EXCEPT ![e] = @ + 1]

Execute(w) ==
    /\ pc[w] = "act"
    /\ RunApply(Cur(w))
    /\ GoTo(w, "finish")
    /\ UNCHANGED <<dd, log, stream, ld, pel, ckpt, lock, faults, app, rec, rel, gave, odd>>

ExecuteFails(w) ==
    /\ pc[w] = "act" /\ Fault
    /\ RunApply(Cur(w)) \/ UNCHANGED <<tok, exe>>
    /\ tried' = [tried EXCEPT ![w] = TRUE]
    /\ UNCHANGED <<dd, log, stream, ld, pel, ckpt, lock, pc, todo, done, cursor, acked, ctx, last,
                   floor, app, rec, rel, gave, odd>>

ExecuteGivenUp(w) ==
    /\ pc[w] = "act" /\ tried[w]
    /\ GoTo(w, "finish")
    /\ UNCHANGED <<redis, faults, history>>

\* releaseIfRequested: done, or given up on.
ReleaseLease(w) ==
    \/ NoFault /\ rel' = rel \cup {Cur(w)} /\ UNCHANGED gave
    \/ Fault /\ gave' = gave \cup {Cur(w)} /\ UNCHANGED rel

\* Mutant: a duplicate is only acknowledged.
SkipOnly(w) ==
    /\ pc[w] = "skip"
    /\ NextEntry(w)
    /\ UNCHANGED <<redis, faults, history>>

\* A duplicate is released, in case the first delivery was interrupted.
Skip(w) ==
    /\ pc[w] = "skip"
    /\ ReleaseLease(w)
    /\ NextEntry(w)
    /\ UNCHANGED <<redis, app, exe, rec, odd>>

Finish(w) ==
    /\ pc[w] = "finish"
    /\ ReleaseLease(w)
    /\ rec' = [rec EXCEPT ![Cur(w)] = @ + 1]
    /\ NextEntry(w)
    /\ UNCHANGED <<redis, app, exe, odd>>

-----------------------------------------------------------------------------
(* trimProcessed.                                                          *)

\* Mutant: what is pending is not asked.
TrimFloorAcked(w) ==
    /\ pc[w] = "due" /\ ctx[w] = "live"
    /\ floor' = [floor EXCEPT ![w] = last[w]]
    /\ pc' = [pc EXCEPT ![w] = IF last[w] = 0 THEN "info" ELSE "trim"]
    /\ UNCHANGED <<redis, todo, done, cursor, acked, tried, ctx, last, faults, history>>

\* XPENDING: the floor is the oldest pending entry, else the last one this
\* consumer acknowledged, else still to be read.
TrimFloor(w) ==
    /\ pc[w] = "due" /\ ctx[w] = "live"
    /\ floor' = [floor EXCEPT ![w] = IF pel # {} THEN Min(pel) ELSE last[w]]
    /\ pc' = [pc EXCEPT ![w] = IF pel = {} /\ last[w] = 0 THEN "info" ELSE "trim"]
    /\ UNCHANGED <<redis, todo, done, cursor, acked, tried, ctx, last, faults, history>>

\* XINFO GROUPS: the floor is the last id delivered to the group.
LastDelivered(w) ==
    /\ pc[w] = "info" /\ ctx[w] = "live"
    /\ floor' = [floor EXCEPT ![w] = ld]
    /\ pc' = [pc EXCEPT ![w] = "trim"]
    /\ UNCHANGED <<redis, todo, done, cursor, acked, tried, ctx, last, faults, history>>

\* XTRIM MINID ~: whole nodes below the floor go, that is any prefix; none
\* when the call fails.
Trim(w) ==
    /\ pc[w] = "trim" /\ ctx[w] = "live"
    /\ \E k \in 0 .. floor[w] : stream' = {e \in stream : e >= k}
    /\ pc' = [pc EXCEPT ![w] = "read"]
    /\ floor' = [floor EXCEPT ![w] = 0]
    /\ UNCHANGED <<dd, log, ld, pel, ckpt, tok, lock, todo, done, cursor, acked, tried, ctx, last,
                   faults, history>>

-----------------------------------------------------------------------------
(* The specification.                                                      *)

\* A step of w's consumer that no fault is needed for.
Consume(w) ==
    \/ AutoClaim(w) \/ Rescan(w) \/ ReadGroup(w) \/ ReadNothing(w) \/ Leave(w)
    \/ EndBatch(w) \/ Ack(w)
    \/ Drop(w) \/ Load(w) \/ Observe(w) \/ Checkpoint(w) \/ ObserveGivenUp(w)
    \/ NoAction(w) \/ Execute(w) \/ ExecuteGivenUp(w) \/ Skip(w) \/ Finish(w)
    \/ TrimFloor(w) \/ LastDelivered(w) \/ Trim(w)

Own(w) == Acquire(w) \/ Lose(w) \/ ReleaseShard(w) \/ Stop(w) \/ Crash(w)

Fail(w) == ReadLost(w) \/ AckFails(w) \/ LoadFails(w) \/ ObserveFails(w) \/ ExecuteFails(w)

Next ==
    \/ \E r \in Reports : Ingest(r)
    \/ Expire
    \/ \E w \in Workers : Own(w) \/ Consume(w) \/ Fail(w)

Spec == Init /\ [][Next]_vars

\* A live consumer runs, the worker's tick tries for a free shard and notices a
\* lock that is gone, and the lock of a dead owner runs out.
FairSpec ==
    /\ Spec
    /\ WF_vars(Expire /\ ~Running(lock))
    /\ \A w \in Workers : /\ WF_vars(Consume(w))
                           /\ WF_vars(Acquire(w))
                           /\ WF_vars(Stop(w))
                           /\ WF_vars(lock # w /\ Lose(w))

-----------------------------------------------------------------------------
(* Properties.                                                             *)

Leased(e) == log[e] \notin Gone \cup Bad

\* Consumers have not overlapped and no read has lost its reply.
Undisturbed == odd \cap {"overlap", "lost"} = {}

\* The entry took effect, or the code gave it up and said so in the log.
Handled(e) == app[e] > 0 \/ e \in gave

\* Every variable stays in its range: processEntry never looks at an empty
\* batch, and an id in a worker's hands is an id of the stream's history.
TypeOK ==
    /\ dd \subseteq Reports /\ log \in Seq(Reports) /\ stream \subseteq Ids
    /\ ld \in 0 .. Len(log) /\ pel \subseteq 1 .. ld /\ ckpt \in 0 .. ld /\ tok \subseteq 1 .. ckpt
    /\ lock \in Workers \cup {None}
    /\ pc \in [Workers -> PCs]
    /\ todo \in [Workers -> SUBSET (1 .. ld)] /\ done \in [Workers -> SUBSET (1 .. ld)]
    /\ cursor \in [Workers -> -1 .. ld + 1]
    /\ acked \in [Workers -> BOOLEAN] /\ tried \in [Workers -> BOOLEAN]
    /\ ctx \in [Workers -> {"live", "lost", "released"}]
    /\ last \in [Workers -> 0 .. ld] /\ floor \in [Workers -> 0 .. ld]
    /\ faults \in 0 .. MaxFaults
    /\ app \in [Ids -> Nat] /\ exe \in [Ids -> Nat] /\ rec \in [Ids -> Nat]
    /\ rel \subseteq 1 .. ld /\ gave \subseteq 1 .. ld
    /\ odd \subseteq {"stall", "overlap", "lost"}
    /\ \A w \in Workers :
          /\ pc[w] \in {"observe", "ckpt", "act", "finish", "skip"} => todo[w] # {}
          /\ pc[w] = "ack" => done[w] # {}

\* However often a report is sent, delivered, claimed and retried, by however
\* many workers at once, it takes effect once and its actions run once.
EffectsOnce ==
    /\ \A e \in Ids : app[e] <= 1 /\ exe[e] <= 1
    /\ \A e, f \in Ids : app[e] > 0 /\ app[f] > 0 /\ log[e] = log[f] => e = f

\* The checkpoint never passes an entry that took no effect, provided consumers
\* do not overlap and no read loses its reply: what observe.lua later calls a
\* duplicate was applied before.
NothingSkipped ==
    Undisturbed => \A e \in 1 .. ckpt : Handled(e)

\* An entry skipped as already applied was applied (or given up on): what the
\* code says of observeSkipped. A read that loses its reply refutes it.
SkippedWasApplied == \A w \in Workers : pc[w] = "skip" => Handled(Cur(w))

\* Two consumers of the shard run together only after the lock's TTL ran out
\* under a consumer that had not stopped: releasing a shard hands it over.
OverlapNeedsStall == "overlap" \in odd => "stall" \in odd

\* A trim removes only entries that were delivered and acknowledged, provided
\* consumers do not overlap.
TrimmedWasAcked ==
    "overlap" \notin odd => \A e \in Ids \ stream : e <= ld /\ e \notin pel

\* Once an entry with a lease is acknowledged its release was carried out, or
\* given up on; consumers that overlap included.
ReleasedWhenAcked ==
    \A e \in stream : e <= ld /\ e \notin pel /\ Leased(e) => e \in rel \cup gave

\* A redelivered report is not counted a second time.
CountedOnce == \A e \in Ids : e \notin gave => rec[e] <= 1

\* Every accepted report is handled and acknowledged in the end, whatever
\* crashes, stalls, failed calls and rebalances happen on the way, short of
\* overlapping consumers and lost reads.
EveryReportHandled ==
    \A r \in Reports :
        r \in dd ~> \/ ~Undisturbed
                   \/ \E e \in Ids : log[e] = r /\ Handled(e) /\ e <= ld /\ e \notin pel

=============================================================================
