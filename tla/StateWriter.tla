---------------------------- MODULE StateWriter ----------------------------
(***************************************************************************)
(* The StateWriter of internal/action: the bounded in-memory queue between *)
(* the workers, which change an identity, an account or a proxy in Redis   *)
(* first, and PostgreSQL, which learns of the change from here.  Workers   *)
(* enqueue and may have to wait for space; one goroutine (Run) drains the  *)
(* queue in batches and writes each batch in one transaction, with         *)
(* retries, a carried batch while PostgreSQL is unavailable and a salvage  *)
(* that isolates the changes PostgreSQL rejects.                           *)
(*                                                                         *)
(* A change is a model value.  Changes that update a subject row           *)
(* (Lifecycle) are never spilled, the others are.  The same change may be  *)
(* enqueued again: a retried report queues the same changes under the same *)
(* identifiers.  The outcome of a write is a free choice among the classes *)
(* of errors the code tells apart, the faults being MaxFaults at most.     *)
(***************************************************************************)
EXTENDS Naturals, Sequences, FiniteSets, SequencesExt

CONSTANTS Workers,      \* goroutines that enqueue
          Changes,      \* the state changes, by their identifiers
          Lifecycle,    \* those that update a subject row
          Rejected,     \* those PostgreSQL rejects whenever they are written
          Late,         \* those whose partition may be created late
          Unresolved,   \* those queued without the identifier of their subject
          NoChange,     \* not a change
          Capacity,     \* defaultStateQueueSize
          BatchSize,    \* defaultStateBatchSize
          MaxAttempts,  \* defaultStateMaxAttempts
          MaxCalls,     \* bound on the enqueue calls
          MaxFaults     \* bound on the failed writes that are not rejections

ASSUME WriterAssumption ==
  /\ Lifecycle \subseteq Changes /\ Rejected \subseteq Changes
  /\ Late \subseteq Changes /\ Unresolved \subseteq Changes
  /\ Capacity \in Nat \ {0} /\ BatchSize \in Nat \ {0}
  /\ MaxAttempts \in Nat \ {0} /\ MaxCalls \in Nat /\ MaxFaults \in Nat

VARIABLES
  lifecycle,    \* the queue of lifecycle changes
  events,       \* the queue of the other changes
  closed,       \* Run has returned
  kick,         \* the one-slot channel that asks for a flush
  pc,           \* per worker: "idle", "wait" (on the current w.space) or "woken"
  chg,          \* per worker: the change it waits with
  rpc,          \* where Run is
  final,        \* Run is in shutdownFlush
  cancelled,    \* Run's context has ended
  expired,      \* the bounded context of shutdownFlush has ended
  backoff,      \* Run waits for the backoff, deaf to kicks
  batch,        \* the batch in hand, for writeWithRetry
  attempt,      \* its attempt
  stack,        \* the parts salvage still has to write, the top last
  carry,        \* the batch kept for the next flush
  placed,       \* the partition of the late changes exists
  vanished,     \* the rows of the unresolved changes' subjects are deleted
  stored,       \* the state_events rows, in the order they were inserted
  written,      \* the counters w.written and w.dropped
  dropped,
  gone,         \* the changes given up so far, with the cause
  accepted,     \* lifecycle changes in the order they were first queued
  calls,
  faults

queueVars == <<lifecycle, events>>
callVars  == <<pc, chg, accepted, calls>>
runVars   == <<rpc, final, backoff, batch, attempt, stack, carry>>
dbVars    == <<stored, written>>
lossVars  == <<dropped, gone>>
envVars   == <<placed, vanished>>
vars == <<queueVars, closed, kick, callVars, runVars, cancelled, expired,
          envVars, dbVars, lossVars, faults>>

Queued == Len(lifecycle) + Len(events)

Init ==
  /\ lifecycle = <<>> /\ events = <<>>
  /\ closed = FALSE /\ kick = FALSE
  /\ pc = [w \in Workers |-> "idle"]
  /\ chg = [w \in Workers |-> NoChange]
  /\ rpc = "select" /\ final = FALSE /\ cancelled = FALSE /\ expired = FALSE
  /\ backoff = FALSE /\ batch = <<>> /\ attempt = 1 /\ stack = <<>> /\ carry = <<>>
  /\ placed = FALSE /\ vanished = FALSE
  /\ stored = <<>> /\ written = 0 /\ dropped = 0 /\ gone = {}
  /\ accepted = <<>> /\ calls = 0 /\ faults = 0

-----------------------------------------------------------------------------
(* enqueue: a critical section of w.mu per pass of its loop.               *)

\* One pass of worker w's loop with change c, on a first call or after waking.
Caller(w, c) ==
  \/ pc[w] = "idle" /\ calls < MaxCalls /\ calls' = calls + 1
  \/ pc[w] = "woken" /\ c = chg[w] /\ UNCHANGED calls

Returns(w) ==
  pc' = [pc EXCEPT ![w] = "idle"] /\ chg' = [chg EXCEPT ![w] = NoChange]

\* push: c joins the queue of its kind, whose other items are l and e; a full
\* batch kicks a flush.
Push(c, l, e) ==
  /\ lifecycle' = IF c \in Lifecycle THEN Append(l, c) ELSE l
  /\ events' = IF c \in Lifecycle THEN e ELSE Append(e, c)
  /\ accepted' = IF c \in Lifecycle \ ToSet(accepted) THEN Append(accepted, c) ELSE accepted
  /\ kick' = (kick \/ Queued' >= BatchSize)

Drop(cs, cause) ==
  /\ dropped' = dropped + Len(cs)
  /\ gone' = gone \cup {<<c, cause>> : c \in ToSet(cs)}

EnqueueSpace(w, c) ==
  /\ Caller(w, c) /\ Queued < Capacity
  /\ Push(c, lifecycle, events) /\ Returns(w)
  /\ UNCHANGED <<closed, runVars, cancelled, expired, envVars, dbVars, lossVars, faults>>

\* The queue is full: the oldest change that updates no row makes place.
EnqueueSpill(w, c) ==
  /\ Caller(w, c) /\ Queued >= Capacity /\ events # <<>>
  /\ Push(c, lifecycle, Tail(events)) /\ Drop(<<Head(events)>>, "spilled")
  /\ Returns(w)
  /\ UNCHANGED <<closed, runVars, cancelled, expired, envVars, dbVars, faults>>

\* ... or, when there is none, the new change is spilled itself, if it may be,
SpillItself(w, c) ==
  /\ Caller(w, c) /\ Queued >= Capacity /\ events = <<>> /\ c \notin Lifecycle
  /\ Drop(<<c>>, "spilled") /\ Returns(w)
  /\ UNCHANGED <<queueVars, closed, kick, accepted, runVars, cancelled, expired, envVars, dbVars, faults>>

\* ... is refused, when Run has returned,
RefuseClosed(w, c) ==
  /\ Caller(w, c) /\ Queued >= Capacity /\ events = <<>> /\ c \in Lifecycle /\ closed
  /\ Drop(<<c>>, "refused") /\ Returns(w)
  /\ UNCHANGED <<queueVars, closed, kick, accepted, runVars, cancelled, expired, envVars, dbVars, faults>>

\* ... or waits for space, having asked for a flush.
WaitForSpace(w, c) ==
  /\ Caller(w, c) /\ Queued >= Capacity /\ events = <<>> /\ c \in Lifecycle /\ ~closed
  /\ pc' = [pc EXCEPT ![w] = "wait"] /\ chg' = [chg EXCEPT ![w] = c]
  /\ kick' = TRUE
  /\ UNCHANGED <<queueVars, closed, accepted, runVars, cancelled, expired, envVars, dbVars, lossVars, faults>>

\* The wait ends with the caller's context or the deadline; the select may
\* prefer them to a wake-up that is ready too.
GiveUp(w) ==
  /\ pc[w] \in {"wait", "woken"}
  /\ Drop(<<chg[w]>>, "refused") /\ Returns(w)
  /\ UNCHANGED <<queueVars, closed, kick, accepted, calls, runVars, cancelled, expired, envVars, dbVars, faults>>

\* Mutant: the channel is replaced and not closed.
WakeNobody == UNCHANGED pc

\* close(w.space) and a new channel: everyone who waits is woken.
WakeWaiters == pc' = [w \in Workers |-> IF pc[w] = "wait" THEN "woken" ELSE pc[w]]

-----------------------------------------------------------------------------
(* Run, Flush, writeWithRetry and salvage: one goroutine.                  *)

\* ctx.Err() of the context Flush runs under.
ContextEnded == IF final THEN expired ELSE cancelled

\* Flush returns with cs as its carry; Run takes the backoff from the carry.
ReturnWith(cs) ==
  /\ carry' = cs /\ batch' = <<>> /\ stack' = <<>> /\ attempt' = 1
  /\ backoff' = (~final /\ cs # <<>>)
  /\ rpc' = IF final THEN "nap" ELSE "select"
  /\ UNCHANGED final

Timer ==
  /\ rpc = "select" /\ rpc' = "flush"
  /\ UNCHANGED <<queueVars, closed, kick, callVars, final, backoff, batch, attempt, stack, carry,
                 cancelled, expired, envVars, dbVars, lossVars, faults>>

Kicked ==
  /\ rpc = "select" /\ kick /\ ~backoff
  /\ rpc' = "flush" /\ kick' = FALSE
  /\ UNCHANGED <<queueVars, closed, callVars, final, backoff, batch, attempt, stack, carry,
                 cancelled, expired, envVars, dbVars, lossVars, faults>>

Stop ==
  /\ rpc = "select" /\ cancelled
  /\ rpc' = "flush" /\ final' = TRUE /\ backoff' = FALSE
  /\ UNCHANGED <<queueVars, closed, kick, callVars, batch, attempt, stack, carry,
                 cancelled, expired, envVars, dbVars, lossVars, faults>>

\* The top of Flush's loop: nothing left, or the context has ended.
FlushEnds ==
  /\ rpc = "flush"
  /\ ContextEnded \/ (carry = <<>> /\ Queued = 0)
  /\ ReturnWith(carry)
  /\ UNCHANGED <<queueVars, closed, kick, callVars, cancelled, expired, envVars, dbVars, lossVars, faults>>

TakeCarry ==
  /\ rpc = "flush" /\ ~ContextEnded /\ carry # <<>>
  /\ batch' = carry /\ carry' = <<>> /\ attempt' = 1 /\ rpc' = "write"
  /\ UNCHANGED <<queueVars, closed, kick, callVars, final, backoff, stack,
                 cancelled, expired, envVars, dbVars, lossVars, faults>>

\* drain: up to BatchSize changes, the lifecycle changes first; it wakes
\* whoever waits for space.
Drain ==
  LET l == IF Len(lifecycle) < BatchSize THEN Len(lifecycle) ELSE BatchSize
      e == IF Len(events) < BatchSize - l THEN Len(events) ELSE BatchSize - l
  IN /\ rpc = "flush" /\ ~ContextEnded /\ carry = <<>> /\ Queued > 0
     /\ batch' = SubSeq(lifecycle, 1, l) \o SubSeq(events, 1, e)
     /\ lifecycle' = SubSeq(lifecycle, l + 1, Len(lifecycle))
     /\ events' = SubSeq(events, e + 1, Len(events))
     /\ attempt' = 1 /\ rpc' = "write"
     /\ WakeWaiters
     /\ UNCHANGED <<closed, kick, chg, accepted, calls, final, backoff, stack, carry,
                    cancelled, expired, envVars, dbVars, lossVars, faults>>

\* writeWithRetry checks the context before an attempt ...
Interrupted ==
  /\ rpc = "write" /\ ContextEnded
  /\ ReturnWith(batch)
  /\ UNCHANGED <<queueVars, closed, kick, callVars, cancelled, expired, envVars, dbVars, lossVars, faults>>

\* ... and sends it.
Send ==
  /\ rpc = "write" /\ ~ContextEnded /\ rpc' = "reply"
  /\ UNCHANGED <<queueVars, closed, kick, callVars, final, backoff, batch, attempt, stack, carry,
                 cancelled, expired, envVars, dbVars, lossVars, faults>>

\* Mutant: a plain insert.
InsertAgain(part) == stored' = stored \o part

\* insertStateEventsOnce: ON CONFLICT DO NOTHING.
Insert(part) ==
  stored' = FoldLeft(LAMBDA rows, c : IF c \in ToSet(rows) THEN rows ELSE Append(rows, c),
                     stored, part)

Unknown(c) == vanished /\ c \in Unresolved

\* resolveSubjects: what is left of a part once the changes of unknown
\* subjects are discarded.
ResolveSubjects(part) == SelectSeq(part, LAMBDA c : ~Unknown(c))

HasRejected(part) == ToSet(ResolveSubjects(part)) \cap Rejected # {}
HasUnplaced(part) == ~placed /\ ToSet(ResolveSubjects(part)) \cap Late # {}

\* writeOnce succeeds; the discarded changes are counted as written.
Written(part) ==
  /\ ~HasRejected(part) /\ ~HasUnplaced(part)
  /\ Insert(ResolveSubjects(part)) /\ written' = written + Len(part)
  /\ gone' = gone \cup {<<c, "unknown">> : c \in {d \in ToSet(part) : Unknown(d)}}
  /\ UNCHANGED <<dropped, faults>>

\* isStateDBUnavailable: nothing was committed, or it was and only the answer
\* is missing.
Unavailable(part) ==
  /\ faults < MaxFaults /\ faults' = faults + 1
  /\ \/ UNCHANGED stored
     \/ ~HasRejected(part) /\ ~HasUnplaced(part) /\ Insert(ResolveSubjects(part))
  /\ UNCHANGED written

\* An error that is neither of the two, such as a deadlock.
OtherError == faults < MaxFaults /\ faults' = faults + 1 /\ UNCHANGED dbVars

ToSalvage ==
  /\ stack' = <<batch>> /\ batch' = <<>> /\ attempt' = 1 /\ rpc' = "salvage"
  /\ UNCHANGED <<final, backoff, carry>>

WriteSucceeds ==
  /\ rpc = "reply" /\ Written(batch)
  /\ batch' = <<>> /\ attempt' = 1 /\ rpc' = "flush"
  /\ UNCHANGED <<queueVars, closed, kick, callVars, final, backoff, stack, carry,
                 cancelled, expired, envVars>>

WriteUnavailable ==
  /\ rpc = "reply" /\ Unavailable(batch)
  /\ ReturnWith(batch)
  /\ UNCHANGED <<queueVars, closed, kick, callVars, cancelled, expired, envVars, lossVars>>

\* A data error ends the attempts at once; an ended context keeps the batch.
WriteRejected ==
  /\ rpc = "reply" /\ HasRejected(batch)
  /\ IF ContextEnded THEN ReturnWith(batch) ELSE ToSalvage
  /\ UNCHANGED <<queueVars, closed, kick, callVars, cancelled, expired, envVars, dbVars, lossVars, faults>>

\* Mutant: the attempts are not counted.
RetryUncounted ==
  /\ rpc = "reply" /\ attempt < MaxAttempts
  /\ (HasUnplaced(batch) /\ UNCHANGED <<dbVars, faults>>) \/ OtherError
  /\ rpc' = "write"
  /\ UNCHANGED <<queueVars, closed, kick, callVars, final, backoff, batch, attempt, stack, carry,
                 cancelled, expired, envVars, lossVars>>

\* A missing partition or another error is tried again ...
WriteRetries ==
  /\ rpc = "reply" /\ attempt < MaxAttempts
  /\ (HasUnplaced(batch) /\ UNCHANGED <<dbVars, faults>>) \/ OtherError
  /\ attempt' = attempt + 1 /\ rpc' = "write"
  /\ UNCHANGED <<queueVars, closed, kick, callVars, final, backoff, batch, stack, carry,
                 cancelled, expired, envVars, lossVars>>

\* ... until the last attempt: a missing partition is a data error after all,
WriteUnplaced ==
  /\ rpc = "reply" /\ attempt = MaxAttempts /\ HasUnplaced(batch)
  /\ IF ContextEnded THEN ReturnWith(batch) ELSE ToSalvage
  /\ UNCHANGED <<queueVars, closed, kick, callVars, cancelled, expired, envVars, dbVars, lossVars, faults>>

\* another error drops the whole batch.
WriteFails ==
  /\ rpc = "reply" /\ attempt = MaxAttempts /\ OtherError
  /\ IF ContextEnded
     THEN ReturnWith(batch) /\ UNCHANGED lossVars
     ELSE /\ Drop(batch, "failed")
          /\ batch' = <<>> /\ attempt' = 1 /\ rpc' = "flush"
          /\ UNCHANGED <<final, backoff, stack, carry>>
  /\ UNCHANGED <<queueVars, closed, kick, callVars, cancelled, expired, envVars>>

-----------------------------------------------------------------------------
(* salvage: the part on top of the stack is written by its first half.     *)

Part   == Last(stack)
Mid    == Len(Part) \div 2
Half   == IF Len(Part) > 1 THEN SubSeq(Part, 1, Mid) ELSE Part
Second == SubSeq(Part, Mid + 1, Len(Part))

\* Mutant: the parts in the order of the slice.
FlattenUnreversed(parts) == FlattenSeq(parts)

\* flatten: the unwritten parts in write order.
Flatten(parts) == FlattenSeq(Reverse(parts))

SalvageStep == rpc = "salvage" /\ stack # <<>>
SalvageMoves(parts) ==
  stack' = parts /\ UNCHANGED <<rpc, final, backoff, batch, attempt, carry>>

SalvageInterrupted ==
  /\ SalvageStep /\ Len(Part) > 1 /\ ContextEnded
  /\ ReturnWith(Flatten(stack))
  /\ UNCHANGED <<queueVars, closed, kick, callVars, cancelled, expired, envVars, dbVars, lossVars, faults>>

SalvageWrites ==
  /\ SalvageStep /\ (Len(Part) > 1 => ~ContextEnded) /\ Written(Half)
  /\ SalvageMoves(Front(stack) \o (IF Len(Part) > 1 THEN <<Second>> ELSE <<>>))
  /\ UNCHANGED <<queueVars, closed, kick, callVars, cancelled, expired, envVars>>

\* Mutant: only the part in hand is kept.
SalvageKeepsPart ==
  /\ SalvageStep /\ (Len(Part) > 1 => ~ContextEnded) /\ Unavailable(Half)
  /\ ReturnWith(Part)
  /\ UNCHANGED <<queueVars, closed, kick, callVars, cancelled, expired, envVars, lossVars>>

SalvageUnavailable ==
  /\ SalvageStep /\ (Len(Part) > 1 => ~ContextEnded) /\ Unavailable(Half)
  /\ ReturnWith(Flatten(stack))
  /\ UNCHANGED <<queueVars, closed, kick, callVars, cancelled, expired, envVars, lossVars>>

\* Any other failure of a half splits the part, the first half on top.
SalvageSplits ==
  /\ SalvageStep /\ Len(Part) > 1 /\ ~ContextEnded
  /\ ((HasRejected(Half) \/ HasUnplaced(Half)) /\ UNCHANGED <<dbVars, faults>>) \/ OtherError
  /\ SalvageMoves(Front(stack) \o <<Second, Half>>)
  /\ UNCHANGED <<queueVars, closed, kick, callVars, cancelled, expired, envVars, lossVars>>

\* Mutant: a part that fails is dropped whole.
SalvageDropsPart ==
  /\ SalvageStep /\ Len(Part) >= 1
  /\ \/ (HasRejected(Half) \/ HasUnplaced(Half)) /\ Drop(Part, "rejected") /\ UNCHANGED <<dbVars, faults>>
     \/ OtherError /\ Drop(Part, "faulted")
  /\ SalvageMoves(Front(stack))
  /\ UNCHANGED <<queueVars, closed, kick, callVars, cancelled, expired, envVars>>

\* Any other failure of a single change drops it.
SalvageDrops ==
  /\ SalvageStep /\ Len(Part) = 1
  /\ \/ (HasRejected(Part) \/ HasUnplaced(Part)) /\ Drop(Part, "rejected") /\ UNCHANGED <<dbVars, faults>>
     \/ OtherError /\ Drop(Part, "faulted")
  /\ SalvageMoves(Front(stack))
  /\ UNCHANGED <<queueVars, closed, kick, callVars, cancelled, expired, envVars>>

Salvaged ==
  /\ rpc = "salvage" /\ stack = <<>> /\ rpc' = "flush"
  /\ UNCHANGED <<queueVars, closed, kick, callVars, final, backoff, batch, attempt, stack, carry,
                 cancelled, expired, envVars, dbVars, lossVars, faults>>

\* shutdownFlush naps and flushes again while something is pending ...
FlushAgain ==
  /\ rpc = "nap" /\ Queued + Len(carry) > 0 /\ rpc' = "flush"
  /\ UNCHANGED <<queueVars, closed, kick, callVars, final, backoff, batch, attempt, stack, carry,
                 cancelled, expired, envVars, dbVars, lossVars, faults>>

\* ... until nothing is or its time is over; then Run closes the writer.
Close ==
  /\ rpc = "nap" /\ (Queued + Len(carry) = 0 \/ expired)
  /\ rpc' = "stopped" /\ closed' = TRUE /\ WakeWaiters
  /\ UNCHANGED <<queueVars, kick, chg, accepted, calls, final, backoff, batch, attempt, stack, carry,
                 cancelled, expired, envVars, dbVars, lossVars, faults>>

-----------------------------------------------------------------------------
(* The process, the partition manager and the site service.               *)

Cancel ==
  /\ ~cancelled /\ cancelled' = TRUE
  /\ UNCHANGED <<queueVars, closed, kick, callVars, runVars, expired, envVars, dbVars, lossVars, faults>>

Expire ==
  /\ final /\ ~expired /\ rpc # "stopped" /\ expired' = TRUE
  /\ UNCHANGED <<queueVars, closed, kick, callVars, runVars, cancelled, envVars, dbVars, lossVars, faults>>

CreatePartition ==
  /\ ~placed /\ placed' = TRUE
  /\ UNCHANGED <<queueVars, closed, kick, callVars, runVars, cancelled, expired, vanished, dbVars, lossVars, faults>>

\* A site is deleted, and its accounts with it.
DeleteSubjects ==
  /\ ~vanished /\ vanished' = TRUE
  /\ UNCHANGED <<queueVars, closed, kick, callVars, runVars, cancelled, expired, placed, dbVars, lossVars, faults>>

Enqueue(w, c) ==
  \/ EnqueueSpace(w, c) \/ EnqueueSpill(w, c) \/ SpillItself(w, c)
  \/ RefuseClosed(w, c) \/ WaitForSpace(w, c)

Run ==
  \/ Timer \/ Kicked \/ Stop \/ FlushEnds \/ TakeCarry \/ Drain
  \/ Interrupted \/ Send \/ WriteSucceeds \/ WriteUnavailable \/ WriteRejected
  \/ WriteRetries \/ WriteUnplaced \/ WriteFails
  \/ SalvageInterrupted \/ SalvageWrites \/ SalvageUnavailable \/ SalvageSplits
  \/ SalvageDrops \/ Salvaged \/ FlushAgain \/ Close

Next ==
  \/ \E w \in Workers, c \in Changes : Enqueue(w, c)
  \/ \E w \in Workers : GiveUp(w)
  \/ Run \/ Cancel \/ Expire \/ CreatePartition \/ DeleteSubjects

Spec == Init /\ [][Next]_vars

\* Run's goroutine and a woken worker are scheduled, and a select whose
\* context has ended does not choose another ready case for ever; a worker may
\* never give up, the process may never stop.
FairSpec ==
  /\ Spec /\ WF_vars(Run) /\ SF_vars(Stop) /\ SF_vars(Close)
  /\ \A w \in Workers : WF_vars(pc[w] = "woken" /\ Enqueue(w, chg[w]))

-----------------------------------------------------------------------------
Pending == lifecycle \o events \o carry \o batch \o Flatten(stack)

\* The variables have the types of their fields and locals.
TypeOK ==
  /\ lifecycle \in Seq(Lifecycle) /\ events \in Seq(Changes \ Lifecycle)
  /\ Queued <= Capacity
  /\ closed \in BOOLEAN /\ kick \in BOOLEAN /\ final \in BOOLEAN
  /\ cancelled \in BOOLEAN /\ expired \in BOOLEAN /\ backoff \in BOOLEAN
  /\ pc \in [Workers -> {"idle", "wait", "woken"}] /\ chg \in [Workers -> Changes \cup {NoChange}]
  /\ rpc \in {"select", "flush", "write", "reply", "salvage", "nap", "stopped"}
  /\ batch \in Seq(Changes) /\ Len(batch) <= BatchSize /\ attempt \in 1..MaxAttempts
  /\ stack \in Seq(Seq(Changes)) /\ carry \in Seq(Changes)
  /\ placed \in BOOLEAN /\ vanished \in BOOLEAN /\ stored \in Seq(Changes) /\ accepted \in Seq(Lifecycle)
  /\ written \in Nat /\ dropped \in Nat /\ calls \in 0..MaxCalls /\ faults \in 0..MaxFaults
  /\ gone \subseteq Changes \X {"spilled", "refused", "rejected", "failed", "faulted", "unknown"}

\* Every change handed to the writer is still waiting, queued, carried or in
\* hand, or is counted exactly once, as written or as dropped: splitting,
\* carrying and retrying neither lose nor repeat one (statewriter.go 263-276,
\* 376-492).
Accounted ==
  calls = written + dropped + Len(Pending) + Cardinality({w \in Workers : pc[w] # "idle"})

\* A change that updates a row is never spilled, and the salvage of a batch
\* PostgreSQL rejected does not drop an acceptable change as rejected with its
\* neighbours (60-63, 413-416); only a change queued without its subject's
\* identifier is discarded for an unknown subject (609-618).
DropsJustified ==
  \A g \in gone :
    /\ g[2] = "spilled" => g[1] \notin Lifecycle
    /\ g[2] = "rejected" => g[1] \in Rejected \cup Late
    /\ g[2] = "unknown" => g[1] \in Unresolved /\ vanished

\* A batch whose commit is in doubt, a carried one and a report executed
\* twice leave one row per event (557-561).
StoredOnce == IsInjective(stored)

\* Rows of lifecycle changes appear in the order the changes were queued,
\* through carries and salvages, unless one of the two was dropped.
OrderKept ==
  LET first(c) == CHOOSE i \in DOMAIN accepted : accepted[i] = c
      kept == {c \in ToSet(stored) \cap Lifecycle : \A g \in gone : g[1] # c}
  IN \A i, j \in DOMAIN stored :
       i < j /\ stored[i] \in kept /\ stored[j] \in kept => first(stored[i]) < first(stored[j])

\* Whoever waits for space waits at a queue that is full of lifecycle changes
\* and that Run still drains: no wake-up is lost between a drain and a wait
\* (197-216, 511-514).
NoStrandedWaiter ==
  \A w \in Workers : pc[w] = "wait" => Len(lifecycle) = Capacity /\ ~closed

\* A worker that waits for space gets an answer without running into its
\* deadline, once PostgreSQL stops failing.
WaitEnds == \A w \in Workers : pc[w] = "wait" ~> pc[w] # "wait"

\* A queued lifecycle change is stored, dropped for a cause or, its subject
\* being deleted, discarded, unless the process stops first (376-492, 565).
Settled ==
  \A c \in Lifecycle :
    c \in ToSet(lifecycle) ~> c \in ToSet(stored) \/ (\E g \in gone : g[1] = c) \/ closed
=============================================================================
