------------------------- MODULE StateWriterProofs -------------------------
(***************************************************************************)
(* For every number of workers and every capacity: the queue keeps its     *)
(* bound, nobody waits for space at a queue that has some or that nobody   *)
(* drains any more, and no change that updates a row is spilled.           *)
(* What carries the argument: a drain, the only step that makes space for  *)
(* a lifecycle change, and the end of Run both wake everyone who waits, in *)
(* the critical section that makes them visible.                           *)
(***************************************************************************)
EXTENDS StateWriter, TLAPS

Types ==
  /\ lifecycle \in Seq(Lifecycle) /\ events \in Seq(Changes \ Lifecycle)
  /\ Len(lifecycle) + Len(events) <= Capacity
  /\ pc \in [Workers -> {"idle", "wait", "woken"}]
  /\ chg \in [Workers -> Changes \cup {NoChange}]

\* What DropsJustified says of spilling.
OnlyEventsSpilled == \A g \in gone : g[2] = "spilled" => g[1] \notin Lifecycle

IInv == Types /\ NoStrandedWaiter /\ OnlyEventsSpilled

\* The invariant holds initially.
LEMMA InitIInv == WriterAssumption /\ Init => IInv
BY DEF Init, IInv, Types, NoStrandedWaiter, OnlyEventsSpilled, WriterAssumption

\* push keeps the queues apart and adds one change to their length.
LEMMA PushAdds ==
  ASSUME WriterAssumption, NEW c \in Changes, NEW l \in Seq(Lifecycle),
         NEW e \in Seq(Changes \ Lifecycle), Push(c, l, e)
  PROVE  /\ lifecycle' \in Seq(Lifecycle) /\ events' \in Seq(Changes \ Lifecycle)
         /\ Len(lifecycle') + Len(events') = Len(l) + Len(e) + 1
<1>1. CASE c \in Lifecycle
  BY <1>1 DEF Push
<1>2. CASE c \notin Lifecycle
  BY <1>2 DEF Push
<1> QED BY <1>1, <1>2

\* Dropping one change adds it to the dropped ones.
LEMMA DropOne ==
  ASSUME NEW c, NEW cause, Drop(<<c>>, cause)
  PROVE  gone' = gone \cup {<<c, cause>>}
<1>1. ToSet(<<c>>) = {c}
  BY DEF ToSet
<1> QED BY <1>1 DEF Drop

\* A worker that returns waits for nothing.
LEMMA ReturnsIdle ==
  ASSUME IInv, NEW w \in Workers, Returns(w)
  PROVE  /\ pc' \in [Workers -> {"idle", "wait", "woken"}]
         /\ chg' \in [Workers -> Changes \cup {NoChange}]
         /\ pc'[w] = "idle" /\ \A v \in Workers : v # w => pc'[v] = pc[v] /\ chg'[v] = chg[v]
BY DEF IInv, Types, Returns

\* Space, or a change that may be spilled, means that nobody waits.
LEMMA NobodyWaits ==
  ASSUME WriterAssumption, IInv, Queued < Capacity \/ events # <<>>
  PROVE  \A w \in Workers : pc[w] # "wait"
<1>1. Len(lifecycle) < Capacity
  BY DEF IInv, Types, Queued, WriterAssumption
<1> QED BY <1>1 DEF IInv, NoStrandedWaiter, Types, WriterAssumption

\* A pass of enqueue's loop.
LEMMA EnqueueIInv ==
  ASSUME WriterAssumption, IInv,
         NEW w \in Workers, NEW c \in Changes, Enqueue(w, c)
  PROVE  IInv'
<1> USE DEF IInv
<1>1. CASE EnqueueSpace(w, c)
  <2>1. Push(c, lifecycle, events) /\ Returns(w) /\ Queued < Capacity /\ UNCHANGED <<closed, gone>>
    BY <1>1 DEF EnqueueSpace, lossVars
  <2>2. /\ lifecycle' \in Seq(Lifecycle) /\ events' \in Seq(Changes \ Lifecycle)
        /\ Len(lifecycle') + Len(events') = Len(lifecycle) + Len(events) + 1
    BY <2>1, PushAdds DEF Types
  <2>3. Len(lifecycle') + Len(events') <= Capacity
    BY <2>1, <2>2 DEF Queued, Types, WriterAssumption
  <2>4. \A v \in Workers : pc[v] # "wait"
    BY <2>1, NobodyWaits
  <2>5. Types' /\ NoStrandedWaiter'
    BY <2>1, <2>2, <2>3, <2>4, ReturnsIdle DEF Types, NoStrandedWaiter
  <2> QED BY <2>1, <2>5 DEF OnlyEventsSpilled
<1>2. CASE EnqueueSpill(w, c)
  <2>1. /\ Push(c, lifecycle, Tail(events)) /\ Returns(w) /\ events # <<>> /\ UNCHANGED closed
        /\ Drop(<<Head(events)>>, "spilled")
    BY <1>2 DEF EnqueueSpill
  <2>2. /\ Tail(events) \in Seq(Changes \ Lifecycle) /\ Len(Tail(events)) = Len(events) - 1
        /\ Head(events) \notin Lifecycle
    BY <2>1 DEF Types
  <2>3. /\ lifecycle' \in Seq(Lifecycle) /\ events' \in Seq(Changes \ Lifecycle)
        /\ Len(lifecycle') + Len(events') = Len(lifecycle) + Len(Tail(events)) + 1
    BY <2>1, <2>2, PushAdds DEF Types
  <2>4. Len(lifecycle') + Len(events') <= Capacity
    BY <2>2, <2>3 DEF Types
  <2>5. \A v \in Workers : pc[v] # "wait"
    BY <2>1, NobodyWaits
  <2>6. Types' /\ NoStrandedWaiter'
    BY <2>1, <2>3, <2>4, <2>5, ReturnsIdle DEF Types, NoStrandedWaiter
  <2>7. gone' = gone \cup {<<Head(events), "spilled">>}
    BY <2>1, DropOne
  <2>8. OnlyEventsSpilled'
    BY <2>2, <2>7 DEF OnlyEventsSpilled
  <2> QED BY <2>6, <2>8
<1>3. CASE SpillItself(w, c) \/ RefuseClosed(w, c)
  <2>1. Returns(w) /\ UNCHANGED <<lifecycle, events, closed>>
    BY <1>3 DEF SpillItself, RefuseClosed, queueVars
  <2>2. Types' /\ NoStrandedWaiter'
    BY <2>1, ReturnsIdle DEF Types, NoStrandedWaiter
  <2>3. \/ c \notin Lifecycle /\ gone' = gone \cup {<<c, "spilled">>}
        \/ gone' = gone \cup {<<c, "refused">>}
    BY <1>3, DropOne DEF SpillItself, RefuseClosed
  <2>4. OnlyEventsSpilled'
    BY <2>3 DEF OnlyEventsSpilled
  <2> QED BY <2>2, <2>4
<1>4. CASE WaitForSpace(w, c)
  <2>1. /\ Queued >= Capacity /\ events = <<>> /\ c \in Lifecycle /\ ~closed
        /\ pc' = [pc EXCEPT ![w] = "wait"] /\ chg' = [chg EXCEPT ![w] = c]
        /\ UNCHANGED <<lifecycle, events, closed, gone>>
    BY <1>4 DEF WaitForSpace, queueVars, lossVars
  <2>2. Len(lifecycle) = Capacity
    BY <2>1 DEF Types, Queued, WriterAssumption
  <2>3. Types'
    BY <2>1 DEF Types
  <2>4. NoStrandedWaiter' /\ OnlyEventsSpilled'
    BY <2>1, <2>2 DEF Types, NoStrandedWaiter, OnlyEventsSpilled
  <2> QED BY <2>3, <2>4
<1> QED BY <1>1, <1>2, <1>3, <1>4 DEF Enqueue

\* A drain takes from the front of both queues and wakes everyone.
LEMMA DrainIInv == ASSUME WriterAssumption, IInv, Drain PROVE IInv'
<1> USE DEF IInv
<1> DEFINE l == IF Len(lifecycle) < BatchSize THEN Len(lifecycle) ELSE BatchSize
           e == IF Len(events) < BatchSize - l THEN Len(events) ELSE BatchSize - l
<1>1. /\ lifecycle' = SubSeq(lifecycle, l + 1, Len(lifecycle))
      /\ events' = SubSeq(events, e + 1, Len(events))
      /\ WakeWaiters /\ UNCHANGED <<closed, chg, gone>>
  BY DEF Drain, lossVars
<1>2. l \in 0..Len(lifecycle) /\ e \in 0..Len(events)
  BY DEF Types, WriterAssumption
<1> HIDE DEF l, e
<1>3. /\ lifecycle' \in Seq(Lifecycle) /\ Len(lifecycle') = Len(lifecycle) - l
      /\ events' \in Seq(Changes \ Lifecycle) /\ Len(events') = Len(events) - e
  <2>1. ASSUME NEW S, NEW q \in Seq(S), NEW n \in 0..Len(q)
        PROVE  LET r == SubSeq(q, n + 1, Len(q)) IN r \in Seq(S) /\ Len(r) = Len(q) - n
    <3>1. Len(q) \in Nat /\ n + 1 \in 1..(Len(q) + 1)
      OBVIOUS
    <3>2. SubSeq(q, n + 1, Len(q)) \in Seq(S)
      BY <3>1
    <3>3. Len(SubSeq(q, n + 1, Len(q))) = Len(q) - n
      BY <3>1
    <3> QED BY <3>2, <3>3
  <2> QED BY <1>1, <1>2, <2>1 DEF Types
<1>4. /\ pc' \in [Workers -> {"idle", "wait", "woken"}]
      /\ \A w \in Workers : pc'[w] # "wait"
  BY <1>1 DEF WakeWaiters, Types
<1>5. Types'
  <2>1. Len(lifecycle) \in Nat /\ Len(events) \in Nat /\ Len(lifecycle) + Len(events) <= Capacity
    BY DEF Types
  <2>2. Len(lifecycle') + Len(events') <= Capacity
    BY <1>2, <1>3, <2>1 DEF WriterAssumption
  <2> QED BY <1>1, <1>3, <1>4, <2>2 DEF Types
<1>6. NoStrandedWaiter' /\ OnlyEventsSpilled'
  BY <1>1, <1>4 DEF NoStrandedWaiter, OnlyEventsSpilled
<1> QED BY <1>5, <1>6

\* A worker gives up, and Run ends: nobody is left waiting by either.
LEMMA LeaveIInv ==
  ASSUME IInv, Close \/ \E w \in Workers : GiveUp(w)
  PROVE  IInv'
<1> USE DEF IInv
<1>1. CASE Close
  <2>1. WakeWaiters /\ UNCHANGED <<lifecycle, events, chg, gone>>
    BY <1>1 DEF Close, queueVars, lossVars
  <2>2. /\ pc' \in [Workers -> {"idle", "wait", "woken"}] /\ \A w \in Workers : pc'[w] # "wait"
    BY <2>1 DEF WakeWaiters, Types
  <2> QED BY <2>1, <2>2 DEF Types, NoStrandedWaiter, OnlyEventsSpilled
<1>2. ASSUME NEW w \in Workers, GiveUp(w) PROVE IInv'
  <2>1. Returns(w) /\ UNCHANGED <<lifecycle, events, closed>> /\ Drop(<<chg[w]>>, "refused")
    BY <1>2 DEF GiveUp, queueVars
  <2>2. Types' /\ NoStrandedWaiter'
    BY <2>1, ReturnsIdle DEF Types, NoStrandedWaiter
  <2>3. gone' = gone \cup {<<chg[w], "refused">>}
    BY <2>1, DropOne
  <2>4. OnlyEventsSpilled'
    BY <2>3 DEF OnlyEventsSpilled
  <2> QED BY <2>2, <2>4
<1> QED BY <1>1, <1>2

\* Nothing is given up as spilled.
NoneSpilled == \A g \in gone' : g \in gone \/ g[2] # "spilled"

\* A drop for another cause spills nothing.
LEMMA DropOther ==
  ASSUME NEW cs, NEW cause, cause # "spilled", Drop(cs, cause)
  PROVE  NoneSpilled
BY DEF Drop, NoneSpilled

\* Neither does a write, whatever resolveSubjects discards.
LEMMA WrittenNoneSpilled == ASSUME NEW part, Written(part) PROVE NoneSpilled
BY DEF Written, NoneSpilled

\* Flush, its writes and salvage touch neither the queues nor the waiters, and
\* drop nothing as spilled.
LEMMA WriteIInv ==
  ASSUME IInv, UNCHANGED <<lifecycle, events, pc, chg, closed>>,
         gone' = gone \/ NoneSpilled
  PROVE  IInv'
<1> USE DEF IInv
<1>1. Types' /\ NoStrandedWaiter'
  BY DEF Types, NoStrandedWaiter
<1>2. OnlyEventsSpilled'
  BY DEF OnlyEventsSpilled, NoneSpilled
<1> QED BY <1>1, <1>2

\* Every step of Run keeps the invariant.
LEMMA RunIInv == ASSUME WriterAssumption, IInv, Run PROVE IInv'
<1> USE DEF queueVars, callVars, lossVars
<1>1. CASE Timer \/ Kicked \/ Stop \/ FlushEnds \/ TakeCarry \/ Interrupted \/ Send
  BY <1>1, WriteIInv DEF Timer, Kicked, Stop, FlushEnds, TakeCarry, Interrupted, Send
<1>2. CASE WriteUnavailable \/ WriteRejected \/ WriteRetries \/ WriteUnplaced
  BY <1>2, WriteIInv DEF WriteUnavailable, WriteRejected, WriteRetries, WriteUnplaced
<1>3. CASE WriteFails
  <2>1. gone' = gone \/ Drop(batch, "failed")
    BY <1>3 DEF WriteFails
  <2>2. UNCHANGED <<lifecycle, events, pc, chg, closed>>
    BY <1>3 DEF WriteFails
  <2> QED BY <2>1, <2>2, DropOther, WriteIInv
<1>4. CASE SalvageInterrupted \/ SalvageUnavailable \/ SalvageSplits
  BY <1>4, WriteIInv DEF SalvageInterrupted, SalvageUnavailable, SalvageSplits
<1>5. CASE SalvageDrops
  <2>1. Drop(Part, "rejected") \/ Drop(Part, "faulted")
    BY <1>5 DEF SalvageDrops
  <2>2. UNCHANGED <<lifecycle, events, pc, chg, closed>>
    BY <1>5 DEF SalvageDrops
  <2> QED BY <2>1, <2>2, DropOther, WriteIInv
<1>6. CASE Salvaged \/ FlushAgain
  BY <1>6, WriteIInv DEF Salvaged, FlushAgain
<1>7. CASE WriteSucceeds \/ SalvageWrites
  <2>1. NoneSpilled
    BY <1>7, WrittenNoneSpilled DEF WriteSucceeds, SalvageWrites
  <2>2. UNCHANGED <<lifecycle, events, pc, chg, closed>>
    BY <1>7 DEF WriteSucceeds, SalvageWrites
  <2> QED BY <2>1, <2>2, WriteIInv
<1> QED BY <1>1, <1>2, <1>3, <1>4, <1>5, <1>6, <1>7, DrainIInv, LeaveIInv DEF Run

-----------------------------------------------------------------------------
\* The queue never exceeds its capacity, what waits is served and only events
\* are spilled (statewriter.go 60-63, 197-216).
THEOREM WriterInvariant == Spec => []IInv
<1>1. Init => IInv
  BY InitIInv, WriterAssumption
<1>2. IInv /\ [Next]_vars => IInv'
  <2> SUFFICES ASSUME IInv, [Next]_vars PROVE IInv'
    OBVIOUS
  <2>1. ASSUME NEW w \in Workers, NEW c \in Changes, Enqueue(w, c) PROVE IInv'
    BY <2>1, EnqueueIInv, WriterAssumption
  <2>2. CASE \E w \in Workers : GiveUp(w)
    BY <2>2, LeaveIInv
  <2>3. CASE Run
    BY <2>3, RunIInv, WriterAssumption
  <2>4. CASE Cancel \/ Expire \/ CreatePartition \/ DeleteSubjects \/ UNCHANGED vars
    BY <2>4, WriteIInv DEF Cancel, Expire, CreatePartition, DeleteSubjects, vars, queueVars, callVars, lossVars
  <2> QED BY <2>1, <2>2, <2>3, <2>4 DEF Next
<1> QED BY <1>1, <1>2, PTL DEF Spec

\* No worker waits for space that is there, or at a queue nobody drains
\* (statewriter.go 197-216, 511-514).
THEOREM WriterNoStrandedWaiter == Spec => []NoStrandedWaiter
<1>1. IInv => NoStrandedWaiter
  BY DEF IInv
<1> QED BY <1>1, WriterInvariant, PTL
=============================================================================
