----------------------------- MODULE AdmitGate -----------------------------
(***************************************************************************)
(* The resizable, weighted, FIFO admission gate of internal/pkg/admit,     *)
(* which bounds how many Redis script calls one API process has in flight  *)
(* (scheduler.execAcquire holds a permit across the acquire script only).  *)
(*                                                                         *)
(* A caller is a goroutine inside Gate.Acquire or the work its permit      *)
(* covers.  Everything done under g.mu without a drain is one action.      *)
(* drainLocked is a loop under g.mu in which every iteration races, through *)
(* waiter.claimed, with callers that do not hold the lock, so each         *)
(* iteration is a step of its own and mu = "drain" says that the lock is    *)
(* held by whoever is draining.                                            *)
(***************************************************************************)
EXTENDS Integers, Sequences, FiniteSets

CONSTANTS
    Callers,        \* goroutines that call Acquire
    MaxLimit,       \* largest limit SetLimit is ever given
    MaxWeight,      \* largest weight a caller asks for
    CfgDepth,       \* Config.QueueDepth, 0 when the depth is derived
    QueueFactor,    \* admit.QueueFactor
    MinQueueDepth,  \* admit.MinQueueDepth
    MaxInt          \* math.MaxInt

ASSUME GateAssumption ==
    /\ IsFiniteSet(Callers)
    /\ MaxLimit \in Nat \ {0}
    /\ MaxWeight \in Nat
    /\ CfgDepth \in Nat
    /\ QueueFactor \in Nat \ {0}
    /\ MinQueueDepth \in Nat
    /\ MaxInt \in Nat

VARIABLES
    limit,     \* Gate.limit
    depth,     \* Gate.depth
    inFlight,  \* Gate.inFlight
    queue,     \* Gate.queue, the parked callers in FIFO order
    mu,        \* "free", or "drain" while the holder of g.mu is in drainLocked
    pc,        \* where each caller is
    want,      \* waiter.want
    weight,    \* waiter.weight
    claimed,   \* waiter.claimed
    ch,        \* waiter.ch holds the handoff
    permit     \* Permit.n of the permit the caller holds, 0 without one

gate == <<limit, depth, inFlight, queue, mu>>
waiter == <<want, weight, claimed, ch>>
vars == <<limit, depth, inFlight, queue, mu, pc, want, weight, claimed, ch, permit>>

\* idle: outside the gate.  parked: in the select.  abandoning: won the claim
\* after its timer or context fired, has not called abandon yet.  holding: has
\* the permit.  cancelling: context fired but the handoff won, so the caller
\* holds a permit it is about to give back.
PCs == {"idle", "parked", "abandoning", "holding", "cancelling"}

Limits == 1 .. MaxLimit

min(a, b) == IF a <= b THEN a ELSE b
max(a, b) == IF a >= b THEN a ELSE b

InQueue(c) == \E i \in 1 .. Len(queue) : queue[i] = c

\* list.Remove: the queue without the element at position i.
Without(q, i) == [j \in 1 .. Len(q) - 1 |-> IF j < i THEN q[j] ELSE q[j + 1]]

-----------------------------------------------------------------------------
(* Construction and resizing.                                              *)

deriveDepth(l) ==
    IF CfgDepth > 0 THEN CfgDepth
    ELSE IF l > MaxInt \div QueueFactor THEN MaxInt
    ELSE max(QueueFactor * l, MinQueueDepth)

Init ==
    /\ \E n \in 0 .. MaxLimit : limit = max(n, 1)
    /\ depth = deriveDepth(limit)
    /\ inFlight = 0
    /\ queue = << >>
    /\ mu = "free"
    /\ pc = [c \in Callers |-> "idle"]
    /\ want = [c \in Callers |-> 0]
    /\ weight = [c \in Callers |-> 0]
    /\ claimed = [c \in Callers |-> FALSE]
    /\ ch = [c \in Callers |-> FALSE]
    /\ permit = [c \in Callers |-> 0]

SetLimit(n) ==
    /\ mu = "free"
    /\ limit' = max(n, 1)
    /\ depth' = deriveDepth(limit')
    /\ mu' = "drain"
    /\ UNCHANGED <<inFlight, queue, pc, want, weight, claimed, ch, permit>>

-----------------------------------------------------------------------------
(* drainLocked, one iteration per step.                                    *)

\* The head of the queue is admitted with n units and these fit.
HeadFits ==
    /\ queue # << >>
    /\ min(want[Head(queue)], limit) <= limit - inFlight

DrainStep ==
    /\ mu = "drain"
    /\ HeadFits
    /\ LET c == Head(queue)
           n == min(want[c], limit)
       IN  /\ weight' = [weight EXCEPT ![c] = n]
           /\ queue' = Tail(queue)
           /\ \/ /\ claimed[c]        \* the caller already gave up
                 /\ UNCHANGED <<claimed, inFlight, ch>>
              \/ /\ ~claimed[c]
                 /\ claimed' = [claimed EXCEPT ![c] = TRUE]
                 /\ inFlight' = inFlight + n
                 /\ ch' = [ch EXCEPT ![c] = TRUE]
    /\ UNCHANGED <<limit, depth, mu, pc, want, permit>>

\* The queue is empty or its head does not fit: drainLocked returns and its
\* caller unlocks.
DrainDone ==
    /\ mu = "drain"
    /\ ~HeadFits
    /\ mu' = "free"
    /\ UNCHANGED <<limit, depth, inFlight, queue, pc, want, weight, claimed, ch, permit>>

-----------------------------------------------------------------------------
(* Acquire.                                                                *)

Clamp(w) == min(max(w, 1), limit)

\* Mutant of FastPath: an arrival may step over parked callers.
FastPathBarges(w) == Clamp(w) <= limit - inFlight

\* The anti-barge rule and the fit test of the fast path.
FastPath(w) == queue = << >> /\ Clamp(w) <= limit - inFlight

AcquireFast(c, w) ==
    /\ mu = "free" /\ pc[c] = "idle"
    /\ FastPath(w)
    /\ inFlight' = inFlight + Clamp(w)
    /\ permit' = [permit EXCEPT ![c] = Clamp(w)]
    /\ pc' = [pc EXCEPT ![c] = "holding"]
    /\ UNCHANGED <<limit, depth, queue, mu, want, weight, claimed, ch>>

\* ErrNoBudget (no budget) and ErrQueueFull (wait room full) leave the gate as
\* it is and are therefore not steps of the model.
AcquirePark(c, w, budget) ==
    /\ mu = "free" /\ pc[c] = "idle"
    /\ ~FastPath(w)
    /\ budget > 0
    /\ Len(queue) < depth
    /\ want' = [want EXCEPT ![c] = Clamp(w)]
    /\ weight' = [weight EXCEPT ![c] = Clamp(w)]
    /\ claimed' = [claimed EXCEPT ![c] = FALSE]
    /\ ch' = [ch EXCEPT ![c] = FALSE]
    /\ queue' = Append(queue, c)
    /\ pc' = [pc EXCEPT ![c] = "parked"]
    /\ UNCHANGED <<limit, depth, inFlight, mu, permit>>

\* case <-wt.ch, and the late success of a timer that lost the claim.
TakeHandoff(c) ==
    /\ ch[c]
    /\ ch' = [ch EXCEPT ![c] = FALSE]
    /\ permit' = [permit EXCEPT ![c] = weight[c]]

Receive(c) ==
    /\ pc[c] = "parked"
    /\ TakeHandoff(c)
    /\ pc' = [pc EXCEPT ![c] = "holding"]
    /\ UNCHANGED <<gate, want, weight, claimed>>

\* The timer or the context fires and the caller wins the claim.
GiveUp(c) ==
    /\ pc[c] = "parked"
    /\ ~claimed[c]
    /\ claimed' = [claimed EXCEPT ![c] = TRUE]
    /\ pc' = [pc EXCEPT ![c] = "abandoning"]
    /\ UNCHANGED <<gate, want, weight, ch, permit>>

\* Mutant of CancelLate: the caller leaves without giving the permit back.
CancelLateLeaks(c) ==
    /\ pc[c] = "parked"
    /\ claimed[c]
    /\ ch[c]
    /\ ch' = [ch EXCEPT ![c] = FALSE]
    /\ pc' = [pc EXCEPT ![c] = "idle"]
    /\ UNCHANGED <<gate, want, weight, claimed, permit>>

\* The context fires but the handoff won: the caller takes the permit only to
\* release it.
CancelLate(c) ==
    /\ pc[c] = "parked"
    /\ claimed[c]
    /\ TakeHandoff(c)
    /\ pc' = [pc EXCEPT ![c] = "cancelling"]
    /\ UNCHANGED <<gate, want, weight, claimed>>

\* Mutant of Abandon: the departing caller does not drain.
AbandonNoDrain(c) ==
    /\ mu = "free" /\ pc[c] = "abandoning"
    /\ \/ \E i \in 1 .. Len(queue) : queue[i] = c /\ queue' = Without(queue, i)
       \/ ~InQueue(c) /\ UNCHANGED queue
    /\ pc' = [pc EXCEPT ![c] = "idle"]
    /\ UNCHANGED <<limit, depth, inFlight, mu, want, weight, claimed, ch, permit>>

\* abandon: leave the queue, if still in it, and drain.
Abandon(c) ==
    /\ mu = "free" /\ pc[c] = "abandoning"
    /\ \/ \E i \in 1 .. Len(queue) : queue[i] = c /\ queue' = Without(queue, i)
       \/ ~InQueue(c) /\ UNCHANGED queue
    /\ mu' = "drain"
    /\ pc' = [pc EXCEPT ![c] = "idle"]
    /\ UNCHANGED <<limit, depth, inFlight, want, weight, claimed, ch, permit>>

-----------------------------------------------------------------------------
(* Permit.Release, by a holder whose work is done and by a caller that     *)
(* learnt of its permit after its context had fired.                       *)

Release(c) ==
    /\ mu = "free" /\ pc[c] \in {"holding", "cancelling"}
    /\ inFlight' = inFlight - permit[c]
    /\ permit' = [permit EXCEPT ![c] = 0]
    /\ mu' = "drain"
    /\ pc' = [pc EXCEPT ![c] = "idle"]
    /\ UNCHANGED <<limit, depth, queue, want, weight, claimed, ch>>

-----------------------------------------------------------------------------
Caller(c) ==
    \/ \E w \in 0 .. MaxWeight : AcquireFast(c, w)
    \/ \E w \in 0 .. MaxWeight, b \in {0, 1} : AcquirePark(c, w, b)
    \/ Receive(c) \/ GiveUp(c) \/ CancelLate(c) \/ Abandon(c) \/ Release(c)

Next ==
    \/ \E c \in Callers : Caller(c)
    \/ \E n \in 0 .. MaxLimit : SetLimit(n)
    \/ DrainStep
    \/ DrainDone

Spec == Init /\ [][Next]_vars

\* A goroutine that holds g.mu runs on; one that waits for g.mu gets it
\* eventually (sync.Mutex does not starve a waiter); one whose handoff has
\* arrived leaves the select; one that holds a permit releases it, because the
\* permit spans one script call with a deadline.  Nothing is assumed of the
\* timers, of the contexts, of new callers or of SetLimit.
Fairness ==
    /\ WF_vars(DrainStep) /\ WF_vars(DrainDone)
    /\ \A c \in Callers :
        WF_vars(Receive(c)) /\ SF_vars(Abandon(c)) /\ SF_vars(Release(c))

FairSpec == Spec /\ Fairness

-----------------------------------------------------------------------------
(* Properties.                                                             *)

\* Every variable holds a value of its Go type; a caller's weight is bounded.
TypeOK ==
    /\ limit \in Limits
    /\ depth \in Nat
    /\ inFlight \in Nat
    /\ queue \in Seq(Callers)
    /\ mu \in {"free", "drain"}
    /\ pc \in [Callers -> PCs]
    /\ want \in [Callers -> 0 .. MaxLimit]
    /\ weight \in [Callers -> 0 .. MaxLimit]
    /\ claimed \in [Callers -> BOOLEAN]
    /\ ch \in [Callers -> BOOLEAN]
    /\ permit \in [Callers -> 0 .. MaxLimit]

\* The units each caller is charged: its permit, or the handoff it has yet to
\* see.
Charged == [c \in Callers |-> IF ch[c] THEN weight[c] ELSE permit[c]]

\* One pair per unit that f assigns, so that counting the pairs sums f.
Units(f) == {u \in Callers \X Limits : u[2] <= f[u[1]]}

\* No permit is lost or counted twice: inFlight is exactly the sum of what the
\* callers hold or have been handed, through every race between a handoff, a
\* timer and a cancelled context (admit.go:183-209, 302-329).
Conservation == inFlight = Cardinality(Units(Charged))

\* No lost wakeup: whenever g.mu is free the caller at the head of the queue
\* does not fit, so capacity never lies idle in front of a waiter that could
\* use it (every path that frees capacity or removes a waiter drains).
NoStrandedCapacity == mu = "free" => ~HeadFits

\* No lost waiter: a parked caller that nobody has claimed is in the queue, and
\* one that was handed a permit, or has left, is not; nobody is queued twice.
QueueExact ==
    /\ \A c \in Callers : pc[c] = "parked" /\ ~claimed[c] => InQueue(c)
    /\ \A i \in 1 .. Len(queue) :
        /\ pc[queue[i]] \in {"parked", "abandoning"}
        /\ ~ch[queue[i]]
    /\ \A i, j \in 1 .. Len(queue) : queue[i] = queue[j] => i = j

\* Lowering the limit revokes nothing, but from then on nothing is admitted
\* that does not fit: a step that raises inFlight ends within the limit in
\* force (admit.go:164, 317).
AdmitsWithinLimit == [][inFlight' > inFlight => inFlight' <= limit']_vars

\* A parked caller is charged at most what it asked for when it parked, however
\* often the limit dips and recovers while it waits (admit.go:103-111, 316).
ChargedAtMostWant == \A c \in Callers : pc[c] = "parked" => weight[c] <= want[c]

\* The FIFO queue starves nobody: if holders release, every parked caller
\* leaves the wait room even when no timer ever fires and the limit keeps
\* changing.
EveryWaiterLeaves == \A c \in Callers : pc[c] = "parked" ~> pc[c] # "parked"

=============================================================================
