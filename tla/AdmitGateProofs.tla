-------------------------- MODULE AdmitGateProofs --------------------------
(***************************************************************************)
(* Proofs about the admission gate, for any number of callers, any limits  *)
(* and any weights.                                                        *)
(***************************************************************************)
EXTENDS AdmitGate, FiniteSetTheorems, SequenceTheorems, TLAPS

-----------------------------------------------------------------------------
(* Counting units.                                                         *)

\* A function on the callers with values up to MaxLimit assigns finitely many
\* units.
LEMMA UnitsFinite ==
    ASSUME NEW f \in [Callers -> 0 .. MaxLimit]
    PROVE  /\ IsFiniteSet(Units(f))
           /\ Cardinality(Units(f)) \in Nat
  <1>1. IsFiniteSet(Callers) /\ MaxLimit \in Nat
    BY GateAssumption
  <1>2. IsFiniteSet(Limits)
    BY <1>1, FS_Interval DEF Limits
  <1>3. IsFiniteSet(Callers \X Limits)
    BY <1>1, <1>2, FS_Product
  <1>4. Units(f) \subseteq Callers \X Limits
    BY DEF Units
  <1>5. IsFiniteSet(Units(f))
    BY <1>3, <1>4, FS_Subset
  <1> QED BY <1>5, FS_CardinalityType

\* Charging n units to a caller that had none adds n to the sum.
LEMMA UnitsAdd ==
    ASSUME NEW f \in [Callers -> 0 .. MaxLimit], NEW c \in Callers,
           NEW n \in 0 .. MaxLimit, f[c] = 0
    PROVE  Cardinality(Units([f EXCEPT ![c] = n])) = Cardinality(Units(f)) + n
  <1> DEFINE g == [f EXCEPT ![c] = n]
             U == {c} \X (1 .. n)
  <1>1. g \in [Callers -> 0 .. MaxLimit]
    OBVIOUS
  <1>2. MaxLimit \in Nat /\ n \in Nat
    BY GateAssumption
  <1>3. Units(g) = Units(f) \cup U
    BY <1>2 DEF Units, Limits
  <1>4. Units(f) \cap U = {}
    BY <1>2 DEF Units, Limits
  <1>5. IsFiniteSet(U) /\ Cardinality(U) = n
    <2>1. IsFiniteSet({c}) /\ Cardinality({c}) = 1
      BY FS_Singleton
    <2>2. IsFiniteSet(1 .. n) /\ Cardinality(1 .. n) = IF 1 > n THEN 0 ELSE n - 1 + 1
      <3>1. 1 \in Int /\ n \in Int
        BY <1>2
      <3> QED BY <3>1, FS_Interval, Zenon
    <2>4. Cardinality(1 .. n) = n
      BY <1>2, <2>2
    <2>3. IsFiniteSet(U) /\ Cardinality(U) = 1 * n
      BY <2>1, <2>2, <2>4, FS_Product
    <2> QED BY <1>2, <2>3
  <1>6. Cardinality(Units(g)) = Cardinality(Units(f)) + Cardinality(U) - Cardinality({})
    <2>1. IsFiniteSet(Units(f))
      BY UnitsFinite
    <2> HIDE DEF g, U
    <2> QED BY <1>3, <1>4, <1>5, <2>1, FS_Union
  <1>7. Cardinality(Units(f)) \in Nat
    BY UnitsFinite
  <1> QED BY <1>2, <1>5, <1>6, <1>7, FS_EmptySet

-----------------------------------------------------------------------------
(* The inductive invariant.  Conservation alone is not inductive: it needs *)
(* to know, from a caller's place, whether it has been handed a permit and *)
(* who claimed its waiter.  Typing needs Conservation, because a release   *)
(* must not take inFlight below zero.                                      *)

ClaimInv ==
    \A c \in Callers :
        /\ pc[c] = "parked" => permit[c] = 0 /\ (claimed[c] <=> ch[c])
        /\ pc[c] = "abandoning" => permit[c] = 0 /\ claimed[c] /\ ~ch[c]
        /\ pc[c] = "idle" => permit[c] = 0 /\ ~ch[c]
        /\ pc[c] \in {"holding", "cancelling"} => ~ch[c]

IInv == TypeOK /\ ClaimInv /\ QueueExact /\ Conservation /\ NoStrandedCapacity

\* Initially nobody is queued, charged or parked.
LEMMA InitIInv == Init => IInv
  <1> SUFFICES ASSUME Init PROVE IInv
    OBVIOUS
  <1> USE GateAssumption
  <1>1. limit \in Limits
    BY DEF Init, Limits, max
  <1>2. depth \in Nat
    <2>1. limit \in Nat
      BY <1>1 DEF Limits
    <2>2. QueueFactor * limit \in Nat
      BY <2>1
    <2> QED BY <2>1, <2>2 DEF Init, deriveDepth, max
  <1>3. TypeOK
    BY <1>1, <1>2 DEF Init, TypeOK, PCs
  <1>4. ClaimInv
    BY DEF Init, ClaimInv
  <1>5. QueueExact
    BY DEF Init, QueueExact, InQueue
  <1>6. Conservation
    <2>1. Charged = [c \in Callers |-> 0]
      BY DEF Init, Charged
    <2>2. Units(Charged) = {}
      BY <2>1 DEF Units, Limits
    <2> QED BY <2>2, FS_EmptySet DEF Init, Conservation
  <1>7. NoStrandedCapacity
    BY DEF Init, NoStrandedCapacity, HeadFits
  <1> QED BY <1>3, <1>4, <1>5, <1>6, <1>7 DEF IInv

-----------------------------------------------------------------------------
(* Facts used by several actions.                                          *)

\* Nobody is charged more than the largest limit.
LEMMA ChargedType == TypeOK => Charged \in [Callers -> 0 .. MaxLimit]
  BY DEF TypeOK, Charged

\* Removing position i keeps the queue a queue of the other callers, in order.
LEMMA WithoutSeq ==
    ASSUME NEW q \in Seq(Callers), NEW i \in 1 .. Len(q)
    PROVE  /\ Without(q, i) \in Seq(Callers)
           /\ Len(Without(q, i)) = Len(q) - 1
           /\ \A j \in 1 .. Len(q) - 1 :
                Without(q, i)[j] = IF j < i THEN q[j] ELSE q[j + 1]
  BY DEF Without

\* The clamped weight of a request lies between 1 and the limit.
LEMMA ClampType ==
    ASSUME TypeOK, NEW w \in Nat
    PROVE  Clamp(w) \in 1 .. MaxLimit /\ Clamp(w) <= limit /\ limit \in Nat
  BY GateAssumption DEF TypeOK, Limits, Clamp, min, max

-----------------------------------------------------------------------------
(* One lemma per action.                                                   *)

\* Resizing touches only the limit and the derived depth.
LEMMA SetLimitIInv ==
    ASSUME IInv, NEW n \in 0 .. MaxLimit, SetLimit(n)
    PROVE  IInv'
  <1> USE GateAssumption DEF IInv, SetLimit
  <1>1. limit' \in Limits
    BY DEF Limits, max
  <1>2. depth' \in Nat
    <2>1. limit' \in Nat
      BY <1>1 DEF Limits
    <2>2. QueueFactor * limit' \in Nat
      BY <2>1
    <2> QED BY <2>1, <2>2 DEF deriveDepth, max
  <1>3. TypeOK'
    BY <1>1, <1>2 DEF TypeOK
  <1>4. ClaimInv' /\ QueueExact'
    BY DEF ClaimInv, QueueExact, InQueue
  <1>5. Conservation'
    BY DEF Conservation, Charged, Units
  <1>6. NoStrandedCapacity'
    BY DEF NoStrandedCapacity
  <1> QED BY <1>3, <1>4, <1>5, <1>6

\* A drain iteration pops the head and either drops it, when its caller has
\* given up, or charges it exactly the units it hands over.
LEMMA DrainStepIInv ==
    ASSUME IInv, DrainStep
    PROVE  IInv'
  <1> DEFINE c == Head(queue)
             n == min(want[c], limit)
  <1>1. TypeOK /\ ClaimInv /\ QueueExact /\ Conservation
    BY DEF IInv
  <1>2. /\ mu = "drain" /\ HeadFits /\ queue' = Tail(queue)
        /\ weight' = [weight EXCEPT ![c] = n]
        /\ UNCHANGED <<limit, depth, mu, pc, want, permit>>
        /\ \/ claimed[c] /\ UNCHANGED <<claimed, inFlight, ch>>
           \/ /\ ~claimed[c]
              /\ claimed' = [claimed EXCEPT ![c] = TRUE]
              /\ inFlight' = inFlight + n
              /\ ch' = [ch EXCEPT ![c] = TRUE]
    BY DEF DrainStep
  <1>3. queue # << >> /\ queue \in Seq(Callers)
    BY <1>1, <1>2 DEF HeadFits, TypeOK
  <1>4. /\ c \in Callers /\ c = queue[1] /\ Len(queue) \in Nat \ {0}
        /\ Tail(queue) \in Seq(Callers) /\ Len(Tail(queue)) = Len(queue) - 1
        /\ \A i \in 1 .. Len(queue) - 1 : Tail(queue)[i] = queue[i + 1]
    BY <1>3
  <1>5. n \in 0 .. MaxLimit
    BY <1>1, <1>4, GateAssumption DEF TypeOK, Limits, min
  <1>6. pc[c] \in {"parked", "abandoning"} /\ ~ch[c] /\ permit[c] = 0
    BY <1>1, <1>4 DEF QueueExact, ClaimInv
  <1>7. TypeOK'
    <2>1. inFlight' \in Nat
      BY <1>1, <1>2, <1>5 DEF TypeOK
    <2> HIDE DEF c, n
    <2> QED BY <1>1, <1>2, <1>3, <1>4, <1>5, <2>1 DEF TypeOK
  <1>8. ClaimInv'
    <2> HIDE DEF c, n
    <2>1. pc' = pc /\ permit' = permit
      BY <1>2
    <2>2. ASSUME NEW d \in Callers, d # c
          PROVE  claimed'[d] = claimed[d] /\ ch'[d] = ch[d]
      <3>1. CASE claimed[c]
        BY <1>2, <3>1
      <3>2. CASE ~claimed[c]
        <4>1. claimed' = [claimed EXCEPT ![c] = TRUE] /\ ch' = [ch EXCEPT ![c] = TRUE]
          BY <1>2, <3>2
        <4> QED BY <1>1, <2>2, <4>1 DEF TypeOK
      <3> QED BY <3>1, <3>2
    <2>3. claimed'[c] /\ (ch'[c] <=> ~claimed[c])
      <3>1. CASE claimed[c]
        BY <1>2, <1>6, <3>1
      <3>2. CASE ~claimed[c]
        BY <1>1, <1>2, <1>4, <3>2 DEF TypeOK
      <3> QED BY <3>1, <3>2
    <2>4. pc[c] = "parked" => ~claimed[c]
      BY <1>1, <1>4, <1>6 DEF ClaimInv
    <2>5. pc[c] = "abandoning" => claimed[c]
      BY <1>1, <1>4 DEF ClaimInv
    <2> QED
      <3> SUFFICES ASSUME NEW d \in Callers
                   PROVE  /\ pc[d] = "parked" => permit[d] = 0 /\ (claimed'[d] <=> ch'[d])
                          /\ pc[d] = "abandoning" => permit[d] = 0 /\ claimed'[d] /\ ~ch'[d]
                          /\ pc[d] = "idle" => permit[d] = 0 /\ ~ch'[d]
                          /\ pc[d] \in {"holding", "cancelling"} => ~ch'[d]
        BY <2>1 DEF ClaimInv
      <3>1. CASE d = c
        BY <1>6, <2>3, <2>4, <2>5, <3>1
      <3>2. CASE d # c
        BY <1>1, <2>2, <3>2 DEF ClaimInv
      <3> QED BY <3>1, <3>2
  <1>9. QueueExact'
    <2> HIDE DEF n
    <2>1. \A i \in 1 .. Len(queue') : queue'[i] = queue[i + 1] /\ queue'[i] # c
      BY <1>1, <1>2, <1>4 DEF QueueExact
    <2>2. \A d \in Callers : d # c /\ InQueue(d) => InQueue(d)'
      <3> SUFFICES ASSUME NEW d \in Callers, d # c, NEW i \in 1 .. Len(queue), queue[i] = d
                   PROVE  InQueue(d)'
        BY DEF InQueue
      <3>1. i - 1 \in 1 .. Len(queue') /\ queue'[i - 1] = d
        BY <1>2, <1>4
      <3> QED BY <3>1 DEF InQueue
    <2>3. \A d \in Callers : pc'[d] = "parked" /\ ~claimed'[d] => InQueue(d)'
      <3> HIDE DEF c
      <3> QED BY <1>1, <1>2, <1>4, <1>6, <2>2 DEF QueueExact, ClaimInv, TypeOK
    <2>4. \A i \in 1 .. Len(queue') :
            pc'[queue'[i]] \in {"parked", "abandoning"} /\ ~ch'[queue'[i]]
      <3> SUFFICES ASSUME NEW i \in 1 .. Len(queue')
                   PROVE  pc'[queue'[i]] \in {"parked", "abandoning"} /\ ~ch'[queue'[i]]
        OBVIOUS
      <3>1. i + 1 \in 1 .. Len(queue) /\ queue'[i] = queue[i + 1] /\ queue'[i] # c
        BY <1>2, <1>4, <2>1
      <3>2. queue[i + 1] \in Callers
        BY <1>3, <3>1
      <3>3. pc[queue[i + 1]] \in {"parked", "abandoning"} /\ ~ch[queue[i + 1]]
        BY <1>1, <3>1 DEF QueueExact
      <3>4. ch'[queue[i + 1]] = ch[queue[i + 1]]
        <4> HIDE DEF c
        <4> QED BY <1>1, <1>2, <3>1, <3>2 DEF TypeOK
      <3> QED BY <1>2, <3>1, <3>3, <3>4
    <2>5. \A i, j \in 1 .. Len(queue') : queue'[i] = queue'[j] => i = j
      <3> SUFFICES ASSUME NEW i \in 1 .. Len(queue'), NEW j \in 1 .. Len(queue'),
                          queue'[i] = queue'[j]
                   PROVE  i = j
        OBVIOUS
      <3>1. i + 1 \in 1 .. Len(queue) /\ j + 1 \in 1 .. Len(queue) /\ i \in Int /\ j \in Int
        BY <1>2, <1>4
      <3>2. queue[i + 1] = queue[j + 1]
        BY <2>1
      <3>3. i + 1 = j + 1
        BY <1>1, <3>1, <3>2 DEF QueueExact
      <3> QED BY <3>1, <3>3
    <2> QED BY <2>3, <2>4, <2>5 DEF QueueExact
  <1>10. Conservation'
    <2>1. Charged \in [Callers -> 0 .. MaxLimit] /\ Charged[c] = 0
      BY <1>1, <1>4, <1>6, ChargedType DEF Charged
    <2>2. CASE claimed[c]
      <3>1. Charged' = Charged /\ inFlight' = inFlight
        <4> HIDE DEF c, n
        <4> QED BY <1>1, <1>2, <1>4, <1>6, <2>2 DEF Charged, TypeOK
      <3> QED BY <1>1, <3>1 DEF Conservation
    <2>3. CASE ~claimed[c]
      <3>1. Charged' = [Charged EXCEPT ![c] = n] /\ inFlight' = inFlight + n
        <4> HIDE DEF c, n
        <4> QED BY <1>1, <1>2, <1>4, <1>6, <2>3 DEF Charged, TypeOK
      <3>2. Cardinality(Units(Charged')) = Cardinality(Units(Charged)) + n
        <4> HIDE DEF c, n
        <4> QED BY <1>4, <1>5, <2>1, <3>1, UnitsAdd
      <3> QED BY <1>1, <3>1, <3>2 DEF Conservation, Units
    <2> QED BY <2>2, <2>3
  <1>11. NoStrandedCapacity'
    BY <1>2 DEF NoStrandedCapacity
  <1> QED BY <1>7, <1>8, <1>9, <1>10, <1>11 DEF IInv

\* Unlocking happens only when the head does not fit.
LEMMA DrainDoneIInv ==
    ASSUME IInv, DrainDone
    PROVE  IInv'
  <1> USE DEF IInv, DrainDone
  <1>1. TypeOK' /\ ClaimInv' /\ QueueExact'
    BY DEF TypeOK, ClaimInv, QueueExact, InQueue
  <1>2. Conservation'
    BY DEF Conservation, Charged, Units
  <1>3. NoStrandedCapacity'
    BY DEF NoStrandedCapacity, HeadFits
  <1> QED BY <1>1, <1>2, <1>3

\* The fast path charges a caller that held nothing, and only when nobody is
\* queued.
LEMMA AcquireFastIInv ==
    ASSUME IInv, NEW c \in Callers, NEW w \in 0 .. MaxWeight, AcquireFast(c, w)
    PROVE  IInv'
  <1> DEFINE n == Clamp(w)
  <1>1. TypeOK /\ ClaimInv /\ QueueExact /\ Conservation
    BY DEF IInv
  <1>2. /\ pc[c] = "idle" /\ queue = << >>
        /\ inFlight' = inFlight + n
        /\ permit' = [permit EXCEPT ![c] = n]
        /\ pc' = [pc EXCEPT ![c] = "holding"]
        /\ UNCHANGED <<limit, depth, queue, mu, want, weight, claimed, ch>>
    BY DEF AcquireFast, FastPath
  <1>3. n \in 0 .. MaxLimit
    BY <1>1, ClampType, GateAssumption
  <1> HIDE DEF n
  <1>4. TypeOK'
    BY <1>1, <1>2, <1>3 DEF TypeOK, PCs
  <1>5. ClaimInv'
    BY <1>1, <1>2 DEF ClaimInv, TypeOK, PCs
  <1>6. QueueExact'
    BY <1>1, <1>2 DEF QueueExact, InQueue, TypeOK
  <1>7. Conservation'
    <2>1. ~ch[c] /\ permit[c] = 0
      BY <1>1, <1>2 DEF ClaimInv
    <2>2. Charged \in [Callers -> 0 .. MaxLimit] /\ Charged[c] = 0
      BY <1>1, <2>1, ChargedType DEF Charged
    <2>3. Charged' = [Charged EXCEPT ![c] = n]
      BY <1>1, <1>2, <2>1 DEF Charged, TypeOK
    <2>4. Cardinality(Units(Charged')) = Cardinality(Units(Charged)) + n
      BY <1>3, <2>2, <2>3, UnitsAdd
    <2> QED BY <1>1, <1>2, <2>4 DEF Conservation, Units
  <1>8. NoStrandedCapacity'
    BY <1>2 DEF NoStrandedCapacity, HeadFits
  <1> QED BY <1>4, <1>5, <1>6, <1>7, <1>8 DEF IInv

\* Parking appends a caller that does not fit, or that stands behind a head
\* that does not.
LEMMA AcquireParkIInv ==
    ASSUME IInv, NEW c \in Callers, NEW w \in 0 .. MaxWeight, NEW b \in {0, 1},
           AcquirePark(c, w, b)
    PROVE  IInv'
  <1> DEFINE n == Clamp(w)
  <1>1. TypeOK /\ ClaimInv /\ QueueExact /\ Conservation /\ NoStrandedCapacity
    BY DEF IInv
  <1>2. /\ mu = "free" /\ pc[c] = "idle"
        /\ queue # << >> \/ ~(n <= limit - inFlight)
        /\ want' = [want EXCEPT ![c] = n]
        /\ weight' = [weight EXCEPT ![c] = n]
        /\ claimed' = [claimed EXCEPT ![c] = FALSE]
        /\ ch' = [ch EXCEPT ![c] = FALSE]
        /\ queue' = Append(queue, c)
        /\ pc' = [pc EXCEPT ![c] = "parked"]
        /\ UNCHANGED <<limit, depth, inFlight, mu, permit>>
    BY DEF AcquirePark, FastPath
  <1>3. n \in 0 .. MaxLimit /\ n <= limit
    BY <1>1, ClampType, GateAssumption
  <1> HIDE DEF n
  <1>4. /\ queue \in Seq(Callers) /\ Len(queue) \in Nat
        /\ queue' \in Seq(Callers) /\ Len(queue') = Len(queue) + 1
        /\ \A i \in 1 .. Len(queue) : queue'[i] = queue[i] /\ queue[i] \in Callers
        /\ queue'[Len(queue) + 1] = c
    BY <1>1, <1>2, AppendProperties, ElementOfSeq, LenProperties DEF TypeOK
  <1>5. \A i \in 1 .. Len(queue) : queue[i] # c
    BY <1>1, <1>2 DEF QueueExact
  <1>6. TypeOK'
    BY <1>1, <1>2, <1>3, <1>4 DEF TypeOK, PCs
  <1>7. ClaimInv'
    BY <1>1, <1>2 DEF ClaimInv, TypeOK, PCs
  <1>8. QueueExact'
    <2>1. \A d \in Callers : pc'[d] = "parked" /\ ~claimed'[d] => InQueue(d)'
      <3> SUFFICES ASSUME NEW d \in Callers, pc'[d] = "parked", ~claimed'[d]
                   PROVE  \E i \in 1 .. Len(queue') : queue'[i] = d
        BY DEF InQueue
      <3>1. CASE d = c
        BY <1>4, <3>1
      <3>2. CASE d # c
        <4>1. pc[d] = "parked" /\ ~claimed[d]
          BY <1>1, <1>2, <3>2 DEF TypeOK
        <4>2. PICK i \in 1 .. Len(queue) : queue[i] = d
          BY <1>1, <4>1 DEF QueueExact, InQueue
        <4> QED BY <1>4, <4>2
      <3> QED BY <3>1, <3>2
    <2>2. \A i \in 1 .. Len(queue') :
            pc'[queue'[i]] \in {"parked", "abandoning"} /\ ~ch'[queue'[i]]
      <3> SUFFICES ASSUME NEW i \in 1 .. Len(queue')
                   PROVE  pc'[queue'[i]] \in {"parked", "abandoning"} /\ ~ch'[queue'[i]]
        OBVIOUS
      <3>1. CASE i = Len(queue) + 1
        BY <1>1, <1>2, <1>4, <3>1 DEF TypeOK
      <3>2. CASE i \in 1 .. Len(queue)
        <4>1. queue'[i] = queue[i] /\ queue[i] \in Callers /\ queue[i] # c
          BY <1>4, <1>5, <3>2
        <4>2. pc[queue[i]] \in {"parked", "abandoning"} /\ ~ch[queue[i]]
          BY <1>1, <3>2 DEF QueueExact
        <4>3. pc'[queue[i]] = pc[queue[i]] /\ ch'[queue[i]] = ch[queue[i]]
          BY <1>1, <1>2, <4>1 DEF TypeOK
        <4> QED BY <4>1, <4>2, <4>3
      <3> QED BY <1>4, <3>1, <3>2
    <2>3. \A i, j \in 1 .. Len(queue') : queue'[i] = queue'[j] => i = j
      BY <1>1, <1>4, <1>5 DEF QueueExact
    <2> QED BY <2>1, <2>2, <2>3 DEF QueueExact
  <1>9. Conservation'
    <2>1. ~ch[c] /\ permit[c] = 0
      BY <1>1, <1>2 DEF ClaimInv
    <2>2. Charged' = Charged
      BY <1>1, <1>2, <2>1 DEF Charged, TypeOK
    <2> QED BY <1>1, <1>2, <2>2 DEF Conservation, Units
  <1>10. NoStrandedCapacity'
    <2>1. CASE queue = << >>
      <3>1. Head(queue') = c
        BY <1>2, <2>1
      <3>2. want'[c] = n /\ min(n, limit) = n
        BY <1>1, <1>2, <1>3 DEF TypeOK, min, Limits
      <3> QED BY <1>2, <2>1, <3>1, <3>2 DEF NoStrandedCapacity, HeadFits
    <2>2. CASE queue # << >>
      <3>1. Head(queue') = Head(queue) /\ Head(queue) = queue[1] /\ 1 \in 1 .. Len(queue)
        BY <1>2, <1>4, <2>2
      <3>2. Head(queue) \in Callers /\ Head(queue) # c
        BY <1>4, <1>5, <3>1
      <3>3. want'[Head(queue)] = want[Head(queue)]
        BY <1>1, <1>2, <3>2 DEF TypeOK
      <3> QED BY <1>1, <1>2, <2>2, <3>1, <3>3 DEF NoStrandedCapacity, HeadFits
    <2> QED BY <2>1, <2>2
  <1> QED BY <1>6, <1>7, <1>8, <1>9, <1>10 DEF IInv

\* Receiving the handoff turns the charge into a permit of the same size,
\* whether the caller goes on to use it or to give it back.
LEMMA TakeHandoffIInv ==
    ASSUME IInv, NEW c \in Callers, NEW p \in {"holding", "cancelling"},
           pc[c] = "parked", TakeHandoff(c), pc' = [pc EXCEPT ![c] = p],
           UNCHANGED <<gate, want, weight, claimed>>
    PROVE  IInv'
  <1>1. TypeOK /\ ClaimInv /\ QueueExact /\ Conservation /\ NoStrandedCapacity
    BY DEF IInv
  <1>2. /\ ch[c] /\ ch' = [ch EXCEPT ![c] = FALSE]
        /\ permit' = [permit EXCEPT ![c] = weight[c]]
        /\ UNCHANGED <<limit, depth, inFlight, queue, mu, want, weight, claimed>>
    BY DEF TakeHandoff, gate
  <1>3. TypeOK'
    BY <1>1, <1>2 DEF TypeOK, PCs
  <1>4. ClaimInv'
    BY <1>1, <1>2 DEF ClaimInv, TypeOK, PCs
  <1>5. QueueExact'
    <2>1. \A i \in 1 .. Len(queue) : queue[i] # c /\ queue[i] \in Callers
      BY <1>1, <1>2, ElementOfSeq DEF QueueExact, TypeOK
    <2>2. \A d \in Callers : pc'[d] = "parked" /\ ~claimed'[d] => InQueue(d)'
      BY <1>1, <1>2 DEF QueueExact, InQueue, TypeOK
    <2>3. \A i \in 1 .. Len(queue') :
            pc'[queue'[i]] \in {"parked", "abandoning"} /\ ~ch'[queue'[i]]
      BY <1>1, <1>2, <2>1 DEF QueueExact, TypeOK
    <2> QED BY <1>1, <1>2, <2>2, <2>3 DEF QueueExact
  <1>6. Conservation'
    <2>1. Charged' = Charged
      BY <1>1, <1>2 DEF Charged, TypeOK
    <2> QED BY <1>1, <1>2, <2>1 DEF Conservation, Units
  <1>7. NoStrandedCapacity'
    BY <1>1, <1>2 DEF NoStrandedCapacity, HeadFits
  <1> QED BY <1>3, <1>4, <1>5, <1>6, <1>7 DEF IInv

\* Winning the claim against the gate leaves the caller queued and uncharged.
LEMMA GiveUpIInv ==
    ASSUME IInv, NEW c \in Callers, GiveUp(c)
    PROVE  IInv'
  <1>1. TypeOK /\ ClaimInv /\ QueueExact /\ Conservation /\ NoStrandedCapacity
    BY DEF IInv
  <1>2. /\ pc[c] = "parked" /\ ~claimed[c]
        /\ claimed' = [claimed EXCEPT ![c] = TRUE]
        /\ pc' = [pc EXCEPT ![c] = "abandoning"]
        /\ UNCHANGED <<limit, depth, inFlight, queue, mu, want, weight, ch, permit>>
    BY DEF GiveUp, gate
  <1>3. TypeOK'
    BY <1>1, <1>2 DEF TypeOK, PCs
  <1>4. ClaimInv'
    BY <1>1, <1>2 DEF ClaimInv, TypeOK, PCs
  <1>5. QueueExact'
    <2>1. \A d \in Callers : pc'[d] = "parked" /\ ~claimed'[d] => InQueue(d)'
      BY <1>1, <1>2 DEF QueueExact, InQueue, TypeOK
    <2>2. \A i \in 1 .. Len(queue') :
            pc'[queue'[i]] \in {"parked", "abandoning"} /\ ~ch'[queue'[i]]
      BY <1>1, <1>2, ElementOfSeq DEF QueueExact, TypeOK
    <2> QED BY <1>1, <1>2, <2>1, <2>2 DEF QueueExact
  <1>6. Conservation'
    BY <1>1, <1>2 DEF Conservation, Charged, Units
  <1>7. NoStrandedCapacity'
    BY <1>1, <1>2 DEF NoStrandedCapacity, HeadFits
  <1> QED BY <1>3, <1>4, <1>5, <1>6, <1>7 DEF IInv

\* An abandoning caller leaves the queue, if a drain has not popped it already,
\* and leaves nobody else out.
LEMMA AbandonIInv ==
    ASSUME IInv, NEW c \in Callers, Abandon(c)
    PROVE  IInv'
  <1>1. TypeOK /\ ClaimInv /\ QueueExact /\ Conservation
    BY DEF IInv
  <1>2. /\ pc[c] = "abandoning" /\ mu' = "drain"
        /\ pc' = [pc EXCEPT ![c] = "idle"]
        /\ UNCHANGED <<limit, depth, inFlight, want, weight, claimed, ch, permit>>
    BY DEF Abandon
  <1>3. queue \in Seq(Callers) /\ Len(queue) \in Nat
    BY <1>1 DEF TypeOK
  <1>4. queue' \in Seq(Callers)
    BY <1>3, WithoutSeq DEF Abandon
  <1>5. TypeOK'
    BY <1>1, <1>2, <1>4 DEF TypeOK, PCs
  <1>6. ClaimInv'
    BY <1>1, <1>2 DEF ClaimInv, TypeOK, PCs
  <1>7. /\ \A d \in Callers : d # c /\ InQueue(d) => InQueue(d)'
        /\ \A i \in 1 .. Len(queue') : queue'[i] # c /\ queue'[i] \in Callers
        /\ \A i \in 1 .. Len(queue') : \E j \in 1 .. Len(queue) : queue'[i] = queue[j]
        /\ \A i, j \in 1 .. Len(queue') : queue'[i] = queue'[j] => i = j
    <2>1. CASE ~InQueue(c) /\ UNCHANGED queue
      BY <1>1, <1>3, <2>1, ElementOfSeq DEF InQueue, QueueExact
    <2>2. CASE \E i \in 1 .. Len(queue) : queue[i] = c /\ queue' = Without(queue, i)
      <3>1. PICK k \in 1 .. Len(queue) : queue[k] = c /\ queue' = Without(queue, k)
        BY <2>2
      <3>2. /\ Len(queue') = Len(queue) - 1
            /\ \A j \in 1 .. Len(queue) - 1 :
                 queue'[j] = IF j < k THEN queue[j] ELSE queue[j + 1]
        BY <1>3, <3>1, WithoutSeq
      <3>3. \A i, j \in 1 .. Len(queue) : queue[i] = queue[j] => i = j
        BY <1>1 DEF QueueExact
      <3>4. \A d \in Callers : d # c /\ InQueue(d) => InQueue(d)'
        <4> SUFFICES ASSUME NEW d \in Callers, d # c, NEW i \in 1 .. Len(queue), queue[i] = d
                     PROVE  \E j \in 1 .. Len(queue') : queue'[j] = d
          BY DEF InQueue
        <4>1. CASE i < k
          BY <1>3, <3>1, <3>2, <4>1
        <4>2. CASE i > k
          <5>1. i - 1 \in 1 .. Len(queue') /\ queue'[i - 1] = d
            BY <1>3, <3>1, <3>2, <4>2
          <5> QED BY <5>1
        <4> QED BY <1>3, <3>1, <4>1, <4>2
      <3>5. \A i \in 1 .. Len(queue') : queue'[i] # c /\ queue'[i] \in Callers
        BY <1>3, <3>1, <3>2, <3>3, ElementOfSeq
      <3>6. \A i \in 1 .. Len(queue') : \E j \in 1 .. Len(queue) : queue'[i] = queue[j]
        BY <1>3, <3>1, <3>2
      <3>7. \A i, j \in 1 .. Len(queue') : queue'[i] = queue'[j] => i = j
        <4> SUFFICES ASSUME NEW i \in 1 .. Len(queue'), NEW j \in 1 .. Len(queue'),
                            queue'[i] = queue'[j]
                     PROVE  i = j
          OBVIOUS
        <4> DEFINE pos(m) == IF m < k THEN m ELSE m + 1
        <4>1. /\ pos(i) \in 1 .. Len(queue) /\ queue'[i] = queue[pos(i)]
              /\ pos(j) \in 1 .. Len(queue) /\ queue'[j] = queue[pos(j)]
          BY <1>3, <3>1, <3>2
        <4>2. pos(i) = pos(j)
          <5> HIDE DEF pos
          <5> QED BY <3>3, <4>1
        <4> QED BY <1>3, <3>1, <3>2, <4>2
      <3> QED BY <3>4, <3>5, <3>6, <3>7
    <2> QED BY <2>1, <2>2 DEF Abandon
  <1>8. QueueExact'
    <2>1. \A d \in Callers : pc'[d] = "parked" /\ ~claimed'[d] => InQueue(d)'
      BY <1>1, <1>2, <1>7 DEF QueueExact, TypeOK
    <2>2. \A i \in 1 .. Len(queue') :
            pc'[queue'[i]] \in {"parked", "abandoning"} /\ ~ch'[queue'[i]]
      BY <1>1, <1>2, <1>7 DEF QueueExact, TypeOK
    <2> QED BY <1>7, <2>1, <2>2 DEF QueueExact
  <1>9. Conservation'
    BY <1>1, <1>2 DEF Conservation, Charged, Units
  <1>10. NoStrandedCapacity'
    BY <1>2 DEF NoStrandedCapacity
  <1> QED BY <1>5, <1>6, <1>8, <1>9, <1>10 DEF IInv

\* A release takes out of inFlight exactly what the caller was charged.
LEMMA ReleaseIInv ==
    ASSUME IInv, NEW c \in Callers, Release(c)
    PROVE  IInv'
  <1>1. TypeOK /\ ClaimInv /\ QueueExact /\ Conservation
    BY DEF IInv
  <1>2. /\ pc[c] \in {"holding", "cancelling"} /\ mu' = "drain"
        /\ inFlight' = inFlight - permit[c]
        /\ permit' = [permit EXCEPT ![c] = 0]
        /\ pc' = [pc EXCEPT ![c] = "idle"]
        /\ UNCHANGED <<limit, depth, queue, want, weight, claimed, ch>>
    BY DEF Release
  <1>3. permit[c] \in 0 .. MaxLimit /\ ~ch[c] /\ MaxLimit \in Nat
    BY <1>1, <1>2, GateAssumption DEF TypeOK, ClaimInv
  <1>4. /\ Charged' \in [Callers -> 0 .. MaxLimit] /\ Charged'[c] = 0
        /\ Charged = [Charged' EXCEPT ![c] = permit[c]]
    <2>1. permit' \in [Callers -> 0 .. MaxLimit] /\ permit'[c] = 0
      BY <1>1, <1>2, <1>3 DEF TypeOK
    <2>2. Charged' \in [Callers -> 0 .. MaxLimit] /\ Charged'[c] = 0
      BY <1>1, <1>2, <1>3, <2>1 DEF Charged, TypeOK
    <2>3. Charged = [Charged' EXCEPT ![c] = permit[c]]
      BY <1>1, <1>2, <1>3 DEF Charged, TypeOK
    <2> QED BY <2>2, <2>3
  <1>5. Cardinality(Units(Charged)) = Cardinality(Units(Charged')) + permit[c]
    BY <1>3, <1>4, UnitsAdd
  <1>6. Cardinality(Units(Charged')) \in Nat
    BY <1>4, UnitsFinite
  <1>7. inFlight' = Cardinality(Units(Charged'))
    BY <1>1, <1>2, <1>3, <1>5, <1>6 DEF Conservation
  <1>8. TypeOK'
    <2>1. permit' \in [Callers -> 0 .. MaxLimit]
      BY <1>1, <1>2, <1>3 DEF TypeOK
    <2>2. inFlight' \in Nat
      BY <1>6, <1>7
    <2> QED BY <1>1, <1>2, <2>1, <2>2 DEF TypeOK, PCs
  <1>9. ClaimInv'
    BY <1>1, <1>2, <1>3 DEF ClaimInv, TypeOK, PCs
  <1>10. QueueExact'
    <2>1. \A i \in 1 .. Len(queue) : queue[i] # c /\ queue[i] \in Callers
      BY <1>1, <1>2, ElementOfSeq DEF QueueExact, TypeOK
    <2>2. \A d \in Callers : pc'[d] = "parked" /\ ~claimed'[d] => InQueue(d)'
      BY <1>1, <1>2 DEF QueueExact, InQueue, TypeOK
    <2>3. \A i \in 1 .. Len(queue') :
            pc'[queue'[i]] \in {"parked", "abandoning"} /\ ~ch'[queue'[i]]
      BY <1>1, <1>2, <2>1 DEF QueueExact, TypeOK
    <2> QED BY <1>1, <1>2, <2>2, <2>3 DEF QueueExact
  <1>11. Conservation'
    BY <1>7 DEF Conservation, Units
  <1>12. NoStrandedCapacity'
    BY <1>2 DEF NoStrandedCapacity
  <1> QED BY <1>8, <1>9, <1>10, <1>11, <1>12 DEF IInv

-----------------------------------------------------------------------------
(* The invariant and the theorems.                                         *)

\* Every step of the gate preserves the invariant.
LEMMA NextIInv == IInv /\ [Next]_vars => IInv'
  <1> SUFFICES ASSUME IInv, [Next]_vars PROVE IInv'
    OBVIOUS
  <1>1. ASSUME NEW c \in Callers, Caller(c) PROVE IInv'
    <2>1. CASE \E w \in 0 .. MaxWeight : AcquireFast(c, w)
      BY <2>1, AcquireFastIInv
    <2>2. CASE \E w \in 0 .. MaxWeight, b \in {0, 1} : AcquirePark(c, w, b)
      BY <2>2, AcquireParkIInv
    <2>3. CASE Receive(c)
      BY <2>3, TakeHandoffIInv DEF Receive
    <2>4. CASE CancelLate(c)
      BY <2>4, TakeHandoffIInv DEF CancelLate
    <2>5. CASE GiveUp(c)
      BY <2>5, GiveUpIInv
    <2>6. CASE Abandon(c)
      BY <2>6, AbandonIInv
    <2>7. CASE Release(c)
      BY <2>7, ReleaseIInv
    <2> QED BY <1>1, <2>1, <2>2, <2>3, <2>4, <2>5, <2>6, <2>7 DEF Caller
  <1>2. CASE \E n \in 0 .. MaxLimit : SetLimit(n)
    BY <1>2, SetLimitIInv
  <1>3. CASE DrainStep
    BY <1>3, DrainStepIInv
  <1>4. CASE DrainDone
    BY <1>4, DrainDoneIInv
  <1>5. CASE UNCHANGED vars
    <2>1. TypeOK' /\ ClaimInv' /\ QueueExact'
      BY <1>5 DEF IInv, vars, TypeOK, ClaimInv, QueueExact, InQueue
    <2>2. Conservation' /\ NoStrandedCapacity'
      BY <1>5 DEF IInv, vars, Conservation, Charged, Units, NoStrandedCapacity, HeadFits
    <2> QED BY <2>1, <2>2 DEF IInv
  <1> QED BY <1>1, <1>2, <1>3, <1>4, <1>5 DEF Next

\* IInv is an invariant of the gate.
THEOREM Invariance == Spec => []IInv
  <1> QED BY InitIInv, NextIInv, PTL DEF Spec

\* Every variable keeps its type; in particular no release drives inFlight
\* (admit.go:279) below zero.
THEOREM TypeCorrect == Spec => []TypeOK
  <1>1. IInv => TypeOK
    BY DEF IInv
  <1> QED BY <1>1, Invariance, PTL

\* No permit is lost or counted twice, for any number of callers, weights and
\* resizes.
THEOREM PermitsConserved == Spec => []Conservation
  <1>1. IInv => Conservation
    BY DEF IInv
  <1> QED BY <1>1, Invariance, PTL

\* No lost wakeup: with g.mu free, the head of the queue does not fit.
THEOREM NoLostWakeup == Spec => []NoStrandedCapacity
  <1>1. IInv => NoStrandedCapacity
    BY DEF IInv
  <1> QED BY <1>1, Invariance, PTL

\* No lost waiter: a parked caller is in the queue until somebody claims it.
THEOREM NoLostWaiter == Spec => []QueueExact
  <1>1. IInv => QueueExact
    BY DEF IInv
  <1> QED BY <1>1, Invariance, PTL

\* Nothing is admitted beyond the limit in force, also after it was lowered
\* below what is in flight.
THEOREM AdmissionRespectsLimit == Spec => AdmitsWithinLimit
  <1>1. IInv /\ [Next]_vars => [inFlight' > inFlight => inFlight' <= limit']_vars
    <2> SUFFICES ASSUME TypeOK, Next, inFlight' > inFlight PROVE inFlight' <= limit'
      BY DEF IInv
    <2>1. limit \in Nat /\ inFlight \in Nat /\ permit \in [Callers -> Nat]
      BY GateAssumption DEF TypeOK, Limits
    <2>2. ASSUME NEW c \in Callers, NEW w \in 0 .. MaxWeight, AcquireFast(c, w)
          PROVE  inFlight' <= limit'
      <3>1. Clamp(w) \in Nat
        BY ClampType, GateAssumption
      <3> HIDE DEF Clamp
      <3> QED BY <2>1, <2>2, <3>1 DEF AcquireFast, FastPath
    <2>3. ASSUME NEW c \in Callers, Release(c) PROVE FALSE
      <3>1. permit[c] \in Nat /\ inFlight' = inFlight - permit[c]
        BY <2>1, <2>3 DEF Release
      <3> QED BY <2>1, <3>1
    <2>4. CASE DrainStep
      <3> DEFINE n == min(want[Head(queue)], limit)
      <3>1. n <= limit - inFlight /\ (inFlight' = inFlight + n \/ inFlight' = inFlight)
            /\ limit' = limit
        BY <2>4 DEF DrainStep, HeadFits
      <3>2. n \in Int
        <4>1. Head(queue) \in Callers
          BY <2>4 DEF DrainStep, HeadFits, TypeOK
        <4>2. want[Head(queue)] \in Int
          BY <4>1, GateAssumption DEF TypeOK
        <4> QED BY <2>1, <4>2 DEF min
      <3> HIDE DEF n
      <3> QED BY <2>1, <3>1, <3>2
    <2>5. CASE \/ DrainDone
               \/ \E m \in 0 .. MaxLimit : SetLimit(m)
               \/ \E c \in Callers :
                    \/ \E w \in 0 .. MaxWeight, b \in {0, 1} : AcquirePark(c, w, b)
                    \/ Receive(c) \/ GiveUp(c) \/ CancelLate(c) \/ Abandon(c)
      <3>1. inFlight' = inFlight
        BY <2>5 DEF DrainDone, SetLimit, AcquirePark, Receive, GiveUp, CancelLate, Abandon, gate
      <3> QED BY <2>1, <3>1
    <2> QED BY <2>2, <2>3, <2>4, <2>5 DEF Next, Caller
  <1> QED BY <1>1, Invariance, PTL DEF Spec, AdmitsWithinLimit

\* A parked caller is charged at most what it asked for when it parked, whatever
\* happens to the limit meanwhile.
THEOREM ChargeBounded == Spec => []ChargedAtMostWant
  <1>1. Init => ChargedAtMostWant
    BY DEF Init, ChargedAtMostWant
  <1>2. IInv /\ ChargedAtMostWant /\ [Next]_vars => ChargedAtMostWant'
    <2> SUFFICES ASSUME TypeOK, ChargedAtMostWant, [Next]_vars,
                        NEW d \in Callers, pc'[d] = "parked"
                 PROVE  weight'[d] <= want'[d]
      BY DEF IInv, ChargedAtMostWant
    <2>1. /\ limit \in Nat /\ pc \in [Callers -> PCs]
          /\ want \in [Callers -> Nat] /\ weight \in [Callers -> Nat]
      BY GateAssumption DEF TypeOK, Limits
    <2>2. ASSUME NEW c \in Callers, NEW w \in 0 .. MaxWeight, NEW b \in {0, 1},
                 AcquirePark(c, w, b)
          PROVE  weight'[d] <= want'[d]
      <3>1. Clamp(w) \in Nat
        BY ClampType, GateAssumption
      <3> HIDE DEF Clamp
      <3> QED BY <2>1, <2>2, <3>1 DEF AcquirePark, ChargedAtMostWant
    <2>3. CASE DrainStep
      <3>1. Head(queue) \in Callers
        BY <2>3 DEF DrainStep, HeadFits, TypeOK
      <3>2. min(want[Head(queue)], limit) <= want[Head(queue)]
        BY <2>1, <3>1 DEF min
      <3> HIDE DEF min
      <3> QED BY <2>1, <2>3, <3>1, <3>2 DEF DrainStep, ChargedAtMostWant
    <2>4. CASE \/ DrainDone \/ UNCHANGED vars
               \/ \E m \in 0 .. MaxLimit : SetLimit(m)
               \/ \E c \in Callers :
                    \/ \E w \in 0 .. MaxWeight : AcquireFast(c, w)
                    \/ Receive(c) \/ GiveUp(c) \/ CancelLate(c) \/ Abandon(c) \/ Release(c)
      <3>1. weight' = weight /\ want' = want
        BY <2>4 DEF DrainDone, SetLimit, AcquireFast, Receive, GiveUp, CancelLate,
                    Abandon, Release, vars
      <3>2. pc[d] = "parked"
        BY <2>1, <2>4 DEF DrainDone, SetLimit, AcquireFast, Receive, GiveUp, CancelLate,
                    Abandon, Release, vars, gate
      <3> QED BY <3>1, <3>2 DEF ChargedAtMostWant
    <2> QED BY <2>2, <2>3, <2>4 DEF Next, Caller
  <1> QED BY <1>1, <1>2, Invariance, PTL DEF Spec
=============================================================================
