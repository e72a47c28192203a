--------------------------- MODULE BreakerProofs ---------------------------
(***************************************************************************)
(* Proofs about Breaker, for every value of the constants that meets the   *)
(* assumptions of that module.                                             *)
(***************************************************************************)
EXTENDS Breaker, FiniteSetTheorems, TLAPS

\* Every reading of a clock is a positive time.
LEMMA ClockNat == ASSUME TypeOK, NEW t \in Clocks PROVE t \in Nat /\ t > 0 /\ now <= t /\ t <= now + Skew
BY SkewAssumption DEF TypeOK, Clocks

\* A bounded period, whatever the exponent.
LEMMA OpenPeriodBounds ==
    ASSUME NEW n PROVE OpenPeriod(n) \in Nat /\ Skew < OpenPeriod(n)
BY DurationAssumption, SkewAssumption DEF OpenPeriod

\* What closing writes.
LEMMA GoClosedFields ==
    ASSUME NEW b \in Hash, NEW t \in Nat
    PROVE  LET c == GoClosed(b, t) IN
           /\ c \in Hash
           /\ c.st = "closed" /\ c.ou = 0 /\ c.v = b.v + 1
BY DEF GoClosed, Hash, States

\* What opening writes.
LEMMA GoOpenFields ==
    ASSUME NEW b \in Hash, NEW t \in Nat, NEW n \in Nat
    PROVE  LET c == GoOpen(b, t, n) IN
           /\ c \in Hash
           /\ c.st = "open" /\ c.ou > t + Skew /\ c.v = b.v + 1
<1>1. OpenPeriod(n) \in Nat /\ Skew < OpenPeriod(n)
  BY OpenPeriodBounds
<1> QED
  BY <1>1, SkewAssumption DEF GoOpen, Hash, States

\* What half-opening writes, by the evaluation and by the gate.
LEMMA HalfOpenFields ==
    ASSUME NEW b \in Hash, NEW t \in Nat
    PROVE  /\ GoHalfOpen(b, t) \in Hash
           /\ GoHalfOpen(b, t).st = "half_open" /\ GoHalfOpen(b, t).ou = 0
           /\ GoHalfOpen(b, t).hw = t /\ GoHalfOpen(b, t).hc = 0
           /\ GoHalfOpen(b, t).v = b.v + 1
           /\ LazyHalfOpen(b, t) \in Hash
           /\ LazyHalfOpen(b, t).st = "half_open" /\ LazyHalfOpen(b, t).ou = b.ou /\ LazyHalfOpen(b, t).man = b.man
           /\ LazyHalfOpen(b, t).hw = t /\ LazyHalfOpen(b, t).hc = 0
           /\ LazyHalfOpen(b, t).v = b.v + 1
BY DEF GoHalfOpen, LazyHalfOpen, Hash, States

\* What the operator's open writes.
LEMMA SetOpenFields ==
    ASSUME NEW b \in Hash, NEW t \in Nat, NEW d \in Durations
    PROVE  LET c == SetOpen(b, t, d) IN
           /\ c \in Hash
           /\ c.st = "open" /\ c.man = 1 /\ (c.ou = 0 \/ c.ou > t + Skew) /\ c.v = b.v + 1
<1>1. d \in Nat /\ (d = 0 \/ Skew < d)
  BY DurationAssumption, SkewAssumption
<1> QED
  BY <1>1, SkewAssumption DEF SetOpen, Hash, States

\* What the smaller updates write.
LEMMA RollWindowFields ==
    ASSUME NEW b \in Hash, NEW t \in Nat
    PROVE  /\ RollWindow(b, t) \in Hash
           /\ RollWindow(b, t).st = b.st /\ RollWindow(b, t).ou = b.ou
           /\ RollWindow(b, t).man = b.man /\ RollWindow(b, t).v = b.v
           /\ \/ RollWindow(b, t).hw = b.hw /\ RollWindow(b, t).hc = b.hc
                 /\ (b.st = "half_open" => t - b.hw < ProbeWindow)
              \/ /\ b.st = "half_open" /\ t - b.hw >= ProbeWindow
                 /\ RollWindow(b, t).hw = t /\ RollWindow(b, t).hc = 0
<1>1. CASE b.st = "half_open" /\ t - b.hw >= ProbeWindow
  <2>1. RollWindow(b, t) = [b EXCEPT !.hw = t, !.hc = 0]
    BY <1>1 DEF RollWindow
  <2>2. [b EXCEPT !.hw = t, !.hc = 0] \in Hash
    BY DEF Hash
  <2>3. /\ [b EXCEPT !.hw = t, !.hc = 0].st = b.st
        /\ [b EXCEPT !.hw = t, !.hc = 0].ou = b.ou
        /\ [b EXCEPT !.hw = t, !.hc = 0].man = b.man
        /\ [b EXCEPT !.hw = t, !.hc = 0].v = b.v
        /\ [b EXCEPT !.hw = t, !.hc = 0].hw = t
        /\ [b EXCEPT !.hw = t, !.hc = 0].hc = 0
    BY DEF Hash
  <2> QED
    BY <1>1, <2>1, <2>2, <2>3
<1>2. CASE ~(b.st = "half_open" /\ t - b.hw >= ProbeWindow)
  <2>1. RollWindow(b, t) = b
    BY <1>2 DEF RollWindow
  <2>2. b.hw \in Nat
    BY DEF Hash
  <2> QED
    BY <1>2, <2>1, <2>2, ProbeAssumption
<1> QED
  BY <1>1, <1>2

\* A slot is given back only to a window that started before the lease.
LEMMA GiveBackFields ==
    ASSUME NEW b \in Hash, NEW a \in Nat
    PROVE  LET c == GiveBack(b, a) IN
           /\ c \in Hash
           /\ c.st = b.st /\ c.ou = b.ou /\ c.man = b.man /\ c.v = b.v /\ c.hw = b.hw
           /\ \/ c.hc = b.hc
              \/ b.st = "half_open" /\ b.hw <= a /\ b.hc > 0 /\ c.hc = b.hc - 1
BY DEF Hash, GiveBack

\* Any two values of the counters of results.
LEMMA SetResults ==
    ASSUME NEW b \in Hash, NEW x \in Nat, NEW y \in Nat
    PROVE  LET c == [b EXCEPT !.ps = x, !.pk = y] IN
           /\ c \in Hash
           /\ c.st = b.st /\ c.ou = b.ou /\ c.man = b.man /\ c.v = b.v /\ c.hw = b.hw
           /\ c.hc = b.hc
<1>1. [b EXCEPT !.ps = x, !.pk = y] \in Hash
  BY DEF Hash
<1> QED
  BY <1>1 DEF Hash

\* A probe's result changes the counters of results only.
LEMMA CountProbeFields ==
    ASSUME NEW b \in Hash, NEW ok \in BOOLEAN
    PROVE  LET c == CountProbe(b, ok) IN
           /\ c \in Hash
           /\ c.st = b.st /\ c.ou = b.ou /\ c.man = b.man /\ c.v = b.v /\ c.hw = b.hw
           /\ c.hc = b.hc
<1>1. b.ps + 1 \in Nat /\ b.pk \in Nat /\ b.pk + 1 \in Nat
  BY DEF Hash
<1>2. CASE b.st = "half_open" /\ ok
  <2> DEFINE c == [b EXCEPT !.ps = b.ps + 1, !.pk = b.pk + 1]
  <2>1. CountProbe(b, ok) = c
    BY <1>2 DEF CountProbe, Hash
  <2>2. /\ c \in Hash
        /\ c.st = b.st /\ c.ou = b.ou /\ c.man = b.man /\ c.v = b.v /\ c.hw = b.hw
        /\ c.hc = b.hc
    BY ZenonT(30), <1>1, SetResults
  <2> HIDE DEF c
  <2> QED
    BY <2>1, <2>2
<1>3. CASE b.st = "half_open" /\ ~ok
  <2> DEFINE c == [b EXCEPT !.ps = b.ps + 1, !.pk = b.pk]
  <2>1. CountProbe(b, ok) = c
    BY <1>3 DEF CountProbe, Hash
  <2>2. /\ c \in Hash
        /\ c.st = b.st /\ c.ou = b.ou /\ c.man = b.man /\ c.v = b.v /\ c.hw = b.hw
        /\ c.hc = b.hc
    BY ZenonT(30), <1>1, SetResults
  <2> HIDE DEF c
  <2> QED
    BY <2>1, <2>2
<1>4. CASE b.st # "half_open"
  BY <1>4 DEF CountProbe
<1> QED
  BY <1>2, <1>3, <1>4

\* The gate either half-opens an open breaker, or keeps the state and the
\* window, or starts a new window; afterwards the window covers the clock.
LEMMA PassGateFields ==
    ASSUME NEW b \in Hash, NEW t \in Nat
    PROVE  LET c == PassGate(b, t) IN
           /\ c \in Hash
           /\ c.ou = b.ou /\ c.man = b.man
           /\ c.st = "half_open" => t < c.hw + ProbeWindow
           /\ b.st = "open" => /\ c.st = "half_open" /\ c.v = b.v + 1
                               /\ c.hw = t /\ c.hc = 0
           /\ b.st # "open" =>
                /\ c.st = b.st /\ c.v = b.v
                /\ \/ c.hw = b.hw /\ c.hc = b.hc
                   \/ /\ b.st = "half_open" /\ t >= b.hw + ProbeWindow
                      /\ c.hw = t /\ c.hc = 0
<1>1. CASE b.st = "open"
  <2> DEFINE l == LazyHalfOpen(b, t)
  <2>1. /\ l \in Hash /\ l.st = "half_open" /\ l.ou = b.ou /\ l.man = b.man
        /\ l.hw = t /\ l.hc = 0 /\ l.v = b.v + 1
    BY HalfOpenFields
  <2> HIDE DEF l
  <2>2. PassGate(b, t) = RollWindow(l, t)
    BY <1>1 DEF PassGate, l
  <2>3. /\ RollWindow(l, t) \in Hash
        /\ RollWindow(l, t).st = l.st /\ RollWindow(l, t).ou = l.ou
        /\ RollWindow(l, t).man = l.man /\ RollWindow(l, t).v = l.v
        /\ RollWindow(l, t).hw = t /\ RollWindow(l, t).hc = 0
    BY <2>1, RollWindowFields, ProbeAssumption
  <2> QED
    BY <1>1, <2>1, <2>2, <2>3, ProbeAssumption DEF Hash
<1>2. CASE b.st # "open"
  <2>1. PassGate(b, t) = RollWindow(b, t)
    BY <1>2 DEF PassGate
  <2>2. b.hw \in Nat
    BY DEF Hash
  <2> DEFINE c == RollWindow(b, t)
  <2>3. /\ c \in Hash
        /\ c.st = b.st /\ c.ou = b.ou /\ c.man = b.man /\ c.v = b.v
        /\ \/ c.hw = b.hw /\ c.hc = b.hc /\ (b.st = "half_open" => t - b.hw < ProbeWindow)
           \/ b.st = "half_open" /\ t - b.hw >= ProbeWindow /\ c.hw = t /\ c.hc = 0
    BY RollWindowFields
  <2> HIDE DEF c
  <2>4. c.st = "half_open" => t < c.hw + ProbeWindow
    BY <2>2, <2>3, ProbeAssumption
  <2> QED
    BY <1>2, <2>1, <2>2, <2>3, <2>4, ProbeAssumption DEF c
<1> QED
  BY <1>1, <1>2

\* Handing over a transition keeps the history well typed.
LEMMA NoteFields ==
    ASSUME NEW h \in History, NEW from \in States, NEW to \in States,
           NEW by \in {"auto", "probe", "manual"}
    PROVE  LET g == Note(h, from, to, by) IN
           /\ g \in History
           /\ g.n = h.n + 1 /\ g.last = to
           /\ g.gaps = h.gaps + (IF h.last = from THEN 0 ELSE 1)
BY DEF Note, History

-----------------------------------------------------------------------------
(* The inductive invariant.  ProbesWithinLimit is not inductive: that a     *)
(* lease aborted late does not free a slot of a later window needs where    *)
(* every outstanding lease lies in time (ProbeHistory), which in turn needs *)
(* that a breaker half-opens only at an end it was given (OpenHasEnd).      *)

OpenHasEnd == brk.st = "open" => brk.man = 1 \/ brk.ou > 0

Out(p) == probe[p].st \in {"granted", "used"}

ProbeHistory ==
    \A p \in Probes : Out(p) =>
        /\ probe[p].a <= now + Skew
        /\ probe[p].v <= brk.v
        /\ brk.st = "open" /\ brk.ou > 0 => probe[p].a < brk.ou
        /\ brk.st = "half_open" /\ probe[p].v = brk.v => probe[p].hw <= brk.hw
        /\ brk.st = "half_open" /\ InWindow(p) => probe[p].a < brk.hw + ProbeWindow
        /\ brk.st = "half_open" /\ ~InWindow(p) => probe[p].a < brk.hw

IInv == /\ TypeOK
        /\ SweptWhileNotClosed
        /\ HistoryUnbroken
        /\ OpenHasEnd
        /\ ProbeHistory
        /\ ProbesWithinLimit

\* A breaker starts closed, without probes and without history.
LEMMA InitIInv == Init => IInv
<1> SUFFICES ASSUME Init PROVE IInv
  OBVIOUS
<1>1. TypeOK
  <2>1. Closed0 \in Hash /\ NoProbe \in ProbeLease
    BY DEF Closed0, NoProbe, Hash, ProbeLease, States
  <2>2. hist \in History
    BY DEF Init, History, States
  <2>3. now \in Nat \ {0} /\ brk \in Hash
    BY <2>1 DEF Init
  <2>5. brko \in BOOLEAN
    BY Zenon DEF Init
  <2>4. win \in [Times -> Nat] /\ probe \in [Probes -> ProbeLease]
    BY <2>1 DEF Init
  <2> QED
    BY <2>2, <2>3, <2>4, <2>5 DEF TypeOK
<1>2. SweptWhileNotClosed /\ HistoryUnbroken /\ OpenHasEnd /\ ProbesWithinLimit
  BY DEF Init, Closed0, SweptWhileNotClosed, HistoryUnbroken, OpenHasEnd,
         ProbesWithinLimit, Lazy
<1>3. ProbeHistory
  BY DEF Init, NoProbe, ProbeHistory, Out
<1> QED
  BY <1>1, <1>2, <1>3 DEF IInv

\* The set of probes of the window is finite, so it has a natural cardinality.
LEMMA WindowCard == /\ IsFiniteSet({p \in Probes : InWindow(p)})
                    /\ Cardinality({p \in Probes : InWindow(p)}) \in Nat
<1>1. {p \in Probes : InWindow(p)} \subseteq Probes
  OBVIOUS
<1> QED
  BY <1>1, ProbeAssumption, FS_Subset, FS_CardinalityType

\* Closing and opening leave no window, and an end beyond every lease.
LEMMA RestKeepsProbes ==
    ASSUME IInv, NEW t \in Clocks, NEW c \in Hash,
           c.st \in {"closed", "open"}, c.v = brk.v + 1,
           c.st = "open" => (c.man = 1 \/ c.ou > 0) /\ (c.ou = 0 \/ c.ou > t + Skew),
           brk' = c, probe' = probe, now' = now
    PROVE  OpenHasEnd' /\ ProbeHistory' /\ ProbesWithinLimit'
<1>1. OpenHasEnd'
  BY DEF OpenHasEnd
<1>2. ProbesWithinLimit'
  BY DEF ProbesWithinLimit
<1>3. now \in Nat /\ brk.v \in Nat /\ c.ou \in Nat /\ Skew \in Nat /\ t \in Nat /\ now <= t
  BY ClockNat, SkewAssumption DEF IInv, TypeOK, Hash
<1>4. ASSUME NEW p \in Probes, Out(p)'
      PROVE  /\ probe[p].a <= now + Skew
             /\ probe[p].v <= brk.v + 1
             /\ c.ou > 0 /\ c.st = "open" => probe[p].a < c.ou
  <2>1. probe[p].a \in Nat /\ probe[p].v \in Nat
    BY DEF IInv, TypeOK, ProbeLease
  <2>2. Out(p)
    BY <1>4 DEF Out
  <2>3. probe[p].a <= now + Skew /\ probe[p].v <= brk.v
    BY <2>2 DEF IInv, ProbeHistory
  <2> QED
    BY <1>3, <2>1, <2>3
<1>5. ProbeHistory'
  BY <1>4 DEF ProbeHistory
<1> QED
  BY <1>1, <1>2, <1>5

\* Half-opening at or after the end starts a window after every lease.
LEMMA HalfOpenKeepsProbes ==
    ASSUME IInv, NEW t \in Clocks, NEW c \in Hash,
           brk.st = "open", brk.ou > 0, brk.ou <= t,
           c.st = "half_open", c.v = brk.v + 1, c.hw = t, c.hc = 0,
           brk' = c, probe' = probe, now' = now
    PROVE  /\ OpenHasEnd' /\ ProbeHistory' /\ ProbesWithinLimit'
           /\ \A p \in Probes : ~InWindow(p)'
<1>1. OpenHasEnd'
  BY DEF OpenHasEnd
<1>2. /\ brk.v \in Nat /\ brk.ou \in Nat /\ t \in Nat
      /\ \A p \in Probes : probe[p].a \in Nat /\ probe[p].v \in Nat
  BY ClockNat DEF IInv, TypeOK, Hash, ProbeLease
<1>3. ASSUME NEW p \in Probes, Out(p)
      PROVE  /\ probe[p].a <= now + Skew
             /\ probe[p].v < c.v
             /\ probe[p].a < t
  <2>1. probe[p].a <= now + Skew /\ probe[p].v <= brk.v /\ probe[p].a < brk.ou
    BY <1>3 DEF IInv, ProbeHistory
  <2> QED
    BY <1>2, <2>1
<1>4. \A p \in Probes : Out(p)' <=> Out(p)
  BY DEF Out
<1>5. \A p \in Probes : ~InWindow(p)'
  BY <1>2, <1>3 DEF InWindow, Out
<1>6. ProbeHistory'
  <2> SUFFICES ASSUME NEW p \in Probes, Out(p)
               PROVE  /\ probe[p].a <= now + Skew
                      /\ probe[p].v <= c.v /\ probe[p].v # c.v
                      /\ probe[p].a < c.hw
                      /\ ~InWindow(p)'
    BY <1>4 DEF ProbeHistory
  <2> QED
    BY <1>2, <1>3, <1>5
<1>7. ProbesWithinLimit'
  <2>1. {p \in Probes : InWindow(p)'} = {}
    BY <1>5
  <2>2. Cardinality({p \in Probes : InWindow(p)}') = 0
    BY <2>1, FS_EmptySet
  <2> QED
    BY <2>2, ProbeAssumption DEF ProbesWithinLimit
<1> QED
  BY <1>1, <1>5, <1>6, <1>7

\* Steps that leave the state, the window and its count alone.
LEMMA SameWindow ==
    ASSUME IInv, NEW c \in Hash,
           c.st = brk.st, c.v = brk.v, c.hw = brk.hw, c.hc = brk.hc, c.man = brk.man,
           c.ou = brk.ou \/ c.st = "half_open",
           brk' = c, now' \in {now, now + 1},
           \A p \in Probes : /\ Out(p)' => Out(p)
                             /\ Out(p)' => /\ probe'[p].a = probe[p].a
                                           /\ probe'[p].hw = probe[p].hw
                                           /\ probe'[p].v = probe[p].v
    PROVE  OpenHasEnd' /\ ProbeHistory' /\ ProbesWithinLimit'
<1>1. OpenHasEnd'
  BY DEF IInv, OpenHasEnd
<1>2. \A p \in Probes : Out(p)' => (InWindow(p)' <=> InWindow(p))
  BY DEF InWindow, Out
<1>3. \A p \in Probes : InWindow(p)' => InWindow(p)
  BY <1>2 DEF InWindow, Out
<1>4. ProbeHistory'
  <2> SUFFICES ASSUME NEW p \in Probes, Out(p)'
               PROVE  /\ probe'[p].a <= now' + Skew
                      /\ probe'[p].v <= brk'.v
                      /\ brk'.st = "open" /\ brk'.ou > 0 => probe'[p].a < brk'.ou
                      /\ brk'.st = "half_open" /\ probe'[p].v = brk'.v => probe'[p].hw <= brk'.hw
                      /\ brk'.st = "half_open" /\ InWindow(p)' => probe'[p].a < brk'.hw + ProbeWindow
                      /\ brk'.st = "half_open" /\ ~InWindow(p)' => probe'[p].a < brk'.hw
    BY DEF ProbeHistory
  <2>1. /\ Out(p) /\ probe'[p].a = probe[p].a
        /\ probe'[p].hw = probe[p].hw /\ probe'[p].v = probe[p].v
    OBVIOUS
  <2>2. /\ probe[p].a <= now + Skew
        /\ probe[p].v <= brk.v
        /\ brk.st = "open" /\ brk.ou > 0 => probe[p].a < brk.ou
        /\ brk.st = "half_open" /\ probe[p].v = brk.v => probe[p].hw <= brk.hw
        /\ brk.st = "half_open" /\ InWindow(p) => probe[p].a < brk.hw + ProbeWindow
        /\ brk.st = "half_open" /\ ~InWindow(p) => probe[p].a < brk.hw
    BY <2>1 DEF IInv, ProbeHistory
  <2>3. now \in Nat /\ Skew \in Nat /\ probe[p].a \in Nat
    BY SkewAssumption DEF IInv, TypeOK, ProbeLease
  <2>4. probe'[p].a <= now' + Skew
    BY <2>1, <2>2, <2>3
  <2>5. InWindow(p)' <=> InWindow(p)
    BY <1>2
  <2> QED
    BY <2>1, <2>2, <2>4, <2>5
<1>5. ProbesWithinLimit'
  <2> DEFINE S == {p \in Probes : InWindow(p)}
             T == {p \in Probes : InWindow(p)'}
  <2>1. T \subseteq S
    BY <1>3
  <2>2. IsFiniteSet(S) /\ Cardinality(S) \in Nat
    BY WindowCard
  <2>3. Cardinality(T) \in Nat /\ Cardinality(T) <= Cardinality(S)
    BY <2>1, <2>2, FS_Subset, FS_CardinalityType
  <2>4. brk.st = "half_open" => Cardinality(S) <= brk.hc /\ brk.hc <= ProbeLimit
    BY DEF IInv, ProbesWithinLimit
  <2>5. brk.hc \in Nat
    BY DEF IInv, TypeOK, Hash
  <2> HIDE DEF S
  <2>6. brk.st = "half_open" => Cardinality(T) <= brk.hc
    BY <2>2, <2>3, <2>4, <2>5
  <2> QED
    BY <2>4, <2>6 DEF ProbesWithinLimit
<1> QED
  BY <1>1, <1>4, <1>5

\* Starting a new window of the same period leaves every lease behind it.
LEMMA NewWindow ==
    ASSUME IInv, NEW t \in Clocks, NEW c \in Hash,
           brk.st = "half_open", brk.hw + ProbeWindow <= t,
           c.st = "half_open", c.v = brk.v, c.hw = t, c.hc = 0,
           brk' = c, probe' = probe, now' = now
    PROVE  /\ OpenHasEnd' /\ ProbeHistory' /\ ProbesWithinLimit'
           /\ \A p \in Probes : ~InWindow(p)'
<1>1. OpenHasEnd'
  BY DEF OpenHasEnd
<1>2. /\ brk.v \in Nat /\ brk.hw \in Nat /\ t \in Nat
      /\ \A p \in Probes : probe[p].a \in Nat /\ probe[p].v \in Nat /\ probe[p].hw \in Nat
  BY ClockNat DEF IInv, TypeOK, Hash, ProbeLease
<1>3. ASSUME NEW p \in Probes, Out(p)
      PROVE  /\ probe[p].a <= now + Skew
             /\ probe[p].v <= c.v
             /\ probe[p].v = c.v => probe[p].hw < t
             /\ probe[p].a < t
  <2>1. /\ probe[p].a <= now + Skew /\ probe[p].v <= brk.v
        /\ probe[p].v = brk.v => probe[p].hw <= brk.hw
        /\ probe[p].a < brk.hw + ProbeWindow \/ probe[p].a < brk.hw
    BY <1>3 DEF IInv, ProbeHistory
  <2> QED
    BY <1>2, <2>1, ProbeAssumption
<1>4. \A p \in Probes : Out(p)' <=> Out(p)
  BY DEF Out
<1>5. \A p \in Probes : ~InWindow(p)'
  BY <1>2, <1>3 DEF InWindow, Out
<1>6. ProbeHistory'
  <2> SUFFICES ASSUME NEW p \in Probes, Out(p)
               PROVE  /\ probe[p].a <= now + Skew
                      /\ probe[p].v <= c.v
                      /\ probe[p].v = c.v => probe[p].hw <= c.hw
                      /\ probe[p].a < c.hw
                      /\ ~InWindow(p)'
    BY <1>4 DEF ProbeHistory
  <2> QED
    BY <1>2, <1>3, <1>5
<1>7. ProbesWithinLimit'
  <2>1. {p \in Probes : InWindow(p)'} = {}
    BY <1>5
  <2>2. Cardinality({p \in Probes : InWindow(p)}') = 0
    BY <2>1, FS_EmptySet
  <2> QED
    BY <2>2, ProbeAssumption DEF ProbesWithinLimit
<1> QED
  BY <1>1, <1>5, <1>6, <1>7

\* What is known of an outstanding lease, relative to the hash b.
Placed(q, b) ==
    /\ probe[q].a <= now + Skew
    /\ probe[q].v <= b.v
    /\ probe[q].v = b.v => probe[q].hw <= b.hw
    /\ probe[q].v = b.v /\ probe[q].hw = b.hw => probe[q].a < b.hw + ProbeWindow
    /\ ~(probe[q].v = b.v /\ probe[q].hw = b.hw) => probe[q].a < b.hw

\* The outstanding leases of the window the gate leaves are within its count.
LEMMA GatePlaces ==
    ASSUME IInv, NEW t \in Clocks, ~EffectivelyOpen(brk, t), NEW b \in Hash,
           b = PassGate(brk, t), b.st = "half_open"
    PROVE  LET S == {q \in Probes : Out(q) /\ probe[q].v = b.v /\ probe[q].hw = b.hw} IN
           /\ \A q \in Probes : Out(q) => Placed(q, b)
           /\ IsFiniteSet(S) /\ Cardinality(S) \in Nat /\ Cardinality(S) <= b.hc
<1> DEFINE S == {q \in Probes : Out(q) /\ probe[q].v = b.v /\ probe[q].hw = b.hw}
<1>1. /\ brk.v \in Nat /\ brk.hw \in Nat /\ brk.ou \in Nat /\ t \in Nat
      /\ \A q \in Probes : probe[q].a \in Nat /\ probe[q].v \in Nat /\ probe[q].hw \in Nat
  BY ClockNat DEF IInv, TypeOK, Hash, ProbeLease
<1>2. /\ b.ou = brk.ou
      /\ brk.st = "open" => b.v = brk.v + 1 /\ b.hw = t /\ b.hc = 0
      /\ brk.st # "open" =>
           /\ brk.st = "half_open" /\ b.v = brk.v
           /\ \/ b.hw = brk.hw /\ b.hc = brk.hc
              \/ t >= brk.hw + ProbeWindow /\ b.hw = t /\ b.hc = 0
  <2>1. brk \in Hash
    BY DEF IInv, TypeOK
  <2> QED
    BY <1>1, <2>1, PassGateFields
<1>3. ASSUME NEW q \in Probes, Out(q)
      PROVE  /\ probe[q].a <= now + Skew
             /\ probe[q].v <= brk.v
             /\ brk.st = "open" /\ brk.ou > 0 => probe[q].a < brk.ou
             /\ brk.st = "half_open" /\ probe[q].v = brk.v => probe[q].hw <= brk.hw
             /\ brk.st = "half_open" /\ probe[q].v = brk.v /\ probe[q].hw = brk.hw
                  => probe[q].a < brk.hw + ProbeWindow
             /\ brk.st = "half_open" /\ ~(probe[q].v = brk.v /\ probe[q].hw = brk.hw)
                  => probe[q].a < brk.hw
  BY <1>3 DEF IInv, ProbeHistory, InWindow, Out
<1>4. CASE brk.st = "open"
  <2>1. brk.ou > 0 /\ brk.ou <= t
    BY <1>1, <1>4 DEF IInv, OpenHasEnd, EffectivelyOpen
  <2>2. \A q \in Probes : Out(q) => probe[q].v < b.v /\ probe[q].a < b.hw
    BY <1>1, <1>2, <1>3, <1>4, <2>1
  <2>3. S = {}
    BY <1>1, <1>2, <1>4, <2>2
  <2>4. \A q \in Probes : Out(q) => Placed(q, b)
    BY <1>1, <1>2, <1>3, <1>4, <2>2 DEF Placed
  <2> QED
    BY <1>2, <1>4, <2>3, <2>4, FS_EmptySet
<1>5. CASE brk.st # "open" /\ b.hw = brk.hw /\ b.hc = brk.hc
  <2>1. S = {p \in Probes : InWindow(p)}
    BY <1>2, <1>5 DEF InWindow, Out
  <2>2. IsFiniteSet(S) /\ Cardinality(S) \in Nat
    BY <2>1, WindowCard
  <2>3. Cardinality(S) <= b.hc
    BY <1>2, <1>5, <2>1 DEF IInv, ProbesWithinLimit
  <2>4. \A q \in Probes : Out(q) => Placed(q, b)
    BY <1>2, <1>3, <1>5 DEF Placed
  <2> QED
    BY <2>2, <2>3, <2>4
<1>6. CASE brk.st # "open" /\ t >= brk.hw + ProbeWindow /\ b.hw = t /\ b.hc = 0
  <2>1. ASSUME NEW q \in Probes, Out(q)
        PROVE  /\ probe[q].v = b.v => probe[q].hw < b.hw
               /\ probe[q].a < b.hw
    BY <1>1, <1>2, <1>3, <1>6, <2>1, ProbeAssumption
  <2>2. S = {}
    BY <1>1, <1>6, <2>1
  <2>3. \A q \in Probes : Out(q) => Placed(q, b)
    BY <1>1, <1>2, <1>3, <1>6, <2>1 DEF Placed
  <2>4. IsFiniteSet(S) /\ Cardinality(S) = 0
    BY <2>2, FS_EmptySet
  <2> HIDE DEF S
  <2>5. Cardinality(S) \in Nat /\ Cardinality(S) <= b.hc
    BY <1>6, <2>4
  <2> QED
    BY <2>3, <2>4, <2>5 DEF S
<1> QED
  BY <1>2, <1>4, <1>5, <1>6

\* A granted probe is one more in the window and in its count.
LEMMA GrantKeepsProbes ==
    ASSUME IInv, NEW t \in Clocks, NEW p \in Probes, AcquireProbe(p, t)
    PROVE  brk' \in Hash /\ OpenHasEnd' /\ ProbeHistory' /\ ProbesWithinLimit'
<1> DEFINE b == PassGate(brk, t)
           S == {q \in Probes : Out(q) /\ probe[q].v = b.v /\ probe[q].hw = b.hw}
<1>1. brk \in Hash /\ t \in Nat /\ t <= now + Skew /\ probe \in [Probes -> ProbeLease]
  BY ClockNat DEF IInv, TypeOK
<1>2. b \in Hash /\ (b.st = "half_open" => t < b.hw + ProbeWindow)
  BY <1>1, PassGateFields
<1>3. /\ b.st = "half_open" /\ b.hc < ProbeLimit /\ probe[p].st = "free"
      /\ ~EffectivelyOpen(brk, t) /\ now' = now
      /\ brk' = [b EXCEPT !.hc = @ + 1]
      /\ probe' = [probe EXCEPT ![p] = [st |-> "granted", a |-> t, hw |-> b.hw, v |-> b.v]]
  BY DEF AcquireProbe
<1>4. /\ \A q \in Probes : Out(q) => Placed(q, b)
      /\ IsFiniteSet(S) /\ Cardinality(S) \in Nat /\ Cardinality(S) <= b.hc
  BY <1>2, <1>3, GatePlaces
<1> HIDE DEF b
<1>5. /\ brk' \in Hash /\ brk'.st = "half_open" /\ brk'.hw = b.hw /\ brk'.v = b.v
      /\ brk'.hc = b.hc + 1
  BY <1>2, <1>3 DEF Hash
<1>6. /\ probe'[p].a = t /\ probe'[p].hw = b.hw /\ probe'[p].v = b.v
      /\ \A q \in Probes \ {p} : probe'[q] = probe[q]
  BY <1>1, <1>3
<1>7. OpenHasEnd'
  BY <1>5 DEF OpenHasEnd
<1>8. ProbeHistory'
  <2> SUFFICES ASSUME NEW q \in Probes, Out(q)'
               PROVE  /\ probe'[q].a <= now' + Skew
                      /\ probe'[q].v <= b.v
                      /\ probe'[q].v = b.v => probe'[q].hw <= b.hw
                      /\ InWindow(q)' => probe'[q].a < b.hw + ProbeWindow
                      /\ ~InWindow(q)' => probe'[q].a < b.hw
    BY <1>5 DEF ProbeHistory
  <2>1. InWindow(q)' <=> probe'[q].v = b.v /\ probe'[q].hw = b.hw
    BY <1>5 DEF InWindow, Out
  <2>2. b.hw \in Nat /\ b.v \in Nat
    BY <1>2 DEF Hash
  <2>3. CASE q = p
    BY <1>1, <1>2, <1>3, <1>6, <2>1, <2>2, <2>3
  <2>4. CASE q # p
    <3>1. probe'[q] = probe[q] /\ Out(q)
      BY <1>6, <2>4 DEF Out
    <3>2. Placed(q, b)
      BY <1>4, <3>1
    <3> QED
      BY <1>3, <2>1, <3>1, <3>2 DEF Placed
  <2> QED
    BY <2>3, <2>4
<1>9. ProbesWithinLimit'
  <2>1. {q \in Probes : InWindow(q)'} \subseteq S \cup {p}
    BY <1>5, <1>6 DEF InWindow, Out
  <2> HIDE DEF S
  <2>2. /\ IsFiniteSet(S \cup {p})
        /\ Cardinality(S \cup {p}) \in Nat
        /\ Cardinality(S \cup {p}) <= Cardinality(S) + 1
    <3>1. /\ IsFiniteSet(S \cup {p})
          /\ Cardinality(S \cup {p}) = IF p \in S THEN Cardinality(S) ELSE Cardinality(S) + 1
      BY <1>4, FS_AddElement
    <3> QED
      BY <1>4, <3>1
  <2>3. /\ Cardinality({q \in Probes : InWindow(q)'}) \in Nat
        /\ Cardinality({q \in Probes : InWindow(q)'}) <= Cardinality(S \cup {p})
    BY <2>1, <2>2, FS_Subset, FS_CardinalityType
  <2>4. b.hc \in Nat
    BY <1>2 DEF Hash
  <2>5. /\ Cardinality({q \in Probes : InWindow(q)'}) <= b.hc + 1
        /\ b.hc + 1 <= ProbeLimit
    BY <1>3, <1>4, <2>2, <2>3, <2>4, ProbeAssumption
  <2> QED
    BY <1>5, <2>5 DEF ProbesWithinLimit
<1> QED
  BY <1>5, <1>7, <1>8, <1>9

\* An aborted lease leaves its window; the slot it frees is its own.
LEMMA AbortKeepsProbes ==
    ASSUME IInv, NEW p \in Probes, AbortProbe(p)
    PROVE  brk' \in Hash /\ OpenHasEnd' /\ ProbeHistory' /\ ProbesWithinLimit'
<1>1. brk \in Hash /\ probe \in [Probes -> ProbeLease] /\ probe[p].a \in Nat
  BY DEF IInv, TypeOK, ProbeLease
<1>2. /\ probe[p].st = "granted" /\ now' = now
      /\ brk' = GiveBack(brk, probe[p].a)
      /\ probe' = [probe EXCEPT ![p].st = "aborted"]
  BY DEF AbortProbe
<1>3. /\ brk' \in Hash
      /\ brk'.st = brk.st /\ brk'.ou = brk.ou /\ brk'.man = brk.man
      /\ brk'.v = brk.v /\ brk'.hw = brk.hw
      /\ \/ brk'.hc = brk.hc
         \/ brk.st = "half_open" /\ brk.hw <= probe[p].a /\ brk.hc > 0 /\ brk'.hc = brk.hc - 1
  BY <1>1, <1>2, GiveBackFields
<1>4. /\ ~Out(p)'
      /\ \A q \in Probes \ {p} : probe'[q] = probe[q]
  BY <1>1, <1>2 DEF Out, ProbeLease
<1>5. CASE brk'.hc = brk.hc
  <2>1. \A q \in Probes : /\ Out(q)' => Out(q)
                          /\ Out(q)' => /\ probe'[q].a = probe[q].a
                                        /\ probe'[q].hw = probe[q].hw
                                        /\ probe'[q].v = probe[q].v
    BY <1>4 DEF Out
  <2> QED
    BY <1>2, <1>3, <1>5, <2>1, SameWindow
<1>6. CASE brk.st = "half_open" /\ brk.hw <= probe[p].a /\ brk.hc > 0 /\ brk'.hc = brk.hc - 1
  <2> DEFINE S == {q \in Probes : InWindow(q)}
  <2>1. brk.hw \in Nat /\ brk.hc \in Nat
    BY <1>1 DEF Hash
  <2>2. InWindow(p)
    <3>1. Out(p)
      BY <1>2 DEF Out
    <3>2. ~InWindow(p) => probe[p].a < brk.hw
      BY <1>6, <3>1 DEF IInv, ProbeHistory
    <3> QED
      BY <1>1, <1>6, <2>1, <3>2
  <2>3. {q \in Probes : InWindow(q)'} = S \ {p}
    BY <1>3, <1>4 DEF InWindow, Out
  <2>4. IsFiniteSet(S) /\ Cardinality(S) \in Nat /\ p \in S
    BY <2>2, WindowCard
  <2>5. Cardinality(S) <= brk.hc /\ brk.hc <= ProbeLimit
    BY <1>6 DEF IInv, ProbesWithinLimit
  <2> HIDE DEF S
  <2>6. Cardinality(S \ {p}) = Cardinality(S) - 1
    BY <2>4, FS_RemoveElement
  <2>10. Cardinality({q \in Probes : InWindow(q)'}) = Cardinality(S) - 1
    BY <2>3, <2>6
  <2>11. Cardinality(S) - 1 <= brk'.hc /\ brk'.hc <= ProbeLimit
    BY <1>6, <2>1, <2>4, <2>5, ProbeAssumption
  <2>7. ProbesWithinLimit'
    BY <2>10, <2>11 DEF ProbesWithinLimit
  <2>8. OpenHasEnd'
    BY <1>3, <1>6 DEF OpenHasEnd
  <2>9. ProbeHistory'
    <3> SUFFICES ASSUME NEW q \in Probes, Out(q)'
                 PROVE  /\ probe'[q].a <= now' + Skew
                        /\ probe'[q].v <= brk'.v
                        /\ probe'[q].v = brk'.v => probe'[q].hw <= brk'.hw
                        /\ InWindow(q)' => probe'[q].a < brk'.hw + ProbeWindow
                        /\ ~InWindow(q)' => probe'[q].a < brk'.hw
      BY <1>3, <1>6 DEF ProbeHistory
    <3>1. q # p /\ probe'[q] = probe[q] /\ Out(q)
      BY <1>4 DEF Out
    <3>2. InWindow(q)' <=> InWindow(q)
      BY <1>3, <3>1 DEF InWindow
    <3> QED
      BY <1>2, <1>3, <1>6, <3>1, <3>2 DEF IInv, ProbeHistory
  <2> QED
    BY <1>3, <2>7, <2>8, <2>9
<1> QED
  BY <1>3, <1>5, <1>6

-----------------------------------------------------------------------------
(* One lemma per action.                                                   *)

\* A request that gets nothing leaves what the gate wrote.
LEMMA AcquireNothingIInv ==
    ASSUME IInv, NEW t \in Clocks, AcquireNothing(t) PROVE IInv'
<1> DEFINE c == PassGate(brk, t)
<1>1. /\ brk' = c /\ now' = now /\ brko' = brko /\ win' = win
      /\ probe' = probe /\ hist' = hist /\ ~EffectivelyOpen(brk, t)
  BY DEF AcquireNothing
<1>2. brk \in Hash /\ t \in Nat /\ brk.ou \in Nat /\ brk.hw \in Nat /\ TypeOK
  BY ClockNat DEF IInv, TypeOK, Hash
<1>3. /\ c \in Hash
      /\ c.ou = brk.ou /\ c.man = brk.man
      /\ brk.st = "open" => c.st = "half_open" /\ c.v = brk.v + 1 /\ c.hw = t /\ c.hc = 0
      /\ brk.st # "open" =>
           /\ c.st = brk.st /\ c.v = brk.v
           /\ \/ c.hw = brk.hw /\ c.hc = brk.hc
              \/ /\ brk.st = "half_open" /\ t >= brk.hw + ProbeWindow
                 /\ c.hw = t /\ c.hc = 0
  BY <1>2, PassGateFields
<1> HIDE DEF c
<1>4. TypeOK'
  BY <1>1, <1>2, <1>3 DEF TypeOK, Times
<1>5. brk.st = "open" => brk.ou > 0 /\ brk.ou <= t
  BY <1>1, <1>2 DEF IInv, OpenHasEnd, EffectivelyOpen
<1>6. SweptWhileNotClosed' /\ HistoryUnbroken'
  <2>1. SweptWhileNotClosed /\ HistoryUnbroken
    BY DEF IInv
  <2>2. brk.v \in Nat /\ hist.n \in Nat
    BY <1>2 DEF TypeOK, Hash, History
  <2> QED
    BY <1>1, <1>3, <1>5, <2>1, <2>2 DEF SweptWhileNotClosed, HistoryUnbroken, Lazy
<1>7. OpenHasEnd' /\ ProbeHistory' /\ ProbesWithinLimit'
  <2>1. CASE brk.st = "open"
    BY <1>1, <1>3, <1>5, <2>1, HalfOpenKeepsProbes
  <2>2. CASE brk.st # "open" /\ c.hw = brk.hw /\ c.hc = brk.hc
    <3>1. \A p \in Probes : /\ Out(p)' => Out(p)
                            /\ Out(p)' => /\ probe'[p].a = probe[p].a
                                          /\ probe'[p].hw = probe[p].hw
                                          /\ probe'[p].v = probe[p].v
      BY <1>1 DEF Out
    <3> QED
      BY <1>1, <1>3, <2>2, <3>1, SameWindow
  <2>3. CASE brk.st = "half_open" /\ t >= brk.hw + ProbeWindow /\ c.hw = t /\ c.hc = 0
    <3>1. brk.hw + ProbeWindow <= t
      BY <1>2, <2>3, ProbeAssumption
    <3> QED
      BY <1>1, <1>3, <2>3, <3>1, NewWindow
  <2> QED
    BY <1>3, <2>1, <2>2, <2>3
<1> QED
  BY <1>4, <1>6, <1>7 DEF IInv

\* A granted probe: the gate's transition is not reported by anyone yet.
LEMMA AcquireProbeIInv ==
    ASSUME IInv, NEW t \in Clocks, NEW p \in Probes, AcquireProbe(p, t) PROVE IInv'
<1> DEFINE c == PassGate(brk, t)
<1>1. /\ brk' = [c EXCEPT !.hc = @ + 1] /\ now' = now /\ brko' = brko /\ win' = win
      /\ hist' = hist /\ ~EffectivelyOpen(brk, t) /\ c.st = "half_open"
      /\ probe' = [probe EXCEPT ![p] = [st |-> "granted", a |-> t, hw |-> c.hw, v |-> c.v]]
  BY DEF AcquireProbe
<1>2. brk \in Hash /\ t \in Nat /\ brk.ou \in Nat /\ TypeOK
  BY ClockNat DEF IInv, TypeOK, Hash
<1>3. /\ c \in Hash
      /\ c.ou = brk.ou
      /\ brk.st = "open" => c.v = brk.v + 1
      /\ brk.st # "open" => c.st = brk.st /\ c.v = brk.v
  BY <1>2, PassGateFields
<1> HIDE DEF c
<1>4. brk' \in Hash /\ OpenHasEnd' /\ ProbeHistory' /\ ProbesWithinLimit'
  BY GrantKeepsProbes
<1>5. TypeOK'
  <2>1. [st |-> "granted", a |-> t, hw |-> c.hw, v |-> c.v] \in ProbeLease
    BY <1>2, <1>3 DEF Hash, ProbeLease
  <2>2. probe' \in [Probes -> ProbeLease]
    BY <1>1, <1>2, <2>1 DEF TypeOK
  <2> QED
    BY <1>1, <1>2, <1>4, <2>2 DEF TypeOK, Times
<1>6. brk'.st = "half_open" /\ brk'.ou = brk.ou /\ brk'.v = c.v
  BY <1>1, <1>3 DEF Hash
<1>7. brk.st = "open" => brk.ou > 0
  BY <1>1, <1>2 DEF IInv, OpenHasEnd, EffectivelyOpen
<1>8. SweptWhileNotClosed' /\ HistoryUnbroken'
  <2>1. SweptWhileNotClosed /\ HistoryUnbroken
    BY DEF IInv
  <2>2. brk.v \in Nat /\ hist.n \in Nat
    BY <1>2 DEF TypeOK, Hash, History
  <2> QED
    BY <1>1, <1>3, <1>6, <1>7, <2>1, <2>2 DEF SweptWhileNotClosed, HistoryUnbroken, Lazy
<1> QED
  BY <1>4, <1>5, <1>8 DEF IInv

\* An abort touches the count of the window only.
LEMMA AbortProbeIInv ==
    ASSUME IInv, NEW p \in Probes, AbortProbe(p) PROVE IInv'
<1>1. brk' \in Hash /\ OpenHasEnd' /\ ProbeHistory' /\ ProbesWithinLimit'
  BY AbortKeepsProbes
<1>2. /\ brk' = GiveBack(brk, probe[p].a) /\ now' = now /\ brko' = brko /\ win' = win
      /\ hist' = hist /\ probe' = [probe EXCEPT ![p].st = "aborted"]
  BY DEF AbortProbe
<1>3. brk \in Hash /\ probe \in [Probes -> ProbeLease] /\ probe[p].a \in Nat /\ TypeOK
  BY DEF IInv, TypeOK, ProbeLease
<1>4. brk'.st = brk.st /\ brk'.ou = brk.ou /\ brk'.v = brk.v
  BY <1>2, <1>3, GiveBackFields
<1>5. probe' \in [Probes -> ProbeLease]
  BY <1>2, <1>3 DEF ProbeLease
<1>6. TypeOK'
  BY <1>1, <1>2, <1>3, <1>5 DEF TypeOK, Times
<1>7. SweptWhileNotClosed' /\ HistoryUnbroken'
  <2>1. SweptWhileNotClosed /\ HistoryUnbroken
    BY DEF IInv
  <2> QED
    BY <1>2, <1>4, <2>1 DEF SweptWhileNotClosed, HistoryUnbroken, Lazy
<1> QED
  BY <1>1, <1>6, <1>7 DEF IInv

\* A counted report keeps the window of reports well typed.
LEMMA CountedWindow ==
    ASSUME NEW w \in [Times -> Nat], NEW t PROVE [w EXCEPT ![t] = @ + 1] \in [Times -> Nat]
<1>1. CASE t \in Times
  <2>1. w[t] + 1 \in Nat
    BY <1>1
  <2> QED
    BY <2>1
<1>2. CASE t \notin Times
  BY <1>2
<1> QED
  BY <1>1, <1>2

\* Counting a report changes the window of reports only.
LEMMA ObserveIInv ==
    ASSUME IInv, NEW t \in Clocks, Observe(t) PROVE IInv'
<1>1. /\ brk' = brk /\ now' = now /\ brko' = brko /\ probe' = probe /\ hist' = hist
      /\ win' = [win EXCEPT ![t] = @ + 1]
  BY DEF Observe, CountReport
<1>2. TypeOK'
  <2>1. win' \in [Times -> Nat]
    BY <1>1, CountedWindow DEF IInv, TypeOK
  <2> QED
    BY <1>1, <2>1 DEF IInv, TypeOK, Times
<1>3. SweptWhileNotClosed' /\ HistoryUnbroken'
  BY <1>1 DEF IInv, SweptWhileNotClosed, HistoryUnbroken, Lazy
<1>4. OpenHasEnd' /\ ProbeHistory' /\ ProbesWithinLimit'
  BY <1>1 DEF IInv, OpenHasEnd, ProbeHistory, ProbesWithinLimit, Out, InWindow
<1> QED
  BY <1>2, <1>3, <1>4 DEF IInv

\* The result of a probe changes the counters of results and marks the lease.
LEMMA ObserveProbeIInv ==
    ASSUME IInv, NEW t \in Clocks, NEW p \in Probes, NEW ok \in BOOLEAN,
           ObserveProbe(p, ok, t)
    PROVE  IInv'
<1> DEFINE c == CountProbe(brk, ok)
<1>1. /\ brk' = c /\ now' = now /\ brko' = brko /\ hist' = hist
      /\ win' = [win EXCEPT ![t] = @ + 1] /\ Out(p)
      /\ probe' = [probe EXCEPT ![p].st = "used"]
  BY DEF ObserveProbe, CountReport, Out
<1>2. brk \in Hash /\ probe \in [Probes -> ProbeLease] /\ TypeOK
  BY DEF IInv, TypeOK
<1>3. /\ c \in Hash
      /\ c.st = brk.st /\ c.ou = brk.ou /\ c.man = brk.man /\ c.v = brk.v /\ c.hw = brk.hw
      /\ c.hc = brk.hc
  BY <1>2, CountProbeFields
<1> HIDE DEF c
<1>4. TypeOK'
  <2>1. win' \in [Times -> Nat]
    BY <1>1, <1>2, CountedWindow DEF TypeOK
  <2>2. probe' \in [Probes -> ProbeLease]
    BY <1>1, <1>2 DEF ProbeLease
  <2> QED
    BY <1>1, <1>2, <1>3, <2>1, <2>2 DEF TypeOK, Times
<1>5. SweptWhileNotClosed' /\ HistoryUnbroken'
  BY <1>1, <1>3 DEF IInv, SweptWhileNotClosed, HistoryUnbroken, Lazy
<1>6. OpenHasEnd' /\ ProbeHistory' /\ ProbesWithinLimit'
  <2>1. \A q \in Probes : /\ Out(q)' => Out(q)
                          /\ Out(q)' => /\ probe'[q].a = probe[q].a
                                        /\ probe'[q].hw = probe[q].hw
                                        /\ probe'[q].v = probe[q].v
    BY <1>1, <1>2 DEF Out, ProbeLease
  <2> QED
    BY <1>1, <1>3, <2>1, SameWindow
<1> QED
  BY <1>4, <1>5, <1>6 DEF IInv

\* A reported lazy half-open keeps its window.
LEMMA EvalLazyIInv ==
    ASSUME IInv, EvalLazy, brko' = (brk'.st # "closed"), UNCHANGED <<now, win, probe>>
    PROVE  IInv'
<1>1. /\ Lazy(brk) /\ brk' = [brk EXCEPT !.ou = 0]
      /\ hist' = Note(hist, "open", "half_open", "auto")
  BY DEF EvalLazy, NoteLazy
<1>2. brk \in Hash /\ hist \in History /\ TypeOK
  BY DEF IInv, TypeOK
<1>3. /\ brk' \in Hash /\ brk'.st = brk.st /\ brk'.ou = 0 /\ brk'.v = brk.v
      /\ brk'.hw = brk.hw /\ brk'.hc = brk.hc /\ brk'.man = brk.man
  BY <1>1, <1>2 DEF Hash
<1>4. /\ hist' \in History /\ hist'.n = hist.n + 1 /\ hist'.last = "half_open"
      /\ hist'.gaps = hist.gaps + (IF hist.last = "open" THEN 0 ELSE 1)
  BY <1>1, <1>2, NoteFields DEF States
<1>5. brk.st = "half_open"
  BY <1>1 DEF Lazy
<1>6. brko' = TRUE /\ brko' \in BOOLEAN
  BY <1>3, <1>5
<1>7. TypeOK'
  BY <1>2, <1>3, <1>4, <1>6 DEF TypeOK, Times
<1>8. SweptWhileNotClosed' /\ HistoryUnbroken'
  BY <1>1, <1>2, <1>3, <1>4, <1>5, <1>6
     DEF IInv, SweptWhileNotClosed, HistoryUnbroken, Lazy, Hash, History
<1>9. OpenHasEnd' /\ ProbeHistory' /\ ProbesWithinLimit'
  <2>1. \A q \in Probes : /\ Out(q)' => Out(q)
                          /\ Out(q)' => /\ probe'[q].a = probe[q].a
                                        /\ probe'[q].hw = probe[q].hw
                                        /\ probe'[q].v = probe[q].v
    BY DEF Out
  <2> QED
    BY <1>3, <1>5, <2>1, SameWindow
<1> QED
  BY <1>7, <1>8, <1>9 DEF IInv

\* A transition that is reported at once continues the history.
LEMMA TransitionHistory ==
    ASSUME IInv, NEW c \in Hash, NEW by \in {"auto", "probe", "manual"},
           ~Lazy(brk), ~Lazy(c), c.v = brk.v + 1,
           brk' = c, hist' = Note(hist, brk.st, c.st, by), brko' = (brk'.st # "closed"),
           UNCHANGED <<now, win, probe>>
    PROVE  TypeOK' /\ SweptWhileNotClosed' /\ HistoryUnbroken'
<1>1. brk \in Hash /\ hist \in History /\ TypeOK /\ brk.st \in States /\ c.st \in States
  BY DEF IInv, TypeOK, Hash
<1>2. /\ hist' \in History /\ hist'.n = hist.n + 1 /\ hist'.last = c.st
      /\ hist'.gaps = hist.gaps + (IF hist.last = brk.st THEN 0 ELSE 1)
  <2> DEFINE g == Note(hist, brk.st, c.st, by)
  <2>1. /\ g \in History /\ g.n = hist.n + 1 /\ g.last = c.st
        /\ g.gaps = hist.gaps + (IF hist.last = brk.st THEN 0 ELSE 1)
    BY <1>1 DEF Note, History
  <2>2. hist' = g
    OBVIOUS
  <2> QED
    BY <2>1, <2>2
<1>3. brko' \in BOOLEAN
  BY Zenon
<1>4. TypeOK'
  BY <1>1, <1>2, <1>3 DEF TypeOK, Times
<1>5. SweptWhileNotClosed'
  BY DEF SweptWhileNotClosed
<1>6. HistoryUnbroken'
  <2>1. brk.v = hist.n /\ hist.last = brk.st /\ hist.gaps = 0
    BY <1>1 DEF IInv, HistoryUnbroken, Hash, History
  <2>2. brk'.v = hist'.n /\ hist'.last = brk'.st /\ hist'.gaps = 0
    BY <1>1, <1>2, <2>1 DEF Hash, History
  <2>3. hist'.n \in Nat
    BY <1>2 DEF History
  <2> QED
    BY <2>2, <2>3 DEF HistoryUnbroken, Lazy
<1> QED
  BY <1>4, <1>5, <1>6

\* Each transition of an evaluation.
LEMMA EvalTransitionIInv ==
    ASSUME IInv, NEW t \in Clocks, ~Lazy(brk),
           EvalDisabled(t) \/ EvalTrip(t) \/ EvalExpired(t) \/ EvalProbes(t),
           brko' = (brk'.st # "closed"), UNCHANGED <<now, win, probe>>
    PROVE  IInv'
<1>1. brk \in Hash /\ t \in Nat /\ brk.oc + 1 \in Nat /\ brk.ou \in Nat
  BY ClockNat DEF IInv, TypeOK, Hash
<1>2. ASSUME NEW by \in {"auto", "probe"}, Transition(GoClosed(brk, t), by) PROVE IInv'
  <2> DEFINE c == GoClosed(brk, t)
  <2>1. c \in Hash /\ c.st = "closed" /\ c.ou = 0 /\ c.v = brk.v + 1
    BY <1>1, GoClosedFields
  <2>2. brk' = c /\ hist' = Note(hist, brk.st, c.st, by)
    BY <1>2 DEF Transition
  <2> HIDE DEF c
  <2>3. TypeOK' /\ SweptWhileNotClosed' /\ HistoryUnbroken'
    BY <2>1, <2>2, TransitionHistory DEF Lazy
  <2>4. OpenHasEnd' /\ ProbeHistory' /\ ProbesWithinLimit'
    BY <2>1, <2>2, RestKeepsProbes
  <2> QED
    BY <2>3, <2>4 DEF IInv
<1>3. ASSUME NEW by \in {"auto", "probe"}, NEW n \in Nat, Transition(GoOpen(brk, t, n), by)
      PROVE  IInv'
  <2> DEFINE c == GoOpen(brk, t, n)
  <2>1. c \in Hash /\ c.st = "open" /\ c.ou > t + Skew /\ c.v = brk.v + 1
    BY <1>1, GoOpenFields
  <2>2. brk' = c /\ hist' = Note(hist, brk.st, c.st, by)
    BY <1>3 DEF Transition
  <2>3. c.ou \in Nat
    BY <2>1 DEF Hash
  <2> HIDE DEF c
  <2>4. c.ou > 0
    BY <1>1, <2>1, <2>3, SkewAssumption
  <2>5. TypeOK' /\ SweptWhileNotClosed' /\ HistoryUnbroken'
    BY <2>1, <2>2, TransitionHistory DEF Lazy
  <2>6. OpenHasEnd' /\ ProbeHistory' /\ ProbesWithinLimit'
    BY <2>1, <2>2, <2>4, RestKeepsProbes
  <2> QED
    BY <2>5, <2>6 DEF IInv
<1>4. CASE EvalDisabled(t)
  BY <1>2, <1>4 DEF EvalDisabled
<1>5. CASE EvalTrip(t)
  <2>1. PICK n \in Nat : Transition(GoOpen(brk, t, n), "auto")
    BY <1>1, <1>5 DEF EvalTrip
  <2> QED
    BY <1>3, <2>1
<1>6. CASE EvalProbes(t)
  <2>1. \/ Transition(GoClosed(brk, t), "probe")
        \/ Transition(GoOpen(brk, t, brk.oc + 1), "probe")
    BY <1>6 DEF EvalProbes
  <2> QED
    BY <1>1, <1>2, <1>3, <2>1
<1>7. CASE EvalExpired(t)
  <2> DEFINE c == GoHalfOpen(brk, t)
  <2>1. /\ c \in Hash /\ c.st = "half_open" /\ c.ou = 0 /\ c.hw = t /\ c.hc = 0
        /\ c.v = brk.v + 1
    BY <1>1, HalfOpenFields
  <2>2. brk' = c /\ hist' = Note(hist, brk.st, c.st, "auto")
    BY <1>7 DEF EvalExpired, Transition
  <2>3. brk.st = "open" /\ brk.ou > 0 /\ brk.ou <= t
    BY <1>1, <1>7 DEF EvalExpired, IInv, OpenHasEnd
  <2> HIDE DEF c
  <2>4. TypeOK' /\ SweptWhileNotClosed' /\ HistoryUnbroken'
    BY <2>1, <2>2, TransitionHistory DEF Lazy
  <2>5. OpenHasEnd' /\ ProbeHistory' /\ ProbesWithinLimit'
    BY <2>1, <2>2, <2>3, HalfOpenKeepsProbes
  <2> QED
    BY <2>4, <2>5 DEF IInv
<1> QED
  BY <1>4, <1>5, <1>6, <1>7

\* An operation reports a lazy half-open before its own transition.
LEMMA OperationHistory ==
    ASSUME IInv, NEW c \in Hash, ~Lazy(c), c.v = brk.v + 1,
           brk' = c, hist' = Note(NoteLazy(hist, brk), brk.st, c.st, "manual"),
           brko' = (brk'.st # "closed"), UNCHANGED <<now, win, probe>>
    PROVE  TypeOK' /\ SweptWhileNotClosed' /\ HistoryUnbroken'
<1>1. CASE ~Lazy(brk)
  <2>1. NoteLazy(hist, brk) = hist
    BY <1>1 DEF NoteLazy
  <2> QED
    BY <1>1, <2>1, TransitionHistory
<1>2. CASE Lazy(brk)
  <2> DEFINE h == Note(hist, "open", "half_open", "auto")
             g == Note(h, brk.st, c.st, "manual")
  <2>1. /\ brk \in Hash /\ hist \in History /\ TypeOK /\ c.st \in States
        /\ brk.st = "half_open" /\ brk.st \in States /\ "open" \in States
    BY <1>2 DEF IInv, TypeOK, Hash, Lazy, States
  <2>2. /\ h \in History /\ h.n = hist.n + 1 /\ h.last = "half_open"
        /\ h.gaps = hist.gaps + (IF hist.last = "open" THEN 0 ELSE 1)
    BY <2>1, NoteFields
  <2>3. hist' = g
    BY <1>2 DEF NoteLazy
  <2> HIDE DEF h
  <2>4. /\ g \in History /\ g.n = h.n + 1 /\ g.last = c.st
        /\ g.gaps = h.gaps + (IF h.last = brk.st THEN 0 ELSE 1)
    BY <2>1, <2>2 DEF Note, History
  <2> HIDE DEF g
  <2>5. brko' \in BOOLEAN
    BY Zenon
  <2>6. TypeOK'
    BY <2>1, <2>3, <2>4, <2>5 DEF TypeOK, Times
  <2>7. brk.v = hist.n + 1 /\ hist.last = "open" /\ hist.gaps = 0
    BY <1>2 DEF IInv, HistoryUnbroken
  <2>8. brk'.v = hist'.n /\ hist'.last = brk'.st /\ hist'.gaps = 0 /\ hist'.n \in Nat
    BY <2>1, <2>2, <2>3, <2>4, <2>7 DEF Hash, History
  <2>9. HistoryUnbroken'
    BY <2>8 DEF HistoryUnbroken, Lazy
  <2>10. SweptWhileNotClosed'
    BY DEF SweptWhileNotClosed
  <2> QED
    BY <2>6, <2>9, <2>10
<1> QED
  BY <1>1, <1>2

\* The operator's open.
LEMMA OpenIInv ==
    ASSUME IInv, NEW t \in Clocks, NEW d \in Durations, Open(t, d) PROVE IInv'
<1> DEFINE c == SetOpen(brk, t, d)
<1>1. brk \in Hash /\ t \in Nat
  BY ClockNat DEF IInv, TypeOK
<1>2. /\ c \in Hash /\ c.st = "open" /\ c.man = 1
      /\ (c.ou = 0 \/ c.ou > t + Skew) /\ c.v = brk.v + 1
  BY <1>1, SetOpenFields
<1>3. /\ brk' = c /\ brko' = TRUE /\ hist' = Note(NoteLazy(hist, brk), brk.st, "open", "manual")
      /\ now' = now /\ win' = win /\ probe' = probe
  BY DEF Open
<1> HIDE DEF c
<1>4. brko' = (brk'.st # "closed")
  BY <1>2, <1>3
<1>5. TypeOK' /\ SweptWhileNotClosed' /\ HistoryUnbroken'
  BY <1>2, <1>3, <1>4, OperationHistory DEF Lazy
<1>6. OpenHasEnd' /\ ProbeHistory' /\ ProbesWithinLimit'
  BY <1>2, <1>3, RestKeepsProbes
<1> QED
  BY <1>5, <1>6 DEF IInv

\* The operator's close.
LEMMA CloseIInv ==
    ASSUME IInv, NEW t \in Clocks, Close(t) PROVE IInv'
<1> DEFINE c == GoClosed(brk, t)
<1>1. brk \in Hash /\ t \in Nat
  BY ClockNat DEF IInv, TypeOK
<1>2. c \in Hash /\ c.st = "closed" /\ c.ou = 0 /\ c.v = brk.v + 1
  BY <1>1, GoClosedFields
<1>3. /\ brk' = c /\ brko' = FALSE /\ hist' = Note(NoteLazy(hist, brk), brk.st, "closed", "manual")
      /\ now' = now /\ win' = win /\ probe' = probe
  BY DEF Close
<1> HIDE DEF c
<1>4. brko' = (brk'.st # "closed")
  BY <1>2, <1>3
<1>5. TypeOK' /\ SweptWhileNotClosed' /\ HistoryUnbroken'
  BY <1>2, <1>3, <1>4, OperationHistory DEF Lazy
<1>6. OpenHasEnd' /\ ProbeHistory' /\ ProbesWithinLimit'
  BY <1>2, <1>3, RestKeepsProbes
<1> QED
  BY <1>5, <1>6 DEF IInv

\* Steps that leave the breaker alone: an evaluation without a transition,
\* the passing of time, a stuttering step.
LEMMA QuietIInv ==
    ASSUME IInv, brk' = brk, win' = win, probe' = probe, hist' = hist,
           now' \in {now, now + 1}, brko' = brko \/ brko' = (brk'.st # "closed")
    PROVE  IInv'
<1>1. brko' \in BOOLEAN /\ SweptWhileNotClosed'
  BY DEF IInv, TypeOK, SweptWhileNotClosed
<1>2. TypeOK'
  BY <1>1 DEF IInv, TypeOK, Times
<1>3. HistoryUnbroken'
  BY DEF IInv, HistoryUnbroken, Lazy
<1>4. OpenHasEnd' /\ ProbeHistory' /\ ProbesWithinLimit'
  <2>1. \A q \in Probes : /\ Out(q)' => Out(q)
                          /\ Out(q)' => /\ probe'[q].a = probe[q].a
                                        /\ probe'[q].hw = probe[q].hw
                                        /\ probe'[q].v = probe[q].v
    BY DEF Out
  <2>2. brk \in Hash
    BY DEF IInv, TypeOK
  <2> QED
    BY <2>1, <2>2, SameWindow
<1> QED
  BY <1>1, <1>2, <1>3, <1>4 DEF IInv

\* Every step keeps the inductive invariant.
LEMMA NextIInv == IInv /\ [Next]_vars => IInv'
<1> SUFFICES ASSUME IInv, [Next]_vars PROVE IInv'
  OBVIOUS
<1>1. CASE Acquire
  BY <1>1, AcquireNothingIInv, AcquireProbeIInv DEF Acquire
<1>2. ASSUME NEW p \in Probes, AbortProbe(p) PROVE IInv'
  BY <1>2, AbortProbeIInv
<1>3. CASE Report
  BY <1>3, ObserveIInv, ObserveProbeIInv DEF Report
<1>4. CASE Sweep
  <2>1. PICK t \in Clocks, enabled \in Policies : Evaluate(t, enabled)
    BY <1>4 DEF Sweep
  <2>2. now' = now /\ win' = win /\ probe' = probe /\ brko' = (brk'.st # "closed")
    BY <2>1 DEF Evaluate
  <2>3. CASE EvalLazy
    BY <2>2, <2>3, EvalLazyIInv
  <2>4. CASE ~Lazy(brk) /\ (EvalDisabled(t) \/ EvalTrip(t) \/ EvalExpired(t) \/ EvalProbes(t))
    BY <2>2, <2>4, EvalTransitionIInv
  <2>5. CASE EvalNothing(t, enabled)
    BY <2>2, <2>5, QuietIInv DEF EvalNothing
  <2> QED
    BY <2>1, <2>3, <2>4, <2>5 DEF Evaluate
<1>5. CASE Operate
  BY <1>5, OpenIInv, CloseIInv DEF Operate
<1>6. CASE Tick
  BY <1>6, QuietIInv DEF Tick
<1>7. CASE UNCHANGED vars
  BY <1>7, QuietIInv DEF vars
<1> QED
  BY <1>1, <1>2, <1>3, <1>4, <1>5, <1>6, <1>7 DEF Next

\* The breaker keeps its inductive invariant for any policy, any number of
\* probe leases and any clock skew below the shortest open period.
THEOREM BreakerInvariance == Spec => []IInv
BY InitIInv, NextIInv, PTL DEF Spec

\* The hash and the histories keep their types.
THEOREM TypeCorrect == Spec => []TypeOK
<1>1. IInv => TypeOK
  BY DEF IInv
<1> QED
  BY <1>1, BreakerInvariance, PTL

\* No window of a half-open period ever has more than probe_leases_per_10s
\* probes out (acquire_main.lua 21-35 with lease_end.lua 93-101).
THEOREM ProbesLimited == Spec => []ProbesWithinLimit
<1>1. IInv => ProbesWithinLimit
  BY DEF IInv
<1> QED
  BY <1>1, BreakerInvariance, PTL

\* The sweep's candidate set agrees with the state after every script.
THEOREM SweepComplete == Spec => []SweptWhileNotClosed
<1>1. IInv => SweptWhileNotClosed
  BY DEF IInv
<1> QED
  BY <1>1, BreakerInvariance, PTL

\* Every transition is handed to exactly one caller, in order.
THEOREM NoTransitionLost == Spec => []HistoryUnbroken
<1>1. IInv => HistoryUnbroken
  BY DEF IInv
<1> QED
  BY <1>1, BreakerInvariance, PTL

\* Only an operator's step changes a breaker that was opened without end.
LEMMA ManualStep ==
    ASSUME TypeOK, Next, brk.st = "open", brk.man = 1, brk.ou = 0, brk' # brk
    PROVE  hist'.by = "manual"
<1>1. CASE Acquire
  BY <1>1 DEF Acquire, AcquireNothing, AcquireProbe, EffectivelyOpen
<1>2. ASSUME NEW p \in Probes, AbortProbe(p) PROVE hist'.by = "manual"
  BY <1>2 DEF AbortProbe, GiveBack
<1>3. CASE Report
  BY <1>3 DEF Report, Observe, ObserveProbe, CountProbe
<1>4. CASE Sweep
  BY <1>4 DEF Sweep, Evaluate, EvalLazy, Lazy, EvalDisabled, EvalTrip, EvalExpired,
              EvalProbes, EvalNothing
<1>5. CASE Operate
  BY <1>5 DEF Operate, Open, Close, Note
<1>6. CASE Tick
  BY <1>6 DEF Tick
<1> QED
  BY <1>1, <1>2, <1>3, <1>4, <1>5, <1>6 DEF Next

\* A manual open without end is in force until an operator acts.
THEOREM ManualOpenIsKept == Spec => ManualOpenHolds
<1>1. TypeOK /\ [Next]_vars
        => [brk.st = "open" /\ brk.man = 1 /\ brk.ou = 0 /\ brk' # brk => hist'.by = "manual"]_vars
  BY ManualStep DEF vars
<1> QED
  BY <1>1, TypeCorrect, PTL DEF Spec, ManualOpenHolds
=============================================================================
