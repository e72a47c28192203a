------------------------------- MODULE Breaker -------------------------------
(***************************************************************************)
(* The circuit breaker of one endpoint group: the Redis hash brk:<eg>, the *)
(* set brko of breakers that are not closed, the window of reports and the *)
(* probe leases, as four scripts share them.                               *)
(*                                                                         *)
(*   acquire.lua       the gate; half-opens an expired open by itself      *)
(*   lease_end.lua     gives a probe back when its lease is aborted        *)
(*   observe.lua       counts reports and the results of probes            *)
(*   breaker_eval.lua  the evaluation of the sweep and of risk reports     *)
(*   breaker_set.lua   the operator's open and close                       *)
(*                                                                         *)
(* Each script is atomic in Redis and is one action. `now' is real time;   *)
(* the caller passes its own clock, up to Skew ahead of it.  Which of the  *)
(* three trip conditions holds is abstracted to a choice made once the     *)
(* window holds MinRequests reports.                                       *)
(***************************************************************************)
EXTENDS Integers, FiniteSets, Functions

CONSTANTS
    Probes,         \* identities of the probe leases
    ProbeLimit,     \* half_open.probe_leases_per_10s
    ProbeWindow,    \* PROBE_WINDOW of acquire.lua
    OpenFor,        \* open_duration
    MaxOpen,        \* max_open_duration
    ResetAfter,     \* reset_open_count_after
    CloseMin,       \* half_open.close_min_samples
    CloseNum,       \* half_open.close_success_ratio_gte is CloseNum / CloseDen
    CloseDen,
    MinRequests,    \* min_requests
    Bucket,         \* length of a bucket of the window
    Buckets,        \* number of buckets of the window
    ActiveWindow,   \* how long the sweep keeps visiting a group after a report
    Durations,      \* what operators ask for; 0 is an open without end
    Policies,       \* values `enabled' takes: the policy may be edited
    Skew,           \* how far a caller's clock may be ahead
    Busy,           \* bound: reports, leases and operators stop after Busy
    Horizon,        \* bound: time stops at Horizon
    MaxSamples,     \* bound: reports in a behaviour
    MaxVersion      \* bound: operators and policy edits stop at this version

ASSUME ProbeAssumption == /\ ProbeLimit \in Nat \ {0}
                          /\ ProbeWindow \in Nat \ {0}
                          /\ IsFiniteSet(Probes)

\* breaker_eval.lua 73-78 clamps its arguments.
ASSUME DurationAssumption == /\ OpenFor \in Nat \ {0}
                             /\ MaxOpen \in Nat
                             /\ MaxOpen >= OpenFor
                             /\ ResetAfter \in Nat
                             /\ Durations \subseteq Nat

ASSUME VerdictAssumption == /\ CloseMin \in Nat \ {0}
                            /\ CloseNum \in Nat
                            /\ CloseDen \in Nat \ {0}

ASSUME WindowAssumption == /\ MinRequests \in Nat \ {0}
                           /\ Bucket \in Nat \ {0}
                           /\ Buckets \in Nat \ {0}
                           /\ ActiveWindow \in Nat

ASSUME PolicyAssumption == Policies \subseteq BOOLEAN

ASSUME BoundAssumption == /\ Busy \in Nat
                          /\ Horizon \in Nat \ {0}
                          /\ MaxSamples \in Nat
                          /\ MaxVersion \in Nat

\* No open period is shorter than the clocks are apart.
ASSUME SkewAssumption == /\ Skew \in Nat
                         /\ Skew < OpenFor
                         /\ \A d \in Durations : d = 0 \/ Skew < d

VARIABLES
    now,     \* real time, from 1 so that 0 is "never"
    brk,     \* the hash brk:<eg>
    brko,    \* is the group in the set brko?
    win,     \* reports by the time they were counted at
    probe,   \* the probe leases
    hist     \* the transitions the scripts have handed to their callers

vars == <<now, brk, brko, win, probe, hist>>

States == {"closed", "open", "half_open"}

\* The clock readings an instance may send: its clock runs up to Skew ahead.
Clocks == now .. now + Skew

\* Fields ou, oc, lc, man, hw, hc, ps, pk and v keep the names of the hash.
Closed0 == [st |-> "closed", ou |-> 0, oc |-> 0, lc |-> 0, man |-> 0,
            hw |-> 0, hc |-> 0, ps |-> 0, pk |-> 0, v |-> 0]

NoProbe == [st |-> "free", a |-> 0, hw |-> 0, v |-> 0]

Times == 0 .. Horizon + Skew

Init == /\ now = 1
        /\ brk = Closed0
        /\ brko = FALSE
        /\ win = [u \in Times |-> 0]
        /\ probe = [p \in Probes |-> NoProbe]
        /\ hist = [n |-> 0, last |-> "closed", by |-> "none", gaps |-> 0]

-----------------------------------------------------------------------------
(* acquire.lua and lease_end.lua                                           *)

\* The open state the gate and the suppression rule agree on.
EffectivelyOpen(b, t) == b.st = "open" /\ ((b.man = 1 /\ b.ou = 0) \/ t < b.ou)

\* An expired open: acquire.lua leaves ou and man as they are.
LazyHalfOpen(b, t) ==
    [st |-> "half_open", ou |-> b.ou, oc |-> b.oc, lc |-> b.lc, man |-> b.man,
     hw |-> t, hc |-> 0, ps |-> 0, pk |-> 0, v |-> b.v + 1]

RollWindow(b, t) ==
    IF b.st = "half_open" /\ t - b.hw >= ProbeWindow
    THEN [b EXCEPT !.hw = t, !.hc = 0]
    ELSE b

\* The hash after the gate, when the gate does not refuse outright.
PassGate(b, t) == RollWindow(IF b.st = "open" THEN LazyHalfOpen(b, t) ELSE b, t)

\* A request the gate turns away (the window's probes are used up), or one
\* that passes and finds no identity: what the gate wrote stays.
AcquireNothing(t) ==
    /\ now <= Busy
    /\ ~EffectivelyOpen(brk, t)
    /\ brk' = PassGate(brk, t)
    /\ UNCHANGED <<now, brko, win, probe, hist>>

\* Only a granted lease is counted against the window.
AcquireProbe(p, t) ==
    LET b == PassGate(brk, t) IN
    /\ now <= Busy
    /\ probe[p].st = "free"
    /\ ~EffectivelyOpen(brk, t)
    /\ b.st = "half_open"
    /\ b.hc < ProbeLimit
    /\ brk' = [b EXCEPT !.hc = @ + 1]
    /\ probe' = [probe EXCEPT ![p] = [st |-> "granted", a |-> t, hw |-> b.hw, v |-> b.v]]
    /\ UNCHANGED <<now, brko, win, hist>>

\* Mutant: the probe is given back to whatever window is current.
GiveBackAnyWindow(b, a) ==
    IF b.st = "half_open" /\ b.hc > 0 THEN [b EXCEPT !.hc = @ - 1] ELSE b

GiveBack(b, a) ==
    IF b.st = "half_open" /\ b.hw <= a /\ b.hc > 0 THEN [b EXCEPT !.hc = @ - 1] ELSE b

\* The lease could not be rendered and is taken back.
AbortProbe(p) ==
    /\ probe[p].st = "granted"
    /\ brk' = GiveBack(brk, probe[p].a)
    /\ probe' = [probe EXCEPT ![p].st = "aborted"]
    /\ UNCHANGED <<now, brko, win, hist>>

-----------------------------------------------------------------------------
(* observe.lua                                                             *)

Reports(from) == SumFunctionOnSet(win, {u \in Times : u >= from})

\* Bound: at most MaxSamples reports are counted.
CountReport(t) ==
    /\ now <= Busy
    /\ Reports(0) < MaxSamples
    /\ win' = [win EXCEPT ![t] = @ + 1]

\* A report on a lease that is no probe.
Observe(t) ==
    /\ CountReport(t)
    /\ UNCHANGED <<now, brk, brko, probe, hist>>

\* A report on a probe lease counts whenever the breaker is half open, also
\* in a later half-open period than the one the lease was granted in.
CountProbe(b, ok) ==
    IF b.st = "half_open"
    THEN [b EXCEPT !.ps = @ + 1, !.pk = IF ok THEN @ + 1 ELSE @]
    ELSE b

ObserveProbe(p, ok, t) ==
    /\ probe[p].st \in {"granted", "used"}
    /\ CountReport(t)
    /\ brk' = CountProbe(brk, ok)
    /\ probe' = [probe EXCEPT ![p].st = "used"]
    /\ UNCHANGED <<now, brko, hist>>

-----------------------------------------------------------------------------
(* breaker_eval.lua, called by the sweep and after risk reports            *)

\* A script hands a transition to its caller, who records and publishes it.
Note(h, from, to, by) ==
    [n |-> h.n + 1, last |-> to, by |-> by, gaps |-> h.gaps + (IF h.last = from THEN 0 ELSE 1)]

\* Half-opened by acquire.lua and not recorded yet.
Lazy(b) == b.st = "half_open" /\ b.ou > 0

NoteLazy(h, b) == IF Lazy(b) THEN Note(h, "open", "half_open", "auto") ELSE h

\* open * 2^(n-1), and max_open_duration once that is more.
OpenPeriod(n) ==
    LET d == OpenFor * 2^(n - 1) IN IF d \in OpenFor .. MaxOpen THEN d ELSE MaxOpen

GoClosed(b, t) ==
    [st |-> "closed", ou |-> 0, oc |-> b.oc, lc |-> t, man |-> 0,
     hw |-> 0, hc |-> 0, ps |-> 0, pk |-> 0, v |-> b.v + 1]

GoOpen(b, t, n) ==
    [st |-> "open", ou |-> t + OpenPeriod(n), oc |-> n, lc |-> b.lc, man |-> 0,
     hw |-> 0, hc |-> 0, ps |-> 0, pk |-> 0, v |-> b.v + 1]

\* Mutant: the evaluation half-opens like the gate, leaving ou.
GoHalfOpenKeepsEnd(b, t) == LazyHalfOpen(b, t)

GoHalfOpen(b, t) ==
    [st |-> "half_open", ou |-> 0, oc |-> b.oc, lc |-> b.lc, man |-> b.man,
     hw |-> t, hc |-> 0, ps |-> 0, pk |-> 0, v |-> b.v + 1]

\* Mutant: the bucket of the close itself is kept.
FirstBucketOfClose(b, t) ==
    LET first == t \div Bucket - Buckets + 1
        atClose == b.lc \div Bucket
    IN  IF b.lc > 0 /\ atClose > first THEN atClose ELSE first

\* First bucket of the window: not before the last close.
FirstBucket(b, t) ==
    LET first == t \div Bucket - Buckets + 1
        afterClose == (b.lc + Bucket - 1) \div Bucket
    IN  IF b.lc > 0 /\ afterClose > first THEN afterClose ELSE first

WindowTotal(b, t) ==
    SumFunctionOnSet(win, {u \in Times : u \div Bucket \in FirstBucket(b, t) .. t \div Bucket})

\* Mutant: the sweep visits active groups only.
CandidateActive(t) == \E u \in Times : win[u] > 0 /\ u >= t - ActiveWindow

\* The sweep visits groups that are in brko or had a report lately.
Candidate(t) == brko \/ \E u \in Times : win[u] > 0 /\ u >= t - ActiveWindow

Transition(b, by) == /\ brk' = b
                     /\ hist' = Note(hist, brk.st, b.st, by)

\* A lazy half-open is only reported; its probes are judged by the next call.
EvalLazy == /\ Lazy(brk)
            /\ brk' = [brk EXCEPT !.ou = 0]
            /\ hist' = NoteLazy(hist, brk)

\* Disabled by policy: everything but an unexpired manual open closes.
EvalDisabled(t) == /\ \/ brk.st = "half_open"
                      \/ brk.st = "open" /\ brk.man # 1
                      \/ brk.st = "open" /\ brk.ou > 0 /\ t >= brk.ou
                   /\ Transition(GoClosed(brk, t), "auto")

EvalTrip(t) == /\ brk.st = "closed"
               /\ WindowTotal(brk, t) >= MinRequests
               /\ Transition(GoOpen(brk, t, IF brk.lc > 0 /\ t - brk.lc >= ResetAfter
                                            THEN 1 ELSE brk.oc + 1), "auto")

EvalExpired(t) == /\ brk.st = "open"
                  /\ (brk.ou > 0 /\ t >= brk.ou) \/ (brk.man # 1 /\ brk.ou = 0)
                  /\ Transition(GoHalfOpen(brk, t), "auto")

EvalProbes(t) == /\ brk.st = "half_open"
                 /\ brk.ps >= CloseMin
                 /\ Transition(IF brk.pk * CloseDen >= CloseNum * brk.ps
                               THEN GoClosed(brk, t)
                               ELSE GoOpen(brk, t, brk.oc + 1), "probe")

\* No transition: not enough reports or probes, no condition trips, not expired.
EvalNothing(t, enabled) ==
    /\ \/ brk.st = "closed"
       \/ EffectivelyOpen(brk, t) /\ (brk.man = 1 \/ enabled)
       \/ brk.st = "half_open" /\ enabled /\ ~Lazy(brk) /\ brk.ps < CloseMin
    /\ UNCHANGED <<brk, hist>>

\* Bound: the policy is edited until the version is MaxVersion.
EditsMayGoOn == brk.v < MaxVersion

\* Every evaluation ends by making brko agree with the state.
Evaluate(t, enabled) ==
    /\ Candidate(t)
    /\ \/ EvalLazy
       \/ ~Lazy(brk) /\ ~enabled /\ EditsMayGoOn /\ EvalDisabled(t)
       \/ ~Lazy(brk) /\ enabled /\ (EvalTrip(t) \/ EvalExpired(t) \/ EvalProbes(t))
       \/ EvalNothing(t, enabled)
    /\ brko' = (brk'.st # "closed")
    /\ UNCHANGED <<now, win, probe>>

-----------------------------------------------------------------------------
(* breaker_set.lua                                                         *)

SetOpen(b, t, d) ==
    [st |-> "open", ou |-> IF d > 0 THEN t + d ELSE 0, oc |-> b.oc, lc |-> b.lc,
     man |-> 1, hw |-> 0, hc |-> 0, ps |-> 0, pk |-> 0, v |-> b.v + 1]

\* Bound: operators act until Busy and until the version is MaxVersion.
OperatorMayAct == now <= Busy /\ brk.v < MaxVersion

Open(t, d) ==
    /\ OperatorMayAct
    /\ brk' = SetOpen(brk, t, d)
    /\ brko' = TRUE
    /\ hist' = Note(NoteLazy(hist, brk), brk.st, "open", "manual")
    /\ UNCHANGED <<now, win, probe>>

\* Closing a closed breaker changes nothing.
Close(t) ==
    /\ OperatorMayAct
    /\ brk.st # "closed"
    /\ brk' = GoClosed(brk, t)
    /\ brko' = FALSE
    /\ hist' = Note(NoteLazy(hist, brk), brk.st, "closed", "manual")
    /\ UNCHANGED <<now, win, probe>>

-----------------------------------------------------------------------------

Tick == /\ now < Horizon
        /\ now' = now + 1
        /\ UNCHANGED <<brk, brko, win, probe, hist>>

Acquire == \E t \in Clocks : AcquireNothing(t) \/ \E p \in Probes : AcquireProbe(p, t)

Report == \E t \in Clocks :
            Observe(t) \/ \E p \in Probes, ok \in BOOLEAN : ObserveProbe(p, ok, t)

Sweep == \E t \in Clocks, enabled \in Policies : Evaluate(t, enabled)

Operate == \E t \in Clocks : Close(t) \/ \E d \in Durations : Open(t, d)

Next == Acquire \/ (\E p \in Probes : AbortProbe(p)) \/ Report \/ Sweep \/ Operate \/ Tick

Spec == Init /\ [][Next]_vars

\* The sweep is a job every instance runs every few seconds, and time passes.
\* Nobody is obliged to acquire, report or operate, and no trip is forced.
FairSpec == Spec /\ WF_vars(Tick) /\ WF_vars(brk.st # "closed" /\ Sweep)

-----------------------------------------------------------------------------
(* Properties                                                              *)

Hash == [st : States, ou : Nat, oc : Nat, lc : Nat, man : {0, 1},
         hw : Nat, hc : Nat, ps : Nat, pk : Nat, v : Nat]

ProbeLease == [st : {"free", "granted", "used", "aborted"}, a : Nat, hw : Nat, v : Nat]

History == [n : Nat, last : States, by : {"none", "auto", "probe", "manual"},
            gaps : Nat]

\* Types of the hash, the set, the window, the probe leases and the history.
TypeOK ==
    /\ now \in Nat \ {0}
    /\ brk \in Hash
    /\ brko \in BOOLEAN
    /\ win \in [Times -> Nat]
    /\ probe \in [Probes -> ProbeLease]
    /\ hist \in History

\* The probe leases of the current window that were not taken back.
InWindow(p) == /\ probe[p].st \in {"granted", "used"}
               /\ probe[p].hw = brk.hw
               /\ probe[p].v = brk.v

\* In one probe window of one half-open period at most probe_leases_per_10s
\* probe leases are out, although aborted leases are given back to the window,
\* windows roll, and a lease of an earlier window or period may be aborted late
\* (acquire_main.lua 21-35, lease_end.lua 93-101).
ProbesWithinLimit ==
    brk.st = "half_open" => /\ Cardinality({p \in Probes : InWindow(p)}) <= brk.hc
                            /\ brk.hc <= ProbeLimit

\* The sweep's candidate set brko holds the group exactly while its breaker is
\* not closed, whichever script moved it (the gate half-opens without touching
\* brko), so no open breaker is forgotten by the sweep and no closed one kept.
SweptWhileNotClosed == brko <=> brk.st # "closed"

\* The transitions handed to the callers form one unbroken history: each starts
\* where the previous one ended, and their number is the version, but for a
\* half-open the gate made and no evaluation or operation has reported yet. So
\* a lazy half-open is reported exactly once, by whoever sees it first.
HistoryUnbroken ==
    /\ hist.gaps = 0
    /\ brk.v = hist.n + (IF Lazy(brk) THEN 1 ELSE 0)
    /\ hist.last = (IF Lazy(brk) THEN "open" ELSE brk.st)

\* A manual open without end is left only by an operator: no expiry, lazy
\* half-open, probe verdict or disabled policy ends it.
ManualOpenHolds ==
    [][brk.st = "open" /\ brk.man = 1 /\ brk.ou = 0 /\ brk' # brk => hist'.by = "manual"]_vars

\* An automatic trip rests on min_requests reports that were counted since the
\* breaker last closed: samples from before the close do not trip it again
\* (breaker_eval.lua 22-25).
NotRetrippedByOldReports ==
    [][brk.st = "closed" /\ brk'.st = "open" /\ hist'.by = "auto"
          => Reports(brk.lc) >= MinRequests]_vars

\* An open whose end time reaches.
EndsInTime == brk.ou > 0 /\ brk.ou <= Horizon

\* An open with an end is left even if no request ever comes: the sweep
\* half-opens it, unless an operator moves its end.
OpenEnds == brk.st = "open" /\ EndsInTime ~> brk.st # "open" \/ ~EndsInTime

\* A half-open made by the gate is eventually reported.
LazyReported == Lazy(brk) ~> ~Lazy(brk)

\* The documentation's "so a breaker also closes without traffic reaching it".
ClosesWithoutTraffic == brk.st = "open" /\ brk.man # 1 /\ EndsInTime ~> brk.st = "closed"
=============================================================================
