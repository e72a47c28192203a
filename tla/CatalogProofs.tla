--------------------------- MODULE CatalogProofs ---------------------------
(***************************************************************************)
(* Read-your-writes of the catalog store, for every number of instances,   *)
(* callers, versions, calls and failures.  What carries the argument: the  *)
(* loads of an instance are serialized, so its snapshot only moves forward;*)
(* a load reads PostgreSQL after everyone it serves asked for it and after *)
(* the mark it records was observed; and a mark is raised after the change *)
(* it stands for was committed.                                            *)
(***************************************************************************)
EXTENDS Catalog, TLAPS

LoadType == [pc : {"idle", "observe", "read", "swap"}, mark : Int, ver : Nat]

CallType == [pc : {"idle", "bump", "wait", "publish", "compare", "ok"},
             kind : {"", "change", "sync"}, at : Instances \cup {Peer, 0},
             need : Nat, seen : Nat]

Types ==
  /\ db \in Nat /\ mark \in Nat /\ bumps \in Seq(Nat) /\ Len(bumps) = mark
  /\ pruned \in BOOLEAN
  /\ snap \in [Instances -> Nat] /\ applied \in [Instances -> Nat]
  /\ load \in [Instances -> LoadType]
  /\ riders \in [Instances -> SUBSET (Callers \cup {Full})]
  /\ waiters \in [Instances -> SUBSET (Callers \cup {Full})]
  /\ call \in [Callers \cup Remote -> CallType]

\* Later marks stand for later versions.
Bumps == \A k \in 1..mark : bumps[k] <= db /\ \A j \in 1..k : bumps[j] <= bumps[k]

\* The snapshot only moves forward: what a load read is not older.
Snaps ==
  \A i \in Instances :
    /\ snap[i] <= db
    /\ load[i].pc = "swap" => snap[i] <= load[i].ver /\ load[i].ver <= db

\* What a recorded mark, and the mark a load observed, stand for.
Marks ==
  ~pruned => \A i \in Instances :
    /\ applied[i] <= mark /\ (applied[i] > 0 => bumps[applied[i]] <= snap[i])
    /\ load[i].pc \in {"read", "swap"} => load[i].mark <= mark
    /\ load[i].pc = "swap" /\ load[i].mark > 0 => bumps[load[i].mark] <= load[i].ver

\* Whoever waits for a load asked before it read PostgreSQL.
Waits ==
  \A i \in Instances :
    /\ \A c \in Callers : c \in riders[i] \cup waiters[i] =>
         call[c].pc = "wait" /\ call[c].at = i /\ call[c].need <= db
    /\ load[i].pc = "swap" => \A c \in Callers : c \in riders[i] => call[c].need <= load[i].ver
    /\ \A c \in Callers : c \in riders[i] => c \notin waiters[i]

\* What a caller may rely on, by where it is.
CallOK(c) ==
  /\ call[c].pc # "idle" => call[c].at \in Instances
  /\ call[c].pc = "compare" =>
       /\ call[c].kind = "sync" /\ call[c].need <= db
       /\ ~pruned => /\ call[c].seen <= mark
                     /\ call[c].seen = 0 => call[c].need = 0
                     /\ call[c].seen > 0 => call[c].need <= bumps[call[c].seen]
  /\ call[c].pc = "publish" /\ call[c].seen = 1 => call[c].need <= snap[call[c].at]
  /\ call[c].pc = "ok" /\ (call[c].kind = "sync" => ~pruned) => call[c].need <= snap[call[c].at]
  /\ call[c].pc = "publish" => call[c].kind = "change"

Calls == \A c \in Callers : CallOK(c)

Remotes ==
  \A c \in Remote :
    /\ call[c].pc \in {"idle", "bump", "publish"} /\ call[c].seen = 0
    /\ call[c].pc # "idle" => call[c].at = Peer

IInv == Types /\ Bumps /\ Snaps /\ Marks /\ Waits /\ Calls /\ Remotes

-----------------------------------------------------------------------------
(* What the invariant needs to know of the helpers.                        *)

\* request touches no load that has read anything, and adds only who asked.
Added(i, who) ==
  /\ load' \in [Instances -> LoadType]
  /\ riders' \in [Instances -> SUBSET (Callers \cup {Full})]
  /\ waiters' \in [Instances -> SUBSET (Callers \cup {Full})]
  /\ snap' = snap /\ applied' = applied
  /\ \A j \in Instances :
       /\ load'[j].pc \in {"read", "swap"} => load'[j] = load[j] /\ riders'[j] = riders[j]
       /\ riders'[j] \cup waiters'[j] \subseteq
            riders[j] \cup waiters[j] \cup (IF j = i THEN who ELSE {})
       /\ riders'[j] \cap waiters'[j] \subseteq
            (riders[j] \cap waiters[j]) \cup (who \cap (riders[j] \cup waiters[j]))

LEMMA RequestAdds ==
  ASSUME Types, NEW i \in Instances, NEW who \in SUBSET (Callers \cup {Full}), Request(i, who)
  PROVE  Added(i, who)
<1>0. snap' = snap /\ applied' = applied
  BY DEF Request
<1>1. CASE load[i].pc = "idle"
  <2>1. /\ load' = [load EXCEPT ![i].pc = "observe"]
        /\ riders' = [riders EXCEPT ![i] = who] /\ waiters' = waiters
    BY <1>1 DEF Request
  <2>2. /\ load' \in [Instances -> LoadType] /\ load'[i].pc = "observe"
        /\ \A j \in Instances \ {i} : load'[j] = load[j]
    BY <2>1 DEF Types, LoadType
  <2>3. /\ riders' \in [Instances -> SUBSET (Callers \cup {Full})] /\ riders'[i] = who
        /\ \A j \in Instances \ {i} : riders'[j] = riders[j]
    BY <2>1 DEF Types
  <2> QED BY <1>0, <2>1, <2>2, <2>3 DEF Types, Added
<1>2. CASE load[i].pc # "idle"
  <2>1. /\ load' = load /\ riders' = riders
        /\ waiters' = [waiters EXCEPT ![i] = @ \cup who]
    BY <1>2 DEF Request
  <2>2. /\ waiters' \in [Instances -> SUBSET (Callers \cup {Full})]
        /\ waiters'[i] = waiters[i] \cup who
        /\ \A j \in Instances \ {i} : waiters'[j] = waiters[j]
    BY <2>1 DEF Types
  <2> QED BY <1>0, <2>1, <2>2 DEF Types, Added
<1> QED BY <1>1, <1>2

\* After a flight the queued one starts, without anything read.
LEMMA FinishStarts ==
  ASSUME Types, NEW i \in Instances, NEW ok \in BOOLEAN, Finish(i, ok)
  PROVE  /\ load' \in [Instances -> LoadType]
         /\ riders' \in [Instances -> SUBSET (Callers \cup {Full})]
         /\ waiters' \in [Instances -> SUBSET (Callers \cup {Full})]
         /\ load'[i].pc \in {"idle", "observe"}
         /\ riders'[i] = waiters[i] /\ waiters'[i] = {}
         /\ \A j \in Instances \ {i} :
              load'[j] = load[j] /\ riders'[j] = riders[j] /\ waiters'[j] = waiters[j]
BY DEF Types, LoadType, Finish, NoLoad

\* Who waited for a load that succeeded goes on with what it needs ...
LEMMA FinishWakes ==
  ASSUME Types, NEW i \in Instances, Finish(i, TRUE)
  PROVE  /\ call' \in [Callers \cup Remote -> CallType]
         /\ \A c \in Callers \cup Remote : c \notin riders[i] => call'[c] = call[c]
         /\ \A c \in Callers : c \in riders[i] =>
              /\ \/ call'[c].pc = "ok" /\ call'[c].kind # "change"
                 \/ call'[c].pc = "publish" /\ call'[c].kind = "change"
              /\ call'[c].at = call[c].at /\ call'[c].need = call[c].need
<1>1. call' = [c \in Callers \cup Remote |-> IF c \in riders[i] THEN Woken(call[c], TRUE) ELSE call[c]]
  BY DEF Finish
<1>2. ASSUME NEW k \in CallType
      PROVE  /\ Woken(k, TRUE) \in CallType
             /\ \/ Woken(k, TRUE).pc = "ok" /\ Woken(k, TRUE).kind # "change"
                \/ Woken(k, TRUE).pc = "publish" /\ Woken(k, TRUE).kind = "change"
             /\ Woken(k, TRUE).at = k.at /\ Woken(k, TRUE).need = k.need
  BY DEF CallType, Woken
<1>3. \A c \in Callers \cup Remote : call[c] \in CallType
  BY DEF Types
<1> QED BY <1>1, <1>2, <1>3

\* ... and of one that failed, with nothing.
LEMMA FinishFails ==
  ASSUME Types, NEW i \in Instances, Finish(i, FALSE)
  PROVE  /\ call' \in [Callers \cup Remote -> CallType]
         /\ \A c \in Callers \cup Remote : c \notin riders[i] => call'[c] = call[c]
         /\ \A c \in Callers : c \in riders[i] =>
              \/ call'[c].pc = "idle"
              \/ /\ call'[c].pc = "publish" /\ call'[c].kind = "change" /\ call'[c].seen = 0
                 /\ call'[c].at = call[c].at
<1>1. call' = [c \in Callers \cup Remote |-> IF c \in riders[i] THEN Woken(call[c], FALSE) ELSE call[c]]
  BY DEF Finish
<1>2. ASSUME NEW k \in CallType
      PROVE  /\ Woken(k, FALSE) \in CallType
             /\ \/ Woken(k, FALSE).pc = "idle"
                \/ /\ Woken(k, FALSE).pc = "publish" /\ Woken(k, FALSE).kind = "change"
                   /\ Woken(k, FALSE).seen = 0 /\ Woken(k, FALSE).at = k.at
  BY DEF CallType, Woken, Idle
<1>3. \A c \in Callers \cup Remote : call[c] \in CallType
  BY DEF Types
<1> QED BY <1>1, <1>2, <1>3

-----------------------------------------------------------------------------
(* The invariant is inductive.                                             *)

\* It holds when an instance has loaded the namespace and when it starts.
LEMMA InitIInv == Init => IInv
<1> SUFFICES ASSUME Init PROVE IInv
  OBVIOUS
<1>1. Types
  <2>1. db \in Nat /\ mark \in Nat /\ bumps \in Seq(Nat) /\ Len(bumps) = mark /\ pruned \in BOOLEAN
    <3>1. db = 1 /\ mark = 1 /\ bumps = <<1>> /\ pruned = FALSE
      BY DEF Init
    <3>2. pruned \in BOOLEAN
      BY <3>1, Zenon
    <3>3. bumps \in Seq(Nat) /\ Len(bumps) = 1
      BY <3>1
    <3> QED BY <3>1, <3>2, <3>3
  <2>2. snap \in [Instances -> Nat] /\ applied \in [Instances -> Nat]
    BY DEF Init
  <2>3. load \in [Instances -> LoadType]
    BY DEF Init, LoadType, NoLoad
  <2>4. /\ riders \in [Instances -> SUBSET (Callers \cup {Full})]
        /\ waiters \in [Instances -> SUBSET (Callers \cup {Full})]
    BY DEF Init
  <2>5. call \in [Callers \cup Remote -> CallType]
    BY DEF Init, CallType, Idle
  <2> QED BY <2>1, <2>2, <2>3, <2>4, <2>5 DEF Types
<1>2. Bumps /\ Snaps /\ Marks
  BY DEF Init, Bumps, Snaps, Marks, NoLoad
<1>3. Waits /\ Calls /\ Remotes
  BY DEF Init, Waits, Calls, CallOK, Remotes, NoLoad, Idle
<1> QED BY <1>1, <1>2, <1>3 DEF IInv

\* The Run loop's own steps leave everything the invariant speaks of alone.
LEMMA Aside ==
  ASSUME IInv, UNCHANGED <<shared, store, call>>
  PROVE  IInv'
BY DEF IInv, Types, Bumps, Snaps, Marks, Waits, Calls, CallOK, Remotes, shared, store

\* A caller nobody touched keeps what it may rely on.
LEMMA CallKept ==
  ASSUME Calls, NEW c \in Callers, call'[c] = call[c], UNCHANGED <<db, mark, bumps, pruned, snap>>
  PROVE  CallOK(c)'
BY DEF Calls, CallOK

\* A request that nobody waits for, or only the full reload.
LEMMA RequestIInv ==
  ASSUME CatalogAssumption, IInv, NEW i \in Instances, NEW who \in SUBSET {Full},
         Request(i, who), UNCHANGED <<shared, call>>
  PROVE  IInv'
<1>1. who \in SUBSET (Callers \cup {Full}) /\ \A c \in Callers : c \notin who
  BY DEF CatalogAssumption
<1>2. Added(i, who)
  BY <1>1, RequestAdds DEF IInv
<1>3. Types' /\ Bumps' /\ Remotes' /\ Calls'
  BY <1>2 DEF IInv, Types, Bumps, Remotes, Calls, CallOK, shared, Added
<1>4. Snaps' /\ Marks'
  BY <1>2 DEF IInv, Types, Snaps, Marks, shared, Added
<1>5. Waits'
  BY <1>1, <1>2 DEF IInv, Waits, shared, Added
<1> QED BY <1>3, <1>4, <1>5 DEF IInv

\* Reload, by a caller that was not waiting.
LEMMA AskWaits ==
  ASSUME Types, Waits, NEW c \in Callers, NEW i \in Instances, NEW need \in Nat,
         call[c].pc # "wait", call[c].at = i, Ask(c, i, need), need <= db, db' = db
  PROVE  /\ load' \in [Instances -> LoadType]
         /\ riders' \in [Instances -> SUBSET (Callers \cup {Full})]
         /\ waiters' \in [Instances -> SUBSET (Callers \cup {Full})]
         /\ call' \in [Callers \cup Remote -> CallType]
         /\ snap' = snap /\ applied' = applied
         /\ \A j \in Instances : load'[j].pc \in {"read", "swap"} => load'[j] = load[j]
         /\ \A d \in Callers \cup Remote : d # c => call'[d] = call[d]
         /\ call'[c].pc = "wait" /\ call'[c].at = i
         /\ Waits'
<1>1. Request(i, {c}) /\ {c} \in SUBSET (Callers \cup {Full})
  BY DEF Ask
<1>2. Added(i, {c})
  BY <1>1, RequestAdds
<1>3. call' = [call EXCEPT ![c].pc = "wait", ![c].need = need, ![c].seen = 0]
  BY DEF Ask
<1>4. /\ call' \in [Callers \cup Remote -> CallType]
      /\ \A d \in Callers \cup Remote : d # c => call'[d] = call[d]
      /\ call'[c].pc = "wait" /\ call'[c].at = i /\ call'[c].need = need
  <2> DEFINE k == [call[c] EXCEPT !.pc = "wait", !.need = need, !.seen = 0]
  <2>1. call[c] \in CallType
    BY DEF Types
  <2>2. k \in CallType /\ k.pc = "wait" /\ k.at = i /\ k.need = need
    BY <2>1 DEF CallType
  <2>3. call' = [call EXCEPT ![c] = k]
    BY <1>3, <2>1 DEF Types, CallType
  <2> HIDE DEF k
  <2> QED BY <2>2, <2>3 DEF Types
<1>5. \A j \in Instances : c \notin riders[j] \cup waiters[j]
  BY DEF Waits
<1>6. ASSUME NEW j \in Instances, NEW d \in Callers, d \in riders'[j] \cup waiters'[j]
      PROVE  call'[d].pc = "wait" /\ call'[d].at = j /\ call'[d].need <= db'
  <2>1. CASE d = c
    BY <1>2, <1>4, <1>5, <1>6, <2>1 DEF Added
  <2>2. CASE d # c
    <3>1. d \in riders[j] \cup waiters[j] /\ call'[d] = call[d]
      BY <1>2, <1>4, <1>6, <2>2 DEF Added
    <3> QED BY <3>1 DEF Waits
  <2> QED BY <2>1, <2>2
<1>7. ASSUME NEW j \in Instances, load'[j].pc = "swap", NEW d \in Callers, d \in riders'[j]
      PROVE  call'[d].need <= load'[j].ver
  <2>1. load'[j] = load[j] /\ load[j].pc = "swap" /\ d \in riders[j]
    BY <1>2, <1>7 DEF Added
  <2>2. call'[d] = call[d]
    BY <1>4, <1>5, <2>1
  <2> QED BY <2>1, <2>2 DEF Waits
<1>8. Waits'
  BY <1>2, <1>5, <1>6, <1>7 DEF Waits, Added
<1> QED BY <1>2, <1>4, <1>8 DEF Added

\* A load observes the mark before it reads.
LEMMA ObserveIInv == ASSUME IInv, NEW i \in Instances, Observe(i) PROVE IInv'
<1> USE DEF IInv
<1>1. mark \in Nat /\ load \in [Instances -> LoadType]
  BY DEF Types
<1>2. /\ load' \in [Instances -> LoadType] /\ load'[i].pc = "read" /\ load'[i].mark <= mark
      /\ \A j \in Instances \ {i} : load'[j] = load[j]
  <2>1. ASSUME NEW m \in Int, m <= mark, load' = [load EXCEPT ![i].pc = "read", ![i].mark = m]
        PROVE  /\ load' \in [Instances -> LoadType] /\ load'[i].pc = "read" /\ load'[i].mark <= mark
               /\ \A j \in Instances \ {i} : load'[j] = load[j]
    <3> DEFINE l == [load[i] EXCEPT !.pc = "read", !.mark = m]
    <3>1. l \in LoadType /\ l.pc = "read" /\ l.mark = m
      BY <1>1 DEF LoadType
    <3>2. load' = [load EXCEPT ![i] = l]
      BY <1>1, <2>1 DEF LoadType
    <3> HIDE DEF l
    <3> QED BY <1>1, <2>1, <3>1, <3>2
  <2>2. mark \in Int /\ mark <= mark /\ -1 \in Int /\ -1 <= mark
    BY <1>1
  <2>3. \/ load' = [load EXCEPT ![i].pc = "read", ![i].mark = mark]
        \/ load' = [load EXCEPT ![i].pc = "read", ![i].mark = -1]
    BY DEF Observe
  <2>4. CASE load' = [load EXCEPT ![i].pc = "read", ![i].mark = mark]
    BY <2>1, <2>2, <2>4, Zenon
  <2>5. CASE load' = [load EXCEPT ![i].pc = "read", ![i].mark = -1]
    BY <2>1, <2>2, <2>5, Zenon
  <2> QED BY <2>3, <2>4, <2>5
<1>3. UNCHANGED <<shared, snap, applied, riders, waiters, call>>
  BY DEF Observe
<1>4. Types' /\ Bumps' /\ Calls' /\ Remotes'
  BY <1>2, <1>3 DEF Types, Bumps, Calls, CallOK, Remotes, shared
<1>5. Snaps' /\ Marks' /\ Waits'
  BY <1>2, <1>3 DEF Snaps, Marks, Waits, shared
<1> QED BY <1>4, <1>5

\* It reads what is committed by then.
LEMMA ReadIInv == ASSUME IInv, NEW i \in Instances, Read(i) PROVE IInv'
<1> USE DEF IInv
<1>1. /\ load' \in [Instances -> LoadType] /\ load'[i].pc = "swap" /\ load'[i].ver = db
      /\ load'[i].mark = load[i].mark /\ load[i].pc = "read"
      /\ \A j \in Instances \ {i} : load'[j] = load[j]
  BY DEF Read, Types, LoadType
<1>2. UNCHANGED <<shared, snap, applied, riders, waiters, call>>
  BY DEF Read
<1>3. Types' /\ Bumps' /\ Calls' /\ Remotes'
  BY <1>1, <1>2 DEF Types, Bumps, Calls, CallOK, Remotes, shared
<1>4. Snaps' /\ Waits'
  <2>1. Snaps'
    <3>1. db \in Nat /\ db' = db /\ snap' = snap
      BY <1>2 DEF Types, shared
    <3>2. load'[i].ver <= db /\ snap[i] <= load'[i].ver
      BY <1>1, <3>1 DEF Snaps
    <3> QED BY <1>1, <3>1, <3>2 DEF Snaps
  <2>2. Waits'
    BY <1>1, <1>2 DEF Waits, shared
  <2> QED BY <2>1, <2>2
<1>5. ~pruned => load[i].mark <= mark /\ (load[i].mark > 0 => bumps[load[i].mark] <= db)
  BY <1>1 DEF Types, LoadType, Bumps, Marks
<1>6. Marks'
  BY <1>1, <1>2, <1>5 DEF Types, Marks, shared
<1> QED BY <1>3, <1>4, <1>6

\* What the load read replaces the snapshot, and the mark is recorded.
LEMMA SwapIInv == ASSUME CatalogAssumption, IInv, NEW i \in Instances, Swap(i) PROVE IInv'
<1> USE DEF IInv
<1>1. /\ load[i].pc = "swap" /\ load[i] \in LoadType /\ applied[i] \in Nat
      /\ snap[i] <= load[i].ver /\ load[i].ver <= db
  BY DEF Swap, Snaps, Types
<1>2. Finish(i, TRUE) /\ UNCHANGED shared
  BY DEF Swap, Finish
<1>3. /\ snap' \in [Instances -> Nat] /\ snap'[i] = load[i].ver
      /\ \A j \in Instances \ {i} : snap'[j] = snap[j]
  BY <1>1 DEF Swap, Types, LoadType
<1>4. /\ applied' \in [Instances -> Nat]
      /\ applied'[i] = IF load[i].mark > applied[i] THEN load[i].mark ELSE applied[i]
      /\ \A j \in Instances \ {i} : applied'[j] = applied[j]
  BY <1>1 DEF Swap, Types, LoadType
<1>5. /\ load' \in [Instances -> LoadType]
      /\ riders' \in [Instances -> SUBSET (Callers \cup {Full})]
      /\ waiters' \in [Instances -> SUBSET (Callers \cup {Full})]
      /\ load'[i].pc \in {"idle", "observe"}
      /\ riders'[i] = waiters[i] /\ waiters'[i] = {}
      /\ \A j \in Instances \ {i} :
           load'[j] = load[j] /\ riders'[j] = riders[j] /\ waiters'[j] = waiters[j]
  BY <1>2, FinishStarts
<1>6. /\ call' \in [Callers \cup Remote -> CallType]
      /\ \A c \in Callers \cup Remote : c \notin riders[i] => call'[c] = call[c]
      /\ \A c \in Callers : c \in riders[i] =>
           /\ \/ call'[c].pc = "ok" /\ call'[c].kind # "change"
              \/ call'[c].pc = "publish" /\ call'[c].kind = "change"
           /\ call'[c].at = call[c].at /\ call'[c].need = call[c].need
  BY <1>2, FinishWakes
<1>7. Types' /\ Bumps'
  BY <1>2, <1>3, <1>4, <1>5, <1>6 DEF Types, Bumps, shared
<1>8. Snaps'
  BY <1>1, <1>2, <1>3, <1>5 DEF Snaps, shared
<1>9. Marks'
  <2>1. ~pruned => /\ applied'[i] <= mark /\ (applied'[i] > 0 => bumps[applied'[i]] <= load[i].ver)
    <3>1. ASSUME ~pruned PROVE applied[i] > 0 => bumps[applied[i]] <= load[i].ver
      <4>1. ASSUME applied[i] > 0 PROVE bumps[applied[i]] <= load[i].ver
        <5>1. bumps[applied[i]] <= snap[i] /\ applied[i] \in 1..mark
          BY <1>1, <3>1, <4>1 DEF Marks, Types
        <5>2. bumps[applied[i]] \in Nat /\ snap[i] \in Nat
          BY <5>1 DEF Types
        <5> QED BY <1>1, <5>1, <5>2 DEF LoadType
      <4> QED BY <4>1
    <3> QED BY <1>1, <1>4, <3>1 DEF Marks
  <2> QED BY <1>2, <1>3, <1>4, <1>5, <2>1 DEF Marks, shared
<1>10. Waits'
  <2>1. ASSUME NEW j \in Instances, NEW c \in Callers, c \in riders'[j] \cup waiters'[j]
        PROVE  c \in riders[j] \cup waiters[j] /\ call'[c] = call[c]
    <3>1. CASE j = i
      BY <1>5, <1>6, <2>1, <3>1 DEF Waits
    <3>2. CASE j # i
      <4>1. c \in riders[j] \cup waiters[j] /\ c \notin riders[i]
        BY <1>5, <2>1, <3>2 DEF Waits
      <4> QED BY <1>6, <4>1
    <3> QED BY <3>1, <3>2
  <2>2. \A j \in Instances : load'[j].pc = "swap" => load'[j] = load[j] /\ riders'[j] = riders[j]
    BY <1>5
  <2>3. \A j \in Instances : \A c \in Callers : c \in riders'[j] => c \notin waiters'[j]
    BY <1>5 DEF Waits
  <2>4. db' = db
    BY <1>2 DEF shared
  <2> QED BY <2>1, <2>2, <2>3, <2>4 DEF Waits
<1>11. Calls'
  <2>1. ASSUME NEW c \in Callers, c \in riders[i]
        PROVE  call'[c].at = i /\ call'[c].need <= snap'[i]
    BY <1>1, <1>3, <1>6, <2>1 DEF Waits
  <2>2. \A j \in Instances : snap[j] <= snap'[j]
    <3>1. \A j \in Instances : snap[j] \in Nat
      BY DEF Types
    <3> QED BY <1>1, <1>3, <3>1
  <2>3. ASSUME NEW c \in Callers, NEW j \in Instances, call[c].need <= snap[j]
        PROVE  call[c].need <= snap'[j]
    <3>1. call[c].need \in Nat /\ snap[j] \in Nat /\ snap'[j] \in Nat
      BY <1>3 DEF Types, CallType
    <3> QED BY <2>2, <2>3, <3>1
  <2>4. UNCHANGED <<db, mark, bumps, pruned>>
    BY <1>2 DEF shared
  <2>5. \A c \in Callers : c \notin riders[i] => call'[c] = call[c]
    BY <1>6
  <2> QED BY <1>6, <2>1, <2>3, <2>4, <2>5 DEF Calls, CallOK
<1>12. Remotes'
  <2>1. \A c \in Remote : c \notin riders[i]
    BY DEF Types, CatalogAssumption
  <2> QED BY <1>6, <2>1 DEF Remotes
<1> QED BY <1>7, <1>8, <1>9, <1>10, <1>11, <1>12

\* A load that fails leaves the snapshot and the mark as they are.
LEMMA ReadFailsIInv == ASSUME CatalogAssumption, IInv, NEW i \in Instances, ReadFails(i) PROVE IInv'
<1> USE DEF IInv
<1>1. Finish(i, FALSE) /\ UNCHANGED <<shared, snap, applied>>
  BY DEF ReadFails, Finish
<1>2. /\ load' \in [Instances -> LoadType]
      /\ riders' \in [Instances -> SUBSET (Callers \cup {Full})]
      /\ waiters' \in [Instances -> SUBSET (Callers \cup {Full})]
      /\ load'[i].pc \in {"idle", "observe"}
      /\ riders'[i] = waiters[i] /\ waiters'[i] = {}
      /\ \A j \in Instances \ {i} :
           load'[j] = load[j] /\ riders'[j] = riders[j] /\ waiters'[j] = waiters[j]
  BY <1>1, FinishStarts
<1>3. /\ call' \in [Callers \cup Remote -> CallType]
      /\ \A c \in Callers \cup Remote : c \notin riders[i] => call'[c] = call[c]
      /\ \A c \in Callers : c \in riders[i] =>
           \/ call'[c].pc = "idle"
           \/ /\ call'[c].pc = "publish" /\ call'[c].kind = "change" /\ call'[c].seen = 0
              /\ call'[c].at = call[c].at
  BY <1>1, FinishFails
<1>4. Types' /\ Bumps'
  BY <1>1, <1>2, <1>3 DEF Types, Bumps, shared
<1>5. Snaps' /\ Marks'
  BY <1>1, <1>2 DEF Snaps, Marks, shared
<1>6. Waits'
  <2>1. ASSUME NEW j \in Instances, NEW c \in Callers, c \in riders'[j] \cup waiters'[j]
        PROVE  c \in riders[j] \cup waiters[j] /\ call'[c] = call[c]
    <3>1. CASE j = i
      BY <1>2, <1>3, <2>1, <3>1 DEF Waits
    <3>2. CASE j # i
      <4>1. c \in riders[j] \cup waiters[j] /\ c \notin riders[i]
        BY <1>2, <2>1, <3>2 DEF Waits
      <4> QED BY <1>3, <4>1
    <3> QED BY <3>1, <3>2
  <2>2. \A j \in Instances : load'[j].pc = "swap" => load'[j] = load[j] /\ riders'[j] = riders[j]
    BY <1>2
  <2>3. \A j \in Instances : \A c \in Callers : c \in riders'[j] => c \notin waiters'[j]
    BY <1>2 DEF Waits
  <2>4. db' = db
    BY <1>1 DEF shared
  <2> QED BY <2>1, <2>2, <2>3, <2>4 DEF Waits
<1>7. Calls'
  <2>1. \A c \in Callers : c \in riders[i] => call[c].at = i
    BY DEF Waits
  <2> QED BY <1>1, <1>3, <2>1 DEF Calls, CallOK, shared
<1>8. Remotes'
  <2>1. \A c \in Remote : c \notin riders[i]
    BY DEF Types, CatalogAssumption
  <2> QED BY <1>3, <2>1 DEF Remotes
<1> QED BY <1>4, <1>5, <1>6, <1>7, <1>8

\* What one caller does to its own record alone, when it does not wait.
LEMMA OwnStep ==
  ASSUME CatalogAssumption, IInv, NEW c \in Callers \cup Remote, NEW k \in CallType, call[c].pc # "wait",
         call' = [call EXCEPT ![c] = k], UNCHANGED <<mark, bumps, pruned, store>>,
         db' \in Nat, db <= db'
  PROVE  /\ Types' /\ Bumps' /\ Snaps' /\ Marks' /\ Waits'
         /\ call'[c] = k /\ \A d \in Callers \cup Remote : d # c => call'[d] = call[d]
<1> USE DEF IInv
<1>1. /\ call' \in [Callers \cup Remote -> CallType] /\ call'[c] = k
      /\ \A d \in Callers \cup Remote : d # c => call'[d] = call[d]
  BY DEF Types
<1>2. UNCHANGED <<mark, bumps, pruned, snap, applied, load, riders, waiters>>
  BY DEF store
<1>3. Types'
  BY <1>1, <1>2 DEF Types
<1>4. \A n \in Nat : n <= db => n <= db'
  BY DEF Types
<1>5. Bumps'
  <2>1. \A j \in 1..mark : bumps[j] \in Nat
    BY DEF Types
  <2> QED BY <1>2, <1>4, <2>1 DEF Bumps
<1>6. Snaps' /\ Marks'
  <2>1. \A i \in Instances : snap[i] \in Nat /\ load[i].ver \in Nat
    BY DEF Types, LoadType
  <2> QED BY <1>2, <1>4, <2>1 DEF Snaps, Marks
<1>7. Waits'
  <2>1. \A i \in Instances, d \in Callers : d \in riders[i] \cup waiters[i] => call'[d] = call[d]
    BY <1>1 DEF Waits
  <2>2. \A d \in Callers : call[d].need \in Nat
    BY DEF Types, CallType
  <2> QED BY <1>2, <1>4, <2>1, <2>2 DEF Waits
<1> QED BY <1>1, <1>3, <1>5, <1>6, <1>7

\* An administrator's change is committed.
LEMMA ChangeIInv ==
  ASSUME CatalogAssumption, IInv, NEW c \in Callers \cup Remote, NEW i \in Instances \cup {Peer},
         c \in Callers => i \in Instances, c \in Remote => i = Peer, Change(c, i)
  PROVE  IInv'
<1> USE DEF IInv
<1> DEFINE k == [Idle EXCEPT !.pc = "bump", !.kind = "change", !.at = i]
<1>1. k \in CallType /\ k.pc = "bump" /\ k.at = i /\ k.seen = 0
  BY DEF CallType, Idle
<1>2. call[c].pc # "wait" /\ call' = [call EXCEPT ![c] = k] /\ UNCHANGED <<mark, bumps, pruned, store>>
  BY DEF Change, Ready
<1>3. db' \in Nat /\ db <= db'
  BY DEF Change, Types
<1> HIDE DEF k
<1>4. /\ Types' /\ Bumps' /\ Snaps' /\ Marks' /\ Waits'
      /\ call'[c] = k /\ \A d \in Callers \cup Remote : d # c => call'[d] = call[d]
  BY <1>1, <1>2, <1>3, OwnStep
<1>5. Calls'
  <2>1. \A d \in Callers : call[d].need \in Nat /\ (call[d].need <= db => call[d].need <= db')
    <3>1. db \in Nat /\ \A d \in Callers : call[d].need \in Nat
      BY DEF Types, CallType
    <3> QED BY <1>3, <3>1
  <2> QED BY <1>1, <1>2, <1>4, <2>1 DEF Calls, CallOK, store
<1>6. Remotes'
  BY <1>1, <1>4 DEF Remotes
<1> QED BY <1>4, <1>5, <1>6

\* The invalidation is published.
LEMMA PublishIInv == ASSUME CatalogAssumption, IInv, NEW c \in Callers \cup Remote, Publish(c) PROVE IInv'
<1> USE DEF IInv
<1> DEFINE k == IF call[c].seen = 1 THEN [call[c] EXCEPT !.pc = "ok", !.seen = 0] ELSE Idle
<1>0. call[c] \in CallType
  BY DEF Types
<1>1. /\ k \in CallType
      /\ \/ k.pc = "idle" /\ k.seen = 0
         \/ /\ call[c].seen = 1 /\ k.pc = "ok" /\ k.at = call[c].at
            /\ k.need = call[c].need /\ k.kind = call[c].kind
  BY <1>0 DEF CallType, Idle
<1>2. /\ call[c].pc = "publish" /\ call' = [call EXCEPT ![c] = k]
      /\ UNCHANGED <<db, mark, bumps, pruned, store>>
  BY DEF Publish, shared
<1>3. db' \in Nat /\ db <= db'
  BY <1>2 DEF Types
<1> HIDE DEF k
<1>4. /\ Types' /\ Bumps' /\ Snaps' /\ Marks' /\ Waits'
      /\ call'[c] = k /\ \A d \in Callers \cup Remote : d # c => call'[d] = call[d]
  BY <1>1, <1>2, <1>3, OwnStep
<1>5. Calls'
  BY <1>1, <1>2, <1>4 DEF Calls, CallOK, store
<1>6. Remotes'
  BY <1>1, <1>4 DEF Remotes
<1> QED BY <1>4, <1>5, <1>6

\* Sync reads the marks.
LEMMA SyncIInv == ASSUME CatalogAssumption, IInv, NEW c \in Callers, NEW i \in Instances, Sync(c, i) PROVE IInv'
<1> USE DEF IInv
<1>1. /\ Marked \in Nat /\ Marked <= db /\ mark \in Nat
      /\ mark = 0 => Marked = 0
      /\ mark > 0 => Marked = bumps[mark]
  <2>1. CASE mark = 0
    BY <2>1 DEF Marked, Types
  <2>2. CASE mark > 0
    BY <2>2 DEF Marked, Types, Bumps
  <2> QED BY <2>1, <2>2 DEF Types
<1> DEFINE k == [Idle EXCEPT !.pc = "compare", !.kind = "sync", !.at = i, !.need = Marked, !.seen = mark]
<1>2. k \in CallType /\ k.pc = "compare" /\ k.kind = "sync" /\ k.at = i /\ k.need = Marked /\ k.seen = mark
  BY <1>1 DEF CallType, Idle
<1>3. /\ call[c].pc # "wait" /\ call' = [call EXCEPT ![c] = k]
      /\ UNCHANGED <<db, mark, bumps, pruned, store>>
  BY DEF Sync, Ready, shared
<1>4. db' \in Nat /\ db <= db'
  BY <1>3 DEF Types
<1> HIDE DEF k
<1>5. /\ Types' /\ Bumps' /\ Snaps' /\ Marks' /\ Waits'
      /\ call'[c] = k /\ \A d \in Callers \cup Remote : d # c => call'[d] = call[d]
  BY <1>2, <1>3, <1>4, OwnStep
<1>6. Calls'
  <2>1. mark <= mark /\ (mark > 0 => Marked <= bumps[mark])
    BY <1>1
  <2> QED BY <1>1, <1>2, <1>3, <1>5, <2>1 DEF Calls, CallOK, store
<1>7. Remotes'
  BY <1>5 DEF Remotes, CatalogAssumption
<1> QED BY <1>5, <1>6, <1>7

\* ... and asks for a load unless one has observed them.
LEMMA CompareIInv == ASSUME CatalogAssumption, IInv, NEW c \in Callers \cup Remote, Compare(c) PROVE IInv'
<1> USE DEF IInv
<1>1. c \in Callers /\ c \notin Remote /\ call[c].pc = "compare" /\ call[c].at \in Instances
  BY DEF Compare, Remotes, Calls, CallOK, CatalogAssumption
<1>2. call[c] \in CallType /\ call[c].need \in Nat /\ call[c].need <= db
  BY <1>1 DEF Types, CallType, Calls, CallOK
<1>3. UNCHANGED <<db, mark, bumps, pruned>>
  BY DEF Compare, shared
<1>4. CASE call[c].seen > applied[call[c].at]
  <2>1. Ask(c, call[c].at, call[c].need)
    BY <1>4 DEF Compare
  <2>2. /\ load' \in [Instances -> LoadType]
        /\ riders' \in [Instances -> SUBSET (Callers \cup {Full})]
        /\ waiters' \in [Instances -> SUBSET (Callers \cup {Full})]
        /\ call' \in [Callers \cup Remote -> CallType]
        /\ snap' = snap /\ applied' = applied
        /\ \A j \in Instances : load'[j].pc \in {"read", "swap"} => load'[j] = load[j]
        /\ \A d \in Callers \cup Remote : d # c => call'[d] = call[d]
        /\ call'[c].pc = "wait" /\ call'[c].at = call[c].at
        /\ Waits'
    BY <1>1, <1>2, <1>3, <2>1, AskWaits
  <2>3. Types' /\ Bumps'
    BY <1>3, <2>2 DEF Types, Bumps
  <2>4. Snaps' /\ Marks'
    BY <1>3, <2>2 DEF Snaps, Marks
  <2>5. Calls' /\ Remotes'
    <3>1. Calls'
      <4>1. CallOK(c)'
        BY <1>1, <2>2 DEF CallOK
      <4>2. \A d \in Callers : d # c => CallOK(d)'
        BY <1>3, <2>2, CallKept
      <4> QED BY <4>1, <4>2 DEF Calls
    <3>2. Remotes'
      BY <1>1, <2>2 DEF Remotes
    <3> QED BY <3>1, <3>2
  <2> QED BY <2>2, <2>3, <2>4, <2>5
<1>5. CASE ~(call[c].seen > applied[call[c].at])
  <2> DEFINE k == [call[c] EXCEPT !.pc = "ok", !.seen = 0]
  <2>1. /\ k \in CallType /\ k.pc = "ok" /\ k.at = call[c].at /\ k.need = call[c].need
        /\ k.kind = "sync"
    BY <1>1, <1>2 DEF CallType, Calls, CallOK
  <2>2. call' = [call EXCEPT ![c] = k] /\ UNCHANGED store
    BY <1>1, <1>2, <1>5 DEF Compare, Types, CallType
  <2>3. db' \in Nat /\ db <= db'
    BY <1>3 DEF Types
  <2> HIDE DEF k
  <2>4. /\ Types' /\ Bumps' /\ Snaps' /\ Marks' /\ Waits'
        /\ call'[c] = k /\ \A d \in Callers \cup Remote : d # c => call'[d] = call[d]
    BY <1>1, <1>3, <2>1, <2>2, <2>3, OwnStep
  <2>5. ~pruned => call[c].need <= snap[call[c].at]
    <3> DEFINE a == call[c].at
    <3>1. /\ applied[a] \in Nat /\ snap[a] \in Nat /\ mark \in Nat /\ call[c].seen \in Nat
          /\ \A n \in 1..mark : bumps[n] \in Nat
      <4>1. applied[a] \in Nat /\ snap[a] \in Nat
        BY <1>1 DEF Types
      <4>2. mark \in Nat /\ \A n \in 1..mark : bumps[n] \in Nat
        BY DEF Types
      <4>3. call[c].seen \in Nat
        BY <1>2 DEF CallType
      <4> QED BY <4>1, <4>2, <4>3
    <3>2. ASSUME ~pruned, call[c].seen > 0 PROVE call[c].need <= snap[call[c].at]
      <4>1. /\ applied[a] <= mark /\ (applied[a] > 0 => bumps[applied[a]] <= snap[a])
            /\ call[c].need <= bumps[call[c].seen]
        BY <1>1, <3>2 DEF Calls, CallOK, Marks
      <4>2. call[c].seen \in 1..applied[a] /\ applied[a] \in 1..mark /\ call[c].seen \in 1..mark
        BY <1>5, <3>1, <3>2, <4>1
      <4>3. bumps[call[c].seen] <= bumps[applied[a]]
        BY <4>2 DEF Bumps
      <4> HIDE DEF a
      <4> QED BY <1>2, <3>1, <4>1, <4>2, <4>3 DEF a
    <3>3. ASSUME ~pruned, call[c].seen = 0 PROVE call[c].need <= snap[call[c].at]
      <4>1. call[c].need = 0
        BY <1>1, <3>3 DEF Calls, CallOK
      <4> QED BY <3>1, <4>1
    <3> QED BY <3>1, <3>2, <3>3
  <2>6. Calls'
    <3>1. snap' = snap
      BY <2>2 DEF store
    <3>2. \A d \in Callers : d # c => call'[d] = call[d]
      BY <2>4
    <3>3. /\ call'[c].pc = "ok" /\ call'[c].at = call[c].at /\ call'[c].kind = "sync"
          /\ call'[c].need = call[c].need
      BY <2>1, <2>4
    <3>4. CallOK(c)'
      BY <1>1, <1>3, <2>5, <3>1, <3>3 DEF CallOK
    <3>5. \A d \in Callers : d # c => CallOK(d)'
      BY <1>3, <3>1, <3>2, CallKept
    <3> QED BY <3>4, <3>5 DEF Calls
  <2>7. Remotes'
    BY <1>1, <2>4 DEF Remotes
  <2> QED BY <2>4, <2>6, <2>7
<1> QED BY <1>4, <1>5

\* A mark is raised after the change, and Reload follows.
LEMMA BumpIInv == ASSUME CatalogAssumption, IInv, NEW c \in Callers \cup Remote, Bump(c) PROVE IInv'
<1> USE DEF IInv
<1>1. /\ call[c].pc = "bump" /\ db' = db /\ pruned' = pruned
      /\ \/ mark' = mark + 1 /\ bumps' = Append(bumps, db)
         \/ mark' = mark /\ bumps' = bumps
      /\ IF call[c].at = Peer THEN call' = [call EXCEPT ![c].pc = "publish"] /\ UNCHANGED store
         ELSE Ask(c, call[c].at, db)
  BY DEF Bump
<1>2. /\ db \in Nat /\ mark \in Nat /\ bumps \in Seq(Nat) /\ Len(bumps) = mark
      /\ \A n \in 1..mark : bumps[n] \in Nat
  BY DEF Types
<1>3. /\ mark' \in Nat /\ bumps' \in Seq(Nat) /\ Len(bumps') = mark' /\ mark <= mark'
      /\ \A n \in 1..mark : bumps'[n] = bumps[n]
      /\ \A n \in 1..mark' : n \in 1..mark \/ bumps'[n] = db
  <2>1. CASE mark' = mark + 1 /\ bumps' = Append(bumps, db)
    BY <1>2, <2>1
  <2>2. CASE mark' = mark /\ bumps' = bumps
    BY <1>2, <2>2
  <2>3. \/ mark' = mark + 1 /\ bumps' = Append(bumps, db)
        \/ mark' = mark /\ bumps' = bumps
    BY <1>1
  <2> QED BY <2>1, <2>2, <2>3
<1>4. Bumps'
  <2>1. \A n \in 1..mark' : bumps'[n] <= db
    BY <1>2, <1>3 DEF Bumps
  <2>2. ASSUME NEW n \in 1..mark', NEW j \in 1..n PROVE bumps'[j] <= bumps'[n]
    <3>1. CASE n \in 1..mark
      <4>1. j \in 1..mark /\ bumps[j] <= bumps[n]
        BY <1>2, <3>1 DEF Bumps
      <4> QED BY <1>3, <3>1, <4>1
    <3>2. CASE bumps'[n] = db
      <4>1. j \in 1..mark'
        BY <1>3
      <4> QED BY <2>1, <3>2, <4>1
    <3> QED BY <1>3, <3>1, <3>2
  <2> QED BY <1>1, <2>1, <2>2 DEF Bumps
<1>5. ASSUME NEW n \in Int, n <= mark
      PROVE  n <= mark' /\ (n > 0 => bumps'[n] = bumps[n])
  BY <1>2, <1>3, <1>5
<1>6. ASSUME snap' = snap, applied' = applied,
             \A j \in Instances : load'[j].pc \in {"read", "swap"} => load'[j] = load[j]
      PROVE  Snaps' /\ Marks'
  <2>1. \A j \in Instances : applied[j] \in Int /\ load[j].mark \in Int
    BY DEF Types, LoadType
  <2>2. Snaps'
    BY <1>1, <1>6 DEF Snaps
  <2>3. Marks'
    BY <1>1, <1>5, <1>6, <2>1 DEF Marks
  <2> QED BY <2>2, <2>3
<1>7. ASSUME snap' = snap, \A d \in Callers : d # c => call'[d] = call[d],
             c \in Callers => call'[c].pc = "wait" /\ call'[c].at \in Instances
      PROVE  Calls'
  <2>1. \A d \in Callers : call[d].seen \in Int
    <3>1. \A d \in Callers : call[d].seen \in Nat
      BY DEF Types, CallType
    <3> QED BY <3>1
  <2>2. \A d \in Callers : call[d].seen <= mark =>
          call[d].seen <= mark' /\ (call[d].seen > 0 => bumps'[call[d].seen] = bumps[call[d].seen])
    BY <1>5, <2>1
  <2> QED BY <1>1, <1>7, <2>2 DEF Calls, CallOK
<1>8. CASE call[c].at = Peer
  <2> DEFINE k == [call[c] EXCEPT !.pc = "publish"]
  <2>1. c \in Remote /\ c \notin Callers /\ call[c] \in CallType
    BY <1>1, <1>8 DEF Calls, CallOK, Types, CatalogAssumption
  <2>2. k \in CallType /\ k.pc = "publish" /\ k.at = Peer /\ k.seen = call[c].seen
    BY <1>8, <2>1 DEF CallType
  <2>3. call' = [call EXCEPT ![c] = k] /\ UNCHANGED <<snap, applied, load, riders, waiters>>
    BY <1>1, <1>8 DEF store
  <2> HIDE DEF k
  <2>4. /\ call' \in [Callers \cup Remote -> CallType] /\ call'[c] = k
        /\ \A d \in Callers \cup Remote : d # c => call'[d] = call[d]
    BY <2>2, <2>3 DEF Types
  <2>5. Types'
    BY <1>1, <1>2, <1>3, <2>3, <2>4 DEF Types
  <2>6. Snaps' /\ Marks'
    BY <1>6, <2>3
  <2>7. Waits'
    BY <1>1, <2>1, <2>3, <2>4 DEF Waits
  <2>8. Calls' /\ Remotes'
    BY <1>7, <2>1, <2>2, <2>3, <2>4 DEF Remotes
  <2> QED BY <1>4, <2>5, <2>6, <2>7, <2>8
<1>9. CASE call[c].at # Peer
  <2>1. c \in Callers /\ c \notin Remote /\ call[c].at \in Instances
    BY <1>1, <1>9 DEF Remotes, Calls, CallOK, CatalogAssumption
  <2>2. Ask(c, call[c].at, db) /\ call[c].pc # "wait" /\ db <= db
    BY <1>1, <1>2, <1>9
  <2>3. /\ load' \in [Instances -> LoadType]
        /\ riders' \in [Instances -> SUBSET (Callers \cup {Full})]
        /\ waiters' \in [Instances -> SUBSET (Callers \cup {Full})]
        /\ call' \in [Callers \cup Remote -> CallType]
        /\ snap' = snap /\ applied' = applied
        /\ \A j \in Instances : load'[j].pc \in {"read", "swap"} => load'[j] = load[j]
        /\ \A d \in Callers \cup Remote : d # c => call'[d] = call[d]
        /\ call'[c].pc = "wait" /\ call'[c].at = call[c].at
        /\ Waits'
    BY <1>1, <1>2, <2>1, <2>2, AskWaits
  <2>4. Types'
    BY <1>1, <1>2, <1>3, <2>3 DEF Types
  <2>5. Snaps' /\ Marks'
    BY <1>6, <2>3
  <2>6. Calls' /\ Remotes'
    BY <1>7, <2>1, <2>3 DEF Remotes
  <2> QED BY <1>4, <2>3, <2>4, <2>5, <2>6
<1> QED BY <1>8, <1>9

\* A caller that gives up leaves the flight.
LEMMA GiveUpIInv == ASSUME CatalogAssumption, IInv, NEW c \in Callers \cup Remote, GiveUp(c) PROVE IInv'
<1> USE DEF IInv
<1>1. Idle \in CallType /\ Idle.pc = "idle" /\ Idle.seen = 0
  BY DEF CallType, Idle
<1>2. /\ call' = [call EXCEPT ![c] = Idle] /\ UNCHANGED <<shared, snap, applied, load>>
      /\ riders' = [i \in Instances |-> riders[i] \ {c}]
      /\ waiters' = [i \in Instances |-> waiters[i] \ {c}]
  BY DEF GiveUp
<1>3. /\ call' \in [Callers \cup Remote -> CallType] /\ call'[c] = Idle
      /\ \A d \in Callers \cup Remote : d # c => call'[d] = call[d]
  BY <1>1, <1>2 DEF Types
<1>4. Types' /\ Bumps'
  BY <1>2, <1>3 DEF Types, Bumps, shared
<1>5. Snaps' /\ Marks'
  BY <1>2 DEF Snaps, Marks, shared
<1>6. Waits'
  BY <1>2, <1>3 DEF Waits, shared
<1>7. Calls' /\ Remotes'
  BY <1>1, <1>2, <1>3 DEF Calls, CallOK, Remotes, shared
<1> QED BY <1>4, <1>5, <1>6, <1>7

\* Pruning forgets the marks of a namespace that is gone.
LEMMA PruneIInv == ASSUME IInv, NEW i \in Instances \cup {Peer}, Prune(i) PROVE IInv'
<1> USE DEF IInv
<1>1. /\ mark' = 0 /\ bumps' = <<>> /\ pruned' = TRUE
      /\ UNCHANGED <<db, snap, load, riders, waiters, call>>
      /\ applied' = [j \in Instances |-> IF j = i THEN 0 ELSE applied[j]]
  BY DEF Prune
<1>2. Types'
  <2>1. pruned' \in BOOLEAN
    BY <1>1, Zenon
  <2>2. bumps' \in Seq(Nat) /\ Len(bumps') = 0
    BY <1>1
  <2>3. applied' \in [Instances -> Nat]
    BY <1>1 DEF Types
  <2> QED BY <1>1, <2>1, <2>2, <2>3 DEF Types
<1>3. Bumps' /\ Snaps' /\ Marks'
  <2>1. Bumps'
    BY <1>1 DEF Bumps
  <2>2. Snaps'
    BY <1>1 DEF Snaps
  <2>3. Marks'
    BY <1>1, Zenon DEF Marks
  <2> QED BY <2>1, <2>2, <2>3
<1>4. Waits'
  BY <1>1 DEF Waits
<1>5. Calls' /\ Remotes'
  BY <1>1 DEF Calls, CallOK, Remotes
<1> QED BY <1>2, <1>3, <1>4, <1>5

\* Every step keeps the invariant.
LEMMA StepIInv == ASSUME CatalogAssumption, IInv, [Next]_vars PROVE IInv'
<1>1. ASSUME NEW c \in Callers, NEW i \in Instances, Change(c, i) \/ Sync(c, i) PROVE IInv'
  <2>1. CASE Change(c, i)
    <3>1. c \notin Remote
      BY CatalogAssumption DEF CatalogAssumption
    <3> QED BY <2>1, <3>1, ChangeIInv
  <2>2. CASE Sync(c, i)
    BY <2>2, SyncIInv
  <2> QED BY <1>1, <2>1, <2>2
<1>2. ASSUME NEW c \in Remote, Change(c, Peer) PROVE IInv'
  <2>1. c \notin Callers
    BY CatalogAssumption DEF CatalogAssumption
  <2> QED BY <1>2, <2>1, ChangeIInv
<1>3. ASSUME NEW c \in Callers \cup Remote, Caller(c) \/ GiveUp(c) PROVE IInv'
  BY <1>3, BumpIInv, PublishIInv, CompareIInv, GiveUpIInv DEF Caller
<1>4. ASSUME NEW i \in Pruners, Prune(i) PROVE IInv'
  <2>1. i \in Instances \cup {Peer}
    BY CatalogAssumption DEF CatalogAssumption
  <2> QED BY <1>4, <2>1, PruneIInv
<1>5. ASSUME NEW i \in Instances, Loading(i) \/ ReadFails(i) PROVE IInv'
  BY <1>5, ObserveIInv, ReadIInv, SwapIInv, ReadFailsIInv DEF Loading
<1>6. ASSUME NEW i \in Instances, FullList(i) \/ FireDue(i) PROVE IInv'
  <2>1. CASE FireDue(i)
    <3>1. Request(i, {}) /\ UNCHANGED <<shared, call>> /\ {} \in SUBSET {Full}
      BY <2>1 DEF FireDue
    <3> QED BY <3>1, RequestIInv
  <2>2. CASE FullList(i) /\ Target(i)
    <3>1. Request(i, {Full}) /\ UNCHANGED <<shared, call>> /\ {Full} \in SUBSET {Full}
      BY <2>2 DEF FullList
    <3> QED BY <3>1, RequestIInv
  <2>3. CASE FullList(i) /\ ~Target(i)
    BY <2>3, Aside DEF FullList
  <2> QED BY <1>6, <2>1, <2>2, <2>3
<1>7. ASSUME NEW i \in Instances,
             \/ FullListFails(i) \/ OnEvent(i) \/ OnOther(i)
             \/ SetOverflow(i) \/ Take(i) \/ Ticker(i)
      PROVE  IInv'
  BY <1>7, Aside DEF FullListFails, OnEvent, OnOther, Handle, SetOverflow, Take, Ticker
<1>8. CASE UNCHANGED vars
  BY <1>8, Aside DEF vars
<1> QED BY <1>1, <1>2, <1>3, <1>4, <1>5, <1>6, <1>7, <1>8 DEF Next

-----------------------------------------------------------------------------
\* Load order, for every instance and every number of versions and calls: the
\* invariant the properties follow from (flight.go 28-35, store.go 334-335).
THEOREM CatalogInvariant == Spec => []IInv
<1>1. Init => IInv
  BY InitIInv
<1>2. IInv /\ [Next]_vars => IInv'
  BY StepIInv, CatalogAssumption
<1> QED BY <1>1, <1>2, PTL DEF Spec

\* Whoever invalidated sees its change, whoever synchronized sees every change
\* marked before (store.go 56-58, marks.go 24-25).
THEOREM CatalogReadYourWrites == Spec => []ReadYourWrites
<1>1. IInv => ReadYourWrites
  BY DEF IInv, Types, CallType, Calls, CallOK, ReadYourWrites, Shows
<1> QED BY <1>1, CatalogInvariant, PTL

\* A recorded mark is never ahead of the snapshot (store.go 334-335).
THEOREM CatalogMarkHonest == Spec => []MarkHonest
<1>1. IInv => MarkHonest
  BY DEF IInv, Types, Marks, MarkHonest
<1> QED BY <1>1, CatalogInvariant, PTL
=============================================================================
