-------------------------- MODULE ConfigHubProofs --------------------------
(***************************************************************************)
(* The watch path implements ConfigWatch, for every set of instances and   *)
(* nodes, every number of versions and every fault the model has.          *)
(***************************************************************************)
EXTENDS ConfigHub, TLAPS

\* What is known of an item name: a version that was published, or none.
Seen == published \cup {NoVersion}

SourceInv ==
    /\ item \in Nat /\ version \in Nat /\ floor \in Nat /\ items \in Nat
    /\ published \subseteq [id : Nat, ver : Nat \ {0}]
    /\ item = 0 => version = 0
    /\ \A p \in published : p.ver <= version \/ p.ver <= floor
    /\ version > 0 => Current \in published /\ \A p \in published : p.ver <= version
    /\ \A p, q \in published : p.ver = q.ver => p = q

CacheInv ==
    /\ entry \in [Instances -> Seen \cup {None}]
    /\ rval \in [Instances -> Seen]

\* A reload started after the node received what it holds, so it finds nothing
\* older; a version about to be delivered is newer.
NodeInv ==
    /\ at \in [Nodes -> Instances]
    /\ pc \in [Nodes -> {"idle", "snap", "load", "store", "register", "resolve", "wait"}]
    /\ verify \in [Nodes -> BOOLEAN]
    /\ got \in [Nodes -> Seen] /\ val \in [Nodes -> Seen]
    /\ \A n \in Nodes :
          /\ pc[n] = "store" /\ verify[n] => val[n].ver = 0 \/ val[n].ver >= got[n].ver
          /\ pc[n] = "resolve" => val[n].ver > got[n].ver

IInv == SourceInv /\ CacheInv /\ NodeInv

\* A version in hand is a record of naturals; only the absent one has number 0.
LEMMA SeenFields ==
    ASSUME SourceInv, NEW v \in Seen
    PROVE  /\ v.id \in Nat /\ v.ver \in Nat
           /\ v # None
           /\ v.ver = 0 => v = NoVersion /\ v.id = 0
           /\ v.ver # 0 => v \in published
BY NoneAssumption DEF SourceInv, Seen, NoVersion

\* What the source holds is at least as new as anything ever published.
LEMMA CurrentNewest ==
    ASSUME SourceInv
    PROVE  /\ Current \in Seen
           /\ \A v \in Seen : Current.ver = 0 \/ Current.ver >= v.ver
BY DEF SourceInv, Seen, Current, NoVersion

\* setLocked keeps the entry only for a newer version of the same item.
LEMMA StoredNewer ==
    ASSUME SourceInv, NEW c \in Seen, NEW v \in Seen
    PROVE  /\ Stored(c, v) \in Seen
           /\ Stored(c, v).ver >= v.ver
           /\ v.ver = 0 => Stored(c, v).ver = 0
BY SeenFields DEF Stored

LEMMA InitInv == Init => IInv
BY DEF Init, IInv, SourceInv, CacheInv, NodeInv, Seen, NoVersion, Current

\* What a publication does to the source: a new, highest number.
LEMMA InsertInv ==
    ASSUME SourceInv, NEW id \in Nat \ {0}, NEW v \in Nat, Insert(id, v),
           \A p \in published : p.ver < v, v > 0, item' = id, floor' = floor, items' \in Nat
    PROVE  /\ SourceInv'
           /\ Seen \subseteq Seen'
           /\ Current' = [id |-> id, ver |-> v]
<1> DEFINE new == [id |-> id, ver |-> v]
<1>1. version' = v /\ published' = published \cup {new} /\ Current' = new
  BY DEF Insert, Current
<1>2. new \in [id : Nat, ver : Nat \ {0}] /\ new.ver = v
  OBVIOUS
<1>3. \A p \in published' : p.ver <= v
  BY <1>1, <1>2 DEF SourceInv
<1>4. \A p, q \in published' : p.ver = q.ver => p = q
  BY <1>1, <1>2 DEF SourceInv
<1> QED
  BY <1>1, <1>2, <1>3, <1>4 DEF SourceInv, Seen

\* A step that leaves the source alone leaves what is known of it alone.
LEMMA SourceFrame ==
    ASSUME SourceInv, UNCHANGED source
    PROVE  SourceInv' /\ Seen' = Seen /\ Current' = Current
BY DEF SourceInv, source, Seen, Current

\* The numbers a publication may use.
LEMMA NextVersionHighest ==
    ASSUME SourceInv
    PROVE  /\ NextVersion \in Nat /\ NextVersion > 0
           /\ \A p \in published : p.ver < NextVersion
           /\ item = 0 => \A p \in published : p.ver < floor + 1
BY DEF SourceInv, NextVersion

\* A change at the source keeps the invariant and is a step of the promise.
LEMMA SourceStep ==
    ASSUME IInv, NEW i, Source(i)
    PROVE  IInv' /\ (Watch!Next \/ UNCHANGED Watch!vars)
<1> USE DEF IInv
<1>1. ASSUME NEW b \in BOOLEAN, CreateItem(i, b), b PROVE IInv' /\ Watch!Publish
  <2>1. SourceInv' /\ Seen \subseteq Seen' /\ Current' = [id |-> items + 1, ver |-> floor + 1]
    <3>1. items + 1 \in Nat \ {0} /\ floor + 1 \in Nat /\ floor + 1 > 0 /\ items' \in Nat
      BY <1>1 DEF SourceInv, CreateItem
    <3>2. item' = items + 1 /\ floor' = floor /\ Insert(items + 1, floor + 1)
      BY <1>1 DEF CreateItem
    <3>3. \A p \in published : p.ver < floor + 1
      BY <1>1, NextVersionHighest DEF CreateItem
    <3> QED
      BY <3>1, <3>2, <3>3, InsertInv
  <2>2. CacheInv' /\ NodeInv'
    BY <1>1, <2>1 DEF CreateItem, hub, poll, CacheInv, NodeInv
  <2>3. Watch!Publish
    <3>1. Current' \in published' /\ published' = published \cup {Current'} /\ got' = got
      BY <1>1, <2>1 DEF CreateItem, Insert, poll
    <3>2. Current'.ver > 0 /\ \A p \in published : p.ver < Current'.ver
      BY <1>1, <2>1, NextVersionHighest DEF CreateItem, SourceInv
    <3> QED
      BY <3>1, <3>2 DEF Watch!Publish
  <2> QED
    BY <2>1, <2>2, <2>3
<1>2. ASSUME NEW b \in BOOLEAN, CreateItem(i, b), ~b PROVE IInv' /\ UNCHANGED Watch!vars
  <2>1. SourceInv' /\ Current' = Current /\ Seen' = Seen
    BY <1>2 DEF CreateItem, SourceInv, Current, Seen
  <2> QED
    BY <1>2, <2>1 DEF CreateItem, hub, poll, CacheInv, NodeInv, Watch!vars
<1>3. ASSUME Publish(i) PROVE IInv' /\ Watch!Publish
  <2>1. SourceInv' /\ Seen \subseteq Seen' /\ Current' = [id |-> item, ver |-> NextVersion]
    <3>1. item \in Nat \ {0} /\ NextVersion \in Nat /\ NextVersion > 0 /\ items' \in Nat
      BY <1>3, NextVersionHighest DEF SourceInv, Publish
    <3>2. item' = item /\ floor' = floor /\ Insert(item, NextVersion)
      BY <1>3 DEF Publish
    <3>3. \A p \in published : p.ver < NextVersion
      BY NextVersionHighest
    <3> QED
      BY <3>1, <3>2, <3>3, InsertInv
  <2>2. CacheInv' /\ NodeInv'
    BY <1>3, <2>1 DEF Publish, hub, poll, CacheInv, NodeInv
  <2>3. Watch!Publish
    <3>1. Current' \in published' /\ published' = published \cup {Current'} /\ got' = got
      BY <1>3, <2>1 DEF Publish, Insert, poll
    <3>2. Current'.ver > 0 /\ \A p \in published : p.ver < Current'.ver
      BY <2>1, NextVersionHighest
    <3> QED
      BY <3>1, <3>2 DEF Watch!Publish
  <2> QED
    BY <2>1, <2>2, <2>3
<1>4. ASSUME DeleteItem(i) PROVE IInv' /\ Watch!Delete
  <2>1. SourceInv' /\ Seen' = Seen /\ Current' = NoVersion
    BY <1>4 DEF DeleteItem, SourceInv, Seen, Current
  <2>2. CacheInv' /\ NodeInv'
    BY <1>4, <2>1 DEF DeleteItem, hub, poll, CacheInv, NodeInv
  <2> QED
    BY <1>4, <2>1, <2>2 DEF DeleteItem, poll, Watch!Delete, Watch!NoVersion, NoVersion
<1> QED
  BY <1>1, <1>2, <1>3, <1>4 DEF Source, Watch!Next

\* A step of an instance changes neither the source nor what a node holds.
LEMMA InstanceStep ==
    ASSUME IInv, NEW i \in Instances,
           \/ Announce(i) \/ Receive(i) \/ Lose(i) \/ Evict(i)
           \/ Refresher(i) \/ Tick(i) \/ ReloadFails(i) \/ Crash(i)
    PROVE  IInv' /\ UNCHANGED Watch!vars
<1>1. UNCHANGED source /\ got' = got
  BY DEF Announce, Receive, Lose, Evict, Refresher, Tick, ReloadFails, Crash, Signalled,
         Reload, Retry, Refresh, Invalidate, poll
<1>2. SourceInv' /\ Seen' = Seen /\ Current' = Current /\ published' = published
  BY <1>1, SourceFrame DEF IInv, source
<1>3. NoVersion \in Seen /\ Current \in Seen
  BY CurrentNewest DEF IInv, Seen
<1>4. CacheInv'
  <2>1. CASE Announce(i) \/ Receive(i) \/ Lose(i)
    BY <1>2, <2>1 DEF IInv, CacheInv, Announce, Receive, Lose, Invalidate, hub
  <2>2. CASE Evict(i) \/ Signalled(i) \/ Tick(i) \/ ReloadFails(i) \/ Retry(i) \/ Crash(i)
    BY <1>2, <1>3, <2>2 DEF IInv, CacheInv, Evict, Dropped, Signalled, Tick, ReloadFails, Retry, Crash
  <2>3. CASE Reload(i)
    BY <1>2, <1>3, <2>3 DEF IInv, CacheInv, Reload
  <2>4. CASE Refresh(i)
    <3>1. entry[i] # None => Stored(entry[i], rval[i]) \in Seen
      BY StoredNewer DEF IInv, CacheInv
    <3> QED
      BY <1>2, <1>3, <2>4, <3>1 DEF IInv, CacheInv, Refresh
  <2> QED
    BY <2>1, <2>2, <2>3, <2>4 DEF Refresher
<1>5. NodeInv'
  <2>1. CASE Crash(i)
    <3>1. /\ pc' = [n \in Nodes |-> IF at[n] = i THEN "idle" ELSE pc[n]]
          /\ val' = [n \in Nodes |-> IF at[n] = i THEN NoVersion ELSE val[n]]
          /\ at' = at /\ verify' = verify
      BY <2>1 DEF Crash
    <3> QED
      BY <1>1, <1>2, <1>3, <3>1 DEF IInv, NodeInv
  <2>2. CASE ~Crash(i)
    <3>1. UNCHANGED <<pc, at, val, verify>>
      BY <2>2 DEF Announce, Receive, Lose, Evict, Refresher, Tick, ReloadFails, Signalled,
                  Reload, Retry, Refresh, Invalidate, poll
    <3> QED
      BY <1>1, <1>2, <3>1 DEF IInv, NodeInv
  <2> QED
    BY <2>1, <2>2
<1> QED
  BY <1>1, <1>2, <1>4, <1>5 DEF IInv, Watch!vars

\* A step of a node that leaves what it holds alone keeps the invariant, if what
\* it has in hand next is known and as new as its next step needs.
LEMMA NodeFrame ==
    ASSUME IInv, NEW n \in Nodes, UNCHANGED source, UNCHANGED got, CacheInv',
           NEW p \in {"idle", "snap", "load", "store", "register", "resolve", "wait"},
           NEW v \in Seen, NEW b \in BOOLEAN, NEW i \in Instances,
           pc' = [pc EXCEPT ![n] = p], val' = [val EXCEPT ![n] = v],
           verify' = [verify EXCEPT ![n] = b], at' = [at EXCEPT ![n] = i],
           p = "store" /\ b => v.ver = 0 \/ v.ver >= got[n].ver,
           p = "resolve" => v.ver > got[n].ver
    PROVE  IInv' /\ UNCHANGED Watch!vars
<1>1. SourceInv' /\ Seen' = Seen /\ Current' = Current /\ published' = published
  BY SourceFrame DEF IInv, source
<1>2. NodeInv'
  BY <1>1 DEF IInv, NodeInv
<1> QED
  BY <1>1, <1>2 DEF IInv, Watch!vars

\* A call's other fields stay what they were.
LEMMA Same ==
    ASSUME IInv, NEW n \in Nodes
    PROVE  /\ val = [val EXCEPT ![n] = val[n]] /\ val[n] \in Seen
           /\ at = [at EXCEPT ![n] = at[n]] /\ at[n] \in Instances
           /\ verify = [verify EXCEPT ![n] = verify[n]] /\ verify[n] \in BOOLEAN
           /\ got[n] \in Seen /\ got[n].ver \in Nat
           /\ entry[at[n]] \in Seen \cup {None}
           /\ NoVersion \in Seen
BY SeenFields DEF IInv, NodeInv, CacheInv, Seen

\* A step of a call that only moves on.
LEMMA PcFrame ==
    ASSUME IInv, NEW n \in Nodes, UNCHANGED <<source, got, at, verify, val>>, CacheInv',
           NEW p \in {"snap", "load"}, pc' = [pc EXCEPT ![n] = p]
    PROVE  IInv' /\ UNCHANGED Watch!vars
<1>1. SourceInv' /\ Seen' = Seen /\ Current' = Current /\ published' = published
  BY SourceFrame DEF IInv, source
<1>2. NodeInv'
  BY <1>1 DEF IInv, NodeInv
<1> QED
  BY <1>1, <1>2 DEF IInv, Watch!vars

\* A call that ends without a delivery.
LEMMA LeaveStep ==
    ASSUME IInv, NEW n \in Nodes, Leave(n), UNCHANGED <<source, got, at, verify>>, UNCHANGED hub
    PROVE  IInv' /\ UNCHANGED Watch!vars
<1>1. CacheInv'
  BY SourceFrame DEF IInv, CacheInv, hub
<1>2. pc' = [pc EXCEPT ![n] = "idle"] /\ val' = [val EXCEPT ![n] = NoVersion]
  BY DEF Leave
<1>3. /\ verify' = [verify EXCEPT ![n] = verify[n]] /\ at' = [at EXCEPT ![n] = at[n]]
      /\ verify[n] \in BOOLEAN /\ at[n] \in Instances /\ NoVersion \in Seen
  BY Same
<1> HIDE DEF Leave
<1> QED
  BY <1>1, <1>2, <1>3, NodeFrame

\* The end of hub.read: a verified version is delivered only when it is newer.
LEMMA ReadEndsStep ==
    ASSUME IInv, NEW n \in Nodes, NEW v \in Seen, ReadEnds(n, v), pc[n] = "store",
           UNCHANGED <<source, got, at>>, CacheInv',
           v.ver >= val[n].ver, val[n].ver = 0 => v.ver = 0
    PROVE  IInv' /\ UNCHANGED Watch!vars
<1> DEFINE unchanged == verify[n] /\ v.ver \in {0, got[n].ver}
           p == IF unchanged THEN "snap" ELSE IF verify[n] THEN "resolve" ELSE "register"
<1>1. pc' = [pc EXCEPT ![n] = p] /\ val' = [val EXCEPT ![n] = v] /\ verify' = [verify EXCEPT ![n] = FALSE]
  BY DEF ReadEnds
<1>2. p \in {"idle", "snap", "load", "store", "register", "resolve", "wait"} /\ p # "store"
  OBVIOUS
<1>3. p = "resolve" => v.ver > got[n].ver
  <2>1. v.ver \in Nat /\ val[n].ver \in Nat /\ got[n].ver \in Nat
    BY SeenFields, Same DEF IInv
  <2>2. verify[n] => val[n].ver = 0 \/ val[n].ver >= got[n].ver
    BY DEF IInv, NodeInv
  <2>3. verify[n] /\ v.ver # 0 => v.ver >= got[n].ver
    BY <2>1, <2>2
  <2> QED
    BY <2>1, <2>3
<1> HIDE DEF p
<1>4. at' = [at EXCEPT ![n] = at[n]] /\ at[n] \in Instances
  BY Same
<1> QED
  BY <1>1, <1>2, <1>3, <1>4, NodeFrame

\* Every step of a call that delivers nothing keeps the invariant.
LEMMA CallStep ==
    ASSUME IInv, NEW n \in Nodes, NEW i \in Instances,
           \/ Poll(n, i) \/ ReadCached(n) \/ ReadMissing(n) \/ Load(n) \/ QueryFails(n)
           \/ StoreEntry(n) \/ StoreFull(n) \/ DeliverChange(n) \/ Register(n)
           \/ RegisterFull(n) \/ ResolveNothing(n) \/ Wake(n) \/ Timeout(n)
    PROVE  IInv' /\ UNCHANGED Watch!vars
<1>0. hub' = hub /\ source' = source => CacheInv'
  BY SourceFrame DEF IInv, CacheInv, hub
<1>1. CASE Poll(n, i)
  BY <1>0, <1>1, Same, NodeFrame DEF Poll
<1>2. CASE ReadCached(n)
  <2> DEFINE v == entry[at[n]]
  <2>1. /\ UNCHANGED <<source, got, hub, at, verify>> /\ pc' = [pc EXCEPT ![n] = "register"]
        /\ val' = [val EXCEPT ![n] = v]
    BY <1>2 DEF ReadCached
  <2>2. v \in Seen /\ CacheInv'
    BY <1>0, <1>2, <2>1, Same DEF ReadCached
  <2>3. /\ verify' = [verify EXCEPT ![n] = verify[n]] /\ at' = [at EXCEPT ![n] = at[n]]
        /\ verify[n] \in BOOLEAN /\ at[n] \in Instances
    BY <2>1, Same
  <2> HIDE DEF v
  <2> QED
    BY <2>1, <2>2, <2>3, NodeFrame
<1>3. CASE ReadMissing(n)
  <2>1. UNCHANGED <<source, got, hub, at, verify, val>> /\ pc' = [pc EXCEPT ![n] = "load"]
    BY <1>3 DEF ReadMissing
  <2> QED
    BY <1>0, <2>1, PcFrame
<1>4. CASE Load(n)
  <2>1. Current \in Seen /\ (Current.ver = 0 \/ Current.ver >= got[n].ver)
    BY CurrentNewest, Same DEF IInv
  <2>2. /\ UNCHANGED <<source, got, hub, at, verify>> /\ pc' = [pc EXCEPT ![n] = "store"]
        /\ val' = [val EXCEPT ![n] = Current]
    BY <1>4 DEF Load
  <2>3. /\ verify' = [verify EXCEPT ![n] = verify[n]] /\ at' = [at EXCEPT ![n] = at[n]]
        /\ verify[n] \in BOOLEAN /\ at[n] \in Instances
    BY <2>2, Same
  <2>4. CacheInv'
    BY <1>0, <2>2
  <2> QED
    BY <2>1, <2>2, <2>3, <2>4, NodeFrame
<1>5. CASE QueryFails(n)
  BY <1>5, LeaveStep DEF QueryFails
<1>6. CASE StoreEntry(n)
  <2>1. UNCHANGED <<source, got, at>> /\ rval' = rval /\ pc[n] = "store"
    BY <1>6 DEF StoreEntry
  <2>2. Seen' = Seen /\ val[n].ver \in Nat
    BY <2>1, SourceFrame, SeenFields, Same DEF IInv
  <2>3. CASE entry[at[n]] = None
    <3>1. ReadEnds(n, val[n]) /\ entry' = [entry EXCEPT ![at[n]] = val[n]]
      BY <1>6, <2>3 DEF StoreEntry
    <3>2. CacheInv'
      BY <2>1, <2>2, <3>1, Same DEF IInv, CacheInv
    <3> QED
      BY <2>1, <2>2, <3>1, <3>2, Same, ReadEndsStep
  <2>4. CASE entry[at[n]] # None
    <3>1. ReadEnds(n, Stored(entry[at[n]], val[n]))
          /\ entry' = [entry EXCEPT ![at[n]] = Stored(entry[at[n]], val[n])]
      BY <1>6, <2>4 DEF StoreEntry
    <3>2. /\ Stored(entry[at[n]], val[n]) \in Seen
          /\ Stored(entry[at[n]], val[n]).ver >= val[n].ver
          /\ val[n].ver = 0 => Stored(entry[at[n]], val[n]).ver = 0
      BY <2>4, Same, StoredNewer DEF IInv
    <3>3. CacheInv'
      BY <2>1, <2>2, <3>1, <3>2 DEF IInv, CacheInv
    <3> QED
      BY <2>1, <2>2, <3>1, <3>2, <3>3, ReadEndsStep
  <2> QED
    BY <2>3, <2>4
<1>7. CASE StoreFull(n)
  <2>1. UNCHANGED <<source, got, at, entry, rval>> /\ pc[n] = "store" /\ ReadEnds(n, val[n])
    BY <1>7 DEF StoreFull
  <2>2. CacheInv'
    BY <2>1, SourceFrame DEF IInv, CacheInv
  <2>3. val[n] \in Seen
    BY Same
  <2>4. UNCHANGED <<source, got, at>>
    BY <2>1
  <2>5. val[n].ver >= val[n].ver
    <3>1. val[n].ver \in Nat
      BY <2>3, SeenFields DEF IInv
    <3>2. \A k \in Nat : k >= k
      OBVIOUS
    <3> QED
      BY <3>1, <3>2, Zenon
  <2> QED
    BY <2>1, <2>2, <2>3, <2>4, <2>5, ReadEndsStep
<1>8. CASE DeliverChange(n)
  <2>1. Known(n) \in Seen /\ Known(n).ver \in Nat
    BY Same, SeenFields DEF Known, IInv
  <2> DEFINE suspect == got[n].ver > Known(n).ver
             p == IF suspect THEN "snap" ELSE "resolve"
  <2>2. /\ pc' = [pc EXCEPT ![n] = p] /\ val' = [val EXCEPT ![n] = Known(n)]
        /\ verify' = [verify EXCEPT ![n] = suspect] /\ UNCHANGED <<source, got, at, hub>>
        /\ Known(n).ver # got[n].ver
    BY <1>8 DEF DeliverChange, Changed
  <2>3. p \in {"idle", "snap", "load", "store", "register", "resolve", "wait"} /\ p # "store"
    OBVIOUS
  <2>4. p = "resolve" => Known(n).ver > got[n].ver
    BY <2>1, <2>2, Same
  <2>5. suspect \in BOOLEAN
    BY <2>1, Same
  <2>6. at' = [at EXCEPT ![n] = at[n]] /\ at[n] \in Instances /\ CacheInv'
    BY <1>0, <2>2, Same
  <2> HIDE DEF p, suspect
  <2> QED
    BY <2>1, <2>2, <2>3, <2>4, <2>5, <2>6, NodeFrame
<1>9. CASE Register(n)
  <2>1. /\ UNCHANGED <<source, got, at, verify, rval>> /\ pc' = [pc EXCEPT ![n] = "wait"]
        /\ val' = [val EXCEPT ![n] = NoVersion]
        /\ entry' = entry \/ entry' = [entry EXCEPT ![at[n]] = Known(n)]
    BY <1>9 DEF Register, hub
  <2>2. Known(n) \in Seen /\ Seen' = Seen
    BY <2>1, Same, SourceFrame DEF Known, IInv
  <2>3. CacheInv'
    BY <2>1, <2>2 DEF IInv, CacheInv
  <2>4. verify' = [verify EXCEPT ![n] = verify[n]] /\ at' = [at EXCEPT ![n] = at[n]]
    BY <2>1, Same
  <2>5. verify[n] \in BOOLEAN /\ at[n] \in Instances /\ NoVersion \in Seen
    BY Same
  <2> QED
    BY <2>1, <2>3, <2>4, <2>5, NodeFrame
<1>10. CASE RegisterFull(n) \/ Timeout(n)
  BY <1>10, LeaveStep DEF RegisterFull, Timeout
<1>11. CASE ResolveNothing(n)
  <2>1. CacheInv'
    BY <1>11, SourceFrame DEF IInv, CacheInv, ResolveNothing
  <2>2. UNCHANGED <<source, got, at, verify, val>> /\ pc' = [pc EXCEPT ![n] = "snap"]
    BY <1>11 DEF ResolveNothing
  <2> QED
    BY <2>1, <2>2, PcFrame
<1>12. CASE Wake(n)
  <2>1. UNCHANGED <<source, got, hub, at, verify, val>> /\ pc' = [pc EXCEPT ![n] = "snap"]
    BY <1>12 DEF Wake
  <2> QED
    BY <1>0, <2>1, PcFrame
<1> QED
  BY <1>1, <1>2, <1>3, <1>4, <1>5, <1>6, <1>7, <1>8, <1>9, <1>10, <1>11, <1>12

\* A delivery keeps the invariant and tells the node of something newer.
LEMMA Delivery ==
    ASSUME IInv, NEW n \in Nodes, Resolve(n) \/ BatchGet(n)
    PROVE  IInv' /\ (Watch!Tell(n) \/ UNCHANGED Watch!vars)
<1>1. UNCHANGED source /\ UNCHANGED hub /\ UNCHANGED <<at, verify>>
  BY DEF Resolve, BatchGet
<1>2. SourceInv' /\ Seen' = Seen /\ Current' = Current /\ published' = published
  BY <1>1, SourceFrame DEF IInv, source
<1>3. CacheInv'
  BY <1>1, <1>2 DEF IInv, CacheInv, hub
<1>4. CASE Resolve(n)
  <2>1. val[n] \in published /\ val[n].ver > got[n].ver /\ got' = [got EXCEPT ![n] = val[n]]
    BY <1>4 DEF IInv, NodeInv, Resolve
  <2>2. NodeInv'
    BY <1>1, <1>2, <1>4, <2>1, Same DEF IInv, NodeInv, Resolve, Leave, Seen
  <2> QED
    BY <1>2, <1>3, <2>1, <2>2 DEF IInv, Watch!Tell
<1>5. CASE BatchGet(n)
  <2>1. Current \in published /\ Current.ver >= got[n].ver /\ got' = [got EXCEPT ![n] = Current]
        /\ Current.ver > 0 /\ Current.ver \in Nat
    BY <1>5, CurrentNewest, Same DEF IInv, BatchGet, SourceInv, Current
  <2>2. NodeInv'
    BY <1>1, <1>2, <1>5, <2>1, Same DEF IInv, NodeInv, BatchGet, Seen
  <2>3. CASE Current.ver > got[n].ver
    BY <1>2, <1>3, <2>1, <2>2, <2>3 DEF IInv, Watch!Tell
  <2>4. CASE Current.ver = got[n].ver
    <3>1. got[n] = Current
      BY <2>1, <2>4, Same, SeenFields DEF IInv, SourceInv
    <3>2. got' = got
      BY <2>1, <3>1 DEF IInv, NodeInv
    <3> QED
      BY <1>2, <1>3, <2>2, <3>2 DEF IInv, Watch!vars
  <2> QED
    BY <2>1, <2>3, <2>4, Same
<1> QED
  BY <1>4, <1>5

\* Every step keeps the invariant and is a step of the promise or a stutter.
LEMMA NextStep ==
    ASSUME IInv, [Next]_vars
    PROVE  IInv' /\ [Watch!Next]_(Watch!vars)
<1>1. CASE UNCHANGED vars
  BY <1>1 DEF IInv, SourceInv, CacheInv, NodeInv, Seen, Current, Watch!vars, vars, source, hub, poll
<1>2. ASSUME NEW i \in Instances \cup {Elsewhere}, Source(i) PROVE IInv' /\ [Watch!Next]_(Watch!vars)
  BY <1>2, SourceStep
<1>3. ASSUME NEW i \in Instances,
             \/ Announce(i) \/ Receive(i) \/ Lose(i) \/ Evict(i)
             \/ Refresher(i) \/ Tick(i) \/ ReloadFails(i) \/ Crash(i)
      PROVE  IInv' /\ [Watch!Next]_(Watch!vars)
  BY <1>3, InstanceStep
<1>4. ASSUME NEW n \in Nodes, Step(n) \/ Timeout(n) \/ QueryFails(n) \/ BatchGet(n)
      PROVE  IInv' /\ [Watch!Next]_(Watch!vars)
  <2>1. at[n] \in Instances
    BY Same
  <2>2. CASE Resolve(n) \/ BatchGet(n)
    BY <2>2, Delivery DEF Watch!Next
  <2>3. CASE ~(Resolve(n) \/ BatchGet(n))
    BY <1>4, <2>1, <2>3, CallStep DEF Step
  <2> QED
    BY <2>2, <2>3
<1>5. ASSUME NEW n \in Nodes, NEW i \in Instances, Poll(n, i) PROVE IInv' /\ [Watch!Next]_(Watch!vars)
  BY <1>5, CallStep
<1> QED
  BY <1>1, <1>2, <1>3, <1>4, <1>5 DEF Next

\* The watch path implements what the config center promises its nodes
\* (node.go:102-110, publish.go:129-132), whatever the number of instances,
\* nodes, versions, lost events, failed queries and crashes.
THEOREM HubImplementsWatch == Spec => WatchPromise
<1>1. Init => Watch!Init
  BY DEF Init, Watch!Init, Watch!NoVersion, NoVersion, Current
<1> QED
  BY <1>1, InitInv, NextStep, PTL DEF Spec, WatchPromise, Watch!Spec

=============================================================================
