----------------------------- MODULE ConfigHub -----------------------------
(***************************************************************************)
(* The config center's watch path for one item name: the item's versions   *)
(* in PostgreSQL (configcenter/publish.go, admin_write.go), the version    *)
(* cache of every server instance with its refresher (hub.go), the bus     *)
(* events between instances (events.go), and the long polls of the nodes   *)
(* (node.go). Each critical section of the hub's mutex and each query is a *)
(* step of its own.                                                        *)
(*                                                                         *)
(* The bus carries no data the hub trusts, so it is a count of events on   *)
(* their way to an instance. TTLs, a full cache or watcher table and the  *)
(* content cache are free choices. A draft can be saved whenever   *)
(* there is an item, so drafts are left out.                               *)
(***************************************************************************)
EXTENDS Naturals

CONSTANTS
    Instances,     \* server instances
    Elsewhere,     \* an instance no node is connected to
    Nodes,         \* nodes polling for the item
    None,          \* no cache entry
    MaxSpins,      \* maxWatchSpins
    MaxVersion,    \* highest version number (math.MaxInt32)
    MaxItems,      \* bound: items created under the name
    MaxPending,    \* bound: events of a name on their way to an instance
    MaxFaults      \* bound: failed queries and crashes

ASSUME NoneAssumption == None \notin [id : Nat, ver : Nat]
ASSUME ElsewhereAssumption == Elsewhere \notin Instances
ASSUME SpinsAssumption == MaxSpins \in Nat
ASSUME BoundsAssumption == MaxVersion \in Nat /\ MaxItems \in Nat
ASSUME FaultsAssumption == MaxPending \in Nat /\ MaxFaults \in Nat

VARIABLES
    item,        \* id of the stored item, 0 when there is none
    version,     \* its current_version
    floor,       \* config_version_floors of the name
    items,       \* items created so far
    published,   \* history: versions ever published
    entry,       \* of each instance: hubEntry.cur, None when not cached
    dirty,       \* the key is in hub.dirty
    signal,      \* hub.signal holds a token
    rpc,         \* where the refresher is
    rval,        \* what the refresher loaded
    ann,         \* changes committed through an instance and not yet announced
    bus,         \* events on their way to an instance
    pc,          \* of each node: where its call is
    at,          \* the instance it called
    got,         \* what it received last
    val,         \* the version in hand (snap, loaded, change.cur)
    raced,       \* hub.seq has changed since the call read it
    verify,      \* the read in progress is the reload of verifyChanges
    spins,       \* spins of WatchConfig
    reg,         \* waiter.registered
    wake,        \* waiter.wake holds a token
    faults,      \* faults so far
    missed       \* history: instances that lost an event, or that used a loaded
                 \* version while the name had no entry to be marked

source == <<item, version, floor, items, published>>
hub == <<entry, dirty, signal, rpc, rval>>
poll == <<pc, at, got, val, raced, verify, spins, reg, wake>>
vars == <<source, hub, ann, bus, poll, faults, missed>>

NoVersion == [id |-> 0, ver |-> 0]

\* What loadVersions returns: only published items exist.
Current == IF version > 0 THEN [id |-> item, ver |-> version] ELSE NoVersion

Init ==
    /\ item = 0 /\ version = 0 /\ floor = 0 /\ items = 0 /\ published = {}
    /\ entry = [i \in Instances |-> None]
    /\ dirty = [i \in Instances |-> FALSE]
    /\ signal = [i \in Instances |-> FALSE]
    /\ rpc = [i \in Instances |-> "wait"]
    /\ rval = [i \in Instances |-> NoVersion]
    /\ ann = [i \in Instances |-> 0]
    /\ bus = [i \in Instances |-> 0]
    /\ pc = [n \in Nodes |-> "idle"]
    /\ at \in [Nodes -> Instances]
    /\ got = [n \in Nodes |-> NoVersion]
    /\ val = [n \in Nodes |-> NoVersion]
    /\ raced = [n \in Nodes |-> FALSE]
    /\ verify = [n \in Nodes |-> FALSE]
    /\ spins = [n \in Nodes |-> 0]
    /\ reg = [n \in Nodes |-> FALSE]
    /\ wake = [n \in Nodes |-> FALSE]
    /\ faults = 0 /\ missed = {}

Fault == faults < MaxFaults /\ faults' = faults + 1

Waiters(i) == {n \in Nodes : reg[n] /\ at[n] = i}

-----------------------------------------------------------------------------
\* Changes at the source, each a transaction on the locked item.

NextVersion == (IF version > floor THEN version ELSE floor) + 1

\* nextVersion refuses to pass the highest number; insertVersion.
Insert(id, v) ==
    /\ v <= MaxVersion
    /\ version' = v
    /\ published' = published \cup {[id |-> id, ver |-> v]}

\* The transaction has committed: its announcement is due. That of an instance
\* elsewhere is only seen as an event on its way.
Committed(i) ==
    /\ \A j \in Instances : ann[j] + bus[j] < MaxPending
    /\ IF i = Elsewhere
       THEN bus' = [j \in Instances |-> bus[j] + 1] /\ UNCHANGED ann
       ELSE ann' = [ann EXCEPT ![i] = @ + 1] /\ UNCHANGED bus

CreateItem(i, publish) ==
    /\ item = 0 /\ items < MaxItems
    /\ item' = items + 1 /\ items' = items + 1
    /\ IF publish
       THEN /\ Insert(items + 1, floor + 1)
            /\ Committed(i)
       ELSE UNCHANGED <<version, published, ann, bus>>
    /\ UNCHANGED <<floor, hub, poll, faults, missed>>

\* Publish, and Rollback: it publishes the content of another stored version
\* of the item under a new number, and contents are not told apart here.
Publish(i) ==
    /\ item # 0
    /\ Insert(item, NextVersion)
    /\ Committed(i)
    /\ UNCHANGED <<item, floor, items, hub, poll, faults, missed>>

DeleteItem(i) ==
    /\ item # 0
    /\ item' = 0 /\ version' = 0
    /\ floor' = IF version > floor THEN version ELSE floor
    /\ Committed(i)
    /\ UNCHANGED <<items, published, hub, poll, faults, missed>>

-----------------------------------------------------------------------------
\* Announcements and the bus.

\* hub.invalidate
Invalidate(i) ==
    /\ raced' = [n \in Nodes |-> raced[n] \/ (at[n] = i /\ pc[n] \in {"load", "store", "register"})]
    /\ dirty' = [dirty EXCEPT ![i] = @ \/ entry[i] # None]
    /\ signal' = [signal EXCEPT ![i] = TRUE]
    /\ UNCHANGED <<entry, rpc, rval, pc, at, got, val, verify, spins, reg, wake>>

\* announcePublished, announceDeleted: the hub is invalidated directly and once
\* more by the local delivery of the event, which then goes to the peers.
Announce(i) ==
    /\ ann[i] > 0
    /\ ann' = [ann EXCEPT ![i] = @ - 1]
    /\ Invalidate(i)
    /\ bus' = [j \in Instances |-> IF j = i THEN bus[j] ELSE bus[j] + 1]
    /\ UNCHANGED <<source, faults, missed>>

\* onConfigEvent
Receive(i) ==
    /\ bus[i] > 0
    /\ bus' = [bus EXCEPT ![i] = @ - 1]
    /\ Invalidate(i)
    /\ UNCHANGED <<source, ann, faults, missed>>

\* The event is dropped: PUBLISH failed, the queue was full or the subscription
\* was down.
Lose(i) ==
    /\ bus[i] > 0
    /\ bus' = [bus EXCEPT ![i] = @ - 1]
    /\ missed' = missed \cup {i}
    /\ UNCHANGED <<source, hub, ann, poll, faults>>

-----------------------------------------------------------------------------
\* The cache.

\* setLocked on a cached entry: what the entry holds afterwards
Stored(cur, v) ==
    IF v.id # 0 /\ v.id = cur.id /\ v.ver < cur.ver THEN cur ELSE v

\* Mutant: only a newer version of the same item wakes.
WokenNewer(i, v) ==
    IF entry[i].id # v.id \/ entry[i].ver >= v.ver THEN wake
    ELSE [n \in Nodes |-> wake[n] \/ n \in Waiters(i)]

\* setLocked wakes the waiters when the entry changes.
Woken(i, v) ==
    IF entry[i] = Stored(entry[i], v) THEN wake
    ELSE [n \in Nodes |-> wake[n] \/ n \in Waiters(i)]

\* evictLocked, on an entry nobody waits on
Dropped(i) ==
    /\ entry[i] # None /\ Waiters(i) = {}
    /\ entry' = [entry EXCEPT ![i] = None]
    /\ dirty' = [dirty EXCEPT ![i] = FALSE]
    /\ missed' = IF rpc[i] \in {"load", "store"} \/ \E n \in Nodes : at[n] = i /\ pc[n] = "register"
                  THEN missed \cup {i} ELSE missed

\* A read of other names evicts the entry from a full cache.
Evict(i) ==
    /\ Dropped(i)
    /\ UNCHANGED <<source, signal, rpc, rval, ann, bus, poll, faults>>

Goto(i, where) == rpc' = [rpc EXCEPT ![i] = where]

\* hub.refresh takes the key when it is dirty.
TakeDirty(i, marked) ==
    /\ dirty' = [dirty EXCEPT ![i] = FALSE]
    /\ Goto(i, IF marked THEN "load" ELSE "wait")

\* hub.run: the loop's select takes the signal ...
Signalled(i) ==
    /\ rpc[i] = "wait" /\ signal[i]
    /\ signal' = [signal EXCEPT ![i] = FALSE]
    /\ TakeDirty(i, dirty[i])
    /\ UNCHANGED <<source, entry, rval, ann, bus, poll, faults, missed>>

\* Mutant: watched entries are not re-verified.
TickEvicts(i) ==
    /\ rpc[i] = "wait"
    /\ \/ Dropped(i) /\ UNCHANGED rpc
       \/ TakeDirty(i, dirty[i]) /\ UNCHANGED <<entry, missed>>
    /\ UNCHANGED <<source, signal, rval, ann, bus, poll, faults>>

\* ... or the tick, which evicts an expired entry and re-verifies a watched one.
Tick(i) ==
    /\ rpc[i] = "wait"
    /\ \/ Dropped(i) /\ UNCHANGED rpc
       \/ /\ TakeDirty(i, dirty[i] \/ Waiters(i) # {})
          /\ UNCHANGED <<entry, missed>>
    /\ UNCHANGED <<source, signal, rval, ann, bus, poll, faults>>

\* hub.refresh queries the version without the lock, ...
Reload(i) ==
    /\ rpc[i] = "load"
    /\ rval' = [rval EXCEPT ![i] = Current]
    /\ Goto(i, "store")
    /\ UNCHANGED <<source, entry, dirty, signal, ann, bus, poll, faults, missed>>

\* ... (a failed query marks the key again and is retried after a delay) ...
ReloadFails(i) ==
    /\ rpc[i] = "load" /\ Fault
    /\ dirty' = [dirty EXCEPT ![i] = @ \/ entry[i] # None]
    /\ Goto(i, "delay")
    /\ UNCHANGED <<source, entry, signal, rval, ann, bus, poll, missed>>

Retry(i) ==
    /\ rpc[i] = "delay"
    /\ signal' = [signal EXCEPT ![i] = TRUE]
    /\ Goto(i, "wait")
    /\ UNCHANGED <<source, entry, dirty, rval, ann, bus, poll, faults, missed>>

\* ... and store it in the entry, if that is still cached.
Refresh(i) ==
    /\ rpc[i] = "store"
    /\ IF entry[i] = None THEN UNCHANGED <<entry, wake>>
       ELSE /\ entry' = [entry EXCEPT ![i] = Stored(@, rval[i])]
            /\ wake' = Woken(i, rval[i])
    /\ rval' = [rval EXCEPT ![i] = NoVersion]
    /\ Goto(i, "wait")
    /\ UNCHANGED <<source, dirty, signal, ann, bus,
                   pc, at, got, val, raced, verify, spins, reg, faults, missed>>

-----------------------------------------------------------------------------
\* The long poll of a node.

\* The call returns or fails: the deferred unregister runs and its locals end.
Leave(n) ==
    /\ pc' = [pc EXCEPT ![n] = "idle"]
    /\ reg' = [reg EXCEPT ![n] = FALSE]
    /\ val' = [val EXCEPT ![n] = NoVersion]
    /\ raced' = [raced EXCEPT ![n] = FALSE]
    /\ spins' = [spins EXCEPT ![n] = 0]
    /\ wake' = [wake EXCEPT ![n] = FALSE]

Poll(n, i) ==
    /\ pc[n] = "idle"
    /\ pc' = [pc EXCEPT ![n] = "snap"]
    /\ at' = [at EXCEPT ![n] = i]
    /\ verify' = [verify EXCEPT ![n] = FALSE]
    /\ UNCHANGED <<source, hub, ann, bus, got, val, raced, spins, reg, wake, faults, missed>>

\* hub.read: a watched or unexpired entry answers, unless this is a reload.
ReadCached(n) ==
    /\ pc[n] = "snap" /\ ~verify[n]
    /\ entry[at[n]] # None
    /\ val' = [val EXCEPT ![n] = entry[at[n]]]
    /\ raced' = [raced EXCEPT ![n] = FALSE]
    /\ pc' = [pc EXCEPT ![n] = "register"]
    /\ UNCHANGED <<source, hub, ann, bus, at, got, verify, spins, reg, wake, faults, missed>>

ReadMissing(n) ==
    /\ pc[n] = "snap"
    /\ verify[n] \/ Waiters(at[n]) = {}
    /\ raced' = [raced EXCEPT ![n] = FALSE]
    /\ pc' = [pc EXCEPT ![n] = "load"]
    /\ UNCHANGED <<source, hub, ann, bus, at, got, val, verify, spins, reg, wake, faults, missed>>

Load(n) ==
    /\ pc[n] = "load"
    /\ val' = [val EXCEPT ![n] = Current]
    /\ pc' = [pc EXCEPT ![n] = "store"]
    /\ UNCHANGED <<source, hub, ann, bus, at, got, raced, verify, spins, reg, wake, faults, missed>>

\* A failed query, here or for the content, fails the call.
QueryFails(n) ==
    /\ pc[n] \in {"load", "resolve"} /\ Fault
    /\ Leave(n)
    /\ UNCHANGED <<source, hub, ann, bus, at, got, verify, missed>>

\* The end of hub.read, and of verifyChanges when it reloaded: v is read.
ReadEnds(n, v) ==
    /\ val' = [val EXCEPT ![n] = v]
    /\ raced' = [raced EXCEPT ![n] = FALSE]
    /\ verify' = [verify EXCEPT ![n] = FALSE]
    /\ LET unchanged == verify[n] /\ v.ver \in {0, got[n].ver} IN
       /\ spins' = [spins EXCEPT ![n] = IF unchanged THEN @ + 1 ELSE @]
       /\ pc' = [pc EXCEPT ![n] = IF unchanged THEN "snap"
                                  ELSE IF verify[n] THEN "resolve" ELSE "register"]

\* Mutant: an invalidation between the query and the registration is ignored.
MarkNothing(n) == UNCHANGED <<dirty, signal>>

\* A key invalidated since the sequence number was read is loaded again.
MarkRaced(n) ==
    /\ dirty' = [dirty EXCEPT ![at[n]] = @ \/ raced[n]]
    /\ signal' = [signal EXCEPT ![at[n]] = @ \/ raced[n]]

StoreEntry(n) ==
    LET i == at[n] IN
    /\ pc[n] = "store"
    /\ IF entry[i] = None
       THEN /\ entry' = [entry EXCEPT ![i] = val[n]]
            /\ UNCHANGED wake
            /\ ReadEnds(n, val[n])
       ELSE /\ entry' = [entry EXCEPT ![i] = Stored(@, val[n])]
            /\ wake' = Woken(i, val[n])
            /\ ReadEnds(n, Stored(entry[i], val[n]))
    /\ MarkRaced(n)
    /\ UNCHANGED <<source, rpc, rval, ann, bus, at, got, reg, faults, missed>>

\* The cache is full of other names: the loaded version is used, not stored.
StoreFull(n) ==
    LET i == at[n] IN
    /\ pc[n] = "store" /\ entry[i] = None
    /\ ReadEnds(n, val[n])
    /\ signal' = [signal EXCEPT ![i] = @ \/ raced[n]]
    /\ missed' = IF raced[n] THEN missed \cup {i} ELSE missed
    /\ UNCHANGED <<source, entry, dirty, rpc, rval, ann, bus, at, got, reg, wake,
                   faults>>

\* changesLocked: the cached entry wins over the snapshot.
Known(n) == IF entry[at[n]] = None THEN val[n] ELSE entry[at[n]]
Changed(n) == Known(n).ver > 0 /\ Known(n).ver # got[n].ver
Spun(n) == spins[n] >= MaxSpins

\* Mutant: what the cache holds is delivered without a look at the source.
DeliverCached(n) ==
    /\ pc[n] = "register"
    /\ Changed(n) /\ ~Spun(n)
    /\ val' = [val EXCEPT ![n] = Known(n)]
    /\ pc' = [pc EXCEPT ![n] = "resolve"]
    /\ UNCHANGED <<source, hub, ann, bus, at, got, raced, verify, spins, reg, wake, faults, missed>>

\* hub.register finds a change to deliver; verifyChanges reloads it first when
\* the node holds a newer version.
DeliverChange(n) ==
    /\ pc[n] = "register"
    /\ Changed(n) /\ ~Spun(n)
    /\ val' = [val EXCEPT ![n] = Known(n)]
    /\ LET suspect == got[n].ver > Known(n).ver IN
       /\ verify' = [verify EXCEPT ![n] = suspect]
       /\ pc' = [pc EXCEPT ![n] = IF suspect THEN "snap" ELSE "resolve"]
    /\ UNCHANGED <<source, hub, ann, bus, at, got, raced, spins, reg, wake, faults, missed>>

\* hub.register finds nothing to deliver, or too many deliveries failed: the
\* waiter is registered, if it is not yet, and WatchConfig blocks.
Register(n) ==
    LET i == at[n] IN
    /\ pc[n] = "register"
    /\ ~Changed(n) \/ Spun(n)
    /\ IF reg[n] THEN UNCHANGED <<hub, reg>>
       ELSE /\ entry' = [entry EXCEPT ![i] = Known(n)]
            /\ MarkRaced(n)
            /\ reg' = [reg EXCEPT ![n] = TRUE]
            /\ UNCHANGED <<rpc, rval>>
    /\ pc' = [pc EXCEPT ![n] = "wait"]
    /\ val' = [val EXCEPT ![n] = NoVersion]
    /\ raced' = [raced EXCEPT ![n] = FALSE]
    /\ UNCHANGED <<source, ann, bus, at, got, verify, spins, wake, faults, missed>>

\* The instance has Config.MaxWatchers waiters, of any names: resource_exhausted.
RegisterFull(n) ==
    /\ pc[n] = "register"
    /\ ~Changed(n) \/ Spun(n)
    /\ ~reg[n]
    /\ Leave(n)
    /\ UNCHANGED <<source, hub, ann, bus, at, got, verify, faults, missed>>

\* resolveChanges delivers the content of (id, version), from the content cache
\* or from the versions of the item, which a deletion removes.
Resolve(n) ==
    /\ pc[n] = "resolve"
    /\ val[n] \in published
    /\ got' = [got EXCEPT ![n] = val[n]]
    /\ Leave(n)
    /\ UNCHANGED <<source, hub, ann, bus, at, verify, faults, missed>>

\* The content is gone: the key is marked for re-verification (markDirty).
ResolveNothing(n) ==
    LET i == at[n] IN
    /\ pc[n] = "resolve"
    /\ val[n].id # item
    /\ dirty' = [dirty EXCEPT ![i] = @ \/ entry[i] # None]
    /\ signal' = [signal EXCEPT ![i] = @ \/ entry[i] # None]
    /\ spins' = [spins EXCEPT ![n] = @ + 1]
    /\ pc' = [pc EXCEPT ![n] = "snap"]
    /\ UNCHANGED <<source, entry, rpc, rval, ann, bus, at, got, val, raced, verify,
                   reg, wake, faults, missed>>

Wake(n) ==
    /\ pc[n] = "wait" /\ wake[n]
    /\ wake' = [wake EXCEPT ![n] = FALSE]
    /\ spins' = [spins EXCEPT ![n] = 0]
    /\ pc' = [pc EXCEPT ![n] = "snap"]
    /\ UNCHANGED <<source, hub, ann, bus, at, got, val, raced, verify, reg, faults, missed>>

Timeout(n) ==
    /\ pc[n] = "wait"
    /\ Leave(n)
    /\ UNCHANGED <<source, hub, ann, bus, at, got, verify, faults, missed>>

\* BatchGetConfig reads the source directly.
BatchGet(n) ==
    /\ pc[n] = "idle" /\ version > 0
    /\ got' = [got EXCEPT ![n] = Current]
    /\ UNCHANGED <<source, hub, ann, bus, pc, at, val, raced, verify, spins, reg, wake,
                   faults, missed>>

\* An instance stops; its calls end, its announcements and events are lost.
Crash(i) ==
    /\ Fault
    /\ entry' = [entry EXCEPT ![i] = None]
    /\ dirty' = [dirty EXCEPT ![i] = FALSE]
    /\ signal' = [signal EXCEPT ![i] = FALSE]
    /\ rpc' = [rpc EXCEPT ![i] = "wait"]
    /\ rval' = [rval EXCEPT ![i] = NoVersion]
    /\ ann' = [ann EXCEPT ![i] = 0]
    /\ bus' = [bus EXCEPT ![i] = 0]
    /\ missed' = IF ann[i] > 0 THEN Instances ELSE missed \ {i}
    /\ pc' = [n \in Nodes |-> IF at[n] = i THEN "idle" ELSE pc[n]]
    /\ reg' = [n \in Nodes |-> reg[n] /\ at[n] # i]
    /\ val' = [n \in Nodes |-> IF at[n] = i THEN NoVersion ELSE val[n]]
    /\ raced' = [n \in Nodes |-> raced[n] /\ at[n] # i]
    /\ spins' = [n \in Nodes |-> IF at[n] = i THEN 0 ELSE spins[n]]
    /\ wake' = [n \in Nodes |-> wake[n] /\ at[n] # i]
    /\ UNCHANGED <<source, at, got, verify>>

-----------------------------------------------------------------------------
Source(i) ==
    \/ \E publish \in BOOLEAN : CreateItem(i, publish)
    \/ Publish(i) \/ DeleteItem(i)

Refresher(i) == Signalled(i) \/ Reload(i) \/ Retry(i) \/ Refresh(i)

Step(n) ==
    \/ ReadCached(n) \/ ReadMissing(n) \/ Load(n) \/ StoreEntry(n) \/ StoreFull(n)
    \/ DeliverChange(n) \/ Register(n) \/ RegisterFull(n)
    \/ Resolve(n) \/ ResolveNothing(n) \/ Wake(n)

Next ==
    \/ \E i \in Instances \cup {Elsewhere} : Source(i)
    \/ \E i \in Instances :
          \/ Announce(i) \/ Receive(i) \/ Lose(i) \/ Evict(i)
          \/ Refresher(i) \/ Tick(i) \/ ReloadFails(i) \/ Crash(i)
    \/ \E n \in Nodes :
          \/ Step(n) \/ Timeout(n) \/ QueryFails(n) \/ BatchGet(n)
          \/ \E i \in Instances : Poll(n, i)

Spec == Init /\ [][Next]_vars

\* The refresher and its ticker run, and a call proceeds until it blocks.
FairSpec ==
    /\ Spec
    /\ \A i \in Instances : WF_vars(Refresher(i)) /\ WF_vars(Tick(i))
    /\ \A n \in Nodes : WF_vars(Step(n))

-----------------------------------------------------------------------------
Versions == [id : 0 .. items, ver : 0 .. MaxVersion]

TypeOK ==
    /\ item \in 0 .. items /\ items \in 0 .. MaxItems
    /\ version \in 0 .. MaxVersion /\ floor \in 0 .. MaxVersion
    /\ published \subseteq Versions
    /\ entry \in [Instances -> Versions \cup {None}]
    /\ dirty \in [Instances -> BOOLEAN] /\ signal \in [Instances -> BOOLEAN]
    /\ rpc \in [Instances -> {"wait", "load", "delay", "store"}]
    /\ rval \in [Instances -> Versions]
    /\ ann \in [Instances -> Nat] /\ bus \in [Instances -> Nat]
    /\ pc \in [Nodes -> {"idle", "snap", "load", "store", "register", "resolve", "wait"}]
    /\ at \in [Nodes -> Instances]
    /\ got \in [Nodes -> Versions] /\ val \in [Nodes -> Versions]
    /\ spins \in [Nodes -> Nat] /\ raced \in [Nodes -> BOOLEAN]
    /\ verify \in [Nodes -> BOOLEAN]
    /\ reg \in [Nodes -> BOOLEAN] /\ wake \in [Nodes -> BOOLEAN]
    /\ faults \in 0 .. MaxFaults
    /\ missed \subseteq Instances

\* The watch path implements ConfigWatch (the documentation of WatchConfig at
\* node.go:102-110 and of DeleteItem at publish.go:130-132): a node only moves
\* forward, to content that was published, whatever instance answers it, and a
\* version number is never reused.
Watch == INSTANCE ConfigWatch WITH current <- Current
WatchPromise == Watch!Spec

\* No change is missed between the snapshot and the registration (hub.go:110-111,
\* 198-215): once every event that was sent has been handled and none was lost,
\* a registered waiter's entry is current, or the key is marked and the refresher
\* has been or will be signalled, or is about to query it.
Announced(i) == bus[i] = 0 /\ i \notin missed /\ \A j \in Instances : ann[j] = 0

NoStaleWait ==
    \A i \in Instances :
        Waiters(i) # {} /\ Announced(i)
        => \/ entry[i] = Current
           \/ dirty[i] /\ (signal[i] \/ rpc[i] # "wait")
           \/ rpc[i] = "load"
           \/ rpc[i] = "store" /\ rval[i] = Current

\* A watcher whose entry changed while it was away from its select still has its
\* wake-up token (hub.go:304-308 with the buffered channel of hub.go:61): a
\* blocked call that would have something to deliver, and has not given up
\* on it, is about to run.
Behind(n) == version > 0 /\ got[n].ver # version

NoLostWake ==
    \A n \in Nodes : pc[n] = "wait" /\ Changed(n) /\ ~Spun(n) => wake[n]

\* A blocked call whose node is behind is answered or ends, though events are
\* lost, queries fail and instances crash: the periodic re-verification of
\* watched entries (hub.go:372-376) finds what no event announced.
Answered ==
    \A n \in Nodes :
        (pc[n] = "wait" /\ Behind(n) /\ ~Spun(n)) ~> (~Behind(n) \/ pc[n] = "idle")

\* The same of every blocked call, as node.go:96-99 says of WatchConfig.
AlwaysAnswered ==
    \A n \in Nodes :
        (pc[n] = "wait" /\ Behind(n)) ~> (~Behind(n) \/ pc[n] = "idle")

=============================================================================
