# Verification of Spinneret

TLA+ models of the concurrent core of Spinneret, the TLC configurations that
check them on small instances, and theorems proved with TLAPS for every value
of the constants. `PROJECT.json` holds the machine-readable index: components,
runs, the map from definitions to source lines, hazards, findings, theorems.

## 1. The system and its parts

Spinneret leases *identities* (accounts, cookies, devices) of *sites* to crawler
nodes, and learns from the nodes' reports which identities and endpoint groups
are in trouble. Several stateless server instances share PostgreSQL (what is
configured) and Redis (the *hot state*: what is scheduled now). Redis runs a Lua
script atomically; everything between two scripts interleaves.

    node --Acquire--> admission gate --> acquire.lua --+
    node --Renew/Release--> renew.lua, release.lua ----+--> identities, ready sets,
    reaper (each instance, every second) --> reap.lua -+    leases, expiry index
    node --Report--> ingest.lua --> stream --> worker --+--> observe.lua (window, probes)
                                                        +--> apply.lua (cooldown, ban, ...)
                                                        +--> release.lua
    sweep (every 5 s) and operators --> breaker_eval.lua, breaker_set.lua
    operators, expiry job --> PostgreSQL row --> apply.lua, sync_identities.lua
    worker --> state writer --> PostgreSQL row and state events
    config center, catalog: PostgreSQL --> per-instance caches, told by a lossy bus

| Part | Source (`src/internal`) | Module |
| --- | --- | --- |
| Admission gate | `pkg/admit` | `AdmitGate` |
| Acquire, renew, release, abort, reap | `scheduler` | `Leases` |
| Dispositions, identity synchronisation | `action/lua/apply.lua`, `hotstate/lua/sync_identities.lua` | `Dispositions` (extends `Leases`) |
| Circuit breaker | `breaker`, and its part of `scheduler` and `worker` scripts | `Breaker` |
| Report ingestion and worker | `signal`, `worker` | `ReportStream` |
| State writer | `action/statewriter*.go` | `StateWriter` |
| Operators, expiry job, retry of pushes, reverts, edits and payloads | `action`, `hotstate/identities.go`, `identitysvc` | `StateSync` |
| Configuration center | `configcenter` | `ConfigWatch` (what it promises), `ConfigHub` (what it does) |
| Catalog snapshots and change marks | `catalog` | `Catalog` |
| Event bus | `events` | the lossy channel of `ConfigHub` and `Catalog` |
| Proxy slots and health | `scheduler/lua/acquire_proxy.lua`, `proxy` | not modelled |
| Hot-state rebuild | `hotstate/rebuild.go` | not modelled |
| Key rotation; caches of the vault, tokens and users | `vault`, `auth` | not modelled |
| Leader election, live-instance registry | `jobs`, `peers` | not modelled |
| SDK reporter and watcher | `sdk/go`, `sdk/python` | not modelled |
| Policies (classification, severity, resolution) | `policy` | results are free choices of the models |
| Alerts, statistics, analytics | `notify`, `stats`, `analytics` | not modelled |
| Administration services, API, assembly | `api`, `server`, `tenancy`, `sitesvc`, ... | not modelled |
| Console, generated code, packaging | `web`, `gen`, `deploy`, ... | not modelled |

`PROJECT.json` lists them all, with the reason for each that is left out, and
the hazards at the lines where they bite.

## 2. Modules

Every script, and every section of Go code that runs under one lock, is one
action; a Go function that makes several calls is one action per call, with the
position kept in `pc`. What a caller passes (its clock, a policy, a weight) is
chosen with `\E`. Bounds are constants whose comment starts with "bound:".

### AdmitGate
`limit`, `depth`, `inFlight`, `queue` are the fields of `Gate`; `want`,
`weight`, `claimed`, `ch` those of a waiter; `permit` is what a caller holds.
`Acquire` is `AcquireFast` or `AcquirePark`; `Receive`, `GiveUp`, `CancelLate`
and `Abandon` are the ways out of its `select`. `drainLocked` races with the
callers' compare-and-swap in every iteration, so one iteration is one step and
`mu = "drain"` says the lock is held. The comment in `admit.go` that
`inFlight <= limit` holds "by construction" is not stated as an invariant: a
lowered limit leaves what is in flight alone. What does hold is that no
*admission* exceeds the limit (`AdmitsWithinLimit`).

### Leases
`al`, `xl`, `xg`, `scd`, `sru` are the fields of an identity's hash, `cd` and
`ru` those of its endpoint state, `rdy` the ready sets (`NotIn` for absent), `ls`
the lease hashes, `lsexp` the expiry index. `AcquireSampled` and `AcquireSticky`
are the two ways to a lease, with the rescoring of the refused candidates that
belongs to the same script; `AcquireExhausted` is the call that finds nobody.
`LsEnd` is `lease_end.lua`, shared by `Release`, `Abort` and `Reap`. A script
whose reply is lost needs no action of its own: its lease is one that no node
ever renews or releases, and the reaper ends it. Calls carry clocks up to `Skew`
behind the fastest one.

Left out: quota windows, account constraints, proxies, the weighted choice among
due candidates (any may be chosen), the spreading of scores after a cold start.

### Dispositions
Extends `Leases` with the identity operations of `apply.lua` (cooldowns of both
scopes, clearing them, taking out, activating, putting back) and the `S` and `R`
records of `sync_identities.lua` (`Resync`, `Archive`, `Unarchive`). `SpecDispose`
has everything but archival; `SpecArchive` adds it with the history variable
`archived`.

### Breaker
`brk` is the hash, `brko` the set of breakers not closed, `win` the reports by
time, `probe` the probe leases, `hist` what the scripts handed to their callers.
Which trip condition holds is a choice made once the window has `MinRequests`
reports. The evaluation lock is left out, as the script is atomic; so are the
reversal of cooldowns (`revert.lua`) and the debounce of notifications. Inserting
the event after the script is best effort in the code and not modelled.

### ReportStream
One shard and one site. `dd` are the dedup markers, `log`/`stream`/`ld`/`pel` the
Redis stream and its group, `ckpt` the checkpoint of `observe.lua`, `tok` the
replay tokens of `apply.lua`, `lock` the owner lock. Each worker's consumer walks
claim, read, the steps of an entry, acknowledge, trim. `Fail` stands for a call
that fails before or after it took effect in Redis; `Crash`, `Expire` (a stall),
`ReleaseShard` (a rebalance) can happen anywhere. The history variables `app`,
`exe`, `rec`, `rel`, `gave`, `odd` count effects and note what went wrong.

Left out: several shards and the rebalancing arithmetic, expiry of the dedup
marker, eviction by MAXLEN, a lease that vanishes between two deliveries of its
report, what the classification decides, the number of attempts of a retry (one
flag says that an attempt has failed).

### ConfigWatch and ConfigHub
`ConfigWatch` is what nodes are promised about one item name: version numbers are
never used twice, also not by an item deleted and created again, and a node that
receives something receives a published version newer than its own. `ConfigHub`
is the code: `item`, `version`, `floor` in PostgreSQL; `entry`, `dirty`, `signal`
of each instance's hub; `rpc`/`rval` the refresher; `pc`, `at`, `val`, `raced`,
`verify`, `spins`, `reg`, `wake` the locals of a node's `WatchConfig`. Each
critical section of the hub's mutex and each query is a step, so a publish falls
between any two of them. `raced` says that `hub.seq` changed since the call read
it. Events are counted on their way to each instance, and may be lost (`Lose`).
Eviction, a full cache, a full watcher table and the tick are free choices.
`Watch` is the instance with `current <- Current`; `WatchPromise` is its
specification, checked as a property and proved.

Left out: runtime documents, polls for several names at once, drafts.

### StateWriter
The two queues, the carried batch, the batch in hand, the stack of `salvage`, the
kick channel and the waiters of `statewriter.go`. `Enqueue` has one action for
each way out (space, spilling an event, being spilled, waiting, refused, giving
up); `Run` one for each call of its loop. The result of a write is chosen among
the classes of error the code tells apart; a commit in doubt has taken effect and
reports failure. Changes of accounts are queued without the identifier of their
subject (`Unresolved`); `ResolveSubjects` discards them once the row is gone
(`vanished`, when a site is deleted), and they are counted as written. The history
variables `gone` and `accepted` record what was given up, with the cause, and the
order of acceptance. `EnsurePartitions` is `CreatePartition`.

### StateSync
One identity in its two homes: `hot`, the hash the scheduler reads, and `row`,
what PostgreSQL and the console have, each with state, end of ban and change
time. Reports write Redis first and queue the change (the `StateWriter` appears
by what it promises: in order, in batches, perhaps twice); operators, reverts of
automatic actions (`auto` are their stored events) and the expiry job write
PostgreSQL first and push; an edit synchronises from its row; a new payload (of a
request or an import) commits the state in which it is validated again and then
only synchronises. The homes are kept in agreement by change times alone, and
every goroutine reads its clock some steps before it writes. `prev` and `overflow`
are the times from which `CatchUpSince` computes how far back a pass looks. The
history variables name the ways out of agreement the code has: `crossed` (a
change took effect that is not newer than the one it met, or on an archived
identity), `stale` (a synchronisation straddled an archive or a restore), `lost`
(a change lost its way for good, be it a synchronisation that failed or a change
that left the queue unwritten), `missed` (a release out of the catch-ups' reach).

Left out: accounts and proxies, the limit on the rows of one catch-up, the pass
that finds Redis down (it does nothing), leadership that moves to an instance
which has led before (a new leader starts without a retry set).

### Catalog
One namespace. `db` counts the committed changes and a snapshot is the change it
was read at; `mark` is the shared change mark, `applied` the mark a load recorded.
`load`/`riders` are the flight that runs and who waits for it, `next`/`waiters`
the queued one that all later requests share. `Request`, `Observe`, `Read`,
`Swap`, `Finish` are `request` and `load`; `Take`, `FireDue`, `Ticker` the cases
of the event loop; `FullList` and its end `ReloadAll`; `Prune` drops the mark of
a deleted namespace. `bus` counts the events on their way to an instance, whose
handler queues one (`OnEvent`, `OnOther`) or finds the queue full and notes that
in a second step (`dropping`, `SetOverflow`). Instances meet only in PostgreSQL, the mark and the bus, so
besides the instance modelled in full a peer is modelled by what it does there.

Left out: the fingerprint that saves a rebuild, the load semaphore, listeners.

## 3. What the runs check

| Run | Instance | Shows |
| --- | --- | --- |
| `gate` | 3 callers, limit <= 2, weights <= 3 | permits are conserved, no capacity idles with callers parked, and every parked caller leaves |
| `leases` | 1 identity, 2 groups, 3 leases, exclusive and shared policies, clocks 1 apart, sticky calls | the count is exact and other groups get an identity back |
| `leases_reuse` | 2 leases, all kinds of reuse interval, sticky calls | exclusive means alone, reuse times are what delivered leases ask for, every lease ends |
| `dispositions` | 2 leases, cooldowns, bans, archival | count and ready sets stay right under every operation |
| `breaker` | 2 probe leases, clocks 1 apart, 2-bucket window, open-ended and timed manual opens, policy edits | probe limit, unbroken history, no trip from old reports; opens end and lazy half-opens are reported |
| `reports` | 2 workers, 3 entries (one of each kind), any 2 faults | effects once, nothing skipped, trimmed, unreleased or counted twice |
| `reports_live` | 2 workers, 2 entries, any 1 fault | every report is handled and acknowledged |
| `hub` | 1 instance and one elsewhere, 1 node, 2 items, 2 versions, 1 fault, events lost at will | the watch path implements `ConfigWatch`; no change falls between snapshot and registration, no wake-up is lost, and a node that is behind is answered |
| `writer` | 2 workers, queue and batch of 2, a rejected, a late and an unresolved change, 3 calls, 2 faults | every change is accounted for, stored once and in order, dropped only for a cause; waiting ends and lifecycle changes are settled |
| `statesync` | 2 goroutines, 2 calls, 4 instants, 2 faults | both homes agree when all is quiet, nothing in force is reverted by something older, no release within reach of the catch-ups stays invisible |
| `catalog` | 1 instance and a peer, queue of 1, create/change/delete, 1 fault | read-your-writes after `Invalidate` and `Sync`; events suffice but in the cases of divergence 11, the periodic reload suffices in any case |
| `reports_skip` | expected violation | see below |

`reports_skip` is a counterexample to `worker/process.go:49`, which says that a
skipped entry had already been applied: if the reply to `XREADGROUP` is lost,
later entries move the checkpoint past the entries it delivered, and these are
skipped without having been applied.

Other places where the code does something a sentence of the repository does not
say. The models show 1, 2, 3, 4 and 6 if the named property is put in a
configuration with the constants given; the rest was met while modelling, and is
excluded by a history variable, by the property or noted in the module.

1. `documents/en/04-concepts.md:357` says that ending an exclusive lease restores
   the identity in the other groups. A disposition that rescored those groups
   meanwhile used the lease's expiry without leaving the marker the release looks
   for, so they wait up to one TTL longer. `AvailabilityRestored` fails with the
   constants of `MCDispositions.cfg`; `WaitBounded` is the bound that holds.
2. `04-concepts.md:345` says nobody else gets an exclusively leased identity until
   the lease ends. Archiving and restoring the identity forgets its count
   (`sync_identities.lua:133-136`). `Exclusive` fails with the same constants.
3. `04-concepts.md:631` says a breaker also closes without traffic. It is
   half-opened by the sweep, and closing then needs probe reports
   (`breaker_eval.lua:215-224`). `ClosesWithoutTraffic` fails
   with one probe, `CloseMin` 2, `Durations` {0}, `Policies` {TRUE}, no skew, `Busy` 2,
   `Horizon` 12, `MaxVersion` 0.
4. `documents/en/06-identities.md:1049` says archived identities are never
   scheduled and `restore` brings them back. A ban applied in Redis between the archive's commit and
   its push is newer, and the state writer's update compares times only
   (`statewriter_sql.go:27`): the row becomes banned, and pending when the ban
   ends. `RetiredUntilRestored` fails with `Actions` {"ban"}, `Operations`
   {"archive"}, two calls, no reverts and no faults.
5. `action/expiry.go:44` says a release never stays invisible to the scheduler,
   and that the pass after an overflow looks at the last 10 minutes. A catch-up
   whose query fails is not repeated by a later pass (`hotretry.go:189-195`), and
   after an overflow it looks back `expiryTimeout` from the pass that met the full
   set (236-238): a release that a new leader's catch-up finds late, fails to
   synchronise and cannot remember is out of reach. `missed` marks both, and
   releases older than the window; without it `ReleaseVisible` fails with the
   constants of `MCStateSync.cfg`.
6. `configcenter/node.go:96` says a poll returns the items whose version differs.
   After `maxWatchSpins` failed deliveries the call blocks although a change could
   be delivered, until the next wake-up or its timeout. `AlwaysAnswered` fails
   with the constants of `MCConfigHub.cfg`; `Answered` leaves such calls out.
7. `operator.go:117` reads the clock before its transactions and the commit does
   not compare times. An action applied meanwhile is newer in Redis: the console
   shows the operator's state and the scheduler another (`crossed`).
8. A synchronisation with a row read before an archive or a restore creates the
   hash again or removes it (`hotstate/identities.go:75`; `stale`).
9. `salvage` says only rejected changes are dropped (`statewriter.go:413`). An
   acceptable change alone in its part is dropped, too, when its write fails with
   an error that is neither of the data nor of the connection (440-446).
10. A publish during a load whose entry was evicted, or never stored because the
    cache was full, marks nothing; the next tick finds it (`missed`). A refresh in
    flight across an eviction can overwrite a newer entry until the tick.
11. `catalog/store.go:266` says that peers catch up on their periodic reload if
    publishing fails. There are two more such cases. `run.go:102` notices the full
    queue and sets the flag in two steps; if the loop drains in between, nobody
    looks at the flag before the next event, result or tick (`overflow`). And a
    full reload that lists the namespaces between the read and the swap of a
    namespace's first load, when the namespace has just been deleted, finds it
    neither listed nor held, so that the load leaves it behind if the event of the
    deletion is one the queue dropped (`stray`). `EventsSuffice` names both, and
    fails without either.
12. `marks.go:182` says that when a mark is pruned every instance has dropped the
    namespace. That needs the peers' reloads to have succeeded; `ReadYourWrites`
    speaks of `Sync` while the mark was not pruned. If the mark cannot be written,
    `Sync` elsewhere misses the change until an event or the periodic reload.
13. `lease_end.lua:114` restores the reuse time an aborted lease raised, and
    `acquire_write.lua:71` stores it so that the abort can. The stored value may
    itself have been raised by a lease that is aborted first: a session's call does
    not wait for the reuse time, so with `A` granted, the session's `B` granted on
    top, `A` aborted (it gives nothing back, as `B` raised the time again) and then
    `B`, the identity waits for `A`, which nobody received. And a lease that began
    under a longer interval raised nothing itself: when the longer one is aborted,
    the value from before both comes back. `ReuseOwed` names both exceptions and
    holds for synchronised clocks; with clocks apart the later of the two may be
    dated before the aborted one (`Skew = 1` shows it).
14. `statewriter.go:590` drops a change whose subject no longer exists at debug
    level, and `writeOnce` counts it as written (467). `Settled` and
    `DropsJustified` speak of it as given up with the cause "unknown".
15. An operator's push, and the synchronisation after an edit or a new payload,
    are not repeated when they fail (`identitysvc/service.go:247`,
    `operator_identity.go:137`): the scheduler keeps the old state until something
    else synchronises the identity (`lost`).

Each property of a passing run has a mutant: a plausible mistake in one mapped
definition under which TLC finds the property violated.

### Bounds
One identity and two groups are enough for the leases: no script touches two
identities except to rescore the refused ones, each from its own fields, and
groups interact through the identity, two at a time. Three leases let one end
while a second runs and a third is granted; the reuse and disposition runs use
two. Horizons reach or exceed the lifetime of a lease, so renewal up to the cap,
expiry and reaping all happen. With two callers parked behind a third, every order of
handoff, cancellation and departure of a head exists; weights above the limit
are clamped in some of them. For the breaker, activity stops at `Busy` and the
horizon lies at or beyond the end of the longest open that can have begun by
then. Two faults are what it takes to crash during the recovery from a crash,
and three entries with batches of two put an entry behind a batch.

One instance is enough for the hub's own invariants, as hubs share nothing but
the source and the bus; the other end of both is `Elsewhere`, which publishes
and is not polled, and a node that got its version there is one that got it from
`BatchGet`. Two versions and two items give a deletion and a re-creation under a
higher number; `WatchPromise` is proved for any number. In `writer` a queue of
two with three changes is full, spills, and salvages a batch in which one change
is bad or unknown; two attempts reach the end of the retries, and two faults an
outage during the recovery from another. In `dispositions` a lease lasts long
enough to be ended early and a cooldown outlasts it, so that the wait
`WaitBounded` bounds does occur (divergence 1 is a state of this run); a horizon
of four, one more, was checked as well. In
`statesync` two goroutines, the state writer and the expiry job race; a ban ends
at the second instant, and the fourth is late enough for every branch of
`CatchUpSince`. Two faults are what divergence 5 takes: a leader that dies before
its push, and a query or a synchronisation that fails on the next one. Three calls
with one fault and three instants were checked as well. In `catalog` the queue of
one overflows, three versions let a namespace be changed and deleted during one load. There `Pruners` keeps the
peer from pruning and `OtherDrops` another namespace's event from finding the
queue full: a prune is the same whoever makes it, and an event of another
namespace that is dropped brings on a full reload, which the ticker may do at any
time. The run holds without these two bounds as well, in a quarter of an hour.
Symmetry is used only in runs without liveness.

`Horizon` stops time. The liveness runs are read with that in mind: `LeaseEnds`
has all leases end before the horizon (no grant is made that could outlive it),
and `OpenEnds` speaks of ends within it. Deadlock checking is off where time, or
the bounded number of changes and calls, stops; on for the gate and the stream.

### Fairness
* `AdmitGate`: the holder of the mutex runs on; a goroutine waiting for the mutex
  gets it (Go's mutex does not starve a waiter, hence strong fairness); one whose
  handoff arrived leaves the `select`; a permit is released, since it spans one
  script call with a deadline. Nothing is assumed of timers, contexts or resizes.
* `Leases`: time passes and some instance runs the reaper. Nodes owe nothing.
* `Breaker`: time passes and the sweep visits breakers that are not closed.
* `ConfigHub`: the refresher and its ticker run, and a call proceeds until it
  blocks. Polls need not time out.
* `StateWriter`: Run and woken workers are scheduled; a `select` whose context has
  ended takes that case sooner or later (strong fairness of `Stop` and `Close`).
  Workers need not give up, the process need not stop.
* `StateSync`: the expiry job runs pass after pass; nothing else.
* `Catalog`: callers, loads, the bus handler and the loop's ready cases go on. The
  periodic reload is not assumed, except as the hypothesis of `Converges`.
* `ReportStream`: a live consumer runs, the worker's tick tries for a free shard
  and notices a lock that is gone, the lock of a dead owner expires. Faults are
  never fair, and bounded.

## 4. What is proved

| Module | Theorems | Inductive invariant |
| --- | --- | --- |
| `AdmitGateProofs` | `TypeCorrect`, `PermitsConserved`, `NoLostWakeup`, `NoLostWaiter`, `AdmissionRespectsLimit`, `ChargeBounded` | `TypeOK`, `ClaimInv`, `QueueExact`, `Conservation`, `NoStrandedCapacity` |
| `LeasesProofs` | `Accounting`, `TypeCorrect`, `CountExact`, `ExpiryIndexExact`, `OneExclusive` | `TypeOK`, `LsexpExact`, `WithinCap`, `Hashed`, `AlExact`, `Covered`, `SoleExclusive` |
| `LeaseExclusionProofs` | `ExclusiveLease`, `LeasesOnlyMoveForward`, `ProbationCapped` | the one above |
| `BreakerProofs` | `ProbesLimited`, `NoTransitionLost`, `SweepComplete`, `ManualOpenIsKept` | `TypeOK`, `SweptWhileNotClosed`, `HistoryUnbroken`, `OpenHasEnd`, `ProbeHistory`, `ProbesWithinLimit` |
| `ConfigHubProofs` | `HubImplementsWatch` | `SourceInv`, `CacheInv`, `NodeInv` |
| `CatalogProofs` | `CatalogInvariant`, `CatalogReadYourWrites`, `CatalogMarkHonest` | `Types`, `Bumps`, `Snaps`, `Marks`, `Waits`, `Calls`, `Remotes` |
| `StateWriterProofs` | `WriterInvariant`, `WriterNoStrandedWaiter` | `Types`, `NoStrandedWaiter`, `OnlyEventsSpilled` |

They hold for all constants that meet the named `ASSUME`s of the modules: finite
sets of callers, leases and probes, positive durations. Assumptions that matter:

* `LeasesProofs` is about `SpecDispose`, that is, with dispositions and without
  archival (divergence 2 shows that the count is not exact with it). `OneExclusive`
  holds for any skew; `ExclusiveLease` assumes `Skew = 0`, because an instance
  whose clock lags may renew an exclusive lease that a faster one takes for
  overdue and has already granted a shared lease beside.
* `ProbationCapped` is about `SpecDispose` too, where identities go in and out of
  probation: it bounds every grant to a pending identity. The number of leases
  itself is not bounded by the probe limit, as an active identity that becomes
  pending keeps the ones it has.
* `BreakerProofs` assumes that no open period is shorter than the clocks are
  apart (`SkewAssumption`).

Why the strengthenings are needed: `Conservation` does not know who claimed a
waiter (`ClaimInv` ties that to the caller's place), and typing needs it in turn,
for a release must not take `inFlight` below zero. `Exclusive` rests on the two
comparisons of `acquire.lua`, of the count (`AlExact`) and of the stored expiry,
which never lies before that of an exclusive lease (`Covered`).
`ProbesWithinLimit` needs where each outstanding probe lies in time
(`ProbeHistory`): a late abort is matched with its window by comparing times, and
half-opening only at a stored end (`OpenHasEnd`) keeps windows apart.

`HubImplementsWatch` is the refinement: initial states map to initial states, and
each step to a publish, a deletion, a delivery or a stutter. What is in a cache or
in a call's hands was published (`CacheInv`), published numbers are unique and
none is above both `version` and `floor` (`SourceInv`), and a version about to be
delivered is newer than the node's (`NodeInv`): that survives because a cached
version older than the node's is read again, and a read that began after the node
got its version finds nothing older. `ReadYourWrites` needs that the mark was read
before the rows (`Marks`), that a queued flight has not begun (`Waits`), and that
a caller rides only on a flight that began after its call (`Calls`).
`NoStrandedWaiter` rests on the drain and the end of `Run` waking everyone in the
critical section that makes the space, or the end, visible.

Proved and in no run: `QueueExact`, `AdmitsWithinLimit`, `ChargedAtMostWant`,
`SoleExclusive`, `LsexpExact`, `LeaseSteps`, `PendingGrantsCapped`,
`SweptWhileNotClosed`, `ManualOpenHolds`, `MarkHonest`, `NoStrandedWaiter`, and
the typing of every module that has a proof module.

Only model-checked: all liveness (fairness is out of the prover's reach);
`AvailabilityRestored`, `ReuseOwed`, `WaitBounded`, `ListedIffSchedulable`,
`AlKept`, `ExclusiveKept`, `NotRetrippedByOldReports`, `NoStaleWait`,
`NoLostWake`; `StoredOnce`, `OrderKept`, `Accounted` and the rejected half of
`DropsJustified`, which speak of flattened and folded sequences and need
induction over data; and everything about `ReportStream` and `StateSync`, whose
`TypeOK` documents the types of the variables and is in no run.

## 5. Not modelled

What would come next, and why it is not here yet:

* **Several shards of the report stream**: the shares of `rebalance`
  (`worker/ownership.go:140`: every shard must find an owner although all shares
  round up) and the removal of idle consumers (`worker/consumer.go:360`).
  `ReportStream` has one shard, where handing over is already the hard part.
* **Hot-state rebuild**: the epoch is written last, so that a rebuild that dies is
  started again (`hotstate/rebuild.go:144`), and a site may be created while
  orphans are looked for (180). It synchronises each identity as `StateSync` does.
* **Proxy slots**: counted per lease like the identity's count of `Leases`; two
  instances may check one proxy (`proxy/healthrecord.go:86`).
* **Generation-checked caches**: filled from a read older than an invalidation
  (`vault/secrets_cache.go:86`, `auth/tokencache.go:142`), the problem `ConfigHub`
  and `Catalog` solve with a sequence number and flights.
* **Key rotation**: rows sealed under the old key behind the walk's cursor are only
  found by the final count (`vault/rewrap.go:262`).
* **Leader election**: a leader goes on until it notices the loss of its session
  (`jobs/jobs.go:188`). `StateSync` has one expiry pass at a time.
* **SDK**: the reporter's queue may overflow while a batch is in flight
  (`sdk/go/spinneret/reporter.go:230`). The server's models let nodes repeat and
  omit calls.
* **Policies** are pure functions of a document; the models let them answer
  anything, which covers every policy.
* **Classification of details the models keep but no property judges**: a probe
  report of an earlier half-open period takes part in the verdict of the current
  one (`worker/lua/observe.lua:243`); a report repeated after its dedup marker has
  expired is accepted again (`signal/lua/ingest.lua:22`); an entry whose
  processing failed for good and whose `XACK` failed too is counted twice
  (`worker/process.go:275`).
* **Administration, API, alerts, statistics, console**: single transactions,
  translation, best-effort delivery and presentation, without interleaving of
  their own.
