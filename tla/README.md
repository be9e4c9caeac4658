# Multiview: formal models

Multiview is a live video multiviewer. It ingests many unreliable sources, composes them onto a canvas and
emits one output frame per tick of its own clock, whatever the sources, the clients and the devices around
it do. This directory holds TLA+ models of the parts whose correctness rests on orderings that tests hardly
reach, the TLC instances that check them on small sizes, and TLAPS proofs for every size.

Contents: [the system](#1-the-system) · [modules and code](#2-modules-and-the-code-they-model) ·
[runs](#3-runs) · [fairness](#4-fairness) · [proofs](#5-proofs) ·
[disagreements and observations](#6-disagreements-with-the-documentation) · [not modelled](#7-not-modelled) ·
[plan](#8-plan)

How to run: `tlc -workers 2 -config MCTileStore.cfg MCTileStore` for a run, `tlapm TileStoreProofs.tla` for
a proof. `PROJECT.json` lists every run, mutant, mapped definition, hazard and theorem.

## 1. The system

### 1.1 Parts that are modelled

| Part | State | Operations | What makes it correct |
|---|---|---|---|
| Tile store (`multiview-framestore`: `tile.rs`, `latest.rs`, `state.rs`) | newest-frame slot and its sequence, media-time ring, prune watermark, instant of the last frame | `publish_arc` by the source's producer; `read_at`, `state_at`, `read` by any number of lock-free readers | the ring is bounded and sorted, pruning never drops the frame on screen, no reader's picture goes back, a tile that reports primed has a frame |
| Output clock and tick loop (`multiview-engine`: `clock.rs`, `runtime.rs`) | tick counter, held composite, repeat count, stop signal | `run`, `run_for`, the pacer's wait, catch-up repeats, resync, compose, publish | no frame before its deadline, strictly increasing pts, bounded repeats, resync to exactly the wall-clock tick, prompt stop |
| Event broadcast (`isolation.rs`) | shared sequence counter, drop-oldest ring | `publish` from cloned handles, `subscribe`, `recv`, lag | the engine never waits for a reader; readers survive a send order that differs from the numbering |
| Realtime sessions (`multiview-control`: `realtime.rs`, `devices/broadcaster.rs`, `auth.rs`; `multiview-cli`: `event_of`) | watermark, scope, key generation, the client's cache | connect, snapshot, pump, re-authorise, resync, lag, close | snapshot plus deltas is the truth, lossless events are not dropped, nothing out of scope is kept, revocation ends the session |
| Source registry and teardown pool (`registry.rs`) | entries with reference counts, slot counter, bounded queue, workers, decode actors | `acquire`, `acquire_store`, handle drop, `reserve_slot`, `offer_teardown`, worker loop, `shutdown`, `Drop` | one decode per key, exact counts, bounded teardowns, no decode outlives its owners |
| High availability (`ha/mod.rs`, `ha/transport.rs`) | role, epoch, tracked peer and its last beat, per node | `observe_heartbeat`, `tick`, `beat`, `pump_heartbeats` | output is driven; by one node when the network is timely; a split brain heals |
| Command path (`routes/mod.rs`, `routes/discovery.rs`, `concurrency.rs`, `command.rs`, `devices/discovery.rs`, `CorrRegistry` in `realtime.rs`; the drain in `multiview-cli`) | idempotency keys, command bus, correlation registry, scan gate | `reserve`, `release`, `rebind`, `try_submit`, `record`, `record_window`, `resolve`, `try_drain`, `begin` | one run per key, no key left on an operation that never runs, correlation consumed once and the same for all clients |
| Configuration lifecycle (`config_watch.rs`, `boot_model.rs`, `routes/config.rs`, `routes/sources.rs`; `boot.rs` and `main.rs` of `multiview-cli`) | the watched file, the watcher's locals and announced writes, the config-mutation lock, source store, adopted and loaded documents, write tickets, `active.toml` | `watch_loop`, `apply_change`, source `PUT` and `DELETE`, `revert_to_start`, `promote_to_boot`, `spawn_running_persist`, `finish_running_persist`, `resolve_start_config` | the adopted snapshot is what the engine runs, a clean stop keeps it and every change is persisted while it validates, no own write is reloaded unless it lands inside a poll, every file is answered |
| Guarded passthrough (`multiview-output`: `guarded.rs`, `restamp.rs`; `multiview-framestore`: `liveness.rs`) | two watchdogs, the decision flag, the re-stamp accumulators, the slate cursors | `next_packet`, `evaluate`, `enter_slate`, `recover_to_live`, `next_slate`, the clock thread's `store` | one rising timeline per stream over any seams, live video only from a strict IDR on, a late verdict costs at most one packet |

### 1.2 How they interact

```
 source threads --publish--> TileStore <--read_at(tick)-- EngineRuntime --publish_state--> latest-state slot
      ^                                                        |    \--publish_event-->  EventStream
      | decode actors                                          |                             |  ^
 SourceRegistry (acquire / drop handle, teardown pool)         |                             v  | control
                                                               |                      RealtimeSession <- keys
 HTTP request --reserve/submit--> command bus --try_drain------+                             |
      \--record--> CorrRegistry <-----------------resolve (on projection)--------------------+
 HaCluster: nodes exchange heartbeats over UDP; the active node's engine drives the output

 config.toml --poll--> watcher --\
 REST edit, revert ---------------+-- config-mutation lock --submit--> command bus --> engine
 promote --writes--> config.toml  |        | adopt what landed
                                  |        v
                                  \-- adopted --persist--> active.toml --resume--> next run

 input --read--> GuardedSource (egress) --next_packet--> muxer
                   watchdogs --> decision flag <--store-- clock thread
```

* The engine side never waits for the control side: the slot is a pointer swap, the broadcast drops its
  oldest entry, the command bus sheds when full. Everything that can go wrong is therefore a matter of
  *ordering* and *loss*, never of blocking, except for the teardown joins and the pacer's wait.
* A tile store is shared between one producer and several readers with clocks of their own (the compositor,
  previews). A registry entry is shared between consumer threads. A correlation is recorded on a request's
  thread and resolved on a session's.
* Four writers change the running configuration: the watcher, the REST routes, revert and promote. They take
  one asynchronous lock and submit to the same bus; the engine drains it beside them, and the operator edits
  the file under no lock at all.
* The guarded source has two drivers of one decision flag: the egress evaluates in every call, and a clock
  thread may store a verdict it computed earlier.
* The composition on one page: `RealtimeSession` EXTENDS `EventStream` and adds the engine's and the control
  plane's publishers, the key store and one session; `EngineRuntime` EXTENDS `OutputClock` and is shown to
  implement `OutputCadence`; `ConfigLifecycle` EXTENDS `ConfigDocs`; the other modules are components on their
  own.

### 1.3 What is hard about it

* *Interleaving and atomicity.* A publish is four stores; a sequence number and its send are two; the
  registry runs its factories outside its lock; a request reserves, submits and records in three steps; a
  poll of the watcher reads the file, looks up announced writes and drops the landed ones in three steps, and
  waits for the lock after them; an apply is one submit per changed source.
* *Time.* Deadlines are rounded to the nanosecond, the wall clock leaps when the host is paused, a dead
  window races a beat on its way.
* *Failure.* UDP loses, repeats and reorders; a decode thread's join never returns; a bus or queue is full;
  a client lags; a node crashes and restarts; a key is revoked in the middle of a handshake; an apply is shed
  half way; a persister is aborted while its write goes on; an input drops out and returns with new stamps.
* *Bounds.* Ring ceiling, repeat cap, teardown ceiling, bus depth, correlation capacity, broadcast capacity.

`PROJECT.json` lists 40 hazards, each at its line with the properties that would notice it.

## 2. Modules and the code they model

Every definition that models code is in `PROJECT.json` under "map" with its lines. What follows says how
state and actions correspond, and where a model abstracts. Operators whose comment begins with "Mutant" are
not part of the models: each is a plausible slip in the definition below it, used to show that a property
notices it.

### TileStore

One producer inside `publish_arc`: `PublishStamp` and `PublishSlot` (the two halves of
`LatestSlot::publish_arc`), `PublishLoadWatermark` (a Relaxed load, so any value between the last one loaded
and the current one), `PublishRing` (the `rcu`: re-anchor on a backwards stamp, else prune, then push, then
evict), `PublishLastAt`. A reader loads a ring snapshot (`LoadRing`) and in a later step selects and raises
the watermark (`Latch`, or `ReadEmptyRing`); `read` is `ReadLoadSlot` then `ReadState`. `Advance` moves a
reader's own clock. The ring is a set of stamped, numbered entries: the `Vec` is that set listed by number,
and `RingOrdered`, a part of `RingReadable`, is what makes the code's binary search by stamp legal. Pixels,
formats and the cadence estimator are left out.

### OutputClock, OutputCadence, EngineRuntime

`OutputClock` is arithmetic only: `rescale` with its rounding, `pts_at`, `deadline_nanos` and
`cap_resync_floor` as the code computes it, with the length of a second as a parameter. `EngineRuntime` is
`run_inner` at the granularity of its checks: `Top`, `WaitUntil`, `Woken`, `Hold`, `SampleClock`, `Repeat`,
`Compose`, `ComposeError`, `PublishFresh`. The wall clock (`Elapse`) jumps by any amount and `RaiseStop`
happens anywhere. What the compositor draws and what the control hook changes is abstracted to "takes time,
may fail". `OutputCadence` is the promise to the outputs: ticks are emitted in order, none early, and none
is left out unless a full burst of repeats went before.

### EventStream, RealtimeSession

`EventStream` is the broadcast: `FetchAdd` and `Send` are separate, the ring is the last `Capacity` entries
of a log. tokio's channel is external and modelled from its use. `RealtimeSession` adds the engine's tick
(`Compose`, `PublishState`, `PublishTileState` = `event_of`), the device broadcaster (`SetStatus`,
`PublishStatus`, `PublishLossless`), the key store (`SetPrincipal`, `Revoke`) and the session in the order of
the code: baseline generation, verify, subscribe, watermark, snapshot, connect-race gate, snapshots sent,
pump. The session re-authorises before each event and on a timer; a changed scope rebuilds the client.
WebSocket and SSE follow the same steps. The ticket store and the origin gate are left out, and so is the
resume-cursor mode, which no transport uses.

### SourceRegistry

One step per critical section, counter access or channel call. Consumer threads run `acquire_inner`
(`AcquireShared`, `AcquireFirst`, `FactoryOk`, `FactoryFails`, `InsertWins`, `InsertLoses`, `StopLoser`) and
the drop of a handle (`ReleaseShared`, `ReleaseLast`, then the compare-exchange loop, `Shed`, `CloneSender`,
`TrySend`, `SendRefused`, `DropTeardown`, `DropSlot`). Workers receive, signal, join or wedge, and give the
slot back. `Shutdown`, `GraceJoinReturns` and `DropRegistry` end it. At this commit the binary calls
`acquire_store` only, so in production no entry owns an actor; the model covers both entry points, as the
library's tests do.

### HaCluster

The unit of time is the heartbeat interval, and instants are kept as ages capped at the dead window, because
the code only compares differences with it. `Pump` is `pump_heartbeats` (observe a batch, then `tick`);
`Beat` publishes to all peers. Until `Heal`, a datagram may be lost, repeated, reordered or late; afterwards
each arrives once within `MaxDelay`. `Crash` and `Restart` rebuild a machine in its configured role with
epoch 0, as the constructor does. HA is a library behind the `cluster` feature: nothing else consults it.
`Cluster`'s election is a pure function the runner does not call; its tie-break is `Outranks`. The inbound
queue of 256 is never filled.

### CommandPath

A request is at a position of `submit_accepted_body` or of the scan route; `Reserve`, `BuildRefused`,
`Submit`, `Rollback`, `RecordCorr`, `BeginScan`, `Rebind` and `OpenWindow` are its steps. `Drain` and `Apply`
are the engine's; a keyed command publishes its outcome or is ignored, and the unnamed take and cancel
publish the outcome of whatever was armed. Clients `Connect`, `Skip` or `Project`; a projection calls
`resolve`, whose registry is a record of pending queues, eviction order, scan window and memo. What a command
does to layout, sources and overlays is left out.

### ConfigDocs, ConfigLifecycle

`ConfigDocs` holds what needs no state: a document is its source collection, a map from ids to bodies; when
one validates (every source a cell binds is declared, `validate_cell_bindings`); what two documents differ in;
the command a difference asks for (a body is synthetic, taken live, or decoded, taken on restart); and the
tokens by which a writer announces a write. `ConfigLifecycle` is the machine. What a handler does between two
awaits is one step, except where it touches what others touch meanwhile without the lock: each submit of an
apply is a step of its own, and so are, in a poll, the read of the file (`PollSettled`), the look-up of its
text among the tokens (`PollExpected`, `PollUnexpected`) and the drop of the landed ones (`PollObserved`,
`PollChanged`); a promote can run between any two of them. Branches of a poll that use the watcher's locals
alone belong to the read (`PollMissing`, `PollApplied`, `PollRejected`, `PollCandidate`, `PollUnreadable`). A
fingerprint is the text plus the stamp of the write (inode and mtime). The operator writes any text
(`OperatorWrites`) or moves files about (`OperatorSwaps`). After a poll, under the lock, come `WatchResync`, or
`WatchBegin`, `ApplyChange` per source and `WatchEnd`. `RestPut`, `RestDelete`, `RevertBegin` / `RevertEnd` and
`PromoteBegin`, `PromoteWrites`, `PromoteFails`, `PromoteEnd` are the routes; revert and promote refuse a store
that does not validate, the edits do not look. The persister is `PersistWakes` (the permit of
`running_changed`), then `PersistComposes` (snapshot and ticket) or, when the adopted document does not
validate, `PersistRefused` (skipped, no retry), and `WriteLands` (older tickets are skipped). `Stop` is the
orderly shutdown, whose aborted persister may have a write under way and whose final persist may be refused;
`Crash` leaves the two files, and the dead state is reset to a placeholder that `Restart` overwrites with what
`resolve_start_config` picks. `used` is auxiliary: it counts what the bounds limit and notes whether, in this
run, a promote landed while a poll held a text it had read (`overtaken`). Left out: overlays (same
submit-then-adopt path) and changes of the layout, so that the displayed ids are fixed; sections that need a
restart; media decoders that attach live, so that only synthetic bodies do; cancelled requests; a failing write
of `active.toml`; the idempotency of the two routes.

### GuardedSource

A call of `next_packet` is `Evaluate` (sample the clock, compute the verdict, store the flag) and later one of
`SpliceNow`, `HardDeath`, `Copy`, `Recover`, `Withhold`, `NoInput`, `ReadError`, which load the flag. Between
the two the clock thread may `Store` a verdict of its own `Sample`. Arrivals (`Arrives`) keep or advance a
stream's DTS or start again at 0. `restamp` and `rebase` are the accumulator, over integers. Whether an AU is
a strict IDR, a keyframe with lost leading pictures or neither is an attribute of the packet; the NAL parsing
that tells them apart is left out. `intact` and `overdue` are observers: was video withheld since the last
emitted picture, and how many packets were copied in spite of a loss they did not cure. Nothing but the crate's
tests drives the type at this commit.

## 3. Runs

| Run | Instance | Properties |
|---|---|---|
| `tile_store` | one producer, one reader, 4 publishes, stamps 0..2, instants 0..3, ring of 3 | `TypeOK` `RingReadable` `PruneKeepsPicture` `PictureNeverRegresses` |
| `engine_runtime` | a second of 5 ns at 3 fps, cap of 2 repeats, clock to 12, two calls; arithmetic for all cadences with terms up to 12 | `TypeOK` `TracksClock` `StopIsPrompt` `ResyncIsWallFloor` `PtsStrictlyIncreases` `KeepsCadence` `LoopProgresses` |
| `realtime_session` | one tile, one device, ring of 2, up to 3 publishes among 2 ticks, 1 device status and 1 lossless event, one change of the key | `TypeOK` `CaughtUpIsCurrent` `LosslessDelivered` `SettledSessionIsScoped` `RevokedSessionEnds` |
| `source_registry` | 3 threads, 2 keys, one worker behind a queue of 1, 3 builds, one wedge, or no worker at all | `TypeOK` `OneDecodePerKey` `DecodesAccounted` `PendingBounded` `SlotsCounted` |
| `source_teardown` | 2 threads, 1 key, 2 workers, one wedge, fair | `OrphanStops` |
| `ha_failover` | 2 nodes, dead window 3, delay 1, one crash, network reliable from the start or healing at any time | `TypeOK` `SomeoneDrives` `OneDriver` `SplitBrainHeals` |
| `ha_cold_start` (violation) | 2 nodes, reliable network, one crash | `ColdStartWaits` |
| `command_path` | 3 requests, 1 idempotency key, 2 correlation keys, 2 clients, bus of 1, registry of 2 | `TypeOK` `KeysRunOnce` `ConsumedOnce` `ScanRowsKeepTheirScan` |
| `command_corr` (violation) | 2 requests, 1 client | `NeverAWrongId` |
| `config_lifecycle` | 2 sources, 2 operator documents and two bad ones, 2 touches among edits, requests and promotes, bus of 2, 2 tokens, one crash or shutdown, resume on | `TypeOK` `AdoptedIsRunning` `CleanStopKeepsRunning` `SelfWriteNeverReloads` `FileIsHandled` `RunningIsPersisted` |
| `config_promote_race` (violation) | one operator edit, one promote | `SettledIsRunning` |
| `guarded_source` | 6 calls over 3 instants, one late verdict, one restart of stamps, a slate of 2 video AUs and 1 audio AU | `TypeOK` `StaleVerdictCostsOneCall` `SeamsKeepTime` `ReentersOnIdr` |

What the passing runs show, and why their bounds reach the interesting cases:

* **tile_store.** Three stamps and four publishes are enough for decode-ahead, an equal stamp, a reconnect
  that restarts below the ring, a full ring and a reader holding a snapshot from before the reconnect while
  the producer prunes. `RingReadable` is order and bound of the ring and a picture behind every primed tile.
  `PruneKeepsPicture` is stated for readers that share one clock: see section 6 for the second clock.
  `PictureNeverRegresses` is proved for any number of readers.
* **engine_runtime.** At 3 frames in 5 ns the deadlines 0, 2, 3, 5, 7 round both ways, so a resync that is
  one tick off is visible. The clock can leap over the whole catch-up cap. Two calls show the counter
  surviving a return. `TracksClock` is never early and, when fresh, the newest due tick; `LoopProgresses` is
  that a stop ends the call and that a due tick passes. `ResyncIsWallFloor` ranges over every accepted cadence
  with terms up to 12 at each counter and instant the loop reaches.
* **realtime_session.** A session whose handshake meets any prefix of the publishers' steps and any change
  of its key. The ring of two overflows with three events.
* **source_registry.** Capacity is 2 with three last releases, so the ceiling is hit and the shed happens;
  a pool that could not spawn a single worker is one of the initial states; a key is released and taken again
  while the first teardown is under way. `OneDecodePerKey` relates handles, counts and stores;
  `DecodesAccounted` follows every decode from its build to its join, across shed, wedge and shutdown.
* **source_teardown.** One of two workers is stuck for ever and the other must still signal every decode.
* **ha_failover.** A dead window of 3 with a delay of 1 is the smallest where a beat may be late and yet in
  time (`TimelyAssumption`), so an off-by-one in the window shows. Promotions of one node are bounded only
  while the network misbehaves. Three nodes on a lossy network are beyond TLC's reach; the two safety
  properties are proved for any number of nodes.
* **command_path.** Three requests can be an original, its retry and an unrelated one; a bus of one is full
  behind one command; a registry of two is evicted by the third.
* **config_lifecycle.** The two operator documents differ in both sources, so an apply takes two commands:
  with another change still queued, the bus of two sheds the second half. Two touches are any pair of an edit,
  a REST request, a revert and a promote; with the crash or shutdown between any two steps, a persister is
  aborted with a write under way and the final write overtakes it. One missing poll stands for five: the code
  only counts up to the number. One of the two sources is displayed, so deleting it, or an apply that turns it
  into a decoded one, makes the adopted document invalid and every persist refused until it is put back.
  `CleanStopKeepsRunning` and `RunningIsPersisted` therefore speak of an adopted document that validates, and
  `SelfWriteNeverReloads` of runs where no promote landed inside a poll. `MCConfigStopRefused.cfg` and
  `MCConfigOwnReload.cfg` show what happens otherwise (section 6). `FileIsHandled` and `RunningIsPersisted` are
  also conditional on what section 4 names. About 170 000 states.
* **guarded_source.** Six calls hold an outage, a full loop of the slate and its wrap, a recovery, live
  packets and a second outage. Steps of 0 and 2 give a stalled stamp and an advancing one; a PTS gap of 1 is a
  reordered picture that a seam must keep; a splice point of 1 and a stall deadline of 2 fit in three instants
  and keep silence and stalling apart.

Deadlock checking is off where the system may really stop: the bounded number of calls, builds, requests,
edits or ticks is used up. `tile_store` and `ha_failover` keep it on.

## 4. Fairness

* `EngineRuntime`: WF on the loop. It runs on its own task and awaits only the pacer. Nothing is assumed of
  the wall clock (it may freeze) or of the controller.
* `RealtimeSession`: WF on the session's steps. Its `select!` has a timer that fires without events, and the
  client is assumed to read its socket.
* `SourceRegistry`: WF per thread inside acquire or drop and per worker, which are operating-system threads.
  Nobody has to acquire, release or shut down, a factory may run for ever, and a wedged join stays wedged.
* `HaCluster`: WF on each node's beat and pump, which the owner calls once per interval, and on time. Nothing
  has to crash, restart or heal; `SplitBrainHeals` speaks of behaviours that do heal.
* `ConfigLifecycle`: WF on a poll (an interval timer), on the drain (every frame), on whoever holds the lock,
  on the persister's wake-up and on its blocking writes; SF on the watcher and on the persister where
  they queue for the lock, which is tokio's first-in, first-out mutex; a persist that gets it composes or is
  refused. Nothing is assumed of operator, clients, crashes or shutdowns.
  `FileIsHandled` further asks that the node stays up and that the engine, which drains every frame, has in
  the end emptied the bus when a poll, once a second, starts an apply; `RunningIsPersisted` only that the
  node stays up.
* `GuardedSource` has safety and action properties only. `PtsStrictlyIncreases`, `KeepsCadence` and
  `PictureNeverRegresses` likewise need no fairness.

## 5. Proofs

All are for every value of the constants that satisfies the named ASSUMEs in the module, and three carry a
hypothesis on them of their own (`SingleClockKeepsPicture`, `SessionIsCurrent`, `SelfWritesAreKnown`). Each rests on an inductive
invariant, since none of the properties is inductive on its own. Every type invariant, safety invariant, action property and
the refinement that the passing runs check is stated by a theorem.

* **TileStoreProofs.** `StoreInv` = types, `RingOrdered`, `PrimedHasPicture`, what a publish has made visible
  at each of its steps (`PublishInv`), that a watermark was latched by some reader (`WatermarkInv`), and that
  what a reader has latched, or is about to latch from an old snapshot, is no newer than what the current ring
  would give it (`LatchInv`). The last is the heart: a push, prune, eviction or re-anchor only ever moves the
  nearest frame forward (`PublishAhead`), and so does the clock (`ClockAhead`). From it: `TypeCorrect`,
  `RingStaysReadable`, `PictureMonotone` (any number of readers with any clocks) and
  `SingleClockKeepsPicture` (`PruneKeepsPicture` when there is one reader).
* **EngineRuntimeProofs.** The arithmetic first. `PtsIncreasing`: the rounded pts of an accepted cadence
  strictly increases. `ResyncExact`: the constant-time estimate with one correction step is the greatest tick
  whose rounded deadline has passed, for every cadence, seed, instant and counter; `ResyncsToWallFloor` is
  the form the run checks. Both by bounding the division's remainder (`DivBounds`, `DivAtMost`); rounding
  moves a deadline by less than a period because a period is at least a nanosecond, which is what
  `ValidCadence` asks. Then the loop: `RuntimeInv` adds to the properties what is due at each point
  (`DueInv`), that a stop followed by a frame is about to be noticed (`StopInv`) and how counter, last tick
  and burst relate (`BurstInv`). From it `RuntimeTypes`, `TicksTrackClock`, `StopsPromptly`, `PtsNeverRepeats`,
  and `ImplementsCadence`: every step of the loop is a step of `OutputCadence` or leaves it unchanged.
* **RealtimeSessionProofs.** `PublisherInv`: events about one object are sent in the order of their numbers,
  though those of two producers need not be, and the newest conflated one carries the current value.
  `SessionInv`: the event in hand is the one before the cursor, a scope read at the generation the session
  knows is the key's scope (`ScopeIsCurrent`), and every lossless event before the cursor was received or is
  in hand. Hence `SettledIsScoped` and `NoLosslessEventDropped`. What the client shows is current unless an
  event the watermark lets through is still to come (`Pending`); the order in which the handshake subscribes,
  takes the watermark and then the snapshot is what keeps this (`DeviceInv`, `TilesInv`). `DeviceIsCurrent`
  holds for any instance; `SessionIsCurrent` adds the tiles under `OneTile`. The hypothesis is the code's own
  limit, not the proof's: `event_of` announces one tile per tick, and with two `MCRealtimeTwoTiles` is a
  counterexample (section 6).
* **SourceRegistryProofs.** `RegistryInv`: an entry is present iff referenced, handles share the registered
  store, the count equals the handles; hence `DecodesOncePerKey`. With the compare-exchange,
  `TeardownsAreBounded`. `BuildInv` accounts for builds: each is in one place at most, an entry, a thread, the
  queue or a worker (`Exclusive`, `QueuedOnce`), what its decode may be doing follows from the place
  (`HeldAsPermitted`), and a running decode is in one (`RunningIsHeld`); hence `DecodesAreAccounted`. `SlotInv`:
  the counter is the number of builds that hold a slot, by a bijection lemma per move, so that no slot is
  given back twice (`SlotsAreCounted`) and the counter is a natural number, the part of `RegistryTypeCorrect`
  that needs all of this. For any number of threads, workers and keys.
* **HaClusterProofs.** For any number of nodes. `RankOrder`: the comparison of epoch and priority is a strict
  order. A batch of beats in any order is folded by recursion over the set left (`PassesExist`, by
  the least counterexample), and `ObservedFacts` says what it leaves behind. `DriveInv`:
  every beat of an active in flight is equalled or outranked by some active now; so an active that yields,
  yields to one, and the actives never all yield (`ActivesNeverAllYield`). `CalmInv` is for timely networks
  without crashes: whatever a standby has been waiting for is on its way and arrives inside the dead window;
  hence `ConfiguredDrivesAlone`.
* **CommandPathProofs.** `KeyInv`: whoever may still run, or has run, holds its key, and a key names what ran
  or the undecided request that reserved it; hence `OneRunPerKey`. `ScanParts`: the gate's slot is held from
  the start of a scan to its end, its window is open before the scan can publish, the memo and the clients'
  stamps name the scan that caused each row; hence `RowsKeepTheirScan`. `OnceInv`: the eviction order lists
  exactly what waits in the queues and no operation waits twice (`Pending`), an operation is in one stage, not
  recorded yet, waiting, or consumed by one event (`OneStage`), and until an entry is evicted the memo holds
  every stamp, so a client that asks late gets the answer the first one got (`AllRemembered`); hence
  `CorrelationsConsumedOnce`. `SizeInv` bounds bus, registry and memo (`CommandTypeCorrect`). For any number
  of requests, keys and clients and any bound.
* **ConfigLifecycleProofs.** `AdoptedInv`: the adopted document is the engine's once the bus is drained,
  whatever was shed; the lemma about a submit (`SubmitStep`) splits on whether the id has a queued command.
  From it `AdoptedMatchesEngine`. `PersistInv`: which writes are under way at each stage of the persister and
  in which order of tickets, so that an aborted write landing late is skipped after the final one, and that a
  run which stopped without a final write had a document that did not validate (`ShutdownKeepsAdopted`).
  `LifeInv` carries the types and bounds (`LifecycleTypeCorrect`); one lemma, `Touches`, says which handler
  writes which variable, and the loop of `drain_landed` is solved by the least counterexample (`DrainExists`).
  `SelfInv`: while the operator stays away and no promote lands inside a poll, the text at the path is one the
  watcher has taken, or is announced by a token that the next announcement does not push out of the bank
  (`Known`), and what a poll has in hand is the text at the path, or the one before a rename whose promote is
  not done, so that its token survives the drain (`InHand`); `PromoteKnown` shows it for a step of a promote in
  the middle of a poll, `PollKnown` for a step of a poll in the middle of a promote. Hence
  `SelfWritesAreKnown`, for any number of promotes, failures and crashes. It asks for a bank of two tokens: with
  one, the second of two promotes takes the place of the first one's token, and TLC refutes the property.
  `MAX_EXPECTED_TOKENS` is 8.
* **GuardedSourceProofs.** `SeamInv` ties each accumulator to the last packet emitted and each cursor to the
  slate AU before it, and says which run the last packet belongs to; each of the copying, splicing, looping
  and recovering steps keeps it and continues the timeline (`TimelineIsContinuous`). `IntactInv` gives
  `OnlyDecodablePictures`. `FlagInv`: once a packet was copied in vain, every verdict stored or to come is
  to splice, because a loss nobody cured only grows (`LossGrows`); hence `StaleVerdictBounded`. `BoundInv` adds
  that watchdogs record instants of the clock and that a cursor stays inside its slate (`SeamTypeCorrect`).

Only model-checked: liveness, since fairness is out of the prover's reach (`LoopProgresses`,
`RevokedSessionEnds`, `OrphanStops`, `SplitBrainHeals`, `FileIsHandled`, `RunningIsPersisted`), and the three
runs that expect a violation.

## 6. Disagreements with the documentation

Three runs check what a comment or document says and find a counterexample; `PROJECT.json` quotes the lines.

* `ha_cold_start`: the start deadline is measured from the origin of the timeline, not from the first
  instant the node observed, so a late-started standby promotes at its first tick, over a healthy active.
* `command_corr`: an outcome takes the oldest pending operation of its key, whichever caused it.
* `config_promote_race`: the watcher reads an operator's edit and then waits for the lock. A promote that holds
  the lock writes the running document over the edit. The watcher applies the edit it has in hand, then meets
  the promoted text, takes it for a write already in effect and adopts it as its baseline. Engine and stores
  run the edit, the file and the baseline say otherwise, and nothing warns.

Seven further instances are kept beside the runs, each with one property that TLC refutes:

| Command | What it shows |
|---|---|
| `tlc -config MCRealtimeTwoTiles.cfg MCRealtimeSession` | `event_of` announces one tile per tick: a tile that flaps and returns before its turn leaves a client that connected in between with a value no event corrects |
| `tlc -config MCRealtimeLag.cfg MCRealtimeSession` | a lagged session resubscribes at the head and says nothing, where ADR-RT004 promises `$lag` and a re-snapshot |
| `tlc -config MCCommandReplay.cfg MCCommandPath` | a retry between another request's reservation and its refusal is answered 202 |
| `tlc -config MCConfigStopRefused.cfg MCConfigLifecycle` | `ActiveReflectsRunning`: the snapshot that `active.toml` is written from "must always be valid" and the file "must reflect what the engine actually runs" (`boot_model.rs:610-614`). But REST deletes a source that a cell still binds (`routes/sources.rs:346-369`), the adopted cells stay (`boot_model.rs:221-223`), validation refuses the document (`lib.rs:1026-1034` of `multiview-config`), and every persist is skipped from then on (`boot_model.rs:701-705`), the one at shutdown too (`670-674`). A resume brings the deleted source back and undoes whatever changed since |
| `tlc -config MCConfigOwnReload.cfg MCConfigLifecycle` | `OwnWriteIsAdopted`: "the watcher adopts the next settled change as its baseline instead of re-applying it" (`routes/config.rs:987-989`; `ADR-W024.md:216-219`). A poll looks up the text it has read (`config_watch.rs:939`) and then drops the landed tokens (`954`), under no lock a promote holds. A promote that announces, writes and lands between the two loses its token on behalf of the older text, and the next settled poll applies the server's own write, which undoes what REST changed since. The window is narrow: a watcher thread preempted between two calls |
| `tlc -config MCConfigAbandoned.cfg MCConfigLifecycle` | an apply is shed half way, the operator puts the first document back, and the half that landed is never undone: the diff is taken against the baseline, which did not move (`config_watch.rs:873-876`, `1144`) |
| `tlc -config MCGuardedStartup.cfg MCGuardedSource` | with two watched streams the first packet of one starts the ladder, and the other, never recorded, already asks for the slate; `guarded.rs:343-346` speaks of not failing a healthy startup to slate |

Seen while modelling, without an instance of their own:

* A preview with its own clock raises the store's shared prune watermark (`preview.rs:161`, `tile.rs:217`,
  `334-336`), so with two clocks the frame the compositor shows can be pruned. `PictureNeverRegresses` still
  holds: it is then shown a newer one early.
* `read` loads the slot before the instant (`tile.rs:481`; the comment at 350-353 speaks of the other order),
  so an old frame can be classified by a newer instant.
* Sequence number and send are two steps (`isolation.rs:214`; 20-22 says subscribers see them increase), so
  the wire order of two producers can differ from the numbering.
* With every worker wedged, buffered teardowns are not signalled at shutdown (`registry.rs:573-577`).
* Several standbys promote together (`ha/mod.rs:39-41`, `transport.rs:148`), and epochs are per node and never
  adopted (`ha/mod.rs:17-18`, `455`), so a new active need not have the highest epoch. `SplitBrainHeals`
  holds nevertheless. A replication version carries no epoch either (`repl.rs:285`).
* The watcher's `rejected` latch survives a return to the applied content, so the same bad file put back
  unchanged, stamp included, is not reported a second time. A diff with more commands than the bus is deep
  is shed on every retry unless the engine drains during the apply. An operator's file with the text a promote
  announced consumes the announcement, and the promote's own write is then applied as a change, which is
  why `SelfWriteNeverReloads` is stated for runs without an operator's edit. The ticket of a persist
  decides nothing here: content is composed and adopted under one lock and nothing is adopted once the engine
  has stopped, so the write of an aborted persister carries what the final one does.
* The watchdog's hard death is final (`liveness.rs:296-297`): after an end of input that comes back, every
  recovery at an IDR lasts one packet. The slate's audio, if no live audio came before it, starts at zero.

## 7. Not modelled

`PROJECT.json` gives every part with its reason. In short: codecs, demuxing, muxing, GPU composition,
audio arithmetic, FFI, telemetry, WebRTC and protocol servers are I/O or numerics; PTP estimation is over
reals; the configuration schema, core types and the library-only salvo, scheduler and cycling machines are
sequential and unit-tested; authentication is cryptography except for its effect on sessions; HA state
replication has no caller and is sequential. The parts under "Plan" are next.

## 8. Plan

In this order; each new run takes the place of one whose question is settled by then (`source_teardown`
folded into `source_registry`, or a violation the code no longer shows).

1. `ProgramSet` over `EngineRuntime`: start and stop fan-out, bounded joins, and the supervisor's restarts.
2. `Degradation` (`multiview-hal`): the hysteresis ladder and its cooldown under arbitrary load.
3. `Crosspoint` (`engine/migration.rs`): make-before-break moves while packets of both renditions are routed.
4. Reorder buffer and ST 2022-7 reconstruction as algorithms against a reference.
5. Management limits, repositories, licence ladder, mesh, alarms and tally.
6. Overlays and layout in `ConfigLifecycle`; `HaReplication` once something in the binary replicates.

Theorems to prove next, beside those of the modules above: the safety half of each liveness property, that is,
the invariant under which the step its fairness names is possible (the registry's orphan has a worker or a
thread that will signal it; a file nobody has handled leaves a poll that applies or reports it; a session whose
key was revoked has no step that keeps it open past its next check).
