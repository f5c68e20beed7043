# A TLA+ specification of the level2 collector

The collector polls OPC UA servers, keeps the latest value of each tag in
memory, stores changes in TimescaleDB and serves an admin interface through
which operators change the configuration and write values to the PLCs. Almost
everything in it is a goroutine or an HTTP handler that shares state with the
others, and it has to keep collecting through lost links, a lost or full
database, restarts and changes of its own configuration. The modules here
specify that part: who writes which shared state, in which steps, and what is
promised about a sample on its way from the wire to a row.

All paths are relative to the root of the repository.

## 1. The system

```
 OPC UA server                                              TimescaleDB
      |  Read                                                   ^   ^
  runDevice/Subscribe --raw--> FanIn --toHist--> flushLoop -----+   |
      |                          |                  | Enqueue       |
      |                         Live             FileSpool ----> replaySpool
      |                        ^    ^               (disk)
   driver  <--- Hub        display  write handlers
      ^          ^         handlers      |
      |          +---- OnDeviceChanged   +--> driver.WriteValue, ReadValue
      +------------------------------------------------------
   config.Store (generation) <--- configuration handlers
```

| Component | State | Operations | Hard behaviour |
|---|---|---|---|
| Historian leg: `cmd/collector/flush.go`, `internal/spool`, `internal/historian/timescale/historian.go` | buffer of `flushLoop`, files of the spool, table `collector.samples` | receive, flush on size and on tick, spool a failed batch, replay the oldest file, last flush at shutdown | two goroutines share a directory without a lock across their steps; crash between two steps; full spool; a file that cannot be read; an INSERT that was committed and reported as failed |
| Fan-in: `internal/api/fanin.go`, `internal/store/live.go` | `Live`, the two channels | merge a bad sample, compare, update, forward | handlers write to `Live` between `Get` and `Update`; a sample that is suppressed never reaches history |
| Poll loop: `internal/driver/opcua/driver.go` | `client`, `alive`, the context of `Subscribe` | poll, fail, emit bad samples, reconnect, leave | `alive` is also set by readbacks; cancellation in the middle of anything |
| Display reconciliation: `internal/api/live_display.go` | none of its own | mark the tags of a disconnected device bad | status is read before the mark is made |
| Write API: `internal/api/write.go`, `write_verify.go`, `opcua/write_value.go` | none of its own | coerce, write, write again in another width, optimistic publish, readback, publish | publishes beside `FanIn`; the PLC changes the node before the readback |
| Idempotency cache: `internal/api/idempotency.go` | entries by key, the channels waiters wait on | reserve, wait, record, replay, evict, lapse | a retry while the first request runs; a waiter whose entry is gone when it wakes |
| Conversions: `internal/core/coerce_write.go`, `opcua/value.go`, `write_value.go` | none | pure functions | widths, rounding and boundaries |
| Device collection: `cmd/collector/run_device.go`, `main.go`, `internal/runtime/hub.go` | `collectOnce`, `Hub.entries`, goroutines | create, update, bulk change, import, delete; start, reload, return | handlers overlap between their locks; goroutines outlive what they were started for |
| Configuration store: `internal/config/store.go`, `config.go` | devices and tags, policy, generation, file | mutate, save, bump the generation, load with what the environment overrides | a save that fails after the change |
| Configuration handlers: `devices.go`, `tags_bulk.go`, `tag_simulation.go`, `project.go`, `database.go` in `internal/api` | none of their own | create, update, delete, bulk, sync, patch, import, policy | handlers that read, wait and write back |
| Capacity policy: `timescale/capacity_policy.go` | two atomics; the table | set policy, gate, trim | three callers without a lock; sizes that cannot be read, boundaries |
| Wipe: `timescale/wipe.go`, `internal/api/database.go` | table, `Live` | truncate, snapshot, clear, reseed | `FanIn`, polls and the historian leg go on between its steps |
| WebSocket hub: `internal/api/ws.go` | clients, filters | subscribe, broadcast | slow clients under the lock |
| Diagnostics: `internal/diag` | ring buffer, incident window | record, list | limits |

What makes each component correct: the historian leg must not lose what it has
stored, nor what it has spooled while the disk can be read, and must drain; `FanIn` must not leave history behind what
operators see; the poll loop and the display must stop showing a lost device
as good and must recover; device collection must poll the configured tags with
one collector and notice changes; the cache must run a command once and answer
with its own outcome; a write must put into the PLC what was asked for, and
`verified` must mean it; the store must keep on disk what it acknowledged and
tell the collectors; the gate must drop nothing it can keep and let no trim take
the newest samples; a wipe must not leave the table empty.

Left aside: browsing, OpenAPI, authentication, metrics, the web interface,
deployment (section 5 says why). `PROJECT.json` lists every part with its status and
every hazard with its line.

## 2. The modules

| Module | Models | Lines |
|---|---|---|
| `SampleLedger` | the promise of the historian leg: each sample is in one place and moves along a few edges | |
| `FlushSpool` | `flushLoop`, `replaySpool`, `FileSpool`, `WriteBatch` | `flush.go`, `spool.go`, `historian.go` |
| `FlushSpoolProofs` | theorems about `FlushSpool` | |
| `FanIn` | the goroutine `FanIn` and the `Live` store | `fanin.go`, `live.go`, `types.go:38-72` |
| `PollLoop` | `runDevice`'s connect and disconnect, `Subscribe`, `pollOnce`, `pollBatch`, `emitBadSamples`, `watchConfig` | `driver.go`, `run_device.go` |
| `WriteHandler` | `executeWrite`, `verifyWriteReadback`, `WriteValue`, `ReadValue` | `write.go`, `write_value.go` |
| `Collect` | composes the three above with the display handlers | `live_display.go` |
| `CollectProofs` | theorems about `Collect` | |
| `DeviceCollect` | configuration changes, hub, `collectOnce`, collectors of one device | `main.go`, `run_device.go`, `hub.go`, `devices.go`, `store.go` |
| `DeviceCollectProofs` | theorems about `DeviceCollect` | |
| `WriteApi` | `withIdempotency` and the two write handlers around it | `idempotency.go`, `write.go` |
| `WriteApiProofs` | theorems about `WriteApi` | |
| `Conversions` | `CoerceWriteValue`, the second width, `mapDataValue`, `writeVerifyMatch` | `coerce_write.go`, `write_value.go`, `value.go`, `write_verify.go` |
| `WriteValue` | one write to one node: `executeWrite`, `Driver.WriteValue`, the readback | `write.go`, `write_value.go` |
| `WriteValueProofs` | theorems about `WriteValue` and the conversions | |
| `ConfigStore` | `config.Store`, `Load`, and the handlers that change the configuration | `store.go`, `config.go`, `devices.go`, `tags_bulk.go`, `tag_simulation.go`, `project.go`, `database.go` |
| `ConfigStoreProofs` | theorems about `ConfigStore` | |
| `Capacity` | the capacity gate of `WriteBatch` and its trim | `capacity_policy.go`, `status.go` |
| `CapacityProofs` | theorems about `Capacity` | |
| `Wipe` | `handleWipeSamples` beside `Collect`, which it extends | `wipe.go`, `database.go`, `live.go` |
| `WipeProofs` | theorems about `Wipe`, on top of `CollectProofs` | |
| `MCFlushSpool`, `MCDeviceCollect`, `MCWriteApi`, `MCConfigStore`, `MCCapacity`, `MCWriteValue` | the instances that TLC checks | |

The historian leg is modelled twice, from two sides: in `FlushSpool` the gate's
verdict is a choice of the environment, in `Capacity` it is worked out and the
leg is just a caller; so is a write, in `WriteHandler` for its effect on `Live`,
in `WriteApi` for who runs it and in `WriteValue` for the value itself.

### FlushSpool

A sample is an identity and `KeyOf` gives its primary key; a batch is a
sequence of samples; a file is a batch and whether its JSON is complete.
`flushPc` and `replayPc` are the program counters of the two goroutines: each
blocking call (`WriteBatch`, `Enqueue`, `Remove`) ends a step. `Receive`,
`Tick`, `Done` are the three cases of the select; `FlushWrite` is `WriteBatch`
with all it can return; `Enqueue` is `FileSpool.Enqueue` with its three ways to
fail (full, not marshalable, disk) and the truncated file a failed write can
leave; `ReplayTick`, `ReplayWrite`, `ReplayRemove` are one round of
`replaySpool`. `Restart` is a crash or a shutdown followed by a start.

The database is a verdict that the environment changes: `open`, `down`, `halt`
(ErrCapacityHalt), `busy` (ErrCapacityBusy). A `WriteBatch` that finds it open
stores the whole batch unless the primary key forbids it, or one of its samples
is `Unstorable`: a text with a NUL byte, which `mapDataValue` lets through and
Postgres refuses at every attempt. (Bytes that are not UTF-8 are refused once:
`encoding/json` replaces them on the way through the spool.) `Faults` adds
`ackLost`, a committed INSERT that reports an error.

The disk is a set `failing` that the environment changes among `DiskStates`:
while "write" fails, `Enqueue` loses the batch; while "read" fails, `sp.Load`
fails on a complete file as it does on a truncated one, and `replaySpool`
removes either (`Loads`, `RemoveHead`; `flush.go:93-97`); while "remove" fails,
the head stays, as the code ignores that error. A directory that cannot be
listed makes a tick without effect and is left out.

Abstracted: file names are unix nanoseconds, so the directory is a sequence in
the order of creation (a clock that never goes back); the last flush at
shutdown runs with a cancelled context, which lets the gate through and fails
the INSERT.

### SampleLedger

Every sample is `none`, `volatile`, `spooled`, `stored` or `lost`. Stored stays
stored; a spooled sample becomes stored, or is lost in a step in which a spool
file cannot be read (`unreadable`, `Discard`); a volatile one may be lost
only in a step in which the historian or the spool refuses the batch
(`refusing`) or the process restarts. `FlushSpool` implements it under the
mapping `place <- PlaceOf`, `refusing <- Refusing`, `unreadable` for a disk that
fails reads, `boots <- boots`.

### FanIn, PollLoop, WriteHandler, Collect

`FanIn` has three steps because API handlers come in between: receive with
`Live.Get`, merge and comparison; `Live.Update` with the broadcast; the blocking
send. `PollLoop` has the ticker, the Read, the samples one by one, the failure
with its bad samples one by one, reconnect, and the exit on cancellation.
`WriteHandler` has the write, the two publications, and the readback with its
late `alive.Store(true)`. `Collect` adds `DisplayCheck` and `DisplayMark`, which
are `DevHub.Status` and `Live.MarkQualityPreserveTime`, and `Store`, which
stands for the historian leg: it remembers the payload of the last sample it
was given for each tag. `edited` is a history variable: the tags a handler
changed in `Live` since `FanIn` last forwarded a sample of theirs.

Abstracted: times (only the primary key sees them, and that is `FlushSpool`);
the value types (one set of values, one reading that `mapDataValue` refuses);
the batches of a poll (the samples of one poll are read in one step and sent in
any order; a poll may fail between any two of them). Left out: shutdown, a device without enabled OPC tags, a driver replaced by
an update (that is `DeviceCollect`), more than one write or display handler at
a time, a write whose answer is lost (the PLC changing by itself covers it).

### DeviceCollect

One device, as every lookup is by device id. `cfg` is the version of the device
in the store, 0 when it is not configured; `gen` the generation. A handler's
program counter walks through `Store` mutation, `OnDeviceChanged`'s lookup,
`Hub.Upsert`, `LoadOrStore`, `Hub.Entry` and `go runDevice`, or through
`Hub.Remove` and `collectOnce.Delete`. `saveLocked` may fail after the change
was made in memory (`ChangeUnsaved`). A collector connects, reads the
generation, reads the tags, polls, and is cancelled by `watchConfig`. `TagsOf`
says what tags each version of the device has: tags that can be polled; none of
OPC UA (there are none or all are simulated), with which the collector waits for
the next generation and keeps its session (`RunTags`, `RunWake`;
`run_device.go:99-111`); or tags that `Subscribe` refuses at once, as none is
enabled or a node id or a data type is bad (`RunRefused`; `driver.go:119-132`):
then it disconnects and begins again, for as long as they stay. A collector that waits may
sit on a driver an update has disconnected; it connects again when it is woken. `drv` is
the sequence of all drivers ever made; a collector keeps the one it was started
with. `EditStore` is a change of single tags, or of another device: it moves the
generation without `OnDeviceChanged`. `ImportWithout` is an import that
replaces the project and does not name the device: `handleProjectImport`
announces only the devices of the new project, so that the collector, the hub
entry and `collectOnce` of this one stay until it is imported or created again.

`forgets`, `unsaved`, `disturbed` are history variables the properties use.

### WriteApi

A request walks from `new` through the lock of the cache to `run`, or to a
replayed answer, a 409, or to `waiting` for the request whose entry it found.
`Wake` is the return from `<-wait` and the second look; between it and
`ReserveAgain` the lock is given back, as in the code, so that two waiters of a
forgotten entry can both run. An entry is named by the request that made it;
`finished` is the order in which answers were recorded, which is the order they
lapse and are evicted in. A write of a body only counts (`tried`): success and
failure are recorded and replayed alike. Left out: a handler that panics.

### Conversions and WriteValue

Numbers are integers that count halves, floats are rounded to a mantissa and
overflow to an infinity as IEEE 754 has it, and the widths are scaled down so
that their order is kept (section 3). Every conversion gives the set of its
possible results: none is an error, and two results are a conversion that Go
leaves undefined (2^63 to `int64`). `WriteValue` takes one request after
another to one node whose type need not match the data type of the tag; the
server refuses every other type with `BadTypeMismatch`; a write may be lost
with its answer; the program of the PLC may give the node any of the numbers
`PlcValue` that its type holds before the readback. `DateTime` is what a node makes of a time: ticks of
100 ns, cut towards 1970, of the nanoseconds an int64 holds (`UnixNano`), so that a
date before 1677 or after 2262 wraps into another (`Wrapped`); the zero time is
the DateTime that is not set, and `mapDataValue` makes it an empty text
(`value.go:85-88`). NaN and the other encodings of a time are left out.

### ConfigStore

`mem` is `Store.file`, `disk` the YAML file, `gate` the policy the historian
holds. Each method of `Store` is an operator on configurations and each handler
an action that commits one; `Save` is `saveLocked`, which may fail after the
change. Handlers that read first (create, sync, patch, the bulk over all
devices, the PUT of the policy) are begun and ended by two actions with anything
in between. `Restart` loads the file, with the passwords, the policy and the
simulation flag that the environment sets (`Loaded`, `Overridden`). `announced` is what the devices were when
the generation last moved, which is what a collector that reloads on a new
generation gets to see.

### Capacity

Every query and every statement of `enforceCapacity`, `dropOldestUntilUnder` and
`dropOldestChunk` is a step of one of two callers, and other callers store,
delete and drop in between. The table is a set of row times in chunks of fixed
width; `size` grows with rows and does not shrink with a `DELETE`. A query may
fail, sizes may be missing from the list, a drop may fail or be done and reported
as failed, and the bytes of a dropped chunk may be counted for a while. The
percentage and the policy are two atomics. The byte arithmetic is the code's,
with a disk of 20 bytes.

### Wipe

`Wipe` extends `Collect` by the handler: empty the table, snapshot `Live`, clear
it, write the snapshot. `hist` is the last row of each tag in the order of the
writes, so a sample that was already on its way when the table was emptied is
stored after. `edited` and `missed` record which tags the wipe interfered with.

## 3. What is checked

Every property of a passing run has a mutant in `PROJECT.json`: a plausible
slip in a definition, written next to it, under which TLC finds the property
violated.

| Run | Instance | Properties | Distinct states |
|---|---|---|---|
| `FlushSpool` | 4 samples, two with one key, one NaN, one text no table stores; channel 1, batch 2, spool 2, one restart, lost acknowledgements, a disk that fails writes and removals or reads | `TypeOK`, `ReplayHoldsStoredHead`, `ImplementsLedger`, `MemoryDrains`, `DrainsUnlessPoisoned` | 155,000 |
| `CollectReadings` | 1 displayed tag, readings v1, v2, unreadable | `TypeOK`, `HistoryFollowsLive`, `KnownValueKept`, `LinkLossShown`, `LiveSettles` | 331,000 |
| `CollectWrites` | 1 writable tag, one value, unreadable | `HistoryFollowsLive`, `KnownValueKept`, `LinkLossShown`, `LiveSettles` | 349,000 |
| `DeviceCollect` | 2 handlers, 3 changes, after which the tags can be polled, are none, are refused, can be polled | `TypeOK`, `StaleTagsNoticed`, `CollectorsBounded`, `CollectorsSettle`, `CollectedUnlessDisturbed` | 1,075,000 |
| `WriteApi` | 5 requests with 2 keys (a first one, its retry, another body under its key, one with a key of its own, one without), a cache of 1 entry | `TypeOK`, `CommandRunsOnce`, `AnswersOwnCommand`, `EveryRequestAnswered` | 74,000 |
| `ConfigStore` | 2 devices, 2 tags, 2 handlers, 2 requests, both policies, an environment that sets passwords, policy and simulation | `TypeOK`, `DiskHoldsAcknowledged`, `GateFollowsConfig`, `SavedChangesAnnounced`, `StagedEditsAreLocal` | 81,000 |
| `Capacity` | 2 callers, 3 chunks, 2 calls, 1 fault, 1 change of the policy | `TypeOK`, `RefusalsFit`, `TrimsAsConfigured`, `LatestSampleKept`, `TrimIsTight`, `CallsAdvance` | 305,000 |
| `WriteValue` | 67 values of requests, 20 of the PLC, 6 data types, 11 types of nodes | `WrittenAsAsked`, `VerifiedIsHeld`, `MismatchMeansDisturbed` | 203,000 |
| `Wipe` | 1 tag, 1 value, unreadable, wipes beside `FanIn`, the poll loop and the historian leg; no display or write handler | `HistoryFollowsLive`, `HistoryRefills` | 304,000 |
| `SpoolDrains`, `BadReachesHistory`, `StatusReflectsReconnects` | smaller ones | the property of that name, violated | |

What the properties say:

* `ReplayHoldsStoredHead`: the file `replaySpool` removes is the complete one
  it has just stored, whatever `flushLoop` adds and wherever a crash falls.
* `ImplementsLedger`: nothing stored is ever lost; a spooled sample is lost only
  in a step in which spool files cannot be read, and memory only by a refusal or
  a restart.
* `MemoryDrains`, `DrainsUnlessPoisoned`: `flushLoop` always comes back to its
  channel, and a spool empties once database and disk are healthy for good, unless
  its oldest file holds what no table would store: a key that is there, one key
  twice, or a NUL byte.
* `HistoryFollowsLive`: suppression never leaves history behind `Live`, unless
  a handler has written to `Live` since.
* `KnownValueKept`: link loss never erases a value that history has.
* `LinkLossShown`: a server that is gone for good is not shown as good for ever.
* `LiveSettles`: once the PLC holds a reading still and answers, `Live` shows
  it for good: late bad samples, marks and publications heal.
* `StaleTagsNoticed`: a collector with outdated tags holds an outdated
  generation, so `watchConfig` will cancel it.
* `CollectorsBounded`: between two deletions `collectOnce` hands out at most one
  collector.
* `CollectorsSettle`, `CollectedUnlessDisturbed`: when everything rests, every
  collector is at work or has returned, and a configured device has one at work
  unless a delete overlapped another handler, an import dropped it or a save
  failed. At work (`AtWork`) it polls the configured tags over an open session,
  waits for tags while there are none, or tries refused ones again and again.
* `CommandRunsOnce`: of the requests with one key one runs, until an entry of the
  key is evicted or lapses. `AnswersOwnCommand`: an answer is that of a finished
  request with the same key and body. `EveryRequestAnswered`: nobody waits for
  ever.
* `WrittenAsAsked`: an accepted write leaves the number asked for in the node's
  type, in whichever width it was taken. `VerifiedIsHeld`: `verified` is answered
  for a node that holds that number, as far as a sample can tell. `MismatchMeansDisturbed`: a mismatch is
  reported of an honest write only if the PLC changed the node.
* `DiskHoldsAcknowledged`: a start finds what was answered with success.
  `SavedChangesAnnounced`: devices that reach the disk are announced by the
  generation. `GateFollowsConfig`: the historian works with the configured
  policy. `StagedEditsAreLocal`: a handler that writes back what it has read can
  undo a change made meanwhile to what it has read, and changes nothing else.
* `LatestSampleKept`: no trim takes the newest row, also when its plan is stale.
  `TrimIsTight`: a planned drop that finds the chunks as they were listed takes
  none more than the target needs.
  `RefusalsFit`: a batch is refused only over the limit, halted only if nothing
  was freed, under `drop_oldest` with nothing left to free, and told to wait only
  where something was or is in the way: what of this fails after a query that
  failed, or beside another call, is excepted.
  `TrimsAsConfigured`: a trim works with a pair that was configured together.
  `CallsAdvance`: every step of `WriteBatch` brings it nearer to its answer.
* `HistoryRefills`: after a wipe the table comes to have a row of every tag with
  a reading again, whatever `FanIn`, the wipe and its failures did to each other.

### Exceptions

Some properties name states they say nothing of. They are real behaviour of the
code, each found as a counterexample before it was excepted:

* `WrittenAsAsked`, `VerifiedIsHeld`: 2^63 passes the overflow test of
  `coerceInt64` (`coerce_write.go:71`), and what is written then is not what was
  asked for; on amd64 it is even verified. An infinity is nearly equal to every
  number (`write_verify.go:60`), so 1e39 written to a REAL is verified, and so is
  a write of "inf" that the PLC has replaced by 0. A text is compared as far as
  a sample holds it, 4096 bytes. A long whole number reaches a REAL by way of a
  float64 (`write_value.go:187`), rounded twice: the node then may hold a
  neighbour of the nearest float32, which `Held` says.
  A date that the nanoseconds of an int64 do not reach is written as another
  (`WrittenAsAsked`).
* `MismatchMeansDisturbed`: a time with digits below 100 ns never reads back, nor
  does one too far away, nor the zero time 0001-01-01T00:00:00Z, which
  `coerceDateTime` accepts and `mapDataValue` reads as an empty text.
* `RefusalsFit`: a trim whose size query fails (`capacity_policy.go:292-294`)
  counts as one that freed nothing, and the batch is dropped by ErrCapacityHalt
  (`capacity_policy.go:163-167`) with chunks left that could go.
* `ImplementsLedger`: a complete spool file that cannot be read once is removed
  with what is in it (`flush.go:93-97`).
* `CommandRunsOnce`: two waiters whose entry is forgotten before they wake both
  reserve and both write, as the second does not look again.
* `SavedChangesAnnounced`: `SetTagSimulation` saves without moving the
  generation, and takes what an earlier failed save had left in memory along.
* `GateFollowsConfig`: two PUTs may hand their snapshots over in the other order.
* `TrimIsTight`: only where the chunks are as they were listed; two callers
  that plan from the same size drop twice as much.
* `TrimsAsConfigured`: a call between the two stores sees a pair nobody set.
* `HistoryFollowsLive` in `Wipe`: a newer value between `All` and `Clear` ends
  up behind the reseeded row. `HistoryRefills`: a sample `FanIn` was comparing
  when `Live` was cleared is not sent again if the reseed fails too
  (`database.go:287` says the next poll refills), and a wipe that leaves on a
  failed `clear_tags` leaves `Live` uncleared.

### Where code and documents disagree

* `SpoolDrains` (`README.md:99`): a spool file with a key the table has fails
  for ever and holds up every later file. It takes no fault: a source timestamp
  that repeats is enough.
* `BadReachesHistory` (`live_display.go:31-32`): a display handler that marks
  `Live` first makes `FanIn` suppress the bad sample, and history ends good.
* `StatusReflectsReconnects` (`hub.go:79-80`): after an update the hub's driver
  is not the one `runDevice` reconnects.

Four more disagreements were met while modelling. They have no run that
violates them; the properties that come closest except them, above:

* `spool.go:14` calls the spool a store "for later replay". `flush.go:93-97`
  removes the oldest file on any error of `sp.Load`, also one of `os.ReadFile`
  that would be gone at the next tick.
* `docs/db-capacity-policy.md:39` and the comment at `capacity_policy.go:76`
  have a halt under `drop_oldest` only when nothing is left to drop; the document
  adds a size re-check that fails without progress. A size query that fails
  before, in the trim itself (`capacity_policy.go:292-294`), halts the write as
  well, though the re-check succeeds, and the batch is dropped with chunks left. `RefusalsFit` holds with `NothingLeft`
  only for calls without a failure that no other call crossed.
* `docs/opc-write-mode.md:240` promises the same result for the same key and body
  for about ten minutes. An entry evicted from a full cache is forgotten earlier,
  and its retry writes again: `CommandRunsOnce` speaks of remembered keys.
* A write of the zero time is accepted, reaches the node and is answered with a
  mismatch though nobody changed it (`value.go:85-88`, `write.go:563-566`).

### Bounds

Capacities are 1 or 2 instead of 2048, 200 and 5000: what matters is empty,
partly full and full, and a batch of one and of several. Four samples are enough
for a repeated key in one batch and across batches, a batch that cannot be
marshalled, and a spool full before the last batch; one restart is enough to
find any file the crash left, as a restart forgets everything else. One tag
suffices for the protocol of `Live`: `Live`, `FanIn` and the marks treat each tag
by itself, and what another tag's samples do to the channels, filling them and
delaying the next, earlier samples of the same tag do as well. Two values and an
unreadable one let a late sample differ from the current one. `DiskStates` has
three of the eight combinations of failing operations: what replay meets in the
others is met in one of the three, and the theorems hold for any set of them.
The tags a device has come in the order of `MCTagsOf`; a version may be skipped
by a change of another device, so that each kind follows most of the others.
Three changes of the configuration allow delete, create, and a change of tags
or a second delete, by two handlers. Capacities, samples and restarts are not
bounded in the theorems.

One entry in the cache makes every new key evict another; five requests are a
retry, a conflict, an eviction and a bystander. Two overlapping requests show
every pair of configuration handlers; `MaxRequests` counts a begun handler once.
`Capacity` starts from an almost empty, a half full and an over-full table
(`MCStarts`), with one pass, one round and two chunks to a drop instead of 4, 32
and 64, so that each of the limits is reached; the two callers are symmetric
(they are in no constant and no property tells them apart, and none of the
properties is a liveness property). In `WriteValue` the widths are 3 bits for
Int16, 4 for the mantissa of a float32, 6 for Int32, 7 for the mantissa of a
float64 and 9 for Int64: their order is the real one, and the values asked for
lie on both sides of each boundary, whole and not; `Eps` is 12 for 10^6, so that
the tolerance is above the rounding of a float32, as in the code. `TimeSpan` is the
end of the years an int64 of nanoseconds reaches, asked for as one of the dates,
and `ZeroTime` lies before its beginning.

### Fairness

Weak fairness of each goroutine: their tickers fire and the calls they make
return (the OPC UA client, pgx and the file system have timeouts or fail). Weak
fairness of a handler once it has begun: `net/http` runs it to its end. None for
the environment: requests, the link, the PLC, the database, the disk, crashes
and shutdown owe nothing. A write's readback may fail until its timeout: only
the steps that need no server are fair (`WriteOn`). A write request comes to its
end (its calls have timeouts), also while it waits for another; a wipe that has
begun comes to its end (its statements fail or return). `WriteValue`,
`ConfigStore` and `Capacity` state no liveness: that a call of `WriteBatch` ends
is the action property `CallsAdvance`.

Deadlock is not checked for `FlushSpool`, where a process that has stopped for
the last time stays stopped, for `WriteApi`, where all requests are answered in
the end, and for `Capacity`, where the calls are used up. The other models never
stop.

## 4. What is proved

`FlushSpoolProofs`, for every set of samples, every key function, all
capacities and restarts and every set of faults, from `FlushSpoolAssumption`
(capacities are natural numbers, those of the channel and of a batch positive; a
disk without a fault is one of `DiskStates`):

* `TypesAndReplayHold`: `Spec => [](TypeOK /\ ReplayHoldsStoredHead)`. The two
  are one inductive invariant: types alone are not, because `replaySpool` reads
  the head of the spool, which must be known to exist; that it does not change
  under `replaySpool`'s feet rests on files being added behind it
  (`AddFileKeepsHead`).
* `FlushSpoolImplementsLedger`: `Spec => ImplementsLedger`. The inductive
  invariant `IInv` adds that everything in memory, on disk and in the table
  came through the channel (`Accounted`), without which an arrival would not be
  one for the ledger, that nothing is in flight while `flushLoop` selects
  (`FlightIdle`), without which starting a flush would lose the batch before, and
  that a sample is in one place (`OnePlace`), so that removing an unread file
  loses spooled samples and no others.
  `StepKinds` reduces every step to one of a few kinds stated with sets alone;
  `NextLedger` maps each kind to an action of the ledger.

`DeviceCollectProofs`, for any set of handlers and any bound on the changes,
from `DeviceCollectAssumption` (each version of the device has tags of some kind):

* `StaleTagsAlwaysNoticed`: `Spec => [](TypeOK /\ StaleTagsNoticed)`. The types
  carry the half of the argument that no collector has read a generation newer
  than the store's (`gen : 0..gen`), so a saved change makes every generation
  read an old one; `VersionsInv` adds that the generation counts no more than
  the changes, which bounds it.
* `CollectorsAlwaysBounded`: `Spec => []CollectorsBounded`. Strengthened by
  `OnceInv`, which counts a handler between `LoadOrStore` and `go runDevice` as
  the collector it will start.

`WriteApiProofs`, for all requests, keys, bodies and sizes of the cache, from
`RequestsAssumption` (the constants are functions of their kinds, and the two
marks are no requests): `TypeCorrect`, `RunsOnce` and `AnswersOwn`. One
inductive invariant carries the three. `CommandRunsOnce` needs that a request
that ran holds the entry of its key until the key is forgotten (`Held`), and
that a waiter goes on to run only under a forgotten key (`WaitersWait`); answers
need that recorded requests are answered and have tried all their writes or none
(`Recorded`, `Unanswered`).

`ConfigStoreProofs`, for all devices, tags, handlers, requests and environments:

* `DiskCorrect`: `Spec => []DiskHoldsAcknowledged`, by what stripping the
  secrets, loading and overriding do to each other (`PublicLoaded`,
  `OverrideAgain`).
* `ChangesAnnounced`: `Spec => SavedChangesAnnounced`. `SavedInv` keeps the
  devices on disk equal to those in memory, without their secrets, unless a save
  failed: so the one method that saves without moving the generation finds
  nothing new to save.
* `GateCorrect`: `Spec => []GateFollowsConfig`, strengthened by
  `PutsHoldPolicy`: a handler about to hand a policy over holds the configured
  one, unless a PUT was torn. Every other step leaves the policy alone.

* `ConfigTypes`: `Spec => []TypeOK`. `TypesInv` joins what is stored
  (`StoreTypes`) and what a begun handler carries (`JobTypes`); the lemmas about
  `Over` and `Put` say that edits of configurations are configurations.
* `EditsLocal`: `Spec => StagedEditsAreLocal`, action by action (`Local`): the
  tags a handler writes back differ from those in memory only in fields its
  request names, or in what it has read.

`:>` and `@@` of the module TLC have no meaning to the provers: `ConfigStore`
builds its functions with `Over` and `Put`, defined with sets and quantifiers.

`CollectProofs`, for all sets of tags and values, capacities of the channels,
readings and displayed or writable tags, from `FanInAssumption`, `NoneAssumption`
and `CollectAssumption` (the marks are no values and no samples):

* `CollectTypes`: `Spec => []TypeOK`. `TypeInv` adds that what goes through the
  channels is never good without a value (`Fresh`).
* `HistoryFollows`: `Spec => []HistoryFollowsLive`. The property speaks of a
  quiet `FanIn` and an empty channel; `FollowInv` says it of every state: once
  the channel is drained, the historian holds the payload of `Live` (`LastIn`)
  for every tag no handler has touched, counting the sample `FanIn` is about to
  send; and a sample found unchanged still is what was forwarded last.
* `ValuesKept`: `Spec => KnownValueKept`. A tag whose value history has, or will
  get from the channel, has one in `Live` and in the sample `FanIn` has merged,
  and no sample on its way takes it back (`ValueInv`); a write handler only
  holds samples with a value (`WritesValue`).

`WipeProofs`, under the same assumptions:

* `FollowsBesideWipe`: `WipeSpec => []HistoryFollowsLive`. `WipeInv` is the
  invariant of `Collect` with the type of the snapshot; the steps of the wipe
  change `Live` and history only for tags they own up to in `edited`, and that is
  all that `FollowEdited` asks of a step.

`CapacityProofs`, for any set of callers, chunk width, limits, volumes,
settings and faults, from `CapacityAssumption` (positive widths and limits; the
size of some volume is known or the environment states one). Each action has a
lemma that says what it does to its call (`GateMoves`, `ListMoves`, ...); all the
invariants are proved from those.

* `TypesHold`: `Spec => []TypeOK`, from `TypeInv` (each row has its chunk) and
  `RoundsInv` (a call in the middle of a pass has not used up its passes).
* `CallsAlwaysAdvance`: `Spec => CallsAdvance`: a measure of stage and pass.
* `TrimsConfigured`: `Spec => []TrimsAsConfigured`. `ConfiguredInv`: the two
  atomics were configured together unless a store is under way, and a call
  between its loads holds the current percentage unless it was crossed.
* `LatestAlwaysKept`: `Spec => LatestSampleKept`. `SparingInv`: whatever a call
  has decided to drop ends at or before a row that is there, also after another
  caller has dropped or stored; so the newest row survives a stale plan.
* `EndsFit`: `Spec => []RefusalsFit`. `Fits` ties a verdict to the size read last
  and removals to progress; `Effective` says that an unhindered call in a table
  of several chunks finds one to drop and ends below the limit, and `Spent`
  that an unhindered one which frees nothing has fewer than two rows left.
* `TrimsTightly`: `Spec => TrimIsTight`. `TightInv` keeps the plan: without its
  last chunk the target was not reached. Sums over chunks are folds over finite
  sets, of which the provers know nothing: that they exist, are natural numbers
  and grow by one element at a time is proved from the definition of the fold
  by a minimal counterexample (`SumExists`, `BytesType`).

`WriteValueProofs`, for all widths, requests, types of nodes and values the PLC
may write:

* `AcceptedIsAsked`, `VerifiedIsRight`, `HonestWritesRead`:
  `Spec => []WrittenAsAsked`, `[]VerifiedIsHeld`, `[]MismatchMeansDisturbed`. One
  inductive invariant: what is written is the coerced value or one that
  `retryValueForTypeMismatch` made of it, what is expected was made of the
  coerced value (`Attempt`); until the PLC changes it the node holds what was
  written (`StoredInv`); what a readback said was said of the node as it is
  (`ReadInv`). The lemmas `Coerced` and `Retried` say what the conversions do,
  `ReadsBack` that they match the readback in a tag of the node's type, and
  `DateTimes` that a DateTime holds just the times that are whole ticks in reach,
  and the zero time.

They assume `WidthAssumption` and `RoundingAssumption`. The second states the
laws of IEEE 754 that are used of `Float32` and `Float64`: rounding is
idempotent, a float32 is a float64, 0 and 1 are exact, the largest int64 is
rounded up, and a float32 is within the epsilon of the readback. The definition
of rounding in `Conversions` is by powers of two, about which the provers know
nothing; that it obeys the laws is evaluated by TLC, for every number of the
instance, on each run of `WriteValue`.

Only model-checked: all liveness (`MemoryDrains`, `DrainsUnlessPoisoned`,
`LinkLossShown`, `LiveSettles`, `CollectorsSettle`, `CollectedUnlessDisturbed`,
`EveryRequestAnswered`, `HistoryRefills`), as fairness and ENABLED are out of
TLAPS's reach. Every invariant and action property of the runs is proved.

## 5. Not modelled

* WebSocket hub: one mutex around the clients; a broadcast is one step of
  `FanIn` and changes nothing that others read. A slow client delays it by two
  seconds and is then dropped: a delay, and listed as a hazard.
* Diagnostics, incidents, metrics: counters and a ring behind one mutex each,
  read for display only.
* Backoff and readiness: a delay that doubles to a limit (reconnecting may happen
  at any time in `PollLoop`), and a predicate over `Hub.Status`.
* Browse and expand: requests to the server that change nothing; the tags they
  find enter through the handlers of `ConfigStore`.
* Spreadsheets and project files: formats. Import enters `ConfigStore` with the
  tags it has parsed.
* Simulation drivers: a source of samples like `PollLoop` without a link.
* Authentication: a decision per request without state.
* Web interface and deployment: clients and files.
* A wipe empties the table under a trim: `TRUNCATE` is not among the steps that
  `Capacity` interleaves, so a plan older than a wipe and its reseed is not
  checked. `Wipe` has no display and no write handlers beside it.
* Within modelled parts: NaN (it makes `encoding/json` fail and a payload differ
  from itself; `FlushSpool` has it as a batch that cannot be marshalled), the
  encodings of a time, handlers that panic, the split of a poll into batches,
  values of a configuration file that only the next `Load` refuses.

The composition of the gate with `FanIn` (a batch the gate dropped was counted
as sent by `Live`) is not checked as one model: the product of `Capacity` or
`FlushSpool` with `Collect` is beyond TLC at any bounds at which both have their
interesting cases.

## 6. Plan

In this order:

1. Steps towards the liveness properties that are safety: what a process that
   is not at rest can always do (`Flush` and `ReplayTick` in `FlushSpool`, `Wake`
   in `WriteApi`), as invariants that name the enabled step.
2. Two devices in `DeviceCollect`, for the bulk change over all of them.
3. The laws of `RoundingAssumption` from a definition of rounding without powers
   of two.
