# TLA+ models of the Dragonfly shard storage engine

This directory holds TLA+ models of the code under `src/`. They are checked
with TLC. `PROJECT.json` lists the components, runs, mutants, the map from
each definition to its source lines, findings and hazards.

## The system

A Dragonfly shard is one thread that runs many cooperative fibers. The code
under `src/` has these parts:

| Part | Source | Role |
|---|---|---|
| DbSlice | `server/db_slice.cc` | Owns the prime table (dash buckets, each with a *version*), the expire and mcflag tables, the memory budget, eviction, expiry, flushes, watches, and the change-callback registry (`change_cb_`, `serialization_latch_`). |
| SliceSnapshot | `server/snapshot.cc` | Serializes one shard. In point-in-time mode it saves every bucket whose version is below `snapshot_version_` exactly once, by traversal or by side-saving from a change callback. It also streams journal entries into the same serializer for replication. |
| ChannelStore | `server/channel_store.cc` | Pub/sub subscriber maps, updated copy-on-write (RCU) and read without locks by every thread. |
| String family | `server/string_family.cc` | SET/GET/INCR/MSET… over DbSlice, with journaling for replicas. |
| StringSet, SortedMap | `core/` | Data structures. |
| Command registry | `server/command_registry.cc` | Startup configuration. |

How snapshotting and mutation interact:

1. `SliceSnapshot::Start` registers a change callback. The id it gets is
   `NextVersion()`, and that id is the snapshot version.
2. Every mutation first runs `CallChangeCallbacks`:
   - `PreUpdateBlocking` does this for an existing key, `AddOrFindInternal`
     for a new one;
   - each callback takes the snapshot's `big_value_mu_` and side-saves the
     affected bucket(s) if their version is below the snapshot version;
   - after the callbacks, the mutation bumps the bucket to `NextVersion()`.
3. The traversal fiber locks `big_value_mu_` per bucket. Before saving a
   bucket itself, it lets older snapshots save it
   (`FlushChangeToEarlierCallbacks`).
4. `SerializeBucket` raises the bucket version first, then writes the
   entries. It may suspend between entries, because a big value flushes to
   the consumer.
5. The serialization latch counts fibers inside these critical sections.
   `UnregisterOnChange` waits for it to drop to zero.
6. Journal entries reach the snapshot through `ConsumeJournalChange`, which
   also takes `big_value_mu_`. Expiry (`ExpireIfNeeded`) journals first and
   then deletes, without any change callback.

## Modules

### `SliceSnapshot.tla`: snapshot versioning against mutations (core)

**State**
- `table`/`loc`: key → value and key → bucket.
- `ver`: bucket versions. `nextVersion`: `DbSlice::version_`.
- `changeCb`: `change_cb_`. `latch`: `serialization_latch_` holders.
- `jlock`: fibers iterating the journal callbacks.
- Per snapshot: `snapVer`, `phase`, `cursor`, `mu` (`big_value_mu_` holder),
  `stream` (rdb records and journal entries).
- `tpc`/`tcb`: where the traversal fiber is inside `BucketSaveCb` and
  `FlushChangeToEarlierCallbacks`.
- `ser`: the `SerializeBucket` in progress for each fiber.
- `cmd`: each command fiber's position, including the bucket iterator it
  captured and the loop `limit`.
- `running`: the fiber the shard thread is running.
- `flush`: each `FlushSlotsFb` fiber's phase, registered version
  (`next_version`) and traversal cursor.
- Ghosts: `image` (the table when each snapshot registered) and `lost`
  (keys that expired, or that a slot flush deleted, before the snapshot
  saved them; spec P3 allows both).

**Actions**

| Actions | Code |
|---|---|
| `Start`, `RegisterJournal` | `SliceSnapshot::Start` |
| `BucketSaveCb`, `SaveOwnBucket`, `OwnBucketSaved` | `BucketSaveCb` and the `IterateBucketsFb` loop |
| `FlushChangeToEarlierCallbacks`, `EarlierSaved` | its loop, one callback per step |
| `StartSerialize`, `SerializeEntry`, `SerializeDone` | `SerializeBucket` / `SerializeEntry` |
| `UnregisterOnChange`, `FinalizeJournalStream` | same names |
| `FindMutable`, `AddOrFind`, `ExpireIfNeeded` | command entry points |
| `EnterCallbacks`, `CallChangeCallbacks` (= `OnDbChange`), `CVCUponInsert`, `OnDbChangeDone` | the callback loop |
| `PreUpdateBlocking`, `InsertNew` | the mutation and version bump |
| `JournalRecord`, `ConsumeJournalChange`, `JournalDone` | journaling and the expiry's deletion |
| `FlushSlotsStart`, `FlushTraverse`, `FlushUnregister` | `DbSlice::FlushSlots` / `FlushSlotsFb`: register, one bucket per yield, unregister after the latch |
| `IterateBuckets` | `iterate_bucket`: delete the flushed slots' entries of buckets below `next_version` |
| `CallFlushCallback` | the flush's `on_change`, called from a command's callback loop; `FlushChangeToEarlierCallbacks` calls it for an older flush too |

**Scheduling.** Fibers are cooperative. A fiber keeps the thread (`running`)
until one of two things happens:
- it waits for a held lock (`Blocked`, `Suspend`): `big_value_mu_`, the
  latch in `UnregisterOnChange`, or the journal lock;
- it reaches a point where the code can suspend: after a serialized entry
  (big-value flush), or after a bucket (`PushSerialized`/`Yield`).

Steps between those points are atomic, as they are in the code. Without
this, TLC reports orderings the code cannot produce. For example, a command
would be preempted between an empty `CallChangeCallbacks` and `InsertNew`.

**Abstractions**
- Values are model values.
- Buckets are a short line, traversed in order.
- An insert may land in either candidate bucket of its key and may move one
  key between candidate buckets. This is the dash displacement that
  `CVCUponInsert` covers; dash itself is not in `src/`.
- One database index.
- Each serialized record is appended atomically; the byte-level flush
  ordering is not modelled.
- Commands hold their key for their whole run (`KeyFree`), as the
  transaction locks do.
- Journal callback lock (the journal is not in `src/`): appenders hold it
  shared, and registering or unregistering a journal callback takes it
  exclusively. This follows the comment in `SwitchIncrementalFb`
  (snapshot.cc:236-242). With an exclusive lock that another fiber can grab
  first, TLC finds journal entries ahead of rdb records.

**Slot flush.** `FlushSlotsFb` is the second owner of a change callback.
It registers with `RegisterOnChange` (no latch wait), deletes the entries of
the flushed slots (`FlushKeys`) in buckets whose version is below its own,
one bucket per yield, and unregisters after the latch. Its callback is run
by commands before they bump a bucket and by snapshots in
`FlushChangeToEarlierCallbacks`. Cluster routing (not in `src/`) keeps
commands off the flushed slots while the flush runs (`Routed`).

**Properties**
- `TypeOK`.
- `RdbPointInTime`: every rdb record holds the value its key had when the
  snapshot registered.
- `RdbExactlyOnce`: no key is serialized twice into one snapshot.
- `SnapshotComplete`: once traversal is over, every key present at
  registration has been serialized, unless it expired first.
- `JournalAfterRdb`: the ordering promised above `ConsumeJournalChange`.
- `SnapshotTerminates`: a started snapshot reaches `finished`. This is a
  liveness property.
- `FlushSlotsComplete` (spec P8): once the flush unregistered, no key of
  the flushed slots is left. TLC finds it violated (see Findings).
- `PointInTimeRefined`: `SliceSnapshot` implements `PointInTimeSnapshot`
  (below) under the mapping `db <- table`, with `registering` and
  `traverse` mapped to the abstract `open`. The four invariants above are
  consequences of it. Beyond them it also checks the following:
  - the image and the lost keys only change as the abstract steps allow;
  - no record reaches a stream after `FinalizeJournalStream`, which is what
    waiting for the journal's callback lock buys;
  - the traversal ends only when nothing is owed.

### `PointInTimeSnapshot.tla`: what a snapshot promises

An abstract specification of one shard's snapshots in which every step is
atomic. Its variables are:
- `db`: the table;
- `phase`: `idle`, `open`, `finished` or `done`;
- `image`: the table at registration;
- `lost`: image keys deleted without a callback before they were emitted;
- `stream`.

Its actions:
- `Register` fixes the image.
- `Emit` writes the rdb record of a key still owed, carrying its image value.
- `Log` appends a journal record while the snapshot is open or finished. A
  command's record (`jrnl`) of a key that is still owed is never allowed;
  an expiry record (`jexp`) is, because `ExpireIfNeeded` journals before it
  deletes.
- `Write` changes the table freely.
- `Drop` deletes keys without a callback and marks them lost.
- `Finish` requires that nothing is owed.
- `Close` ends the stream.

It has no code of its own: it states spec 4.C's point-in-time promise and
the comments above `ConsumeJournalChange` and `FlushChangeToEarlierCallbacks`.

### `DbTables.tla`: key tables and the string commands

**State.** `db` holds three tables of one database and a crash flag:
- `prime`: key → `[val, exp, flag]`, where `exp` and `flag` are the
  has-expire and has-mcflag bits of the `PrimeValue`;
- `expire`: key → absolute deadline (0 = no entry);
- `mcflag`: key → memcache flag (0 = no entry);
- `crashed`: a failed `CHECK`.

`now` is the shard clock, `journal` the records appended, `ops` the client
commands run.

**Handlers as operators.** Each handler is an operator from a database state
to `[db, recs, status]`. A shard callback never suspends, so one command is
one step (`JournaledCommand`, `ExternalCommand`).

| Operators | Code |
|---|---|
| `FindInternal`, `ExpireIfNeeded`, `LookupResult` | `DbSlice::FindInternal`, `ExpireIfNeeded` |
| `AddOrFind`, `AddOrFindAfter`, `OomChoices` | `AddOrFindInternal` (store-mode OOM) |
| `SetCmdSet`, `SetCmdDecide`, `SetExisting`, `SetCmdAddNew` | `SetCmd::Set`, `SetExisting`, `AddNew` (NX/XX/GET/KEEPTTL/EX/PX/EXAT/PXAT) |
| `OpMSet`, `MSetLoop`, `MSetStep` | `OpMSet`: stops at the first failed pair and journals the prefix |
| `GetExCmd`, `Gat`, `FindKeyAndSetExpiry`, `ExpireCmd`, `GetDelCmd`, `GetCmd` | GETEX, GAT, EXPIRE family, GETDEL, GET |
| `SetNxCmd`, `GetSetCmd`, `SetExGeneric` | SETNX, GETSET, SETEX/PSETEX (a TTL below 1 is rejected) |
| `MSetNxCheck`, `MSetNxAfter`, `MSetNxCmd` | MSETNX: skips every pair when one key exists |
| `ExtendGeneric`, `OpExtend`, `ExtendExisting`, `ExtendOrSkipAfter` | APPEND/PREPEND over Redis (creates the key) and memcache (skips a missing key) |
| `SetRangeCmd`, `OpSetRange`, `SetRangeStr`, `OpStrLenAfter` | SETRANGE: pads with `\0`, an empty range replies STRLEN |
| `AutoJournal` | the transaction's auto-journal: a command without `NO_AUTOJOURNAL` is journaled as itself when its callback returns OK (spec-modelled: `transaction.cc` is not in `src/`) |
| `UpdateExpire`, `Calculate`, `AddExpire`, `RemoveExpire` | `DbSlice::UpdateExpire`, `ExpireParams::Calculate` |
| `AddOrUpdateInternal` | `DbSlice::AddOrUpdate` (callers outside `src/`) |
| `DeleteExpiredStep`, `Heartbeat` | the heartbeat's expiry sweep |
| `ExecuteRecord`, `ReplicaSet` | executing a journal record on a replica (spec-modelled: the executor is not in `src/`) |

**Abstractions.**
- Keys and flags are model values. A value is a string: a function from
  `1..n` to the characters `Vals` and `Nul` (the `'\0'` SETRANGE pads
  with), with `n <= MaxLen`. Commands are given one-character words; a
  command whose result would be longer than `MaxLen` (3) is not explored
  (`Fits`). SETRANGE offsets are `Offsets = {0, 2}`, so an offset past the
  end (padding) and one inside the string both occur.
- Deadlines are absolute milliseconds with an expire base of 0.
- Versions and change callbacks are left out; they are in `SliceSnapshot`.

**Properties.**
- `TypeOK`.
- `TablesConsistent`: a key has an expire entry exactly when it has the
  has-expire bit, and the mcflag bit implies an mcflag entry (spec I1/P1).
- `ExpiredKeysRemoved`: every due expire entry is eventually removed
  (liveness).
- `NoCheckFailure`: no `CHECK` fails. It is not in any run of its own; on
  the `tables_add_or_update` trace it breaks two steps after
  `TablesConsistent`.

**Fairness.** `DeleteExpiredStep(k)` is weakly fair for every key. The
heartbeat keeps running, and its cursor visits every entry.

### `Replication.tla`: a primary and its replica

`Replication` instantiates `DbTables` twice:
- `P` is the primary, journaling into the replication `stream`;
- `R` is the replica (`IsReplica`, no journal).

Actions:
- `PrimaryCommand`: a journaled command on the primary.
- `PrimaryHeartbeat(k)`: the primary's expiry sweep.
- `Tick`: the clock moves on.
- `ReplicaApply`: the replica executes the head record with
  `R!ExecuteRecord`.
- `Quiescent`: nothing is left to do.

The replica never expires keys itself and has no memory limit, as the code
says.

`PrimaryCommand` is `P!JournaledCommand`: memcache APPEND/PREPEND
(`MemcacheCommand` in `DbTables`) is left out. On a missing key
`ExtendOrSkip` returns `false` with an OK status, so by the auto-journal
rule it is journaled as `APPEND k v`, which a replica executes as the
Redis command and so creates the key. That rule is in `transaction.cc`,
outside `src/`; the divergence is recorded as a hazard with a note rather
than checked.

**Property.** `ReplicaAgrees`: once the stream is empty, the replica has
the primary's value, deadline and mcflag for every key that has not expired
on the primary.

**Assumption.** `LagAllowed = FALSE`: the clock does not move while records
are in flight. With `LagAllowed = TRUE` TLC finds a divergence: deadlines
are journaled as absolute times, so a late replica deletes a key that a
later record persists. Redis replicas behave the same way, so this is
recorded as a hazard with a note, not as a finding.

**Fairness.** `ReplicaApply` and the heartbeats are weakly fair.

### `ChannelStore.tla`: the pub/sub RCU store

**Heap.** Objects live on a heap, indexed by allocation id:
- `stores`: `ChannelStore` objects;
- `maps`: `ChannelMap`, channel → slot;
- `submaps`: `SubscribeMap`, a set of connections.

A new object extends a function with `@@ (id :> v)`. `live` holds the ids not
yet deleted, so a read of freed memory and a leak are both state
predicates.

**Shared state.**
- `mostRecent` is `control_block.most_recent`.
- `mu` is `update_mu`.
- `local[t]` is each thread's `ServerState` store pointer.

**Actions**

| Actions | Code |
|---|---|
| `ChangeSubscription` | the connection records the keys that changed (spec-modelled: `ConnectionContext` is not in `src/`) |
| `ApplyLock` (`GetTargetMap`, `MissingKey`) | `Apply`: lock, load, copy when a slot is added or removed |
| `Modify` (`ModifyAfter`, `Replacement`) | one key: add a slot, drop a last-subscriber slot, or swap the slot to an updated copy; the old `SubscribeMap` goes to the freelist |
| `ApplyPublish` | build the replacement store, publish, unlock |
| `ApplyBrief(c, t)` | the `AwaitBrief` callback on thread `t` |
| `ApplyFree` | delete the replaced map, store and freelist |
| `MigrationRecord` | `UnsubscribeAfterClusterSlotMigration`: record channels of deleted slots from the thread's own store |
| `MigrationLock` | `ApplyAndUnsubscribe` up to the fetch of subscribers |
| `MigrationHop(t)` | the `AwaitFiberOnAll` callback: tell subscribers, reload the store |
| `MigrationFree` | the deletes after the hop |
| `FetchSlot`, `Fill` | `FetchSubscribers`: the slot lookup, then `Fill` reading the `SubscribeMap` |

**Scheduling.**
- Threads run in parallel.
- A brief or hop on thread `t` waits for a `FetchSubscribers` in progress on
  `t`, because that call is never preempted.
- The migration fiber likewise does not run during a fetch on its own
  thread.

**Properties.**
- `TypeOK`: includes the `DCHECK` that a slot's `SubscribeMap` is never
  empty.
- `MemorySafe`: everything reachable from any thread's store or from
  `most_recent`, and every `SubscribeMap` a reader holds, is live.
- `NoSharedResize`: no map that a reader may iterate gains or loses a slot.
- `SubscriptionsAgree`: when no update is in flight, each connection's own
  subscription set equals what the store holds for it.
- `NoLeak`: when no update is in flight, exactly the objects reachable from
  `most_recent` are live.
- `NoInvalidIterator`: no `find()` result of `end()` is dereferenced.
- `UpdatesComplete`: every started update finishes (liveness).

**Fairness.**
- The updater steps and `Fill` are weakly fair.
- `ApplyBrief`, `MigrationHop` and `MigrationLock` are strongly fair. A
  brief queued on a thread runs between that thread's fibers, however
  often readers run there; with weak fairness alone, TLC shows a reader
  looping on the thread and starving the brief forever.
- Subscribes and migrations come from clients and carry no fairness.

**Abstractions.**
- One slot per channel; a migration names the channels it drops.
- Patterns are keys like channels, with no glob matching.
- `SendMessages` and its memory budget are left out.
- The connection's reaction to the unsubscribe message is applied in the
  hop itself.
- `FetchSubscribers` returns the channel's subscribers and those of the
  matching pattern. A pattern subscriber fails `DCHECK(it->pattern.empty())`
  in `UnsubscribeConnectionsFromDeletedSlots` in a debug build. The model
  follows the release build, where that subscriber gets the same unsubscribe
  from the channel.

### `IncrBy.tla`: INCR, INCRBY, DECR, DECRBY

`int64_t` is modelled at width `W`, and every addition, subtraction and
negation the code performs wraps (`Wrap`).

**State.**
- The key holds: nothing, an integer, a non-integer string (`Str`), or
  another type (`List`).
- `reply` is the reply to the last command.
- `intent` is a ghost: the exact increment the command asked for.

**Actions.**
- `Incr`, `Decr`, `IncrBy`, `DecrBy`: through `IncrByGeneric` and
  `OpIncrBy`, including the memcache skip-on-missing path and an OOM in
  `AddNew`.
- `Set`: another client's SET, which changes the value between commands.

**Properties** (both are action properties):
- `IncrNeverWraps`: a numeric reply, and the stored value, are exactly the
  old value plus `intent`.
- `IncrOverflowExact`: an overflow reply leaves the value alone. It is
  given only when the exact sum does not fit, or for `DECRBY INT64_MIN`,
  whose argument cannot be negated.

### `Eviction.tla`: memory accounting, eviction and the memory budget

One shard, in cache mode (eviction allowed) or store mode (`cache_mode`
off), with two clients that run SET, MSET and DEL as transactions. A
transaction takes its key locks (`trans_locks`), runs one hop per command,
and releases the locks at the end. Between its hops the shard runs other
transactions and its heartbeat.

**State.**
- `shard.prime`: per key, absent or an entry with a value, the sticky flag
  and its expiry (`none`, `live`, `due`).
- `shard.capacity`: the table's slots; one segment of `SegCap` slots at
  the start.
- `shard.budget`: `memory_budget_`; `shard.objMem`: `obj_memory_usage`.
- `shard.replica`: the keys that the journal records leave alive on a
  replica.
- `locks`, `ops` (hops so far, bounded by `MaxOps`), and the ghost `last`
  (who took the last step).

**Actions and operators.**
- `Lookup`/`ExpireKey`: `FindInternal` expires a due key lazily, journaling
  the deletion first (`RecordExpiryBlocking`) and then `PerformDeletion`.
- `AddNewKey`: `AddOrFindInternal` for a new key. In store mode it refuses
  with OOM when the budget cannot take the key; otherwise `InsertNew`
  takes a free slot, or grows by a segment when `CanGrow` says so, or
  runs `GarbageCollect` on the hot buckets, or `Evict` on the last stash
  slot, or fails with OOM (the order of dash's `InsertNew`, which is
  outside `src/`). Which keys are in the hot buckets and which key sits in
  the stash slot are a nondeterministic choice (`InsertChoices`).
- `Evict` skips a sticky key or one in `trans_locks`, journals the
  eviction and deletes.
- `SetExisting` runs `ReduceHeapUsage` and the `AutoUpdater` accounts the
  new value; `AddNew` assigns a fresh entry; `STICK` sets the flag and
  `PX` a deadline.
- `MSet`: `OpMSet` sets both pairs in one hop; the second insertion may
  evict. It journals only the pairs that were set.
- `DEL`: `DbSlice::Del` removes the key; its journal record
  (`JournalDel`) is the transaction's auto-journal, which is outside
  `src/` and is modelled from the spec.
- `Heartbeat`: `FreeMemWithEvictionStepAtomic` picks up to
  `MaxEvictPerHb` eligible keys (present, not sticky, with heap bytes, not
  locked) until the goal is met, deletes them, then journals them.
- `Lapse`: a deadline passes.

**Properties.**
- `ObjMemoryExact`: `obj_memory_usage` equals the heap bytes of the keys
  and values in the table, through every path above.
- `EvictionsReplicated`: the keys alive on the replica are exactly the keys
  in the table; every deletion path journals its key and no later record
  resurrects an evicted one.
- `StickyNeverEvicted` (action): a sticky key whose deadline has not passed
  disappears only by a DEL of the transaction that holds its lock.
- `LockedKeysStable` (action): a key locked by a transaction that has not
  lapsed changes only in that transaction's own hops; neither another
  transaction's eviction nor the heartbeat touches it.

No fairness: the model checks safety only; heartbeat and eviction may
happen, nothing requires them to.

## Runs

| Run | Config | Bounds | Result |
|---|---|---|---|
| `snapshot_pit` | `MC_SliceSnapshot.cfg` | 2 keys (same home bucket, so inserts displace), 2 buckets, 2 snapshots, 1 command fiber, 1 slot flush of k2, 2 commands or flush starts | pass: the six properties and `PointInTimeRefined`, about 1.6M distinct states (3 min) |
| `snapshot_flush_race` | `MC_SliceSnapshot_FlushRace.cfg` | 1 snapshot, 1 command, 1 flush of k2's slot, both keys in the last bucket | violation of `FlushSlotsComplete` |
| `tables_consistent` | `MC_DbTables.cfg` | 2 keys, 1 value, 1 flag, TTLs {1,2}, GAT times {1,4}, `AddOrUpdate` at 2, clock to 3, 6 commands, OOM allowed, strings up to 3 characters, offsets {0,2} | pass: `TypeOK`, `TablesConsistent`, `ExpiredKeysRemoved`, about 66K states |
| `tables_add_or_update` | `MC_DbTables_AddOrUpdate.cfg` | as above, `AddOrUpdate` without expiry, 4 commands | violation of `TablesConsistent` |
| `replica_agrees` | `MC_Replication.cfg` | 2 keys, TTLs {1,2}, GAT times {1,4}, clock to 3, strings up to 3 characters over one character, offsets {0,2}, 2 commands, OOM allowed | pass: `TypeOK`, `ReplicaAgrees`, about 770K states |
| `replica_gat_persist` | `MC_Replication_GatPersist.cfg` | GAT time {0} | violation of `ReplicaAgrees` |
| `channel_store_apply` | `MC_ChannelStore.cfg` | 2 threads, 1 connection each, 1 channel (and the same key as a pattern), 3 commands, no migration | pass: `TypeOK`, `MemorySafe`, `NoSharedResize`, `SubscriptionsAgree`, `NoLeak`, `UpdatesComplete` |
| `channel_store_migration` | `MC_ChannelStore_Migration.cfg` | 2 channels, 2 subscribes, 1 migration on thread 1 | pass: `MemorySafe`, `NoLeak`, about 750K states |
| `channel_store_migration_lost` | `MC_ChannelStore_MigrationLost.cfg` | as the migration run | violation of `SubscriptionsAgree` |
| `channel_store_migration_crash` | `MC_ChannelStore_MigrationCrash.cfg` | 1 channel, unsubscribes allowed, 1 migration | violation of `NoInvalidIterator` |
| `incr_exact` | `MC_IncrBy.cfg` | `W = 4`: every value in -8..7, every argument, both protocols, OOM | pass: `IncrNeverWraps`, `IncrOverflowExact` |
| `eviction_safe` | `MC_Eviction.cfg` | 2 keys (one with a heap name), a big and a small value, 2 clients, one-slot segments, budget for one more segment or none, cache or store mode, 4 hops | pass: `TypeOK`, `ObjMemoryExact`, `EvictionsReplicated`, `StickyNeverEvicted`, `LockedKeysStable`, about 180K states |

**Why these bounds are enough.**
- Snapshots:
  - Two snapshots are the fewest that exercise
    `FlushChangeToEarlierCallbacks` and the ordering of callbacks.
  - Two keys sharing a home bucket give displacement, and side-saving of a
    bucket that holds another key.
  - One command fiber runs two commands, or a command and a flush start.
    That lets a snapshot start between mutations, and lets snapshots
    traverse while the command is suspended in its callbacks. A second
    command fiber is not in the run, because the state space grows too far.
    So an insert by another fiber that displaces a suspended command's key
    (`db_slice.cc:1172`) is not exercised.
  - A flush counts against the same bound of 2 starts, so in `snapshot_pit`
    a flush overlaps a snapshot's traversal and its deletions reach
    `FlushChangeToEarlierCallbacks` and a command's callback loop; every
    flush action fires there. With 3 starts the state space grows past
    7M states.
- Tables: two keys, two TTLs and a clock to 3 reach every handler path. This
  includes a deadline that passes between commands, lazy and active expiry,
  and OOM after the lookup.
- Channel store:
  - Two threads with one connection each are the fewest where a brief,
    a reader and a second updater can race.
  - Three commands on one channel reach in-place swaps, copies, and an
    unsubscribe overlapping a subscribe.
  - Two channels let one command copy the map for one key and swap
    another key in place. The lost-notification finding needs exactly
    that.
- Incr: width 4 keeps both bounds, zero and `INT64_MIN` in reach. The guard
  is the same expression at any width.
- Eviction: with one-slot segments every second insertion meets a full
  table, so growth, the store-mode refusal, garbage collection and
  eviction (of a sticky, a locked or a free key) all happen within 4
  hops; two clients let an MSET evict a key another transaction holds,
  or its own first key.
- The passing runs between them fire every action and every disjunct.

**Fairness.**
- SliceSnapshot: every fiber step, including `Suspend`, is weakly fair. New
  commands and snapshot starts carry no fairness; `Quiescent` stutters when
  everything is done, so deadlock checking stays on.
- The fairness of the other modules is given in their sections above.

## Findings

**`snapshot_flush_race`** (code bug, db_slice.cc:843).
- `FlushSlotsFb` registers with `RegisterOnChange` (db_slice.cc:1285),
  which appends without waiting for `serialization_latch_`.
- `CallChangeCallbacks` fixes `limit` before a loop that can suspend
  (db_slice.cc:1828), when a snapshot's `OnDbChange` flushes a big value.
- TLC's trace: snapshot s1 starts; c1 updates k1 and side-saves bucket 2
  for s1, suspending mid-serialization; the flush of k2's slot registers
  with `next_version` 2 and cleans bucket 1; c1 resumes, never calls the
  flush's callback, and bumps bucket 2 to version 3; the flush skips
  bucket 2, and k2, which existed when the flush began, survives.
- The comment at db_slice.cc:802-804 and spec P8 say every such key is
  deleted.
- The same race reaches `SliceSnapshot::Start` if its caller does not wait
  for the latch. Its callers are not in `src/`, so that is the constant
  `StartWaitsLatch`; with `FALSE`, TLC finds `SnapshotComplete` violated.
  The runs assume the callers wait.

**`tables_add_or_update`** (code bug, db_slice.cc:1080).
- `AddOrUpdateInternal` with `force_update` replaces the whole
  `PrimeValue`, which clears the has-expire bit.
- With `expire_at_ms == 0` it leaves the expire entry in place.
- A later `SET ... PX` then fails `CHECK(db.expire.Insert(...).second)` in
  `AddExpire` (db_slice.cc:939), which aborts the server.

**`replica_gat_persist`** (spec/code divergence, string_family.cc:831).
- The memcache `GAT 0` persists the key on the primary.
- It journals `PEXPIREAT key 0`, which deletes the key on the replica.

**`channel_store_migration_lost`** (code bug, channel_store.cc:377).
- `ApplyAndUnsubscribe` fetches the subscribers to notify from its own
  thread's store pointer, not from the store it replaced.
- If another `Apply` has published but its brief has not reached this
  thread, a connection added there is missing from the fetched list.
- In the trace, `SUBSCRIBE ch1 ch2` copies the map and swaps `ch1` in
  place. The migration then erases `ch1` and never tells that connection,
  which stays subscribed to a channel no publish reaches.

**`channel_store_migration_crash`** (code bug, channel_store.cc:255).
- The migration erases a channel from `most_recent` at once, but tells its
  subscribers only in the later hop.
- An `UNSUBSCRIBE` in between reaches `GetTargetMap` with a key the map no
  longer has. Only a `DCHECK` guards it; a release build dereferences
  `end()`.

## Mutants

Each property of a passing run has a mutant operator. It is defined just
before the definition it replaces and is named for the bug it introduces.
TLC finds each of them under the run's configuration.

| Run | Property | Mutant |
|---|---|---|
| `snapshot_pit` | `TypeOK` | cursor advanced twice |
| | `RdbPointInTime` | `OnDbChange` without `big_value_mu_` |
| | `RdbExactlyOnce` | `SerializeBucket` not raising the version |
| | `SnapshotComplete` | no `FlushChangeToEarlierCallbacks` |
| | `JournalAfterRdb` | callback loop bound off by one |
| | `SnapshotTerminates` | cursor not advanced past a skipped bucket |
| | `PointInTimeRefined` | `FinalizeJournalStream` not waiting for the journal callback lock |
| `tables_consistent` | `TypeOK` | `Calculate` ignoring absolute times |
| | `TablesConsistent` | `AddNew` assigning the value after `AddExpire` |
| | `ExpiredKeysRemoved` | `DeleteExpiredStep` expiring only once the ttl is negative |
| `replica_agrees` | `TypeOK` | replica reading `PXAT` as relative |
| | `ReplicaAgrees` | `OpMSet` journaling all pairs after a partial failure |
| `channel_store_apply` | `TypeOK` | erase path leaving an empty `SubscribeMap` |
| | `MemorySafe` | deleting before `AwaitBrief` returns |
| | `NoSharedResize` | `GetTargetMap` not copying for a removed slot |
| | `SubscriptionsAgree` | replacement not copying the old subscribers |
| | `NoLeak` | replaced store not deleted |
| | `UpdatesComplete` | `update_mu` not released on the in-place path |
| `channel_store_migration` | `MemorySafe` | brief keeping the replaced store |
| | `NoLeak` | erased `SubscribeMap`s not queued for deletion |
| `incr_exact` | `IncrNeverWraps` | `DecrBy` without the `INT64_MIN` check |
| | `IncrOverflowExact` | overflow guard inclusive of the bound |
| `eviction_safe` | `TypeOK` | `AddNew` leaving the new entry without its value |
| | `ObjMemoryExact` | `ReduceHeapUsage` not resetting `orig_heap_size` (old value subtracted twice) |
| | `EvictionsReplicated` | `Evict` without the `trans_locks` check |
| | `StickyNeverEvicted` | `Evict` without the sticky check |
| | `LockedKeysStable` | heartbeat eligibility without the `trans_locks` check |


## Not modelled yet, and the plan

In order of the hazards they cover (`PROJECT.json` → `hazards`):

1. **Tiered delayed entries** (`SerializeExternal` / `PushSerialized`) and
   **FlushSerialized ticket ordering**, as an extension of `SliceSnapshot`.
2. **Memory budget drift**: `memory_budget_` is debited only by table
   growth and credited by deletions; it is refreshed by code outside
   `src/`, so the model follows the arithmetic but states no property of
   the budget itself. Tiered-storage reclaim and `AsyncDeleter` are not
   modelled.
3. **Incremental LSN sync.** `FlushDbIndexes` and `FlushDb`, which swap
   whole tables, are not modelled yet.
4. **Bump-up** (`OnCbFinishBlocking`: `CVCUponBump`, the latch wait,
   `BumpUp`). A version of `SliceSnapshot` with the bump was checked: with
   two snapshots TLC finds `RdbExactlyOnce` violated (depth 35) when a
   snapshot registers while the bumping fiber waits on the latch, because
   `CVCUponBump` ran with the threshold of the snapshots registered before
   the wait. With one snapshot no violation was found. It is kept out of
   the project because it needs a passing run and a violation run of its
   own, and because the version policy of dash's `BumpUp` is outside `src/`;
   the hazard at `db_slice.cc:1807` records the trace.
5. **CL.THROTTLE, STRLEN, GETRANGE, MGET** over `DbTables`: read-only
   replies or a rate limiter whose arithmetic is in code outside `src/`.

Not planned:
- `command_registry.cc`: configuration parsing.
- `sorted_map.h`: a declaration only.
- `StringSet`: sequential data-structure code.
- `ChannelStore::Destroy`, `ListChannels`, `PatternCount`: shutdown and
  read-only helpers.
