# TLA+ models of drifterdb

These are TLA+ models of drifterdb, a small LSM-tree key-value store with MVCC transactions. The models are written from the Go sources under `src/`, and the TLC configurations here check them.

## The system

drifterdb's parts, and how they interact:

- **Transactions** (`transaction.go`, `ts.go`).
  - `TransactionSet.GetTransaction` creates a transaction. Its `ReadView` takes a sequence number from `db.getSeq()`.
  - `Transaction.Put`/`Delete`:
    1. `checkLockOnFrozenMemtables` takes `switchMemtableLock.RLock`. It then probes every frozen memtable that still has refs for another transaction's uncommitted row of the key. On a conflict it refs the table, releases the read lock, busy-waits on the row's `TrxId`, re-locks, and calls `CancelRef`.
    2. The write loop, under `memtableLock`: ref the active memtable, take a seq, and call `db.put`. `db.put` appends and flushes a WAL record, then calls `SkipList.Set`.
    3. `Set` refuses the insert when the next entry of the same content carries another transaction's id. The writer then polls that id while still holding the read lock, and retries.
  - `commit` sets the recorded keys' `TrxId` to 0. The key object is shared with the skip-list entry, so this is the row lock's release.
  - `rollback` deletes the recorded keys from their tables.
  - Both then call `CancelRef` on each entry of `trx.refTables` in turn. `Ref` and `CancelRef` update `countRefs` without synchronisation, under the shared read lock only.
  - A ticker (`StartTimer`) ages every registered transaction once a second. A waiter whose age exceeds `TransactionTimeout` calls `common.Error`, which panics and ends the process.
- **Row lock.** The only lock on a row is the `TrxId` in a skip-list key. `SkipList.Set` (`skiplist/skiplist.go`) enforces it in the active memtable, and `checkLockOnFrozenMemtables` in the frozen ones.
- **Memtable lifecycle** (`db.go`, `collector.go`). A memtable moves from active to frozen to immutable to a level-0 SST. Three goroutines move it, and each takes `switchMemtableLock.Lock()`:
  - `FrozeMemtableLoop` answers `db.FrozeMemtable()`, which `db.put` calls once the size threshold is passed. The `waitingForFreezing` flag keeps a request from being sent twice.
  - `collectMemtable` runs every second. It moves frozen memtables whose ref count is 0 to immutable, with one `dumpMemtableChan` signal each.
  - `dumpImmutableTables` dumps `immutableMemtables[0]` without any lock. It then publishes, under the lock, a version with the table in level 0 and `walOffset` set to the WAL cursor recorded when that memtable was frozen.
- **WAL and recovery** (`wallogger.go`, `OpenDB`). `OpenDB` replays every put after the version's `walOffset`.
- **SSTables** (`sstable.go`, `block.go`, `iblock.go`, `row.go`, `bloomfilter/`), and versions and storage (`version.go`, `storage.go`).
- **Compaction** is a stub (`CompactLoop`, `BaseCompactor`).

## Modules

### `DrifterCore.tla`: write path, row lock and memtable lifecycle

The whole write path is modelled: up to two concurrent transactions, the switch lock, the three lifecycle goroutines and the timeout ticker.

State and actions correspond to the code as follows:

| code | model |
|---|---|
| `db.seq` | `seq` |
| each memtable's skip list | `mem[m]`, a set of rows `[key, seq, op, trx]`; values are not modelled |
| `byteSize` | `size[m]`, counted in puts, so `MemtableSize` is in puts |
| `RefTrx` | `refs[m]`, the set of transactions holding a ref |
| `countRefs` | `countRefs[m]`, the count the collector and the conflict probe read |
| `trx.refTables` | `refTables[t]`, a sequence in append order, with duplicates |
| `db.memtable`, `frozenMemtables`, `immutableMemtables` | `active`, `frozen`, `immutable` |
| `version.levels[0]` | `level0`, which keeps each table's rows |
| `wal.cursor` | `walCursor` |
| `memtableWalOffsetMap` | `walOffsetMap` |
| `currentVersion.walOffset` | `versionWalOffset` |

- **`switchMemtableLock`** (Go's `sync.RWMutex`) is `readers`/`rwait`/`writer`.
  - A worker's `Lock()` call is an action of its own (`FreezeLock`, `CollectLock`, `FlushLock`). It sets `writer` at once, because a pending writer blocks new readers.
  - The worker's body (`FrozeMemtable`, `CollectMemtable`, `PublishVersion`) runs when `readers` is empty.
  - `Unlock` admits the blocked readers.
- **Each transaction** has a `pc`:
  - `idle` → `begin` → `ready`: this is `GetTransaction`. `getSeq`'s unsynchronised `+= 1` is split into a load and a store.
  - `ready` → `scan` → (`fwait` → `relock` →) `write` → (`await` → `write` →)* `ready`: this is Put/Delete.
  - `ready` → `commit`|`rollback` → (`cancel` → `cstore` →)* `done`: this is `WithTransaction`'s end. Rollback uses `rcancel`/`rcstore`, and holds `memtableLock` until `done`.
- **`Ref`/`CancelRef`** hold only the switch read lock, which all transactions share, and `countRefs += 1` / `-= 1` are plain Go integer updates. Each is split into a load (`RefBegin`/`CancelBegin`, which also updates `RefTrx`) and a store (`RefEnd`/`CancelEnd`) of the loaded value plus or minus one; `refLoad[t]` is the value loaded. The store is the next step of the same call: `fref`, `frel` and `wref` in Put, `cstore`/`rcstore` in the cancel loop. Put's `Ref` (transaction.go:201) comes before it takes `memtableLock` (204), so its load (`PutRef`) and its store (`PutRefStore`) are steps of their own before `PutInsert`. Another transaction's commit or rollback can run between them, in either order with its own `CancelRef` load and store.
  - `CheckLockTimeout`/`PutTimeout` model the panics. `crashed` stops every action except `Halted`.
- **`SetRefused`/`SetNext`** are `SkipList.Set`'s conflict rule.
- **`FrozenConflict`** is the read-uncommitted probe of a frozen table. A key whose newest row is a Delete resolves to nil.

`MCDrifterCore.tla` supplies the model values: transactions `t1`, `t2`, keys `k1`, `k2`, a symmetry set, and the `MaxSeq` bound.

### `DrifterRecovery.tla`: WAL, version.json and crash recovery

This module covers what survives a crash. The WAL file `wal` is a sequence of records, each with a key, seq, op and byte length. Byte offsets are sums of those lengths (`Pos`), and `Boundaries` are the offsets where a record starts. The lock protocol is abstracted:

- A write is disabled while `checkLockOnFrozenMemtables` would wait (`MayWrite`).
- `WriteRefused` is the Put whose `SkipList.Set` is refused in the active memtable. Its WAL record is already written and flushed when Set refuses it. The writer then waits (`await`) and retries with `Write`.
- The switch lock appears only as `pub`: no other step runs while `DumpVersion` is in progress.

Each row carries a ghost field `w`, the index of its WAL record. `fate` records what became of each logged write: live, committed, rolled back or refused.

| code | model |
|---|---|
| `db.put` (Append + Flush + `Set`) | `Write` |
| `commit` / `rollback` | `Commit` / `Rollback` (Delete by content and seq) |
| `FrozeMemtableLoop`, `collectMemtable` | `Freeze`, `Collect` |
| `dumpImmutableTables` before the lock: `DumpMemtable` writes the file for `db.tableSeq` with `O_EXCL` | `Dump` (`sstFiles`, `dumped`); `ExclusiveCreateFails` panics |
| `dumpImmutableTables` under the lock: the new version, `SetVersion` | `Flush` |
| `db.tableSeq += 1` | in `Flush`: it comes later under the same lock hold, and nothing reads it in between |
| `DumpVersion`: `os.Rename`, then `ioutil.WriteFile` (truncate, write) | `Flush` (rename), `VersionTruncate`, `VersionWrite` |
| a kill or a panic | `Crash` and the dump's panic, both `ProcessDies`: memory is lost, `wal`, `verFile`, `verBak` and the table files stay |
| `LoadVersion` (a missing file gives the empty version) | `LoadVersion` |
| `OpenDB` → `New` → `NewStorage`: `LoadVersion`, then `DumpVersion` of the loaded version | `OpenStorage` (the rename), then `VersionTruncate`, `VersionWrite`; `opening` marks the open in progress |
| the rest of `OpenDB`: `SetOffset`, replay with `TrxId` 0, `tableSeq = MaxSeqInVersion + 1` | `Recover` |
| a panic in `OpenDB` | `openFailed`, then `Stopped` |

`common.Throw`, which every I/O error goes through, is not defined in the repository. The model treats it as a panic that ends the process, which is what `spec.md` section 7 asks of I/O errors ("fatal to the DB instance").

`MCDrifterRecovery.tla` supplies transactions `t1`, `t2`, keys `k1`, `k2` and record lengths `{1, 2}`.

### `DrifterRead.tla`: skip list, `ReadView.Get` and `ReadView.Range`

This module covers the read path over the memtables. Each skip list is its level-0 sequence of entries `[key, seq, op, trx, h]`, where `h` is the tower height `randomLevel` chose. Level `i` is the subsequence of entries with `h > i`, so the towers are the links that GetEntry and Set's predecessor search follow. `Set` computes its predecessors under the list's read lock and links under its write lock; `memtableLock` around every `db.put` and rollback keeps two of them apart. Contents are naturals, ordered as `bytes.Compare` orders byte strings.

| code | model |
|---|---|
| `ComparableBytes.QueryCompare`, `MVCCBytes.ModifyCompare`/`QueryCompare` | `CmpContent`, `ModifyCompare` (in DrifterSST), `QueryCompare` |
| `SkipList.Set`: predecessor search from the top level down (`previousLevels`), conflict refusal | `SetWalk`, `SetDescend`, `InsertPos`, `SetRefused` |
| `randomLevel` (height 1 while `length` is 0) | `Heights` |
| `SkipList.GetEntry`: descent per level, isolation gate | `Walk`, `Descend`, `Admits`, `GetEntry` |
| `SkipList.Range` | `Scan`, `SkipRange` |
| `ReadView.Get`: probe key, active, frozen and immutable memtables, then level 0 of the reader's version | `Probe`, `MemTables`, `SstAnswer`, `Answers`, `ViewGet` |
| `SkipList.Set`'s `prev` and `back` updates, `SkipList.Delete`'s unlinking | `SetLink`, `Unlink`, `DeleteAt` |
| `collectMemtable`, `dumpImmutableTables`, `DumpTable`'s use of `First()`/`Last()` | `Free`, `Collect`, `Flush`, `Dumpable`, `DumpTable` |
| `ReadView.Range`: `rv.version.memtable` (set once by `InitCurrentVersion`), `Memtable.Range`, `Table.Range` of the version's tables, `MergeRangeResult`, the final slice | `VersionMemRows`, `RowsOfSeqs`, `ViewRange`, `MergeRangeResult` |
| `checkLockOnFrozenMemtables`' probe | `FrozenConflict` |
| `GetTransaction`, Put/Delete attempt, `commit`, `rollback`, `FrozeMemtable` | `Begin`, `Write`, `Commit` (`Cleared`), `Rollback` (`RolledBack`), `Freeze` |

- `Begin` chooses the isolation level from `IsoLevels`. The transaction set starts at RepeatableRead, and `SetIsolationLevel` may change it.
- `Write` is one attempt of Put or Delete. A refused `Set` puts the writer in `await`, and it retries the same write. A frozen-table conflict disables the write, as DrifterCore's wait does.
- A memtable is `[ents, back, init]`; `init` marks the memtable `InitCurrentVersion` stored in the version, which `ReadView.Range` reads for ever after (every later version copies it, and the version's frozen and immutable lists stay empty). Each entry also carries `prev`, its level-0 back pointer, as a reference `[key, seq]` to another entry. `HeadRef` stands for the head read as an entry, and `NilRef` for nil.
- `SetLink` writes `prev` and `back` as `Set` does. The next entry's `prev` is set before the conflict check, so a refused `Set` leaves that entry pointing at an entry that was never linked in.
- `Rollback` deletes the transaction's entries in write order with `SkipList.Delete`, in the active and frozen memtables. `DeleteAt` gives each successor the predecessor of the highest level the entry was on, and moves `back` to the deleted entry's `prev`. `list.length` is not decremented.
- `Collect` moves every frozen memtable with no uncommitted row to the end of the immutable queue. `Flush` dumps the head of that queue into level 0. When `First()` or `Last()` is nil or the head, `DumpTable` panics and the model sets `dead`. `Begin` records `ver`, the number of level-0 tables in the version the reader takes.
- The reads are not actions. The properties evaluate `GetEntry`, `SkipRange`, `ViewGet` and `ViewRange` in every reachable state. A Get or Range under RC or RU also bumps `db.seq` through `getSeq`. That bump only leaves a gap in the seqs, so the model leaves it out.
- The writer's WAL append, refs and byte sizes are in the other two modules.

`MCDrifterRead.tla` supplies transactions `t1`, `t2`, keys `{1, 2}` and the three isolation levels. It also supplies the choices of the Bloom filter's stray bits, for the dumped filter's false positives and for what the reloaded filter admits: none, or any set of keys.

### `DrifterSST.tla`: SSTable layout, index, filter and `Table.Get`

This module has no state. Its operators compute what `DumpTable` writes and what `Table.Get` answers for a table of records `[key, seq, op, trx]`, in the memtable's order. DrifterRead applies them to every table it flushes.

| code | model |
|---|---|
| `ElementToRowRecordBytes` (18 header bytes, 8-byte seq prefix, content, value) | `RecordLen`, `RecordStart`, `DataLen` |
| `DumpTable`'s loop: `prev += offset / BlockSize`, `offset %= BlockSize`, index record at `prev*BlockSize+offset` | `IndexFold` |
| `NewLinearIndex` | `Blocks`, `BlockEnd` |
| `RowRecordBytesToElement` of one block | `BlockRecs` |
| `LinearIndex.Find`, including the final `indexBlocks[lo]` | `FindLoop`, `Find` |
| `ElementsBinarySearch` by content | `Search` |
| `Filter.Add(DumpBytes(key))`, `Filter.Exists` | `DumpKey`, `FilterOf`, `FilterExists` |
| `LoadFilterFromBytes` (m = log2 of the word count) | `LoadedFilterExists` |
| `Table.Get` with the in-memory table (`min`, `max` never set) or a loaded one (`LoadFullHeader`) | `TableGet`, `DumpedGet`, `LoadedGet` |
| `Table.Range`: min/max guards, `Find`, the block loop with `GetByIndex`, offset, dedupe, Delete skipping | `TableRange`, `DumpedRange`, `RecsFrom`, `RangeScan` |

The byte encodings are kept only as lengths, so block boundaries fall where the code puts them. The Bloom filter is the set of items added. A run adds the contents whose bits happen to be set (`fp`). `LoadFilterFromBytes` sets m to log2 of the number of 64-bit words, which is the dumped m minus 6, so the reloaded mask keeps only the low m - 6 bits of each hash and `Exists` reads bits of word 0 only. Which contents that admits depends only on the hashes. The reloaded filter is therefore a second chosen set (`lf`), which may leave out contents the table holds. `BlockSize` is scaled down from 4096 to 50 bytes, so a table of two or three records already has several blocks.

### `MVCCStore.tla`: the abstract store and the refinement

`MVCCStore` is what the write path promises (spec.md section 3, invariants 2 and 4, and the lifecycles) with memtables and SSTs abstracted away: one set `store` of versions `[key, seq, op, trx]`, the last seq `seq`, and the set `live` of begun transactions. `Begin` and a refused write use up a seq. `Write` adds one version with the next seq, owned by the writer. `Commit` clears the TrxId of exactly the transaction's versions, and `Rollback` removes exactly them. It does not model the row lock (invariant 3), which DrifterCore checks.

DrifterRead instantiates it as `Store == INSTANCE MVCCStore WITH store <- Versions, live <- {t : pc[t] # "idle"}`, where `Versions` projects the entries of every memtable and level-0 table to `[key, seq, op, trx]`. `StoreRefined == Store!Spec` is a property of the read_safety run. Freezing, collecting and flushing are stuttering steps of the abstract store, so the run shows that none of them loses or invents a version, and that commit and rollback reach every memtable that holds the transaction's rows. A commit that cleared only the active memtable's rows breaks it.

DrifterCore is not checked against `MVCCStore`. It models `getSeq` as a read followed by a write, and two writers that take the same seq break `Write`'s fresh-seq step. `SkipList.Set` then overwrites the existing entry, so both transactions share one row, and either rollback deletes it for both; the hazard at `db.go:142` in `PROJECT.json` records this.

## Runs

| run | cfg | expect | what it shows |
|---|---|---|---|
| core_safety | `MCDrifterCore_safety.cfg` | pass | `TypeOK`, `LifecycleConsistent` and `FreezeRequested` (below) hold |
| core_rowlock | `MCDrifterCore_rowlock.cfg` | violation | `RowLockExclusive`: an uncommitted Delete in a frozen table is not seen as a lock |
| core_uncommitted_flush | `MCDrifterCore_uncommitted.cfg` | violation | `UncommittedNeverFlushed`: an uncommitted row is flushed to an SST. In the shortest trace (27 states, one key) a committing transaction's `CancelRef` store overwrites the writer's `Ref` store, so the count reads 0 while the writer's row is in the table. A second path, the `CancelRef` after a frozen-table wait that drops the waiter's own ref (transaction.go:191), is recorded as a hazard |
| core_wal_offset | `MCDrifterCore_waloffset.cfg` | violation | `WalOffsetCoversUnflushed`: memtables are flushed out of freeze order, and `walOffset` passes records that only an unflushed memtable holds. After a crash those records are not replayed, so a committed write is lost (P8) |
| core_wait_cycle | `MCDrifterCore_waitcycle.cfg` | violation | `NoWaitCycle` (see below) |
| recovery_safety | `MCDrifterRecovery_safety.cfg` | pass | `TypeOK` and `TablesLoadable`. `TypeOK` includes that every table in the running process's level 0 has its file. `TablesLoadable`: `version.json` never lists a table whose `.sst` file does not exist, whichever step a crash interrupts, so `LoadTable` never fails at open. This holds because the flusher writes the file before it publishes the version |
| recovery_replay | `MCDrifterRecovery_replay.cfg` | violation | `ReplayFaithful`: replay must rebuild only committed rows, and leave `db.seq` above every logged seq. The shortest trace brings back an uncommitted write as a committed row. The `db.seq` half is not reached by this trace. Checked on its own with the same cfg, it fails in 15 states: after everything is flushed, a reopen restarts `db.seq` at 0 |
| read_safety | `MCDrifterRead_safety.cfg` | pass | `ListSorted`: `Set`'s descent through towers of random height links every entry in Modify order. `GetEntryFindsNewest`: a ReadUncommitted `GetEntry` returns the newest version not newer than the probe, whatever the tower heights. `RangeFindsNewest`: `Range` returns the newest version of each content in the range, in content order, with no Deletes. `IndexBlocksAligned`: every flushed table's sparse index starts its blocks at record starts, in increasing order, with the right minRecord. `StoreRefined`: DrifterRead implements `MVCCStore` (below) |
| read_sst | `MCDrifterRead_sst.cfg` | violation | `FlushedTablesServeReads`: the dumper must turn every collected memtable into a level-0 table that serves each of its contents. The table `DumpTable` returns never gets `min` and `max`, so its `Get` answers nil for every nonempty content. The property's second half, the table as `LoadTable` reads it back, also fails once the reloaded filter denies a content the table holds |
| read_get | `MCDrifterRead_get.cfg` | violation | `GetFindsNewestVisible`: `ReadView.Get` stops at the first memtable that answers. A Delete answers nil, so an older Put in a frozen memtable is returned (P2) |
| recovery_version | `MCDrifterRecovery_version.cfg` | violation | `VersionUsable`: after a crash, the `version.json` that `OpenDB` reads must parse. `DumpVersion` is not atomic: a crash inside `WriteFile` leaves an empty `version.json`, and `OpenDB` panics (11 states) |
| recovery_orphan | `MCDrifterRecovery_orphan.cfg` | violation | `DumpFresh`: a dump's exclusive create never meets an existing file (`spec.md` section 4.5). The flusher writes the table file before it publishes the version, and only then advances `tableSeq`. A crash in between leaves a file that no version lists. `OpenDB` recomputes `tableSeq` from the version, which gives the orphan's seq. The next dump's `OpenFile` fails and the process dies, and every later open does the same once a memtable is flushed |

`LifecycleConsistent` says that every allocated memtable is in exactly one stage. It also says that the pending dump signals match the immutable queue, so the flusher never indexes an empty queue.

`FreezeRequested` is the handshake between `FrozeMemtable` and `FrozeMemtableLoop`. `waitingForFreezing` is set exactly while one freeze request is in flight: a signal queued on `frozeMemtableChan`, or the loop waiting for or holding the switch lock. An active memtable over `option.MemtableSize` always has that request. A lost request would make every later put skip `FrozeMemtable`, and a duplicated one would freeze a fresh memtable.

In `core_wait_cycle`, a Put polling a row lock holds the read lock. A pending collector `Lock()` then blocks the lock owner's commit, and only the timeout panic ends the wait.

The violation runs state invariants 3 to 6 of `spec.md` and the blocking-write scenario. Each counterexample is a finding in `PROJECT.json`.

### Bounds

- **Transactions and keys.**
  - Two transactions are the fewest that can conflict.
  - One key is enough for the lifecycle and the row lock on a single key.
  - The uncommitted-flush and WAL-offset runs need two keys, because the victim needs a row of its own besides the conflicting one.
- **Operations per transaction.**
  - `MaxOps = 2` in the safety run, so a transaction can write twice: once into a memtable that is then frozen, and once after.
  - **Memtables.** `MaxMemtables = 3` allows two freezes. That is enough to flush memtables out of order and to send two signals in one collection.
- **Memtable size.** `MemtableSize` is 1 in the safety run (a freeze after two puts).
- **Timeout.** `TrxTimeout` is 0 ticks in every run, so the first tick a waiter sees after it starts to wait panics. A larger timeout only changes how long a waiter polls, not which states are reachable before the panic. With 0 ticks the safety run has 5.1 million distinct states (about 1.5 minutes on two workers); 1 tick roughly doubles that.
- **Seq.** `MaxSeq` covers every getSeq call that the transactions can make.
- **Symmetry.** The safety run uses symmetry over transactions and keys.

- **Read path.** `DrifterRead` runs with two transactions, two keys, tower heights up to 2 and `MaxSeq` 5.
  - Height 2 is the least that gives a level above level 0, so the descent can stop at different entries on different levels.
  - `MaxTables = 2` bounds the frozen, immutable and level-0 tables together. That allows a frozen table behind the active one, or a flushed table and a table still in memory.
  - Five seqs allow two versions of a key in each of two tables.
  - `BlockSize = 50` and `ValueLen = 3` give 30-byte Puts and 27-byte Deletes, so a second or third record starts a new block. The offset arithmetic then runs through its remainder case.
  - The safety run fixes RepeatableRead and no filter false positives. The isolation level only changes the probe of `ViewGet`, which no property of that run reads. The filter choices only change `Table.Get`'s answer, which no property of that run reads either. With both fixed, the run finishes in about 35 seconds. The Get and SST runs enumerate both.
- **Deadlock.** `CHECK_DEADLOCK FALSE` is set for the read runs only. When `seq` reaches `MaxSeq` and every transaction is idle, no step is enabled. drifterdb is a library with no background work in this module, so it idles when no client calls it.
- **Recovery.** `DrifterRecovery` runs with two writes, three memtables and `MemtableSize` 0, so every write freezes its memtable. Two writes are enough for a write, a flush, a crash and a write after the reopen, and for a dump, a crash before the publish, and a second dump after the reopen. Two record lengths make a lagging cursor land inside a record. The safety run allows two crashes, so the second can interrupt the reopen, including the `DumpVersion` that `NewStorage` runs before the replay (about 600,000 states, 15 seconds). The violation runs allow one crash, which their traces need. Three writes take about three minutes and reach no new kind of state for these properties. Fairness is not assumed: every recovery property is a safety property.

### Fairness

`FairSpec` is not used by any run (see "Not modelled" for `FrozenEventuallyFlushed`). It assumes the following:

- Each client keeps stepping its transaction until it ends (weak fairness on `TrxStep(t)`). The clients of `WithTransaction` do.
- The goroutines' bodies and the flusher's dump are weakly fair.
- The workers' `Lock()` calls are strongly fair. A `sync.Mutex` passes to a waiter that has starved for 1 ms, so a writer that is enabled infinitely often gets the lock.
- The ticker is weakly fair.

## Not modelled yet, and the plan

The next steps, in order:

1. **Range as a run.** `RangeFindsNewestVisible` (spec.md section 4.9) is stated in DrifterRead over the modelled `ReadView.Range`. It has no run of its own. Checked with the read_get cfg, TLC finds it violated in 4 states: `SkipList.Range` has no isolation gate, so a ReadCommitted reader gets another transaction's uncommitted Put. Behind that trace are three more defects, recorded as hazards. Range reads only the memtable stored at init. Each table drops its Deletes before the merge. `Table.Range` uses the unset `min`/`max`.
2. **Table reload.** `LoadFilterFromBytes` is modelled by what its mask admits (`LoadedFilterExists`). The filter's bit layout stays abstract, because the hashes are not modelled.
3. **Refinement of DrifterCore**, once its `getSeq` race is separated from the rest of the write path.

Also not modelled yet:

- `getSeq`'s lost and rewound increments. DrifterCore models the race, but no run checks it; the hazard is listed in `PROJECT.json`.
- The transaction's own writes under RC and RR. `Get` probes with `TrxId` 0, so a transaction does not see them. `GetFindsNewestVisible` leaves these keys out, so that its trace shows the fall-through.
- `FrozenEventuallyFlushed`, every frozen memtable reaches level 0 unless the process panics. It is stated in DrifterCore, and `MCDrifterCore_liveness.cfg` checks it under `FairSpec` with two memtables. TLC finds it violated in about 70 seconds: a Put's `Ref` store overwrites a rollback's `CancelRef` store, and the count stays 1 with no ref left. With the count atomic, the same cfg passes. The lost update is the race that `core_uncommitted_flush`'s trace already shows, so this cfg is not one of the runs.
- `FreezeEventuallyHappens`, the liveness side of the `waitingForFreezing` handshake. It is stated in DrifterCore and passed while the ref count was modelled as atomic. Under the counter race it needs a fair run with three memtables of its own, which takes more than four minutes, so no run checks it now. Its safety side, `FreezeRequested`, is checked by core_safety.
- Two more conditions from `spec.md` section 4.8 and invariant 6 are stated in DrifterRecovery and have no run of their own; recovery_version checks the torn `version.json` instead. Checked with `MCDrifterRecovery_version.cfg` at two crashes, TLC finds each violated in 17 states.
  - `BackupHonoured`: a crash inside the reopen's own `DumpVersion`, after its rename, leaves no `version.json`. The next `LoadVersion` reads the backup but returns `EmptyVersion`, and every level-0 table is dropped.
  - `OffsetOnRecord`: after a reopen, `SetOffset` resets `wal.cursor` to `walOffset` while the file already ends after the replayed records. A later freeze records that lagging cursor, and the flush publishes a `walOffset` inside a record.
- The by-id commit/rollback API, which is swapped in `db.go`.
- Version refcounts. `countVersionRefs` is never incremented, and `TransactionSet.CommitTransaction`/`RollbackTransaction` release a version a second time. No table is ever deprecated, so neither has an observable effect today.
- Compaction (a stub).
- The Bloom filter's hash functions (RS, JS, PJW, ELF). They shift and multiply 64-bit words, beyond TLC's 32-bit integers, so the filter is the set of added items plus chosen false positives.
- Options, statistics and the undo log (no behaviour).
- Byte encodings, which are abstracted to records with a length. CRC checking is abstracted to one rule: a read that starts off a record boundary panics.
- The WAL writer's buffer and `MakeRoom`. `db.put` flushes after every append, so the buffer is always empty between puts.
- A torn record at the WAL tail. `WALReader.Next` panics on it, which `spec.md` states as intended.
- The WAL writer file is opened with `O_APPEND|O_CREATE` and no write flag. On Linux that descriptor is read-only, so `Flush` would panic on the first write. The models assume a writable file, as `spec.md` does; the open question is recorded there.
