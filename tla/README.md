# Verification of ztierfs

TLA+ models of ztierfs, a FUSE file system that stores file contents as
content-addressed blocks on a hot and a cold tier and everything else in SQLite.
The models are written from the code in `src/ztierfs/`; TLC checks them on small
instances, and TLAPS proves what is marked below for every value of the constants.

    tlc -workers 2 -config file_content.cfg MCFileContent      # one run
    tlapm ChunkRefsProofs.tla                                  # one module of proofs

`PROJECT.json` lists the components, the runs, the source lines each definition
models (`map`), one mutation of the code that each checked property detects
(`mutants`), the hazards the properties are aimed at, the disagreements between
code and documentation that were found (`findings`) and the theorems.

## 1. The system

### Components

| component | state | operations | what makes it correct |
|---|---|---|---|
| **Block store and tiers** (`block_store.py`, `block_file_io.py`, `tier_access.py`, `pending_deletions.py`, `metadata/blocks.py`, `metadata/gc.py`) | rows of `blocks` (count, inline or tiered, presence on each tier, preferred tier, encoding, promotion and garbage stamps), `pending_deletions`, one payload file for each tier and digest, the copy-ups under way, the demotion request | store, release, demote, copy up, drain, read with probes, correct the row a read found wrong | a referenced payload is always somewhere; `cold_present` is true; no hot file is forgotten; a read finds a block that moves; queued files are deleted at last; the hot tier keeps to its watermark |
| **Chunk maps and reference counts** (`metadata/chunks.py`, `metadata/blocks.py`, `file_content.py`, `namespace_ops.py`) | `file_chunks`, `blocks.refcount` | write, truncate, clone, delete, and the background transactions on a row | counts equal the chunks that map to a block, a row is stamped as garbage exactly while unreferenced, the CHECK constraint is never broken |
| **Transaction lock** (`metadata/connection.py`, `ReadWriteLock`) | readers, writer, waiting writers, the wait set of one condition variable | acquire and release for reading and writing | writers exclude everybody, no wake-up is lost, waiting writers progress |
| **Connection pool** (`metadata/connection.py`) | idle connections (a LIFO queue), number created | acquire, open, release, close | bounded, no waiter forgotten, also when a connection cannot be opened |
| **File content** (`file_content.py`, `inode_locks.py`) | size and chunks of a file, the write plans of threads | plan, prepare and commit a write; truncate; read | the file behaves as one byte string that writes change one at a time |
| **Open files** (`handles.py`, `file_ops.py`, `inode_fuse.py`) | handle table, open counts | open, create, release, deferred deletion | a handle keeps its file until it is released; an unlinked file goes with its last handle |
| **Namespace** (`metadata/namespace.py`, `inode_fuse.py`, `metadata_ops.py`, `namespace_ops.py`) | `inodes`, `dir_entries` | mkdir, mknod, symlink, create, link, unlink, rmdir, rename | exact link counts, one rooted tree |
| **Advisory locks** (`locks.py`) | a list of ranges for each inode | get, set, unlock, release by owner | behaves as one lock for each byte and owner |
| **fsck** (`maintenance/checker.py`) | the rows read at the start, the scan of the disk, one transaction | check records, remove orphans, scrub, with repair | never destroys the last good copy; repairs converge; an outage does not look like a loss |
| **Cleanup** (`maintenance/cleanup.py`) | one transaction of another process | the queue, promoted cold copies, cold garbage | removes no copy that is needed |
| **Deferred access statistics** (`metadata/access_stats.py`) | buffers of access times and counts | record, flush before COMMIT | each access is counted once, and lost only with a transaction that had taken it |
| **Transactions, after-commit hooks** (`metadata/store.py`, `filesystem.py`) | connection and mode of each thread, list of hooks, the flag of the thread that runs them | begin, commit, roll back, run hooks | a failed COMMIT blocks nobody; one thread runs the hooks, and what others leave to it is done |
| **Directory listings** (`inode_fuse.py`, `metadata/namespace.py`) | for each directory handle, the name given out at each offset | opendir, readdir, releasedir | nothing is listed twice, nothing that stays is missed |
| access control, extended attributes, schema, configuration, command line, statistics | | | stateless or plain input and output |

### How they interact

A FUSE operation of the mounted process looks inodes up in a *read transaction*,
may take the *content lock* of an inode, reads and prepares block payloads outside any
transaction, and changes tables in one *write transaction*. `ReadWriteLock` keeps
read and write transactions of the process apart and SQLite (`BEGIN IMMEDIATE`) admits
one writer over all processes. When a chunk loses its block, `chunks.py` calls
`apply_block_refcount_deltas`, which stamps the row and queues its hot file. *After-commit
hooks* drain that queue (a read transaction, unlinks outside a transaction, a write
transaction) and demote blocks (copy, unlink and row update inside one write transaction). A thread that commits
while another one runs the hooks runs none itself. A transaction takes the lock first, then a connection from
the pool, and gives them back in the opposite order; before each COMMIT it writes the access counts buffered in memory.
A read from the cold tier schedules a copy-up on a thread of its own, and a read that finds
a row wrong corrects it in a later write transaction. `cleanup` is another process that
may work on the mounted database; `fsck --repair` works while nothing is mounted.

### What is hard in it

A row changes when its transaction commits; a file changes at once. Everything between the
two is a hazard: a rollback or crash after an unlink, a queue that was read before a block was
stored again, a copy-up that ends after a demotion, a correction computed from a row that has
changed since. Tiers come and go, and a missing tier must not be taken for missing
files. `open` and `release` take several transactions around a table in memory. Threads wait for the lock,
and with the lock for a connection. Work is cut up by budgets, and what is left over must be taken up again. The section
`hazards` of `PROJECT.json` lists 40 such points with their source lines.

## 2. The modules

| module | models | state ↔ code |
|---|---|---|
| `BlockRows` | one row of `blocks` and the SQL statements that change it (`metadata/blocks.py`, `metadata/gc.py`, CHECK of `schema.py`) | record `Row`; `NoRow` is a missing row. Used by the next three |
| `ChunkRefs` | every write transaction that moves a reference | `inodes`, `chunks` = `file_chunks`, `blocks`, `queue` = `pending_deletions` |
| `BlockTiering` | block files against rows: the mounted process, its background work, `cleanup`, outages, crashes | `rows`, `queue` committed tables; `txn` the write transaction with its uncommitted tables; `files`, `up`; `drain`, `copyup`, `readers` what is in memory between steps |
| `FileContent` | planning, committing, truncating, reading, byte by byte | `size` = `inodes.size`; `chunks` the payloads the rows map to; `plans` = `FileWritePlan` of a thread that holds the content lock |
| `ByteFile` | what a file promises: a byte string with atomic writes and resizes | abstract; implemented by `FileContent` |
| `Namespace` | inodes, names and handles | `inodes`, `entries` = `dir_entries`, `handles` = the handle table and the open or release each handle is in; `stranded` and `abandoned` two histories: the inodes that had no name when the process died, and those whose release failed in its transactions |
| `AdvisoryLocks` | the list of ranges of one inode | `locks` = the list; `request` and `releases` the lists that `apply` and `release_owner` have computed and not yet installed |
| `ByteLocks` | what POSIX locks promise: one lock for each owner and byte | abstract; implemented by `AdvisoryLocks` |
| `Fsck` | records, orphans and scrub with `--repair` | `rows`, `files`, `refs` (chunks that really map to a block), `run` = phase, digests left, rows and scan read at the start |
| `ReadWriteLock` | the monitor in `connection.py` | `readers`, `writer`, `waitingWriters`; `pc` says which threads are in the wait set or woken |
| `MetadataStore` | extends `ReadWriteLock`: outermost transactions from the lock over the pool to COMMIT, each step of which may fail; deferred access counts | `stage`, `conn` where each thread is; `created`, `idle` the pool; `begun`, `inFlight` what SQLite has open on each connection; `deferred`, `committed` the counts |
| `AfterCommit` | the hooks: the drain with its budget over the queue in its order, the demotion between its watermarks, the flag, `close` | `blocks`, `files`, `queue` the tables and the hot tier; `requested`, `added` of `BlockStore`; `running`, `step`, `drain` of the threads |
| `DirectoryListing` | `readdir` in pages, beside changes of the directory | `present` the names; `cursors` = `_dir_handles[fh]["cursors"]`; `offset`, `listed` what the caller has |
| `MC*` | instances for TLC: only symmetry sets, no definition is replaced | |
| `*Proofs` | theorems and lemmas of the module they are named after | |

`BlockRows` is shared, so `ChunkRefs` (which chunk holds a reference, transactions atomic),
`BlockTiering` (references counted, transactions and files in steps) and `Fsck` (rows against
files, arbitrary damage) give the same statements on a row the same meaning. The split keeps each
state space small: `ChunkRefs` shows that what `BlockTiering` assumes of a count is what the
code maintains. `FileContent` takes a payload as available, which is the subject of `BlockTiering`. `BlockTiering` looks
inside the transactions and unlinks that are single steps of `AfterCommit`, which adds order, budgets and time.
`MetadataStore` composes lock, pool, SQLite and access counts; that it uses the lock as `ReadWriteLock` describes
it is a theorem (`StoreUsesLock`).

**One action is** one step that another thread, process or failure can come between: in
`ChunkRefs` a transaction; in `BlockTiering` a single unlink, copy, probe or statement; in
`Namespace` an operation's transaction, but each of the steps of `open` and `release`; in
`AdvisoryLocks` each access to the list; in `ReadWriteLock` the code between two waits; in `MetadataStore` one
call to the lock, the pool or SQLite; in `AfterCommit` a transaction, a batch of unlinks, or a test of a flag
with what it sets (one step under the interpreter's global lock; a free-threaded build would differ); in
`DirectoryListing` the reading of a page. Payload bytes, compression, hashing, ages and the order of demotion
candidates are left open: any candidate may be taken at any time, a superset of what the code's ordering produces.

## 3. Runs

All runs check deadlock; none of the models stops.

### Passing

| run | instance | distinct states | shows |
|---|---|---|---|
| `chunk_refs` | 2 files of 2 chunks, 2 digests | 5.4k | counts, garbage stamps and the CHECK hold over all sequences of writes, truncations, clones, deletions and background transactions, late copy-ups and corrections among them, and no file becomes impossible to empty |
| `tiering_mounted` | 1 digest, 2 references, 2 queue ids, 1 reader; outages, rollbacks, crashes | 408k | no referenced payload is lost, `cold_present` stays true, corrections fit the row, and a read fails only when a second demotion overtakes it or its block is released meanwhile |
| `tiering_cleanup` | 2 digests, 3 queue ids; cleanup while unmounted, no fault | 3.1k | every hot file is claimed or queued; cleanup takes no needed copy |
| `file_content` | 2 threads, 5 bytes, chunks of 2, 2 byte values | 74k | implements `ByteFile`; every read of every range is exact |
| `namespace` | 4 inodes, 2 names, 2 handles; opens and releases that fail, crashes | 72k | link counts, the tree, deferred deletion, handles keep their file |
| `advisory_locks` | 2 owners, 4 bytes | 59k | implements `ByteLocks`; locks stay disjoint; a request is refused exactly if a byte conflicts |
| `fsck` | 1 digest, counts to 2, every damaged state the schema lets through | 562k | the last good copy survives, cold claims outlive an outage, two undisturbed runs repair everything, and only an outage makes the CHECK refuse a repair |
| `metadata_store` | 4 threads, 2 connections, 1 access, fair | 315k | no lost wake-up, waiting writers progress, and readers once no new writer comes, nobody waits for a connection that will not come, a failed COMMIT is cleaned up before the next writer, accesses are counted once |
| `after_commit` | 2 threads, 3 digests of which one cannot be unlinked, budget 2, watermarks 2 and 1, fair; outages, crashes, remounts | 80k | every hot file is a block's or queued, no demotion request gets lost, the queue drains |
| `directory_listing` | 1 handle, 4 names, pages of 2 | 80k | nothing is listed twice, nothing that stays is missed |

**Why the bounds are enough.** Digests interact only through a transaction's rollback and the ids
of the queue, so one digest shows the races of a block and two show the queue. Two references tell
the last release from another one. Two chunks give an inner and a boundary chunk, five
bytes in chunks of two a short last chunk, a hole and a write over three chunks. Two handles and
four inodes are a re-opened file and a directory that could be moved below its child. Four
bytes let a lock be split in its middle and a piece be split again. Four threads are two readers
and two writers, and twice the connections of the pool. A budget of two over three digests cuts a drain off, and is
more than the one stuck file; watermarks of two and one leave a demotion something to resume. Pages of two over four
names are cut before, in and after each name. The bounds are `MaxRefs`, `MaxId`, `MaxIndex`, `MaxSize`, `MaxInode`,
`MaxOffset`, `MaxAccesses`: each stands in the guard of the actions that would exceed it. The invariants of
`after_commit` hold on four digests as well (712k states, without `QueueDrains`).

**Fairness** is assumed where something must happen at last, in two passing runs. `StoreFairness` says that a
transaction that has the lock goes on (it is bounded work, and the code gives connection and lock back in `finally`)
and that a notified thread gets the mutex again. No thread has to begin a transaction, and nothing is assumed of
readers: `WritersProgress` says that readers that keep coming cannot starve all writers, the docstring's promise.
Starvation of readers by writers is possible by design; `ReadersProgress` says that it ends with the stream of
writers: if from some time on nobody begins to acquire for writing, each waiting reader gets the lock and none waits again. `LockProgress` is both. `HooksFairness` says that a thread's hooks go on, and that the
transaction that removes queue entries succeeds at last if it is tried again and again (strong fairness: other
processes hold the database only now and then). `QueueDrains` supposes besides that commits go on, that the hot tier
comes back to stay and that the process stops crashing: without commits nothing runs the hooks.

**Properties worth a note.** `ReadFailsOnlyIfOvertaken` says in which two cases a read fails
although all tiers are up: a second demotion unlinks the hot file that a probe has just found; or the block loses its last
reference in the middle of the read, is deleted with no cold copy left, and the reader finds nothing. The content lock keeps the second
one from all paths that shorten a file but `create` with `O_TRUNC` of an existing one, which does not take it (`inode_fuse.py:421`); in the model
any write may drop a block while it is read. `RowsLegal` says that no row breaks its CHECK and that no statement needs
it to, two excepted: the end of a copy-up and a reader's correction are updates by hash for a row read earlier. If the block
was collected and stored again inline meanwhile, the CHECK refuses them: the copy-up is logged and leaves a hot file that only
fsck removes, the correction fails the read that found it.
`UnlinkedInodesCleaned` excepts what nobody is left to delete: the handle is gone before the transactions of a release
begin (`file_ops.py:76`), so if one of them raises, the inode stays (`abandoned`), and so it does after a crash (`stranded`). `TwoRunsRepair` needs two runs: `_check_disk_orphans` works from rows read
before the records were repaired, so a row deleted in a run leaves its hot file to the next one.
`EveryFileCanBeEmptied` says that the "negative count" exception cannot strike when a file is deleted.
`OneWriterInSQLite` rests on two things far apart: connections go back to the pool before the lock, and the pool is a
stack, so the next thread meets the connection of the failed COMMIT first and its BEGIN rolls it back.
`HotTierBounded` uses the history variable `excess`: a demotion without a candidate, or a new process, may leave the hot tier
above its watermark (`excess` blocks are hot then). What it says is no more than this: without a request the hot blocks are at most `hot_max + added` or
at most `excess + added`, where `added` is what `note_hot_write` has counted towards the next request, less than `hot_max`. So up to `hot_max` more
may stand above the watermark, or above that excess, and no demotion is asked for.

### Violations: where the code does not do what it or its documentation says

| run | what happens |
|---|---|
| `truncate_reuse` | `truncate_file` removes tail chunks, which queues the hot file of a block whose count falls to zero, then stores the kept bytes of the boundary chunk. If those bytes are the content just released, the existing file is kept, the row becomes hot again, and the drain after the commit deletes the file (`file_content.py:383`, `block_store.py:711`) |
| `low_watermark` | the hook demotes one block for each commit (`filesystem.py:228`), and each pass compares the hot bytes with `hot_max_bytes` first (`block_store.py:754`): a pass that was cut off above the low watermark is not gone on with once the high one is reached. `block_store.py:46-47` says that a demotion goes on until the hot tier has come down to `hot_min_bytes`; only `close` does that |

### Settings under which a passing run's property does not hold

The passing runs above leave out some interleavings the code admits, each behind a constant, so that the
rest can be checked. These settings let them in, and TLC then finds the property violated:

| change | violated | what the trace shows |
|---|---|---|
| `BlockTiering`: one digest and reader, `MaxRefs` 1, `{"maintenance"}` | `ReferencedPayloadSurvives` | a copy-up sees the hot file, waits for the transaction lock, and states `hot_present = 1` after a demotion (of the block a write had made hot meanwhile) has unlinked that file. `cleanup` finds a promoted block, goes by the row alone and unlinks the cold copy, the only one (`block_store.py:316`, `cleanup.py:92-116`); `README.md:156` says it removes cold copies of blocks that *have been* promoted. No fault is needed |
| `BlockTiering`: `"reuse"` in `Environment` | `ReferencedPayloadSurvives` | a transaction, the same or a later one, stores a block again while the drain is about to unlink its file (`block_store.py:711`) |
| `BlockTiering`: `{"maintenance", "online"}`, two digests, `MaxId` 3 | `HotFileAccounted` | queue ids are reused, so the drain removes another process's entry by id (`schema.py:239`) |
| `BlockTiering`: a reader, nothing else | `HotFileAccounted` | a correction found before a copy-up is written after it and takes `hot_present` away: the hot file is nobody's (`inode_fuse.py:345`) |
| `BlockTiering`: two readers, `MaxRefs` 1, no fault | `RepairsFit` | the block of one read is released (`create` with `O_TRUNC`), stored again and demoted before its correction is written, which takes back the cold copy that the correction of the other read relies on; the CHECK refuses that one |
| `BlockTiering`: `{"maintenance", "online"}` with a reader | `RepairsFit`, `ColdIndexTruthful` | a correction, or the end of a copy-up, meets a row whose cold copy `cleanup` has removed |
| `BlockTiering`: `{"maintenance", "rollback"}` | `ColdIndexTruthful`, `ReferencedPayloadSurvives` | `cleanup` is killed after an unlink; the row still claims the cold copy, and the next demotion trusts `cold_present` and unlinks the hot file (`cleanup.py:104`, against `README.md:148`) |
| `BlockTiering`: `{"maintenance", "crash"}` | `ReferencedPayloadSurvives` | a demotion unlinks a hot file and the process dies before it commits; `cleanup` takes the row, promoted earlier, at its word and removes the cold copy (`block_store.py:786`) |
| `BlockTiering`: `"rollback"` | `HotFileAccounted` | the file of a write that was rolled back stays, which only fsck removes (by design) |
| `BlockTiering`: `{"outage", "flapping"}` | `ReferencedPayloadSurvives` | the cold tier fails between probe and copy, `copy_atomic` does nothing, and the demotion unlinks the hot file (`block_store.py:788`, `block_file_io.py:65`) |
| `BlockTiering`: two `Encodings` and `"crash"` | `ReferencedPayloadSurvives` | a file left by a crashed write is taken for a new row with another encoding (`block_file_io.py:43`) |
| `FileContent`: `CreateBesideWrites = TRUE` | `ImplementsByteFile` | `create(O_TRUNC)` of an existing file truncates without the content lock, between plan and commit of a write (`inode_fuse.py:421`; the rule is in `inode_locks.py:22-26`) |
| `AdvisoryLocks`: `ReleaseBetween = TRUE` | `ImplementsByteLocks`, `LocksDisjoint` | `release_owner` replaces the list without `_lock` and undoes a concurrent request (`locks.py:96`, called at `file_ops.py:89`) |
| `Namespace`: `RemoveBetween = TRUE` | `HandlesKeepTheirFile`, `DirectoryTree` | between the look-up of an `open` and the registration of its handle an `unlink` deletes the inode, and the handle is bound to a number the next new file or directory gets; an `rmdir` of that directory then takes it for open and keeps it, without a name (`inode_fuse.py:322`, against `handles.py:26-28`); or the deletion at the end of a release hits an inode that was opened and unlinked meanwhile (`file_ops.py:90-98`) |
| `Fsck`: the invariant `run.phase # "refused"` (`MaxRefs` 2) | that invariant | with the cold tier away, `fsck --repair` clears `hot_present` of a block that claims no other tier; the CHECK refuses the statement and the whole run is rolled back, although `README.md:133` says such repairs are skipped (`checker.py:848`) |
| `MetadataStore`: `BodyFailureKeepsAccesses` as a property | that property | a demotion flushes the access counts in the middle of its transaction, so what fails after it loses them (`block_store.py:752`, against `access_stats.py:18`) |
| `AfterCommit`: as many `Stuck` digests as the `Budget` | `QueueDrains` | entries that cannot be deleted keep their places at the head of the queue (only `enqueued_ns` changes, and the order is by id, `gc.py:44`): with 64 of them nothing behind is ever deleted |

`tiering_mounted` therefore says that writes, demotions, copy-ups, drains, reads and faults lose nothing
*as long as no block is stored again while its deletion is queued or under way, a tier keeps its state for
the length of one demotion, and no cleanup follows*, and that a correction fits *as long as one read at a time has one to write*; `namespace` that handles are safe *as long as no name goes in the middle
of an open, nor of a release beside another handle*; `after_commit` that the queue drains *as long as fewer files are stuck
than the budget*.

`HotTierBounded` counts from the start of a process. Mounts that each write less than `hot_max_bytes` and request nothing
let the hot tier grow from mount to mount, which `excess` allows (`README.md:89` speaks of the capacity only).

## 4. Proofs

| module | theorems | inductive invariant |
|---|---|---|
| `BlockRowsProofs` | lemmas: each statement keeps a row's type, its constraint, and moves its count by the delta | – |
| `ChunkRefsProofs` | `ChunkRefsTypeOK`, `ChunkRefsRefcountExact`, `ChunkRefsGarbageMarkedExactly`, `ChunkRefsRowsLegal`, `ChunkRefsEveryFileCanBeEmptied` | `TypeOK`, `RefcountExact`, `SoundRows` (constraint and garbage stamp of each row), `NoChunksOfDeletedInodes` |
| `BlockTieringProofs` | `TieringTypeOK`, `TieringRowsSound` | `Typed` |
| | `TieringColdIndexTruthful`, `TieringRepairsFitUnlessTakenBack` (`MountedOnly`), `TieringPayloadSurvives`, `TieringReadFailsOnlyIfOvertaken` (and `OneEncoding`) | `Typed`, `Mounted` |
| | `TieringRepairsFit` (`MountedOnly`, one reader) | `Typed`, `Mounted`, `ClaimsStand` |
| | `TieringHotFileAccounted` (offline cleanup) | `Typed`, `HotAccounted` |
| | `TieringCleanupKeepsPayload`, `TieringCleanupKeepsIndex` (offline cleanup, outages) | `Typed`, `Kept` |
| `MetadataStoreProofs`: the lock | `ReadWriteLockTypeOK`, `ReadWriteLockMutualExclusion`, `ReadWriteLockNoLostWakeup` | `TypeOK`, `CountersExact` (the counters are the sizes of the sets of reading and waiting threads), and the two properties |
| the store | `StoreUsesLock`, `StoreMutualExclusion`, `StoreTypesKept`, `StoreNoLostWakeup`, `StoreOneWriterInSQLite`, `StoreWaitersAreServed`, `StoreAccessesCounted` | that of the lock, and `StagesMatch` (who is where holds what), `ConnectionsApart` (a connection is idle, a thread's, or not open), `WriteTransactionPlaced`, `SomeConnectionOpen`, `AccessesInWrites` |
| the hooks | `HooksTypesKept`, `HooksHotFilesAccounted`, `HooksHotTierBounded` (of `AfterCommit`) | `HooksInv` |
| `FileContentProofs` | `FileContentTypeOK`, `FileContentReadsExact` | `Sound` |
| | `FileContentImplementsByteFile` (`~CreateBesideWrites`) | `Sound`, `PlanCurrent` |
| `NamespaceProofs` | `NamespaceTypeOK`, `NamespaceLinkCountExact`, `NamespaceUnlinkedInodesCleaned` | `Sound` |
| | `NamespaceStrandedApart` | `Sound`, `StrandedApart` |
| | `NamespaceOpenFileLostToReleaseOnly` | `Sound` |
| | `NamespaceDirectoryTree` (`~RemoveBetween`) | `Sound`, `Tree` |
| the listing | `ListingListedOnce` (of `DirectoryListing`) | `ListingInv` |
| `AdvisoryLocksProofs` | `LocksTypeOK`, `LocksRefusalsJustified` | `Typed` |
| | `LocksKeptDisjoint` (`[][NotWithin]_vars`) | `Typed`, `ListsApart` |
| | `LocksImplementByteLocks` (`[][NothingLost]_vars`) | `TypeOK`, `Shaped`, `Apart`, `RequestFits`, `ReleaseFits` |
| `FsckProofs` | `FsckTypeOK`, `FsckLastGoodCopyKept`, `FsckColdClaimsKept`, `FsckTwoRunsRepair`, `FsckRefusedOnlyInOutage` | `TypeOK`, `SeenLegal`, `KindsKept`, `TodoSeen`, `RInv` |

`MetadataStoreProofs` extends `MetadataStore` and `AfterCommit`, and `NamespaceProofs` extends `Namespace` and `DirectoryListing`: two models each, which is
why the definitions of the second one are named `Hooks...` and `Listing...`.

*Reference counts.* `RefcountExact` is not inductive alone: a clone writes counts for a file it takes to be
empty, hence `NoChunksOfDeletedInodes`; and that no statement breaks the CHECK needs the shape of each row. The
core is a counting lemma: replacing part of one chunk map changes the number of chunks mapping to a digest by
exactly `Delta`. `EveryFileCanBeEmptied` then follows, since a count is at least the number of one file's chunks.

*Tiers.* `Typed` holds in every environment, also in the settings of section 3 that break other properties: the rows
of both tables are tiered and sound, and a write that has dropped nothing has not fewer references than the committed rows. What
more holds depends on who is about, so there are three arguments, each for any number of digests, references and ids:

- `MountedOnly` (rollbacks, crashes, and outages that do not begin or end within the demotion of a block; any readers; no cleanup, and no block
  stored again while its deletion is queued). The code does not exclude what this leaves out, and section 3 shows what is lost then. A cold claim is backed by a file, in the committed and in the uncommitted
  rows, so a demotion that unlinks the hot file leaves a copy; a queued block has no row or a cold copy;
  and what a reader remembers (`Knows`, `GoodRepair`) is weak enough to stay true while the block moves: a cold copy once seen
  stays, and a miss of the hot file means a cold copy unless the block was released meanwhile (`released`). That is why a read fails in two cases only. A late correction
  fits (`RepairsFit`) as long as the row still claims the cold copy it claimed when it was read, and only a correction takes such a claim back
  (`ClaimsStand`), so with one reader it always fits.
- `OfflineCleanup` (no reader, no fault, cleanup while unmounted): `HotAccounted` says that the file of a new block is known to the uncommitted
  rows of its write, that a drain removes only entries whose file is gone, and that ids are distinct, so that an entry removed by
  id is the one that was read. Blocks may even be stored again in the transaction that released them.
- `OfflineOutages` (no reader, outages): `Kept` says that hot and cold claims are both backed, so `cleanup` may go by the row when it unlinks a cold copy, and
  that a queued block is unreferenced, so that neither it nor the drain takes a file that is needed.

The last two leave out readers because with one the properties fail (section 3). `OneEncoding` says that the compression settings
stay as they are, which `ReferencedPayloadSurvives` needs after a crash (section 3).

*The lock.* A thread that waits was refused because somebody holds the lock or waits to write. That somebody is a
member of a counted set, so `CountersExact` turns the counter the code tests into a thread that will notify. That
such a thread always exists is `NoLostWakeup`; that it is fair is left to the run.

*The store.* Every step of `MetadataStore` is a step of the lock or leaves it alone, so the lock's theorems hold of
transactions. `OneWriterInSQLite` needs to know where an open write transaction can be (`WriteTransactionPlaced`): on
the writer's connection; on the connection of a reader that has not begun yet and whose BEGIN will roll it back; or on top
of the stack, while no thread holds a connection or is about to take another. `WaitersAreServed`
needs that the pool has never lost all of its connections (`SomeConnectionOpen`): `setup` opened one, and only a
connection that fails to open leaves the count. `AccessesCounted` compares sums over all connections: by
`AccessesInWrites` only a connection with a write transaction holds accesses, each step changes one connection, and `SumChanges`, by induction on the set
of connections, says what that does to the sum.

*The hooks.* `HooksInv` says that one thread at a time is in the hooks, that what its drain has read is still queued, and that no
queued digest has a row; so a file the drain unlinks is nobody's. `HotTierBounded` is inductive with it: a commit whose counter reaches
`hot_max` sets the request in the same step, and who takes the request is in step `"demote"` until there is
no candidate (which `excess` records) or another request.

*Contents.* `Sound` holds in any case: a chunk is no longer than its part of the file, what a plan says of itself fits, and one thread at a
time has a plan. What the bytes of the abstract file are is a function of the chunks, so the refinement is about steps: a commit replaces
chunks by the planned ones, and that these are the present bytes with the written ones laid over them needs that size and chunks have not
changed since the plan (`PlanCurrent`), which the content lock ensures as long as `CreateBesideWrites` is false. A read joins
pieces of the chunks it touches; that this gives the bytes of the range is shown by induction on the set of their numbers.

*Names.* `LinkCountExact` is a count as in `ChunkRefs`: an operation changes one or two entries, and the link count of each inode by the difference. An inode
without a name has a handle, or a release under way (`UnlinkedInodesCleaned`), in any interleaving, unless it had none when the process died (`stranded`). Such
an inode stays for good, as no code looks for one; `NamespaceStrandedApart` says that it is in nobody's way: no handle or name leads to it, and
its number goes to no other inode, so a later inode is never excepted. An inode whose release failed is excepted as long as nothing else
happens to it (`abandoned`): an open that was under way may still bring it back into use. `is_descendant` climbs parent links;
`IsDescendant` quantifies over the sets of inodes that are closed upwards, which says the same and can be reasoned about: a rename moves a directory to a
place that is not below it, so whatever reached the root before still does (`RootReached`). What may take an open file from its handle is proved of any interleaving (`NamespaceOpenFileLostToReleaseOnly`):
the write transaction of a release that had looked for other handles before this one was registered, and nothing else; no unlink, rmdir or rename does, and
no release begins its deletion while the file is open. (An open that registers a handle for a number that has gone meanwhile is the other half of what
section 3 shows.) The tree needs `~RemoveBetween`, the setting in which no name goes in the middle of an open, nor of a release beside
another handle, because a stale handle can keep a directory that was removed.

*Listings.* The index orders the names once and for all, so a page is the first names after the last one. `ListingInv` says for each handle that
the offset is the number of entries given out (`OffsetCounts`). If the directory or the handle has stayed the same, each cursor is the name at its
offset (`CursorsTrue`), what has been given out ascends, and nothing that stayed was passed over (`NoGaps`).

*Locks.* A request computes a new list under `_lock` and installs it in a later step. `release_owner` takes no `_lock`, so the list may have been
changed meanwhile. Two conditions on the steps say when that does harm. Locks stay disjoint as long as no release installs its list after a request has replaced the
list and before it appends the new lock (`NotWithin`). The list stands for the abstract locks as long as nobody still holds a list read before when the list is
changed (`NothingLost`): then it is the one the change was computed from (`RequestFits`, `ReleaseFits`). The code ensures neither (section 3); both hold
if releases are kept apart, as in the run (`QuietNothingLost`). A list is read as the mode in which each owner holds each byte, and a split lock covers the same bytes. That a refusal is
justified needs less: in any setting what is installed are ranges of the file, and two ranges overlap exactly if they share a byte.

*fsck.* A run deletes files because of rows it read at its start. What makes that safe is that no repair changes
the kind of a row: a referenced tiered block was tiered in the rows the run goes by (`KindsKept`), so it is
neither an orphan nor deleted as unreferenced, and the scrub removes a bad copy only beside a good one. Rollbacks
return to legal rows (`SeenLegal`), and the digests that are still to be checked or scrubbed had a row at the start (`TodoSeen`). `RInv` says how far a run has come
for each digest: what a phase has left behind is repaired as far as that phase repairs, and later ones do not undo it. After a
first undisturbed run the rows need no repair, so the second finds rows it does not change and removes what they do not claim.

Assumptions are those on the constants, named in the modules that declare them and evaluated by TLC: `Files`, `Threads`, `Connections`, `Readers`, `Names` and,
for the hooks, `Digests` finite; the bounds natural numbers; `NoRow`, `NoBlock`, `NoPlan`, `Idle` and the like no members of what they stand
beside. A theorem that needs a setting of section 3 has it as its hypothesis. Otherwise the theorems hold for any number of digests, files,
chunks, names, handles, threads and connections.

*Only model-checked:* `LockProgress` and `QueueDrains` (liveness under fairness, which the prover cannot do); the two properties
that the code violates; `HandlesKeepTheirFile`, which the code does not keep in general; and that the settings of section 3 violate what they are said to. `NoLostWakeup` and the other safety properties
of the lock are proved of any schedule; that waiting writers progress rests on fairness.

## 5. What is not modelled

- *A `create` whose COMMIT fails*: its handle was registered inside the transaction (`inode_fuse.py:434`) and stays, for an inode that was rolled back. The
  number goes to a later file, which that handle keeps from being deleted when it is unlinked. `Create` of `Namespace` succeeds or does nothing.
- *The hot file of a refused copy-up*: `ChunkRefs` has the refusal and no files, `BlockTiering` has the files and no inline blocks.
- *Inline payload bytes, the decoded-block cache, read-ahead*: a hit reads no file; modelled as if every read missed.
- *Ages, limits, dry runs, thresholds of the access buffers*: any subset of the candidates may be chosen, and a commit may come at any time.
- *Timeouts of the pool, a pool closed under a transaction*: no caller passes a timeout, and `close` comes after the last operation.
- *A seek forward* of a directory stream, past where it has gone back to: the offset's name is one of an earlier pass, so a listing
  that jumps has no promise to keep.
- *Checks of fsck that only report, and link counts*: nothing is changed, or changed from one query.
- *Permissions, times, extended attributes*: single statements on one row.
- *Command line, console, statistics, profiling*: formatting.

## 6. Plan

Done, in this order: `BlockRows` and `ChunkRefs` (the counts that everything rests on) with proofs;
`BlockTiering` (composes rows, queue, files and processes); `ReadWriteLock` with proofs; `FileContent`
against `ByteFile`; `Namespace`; `AdvisoryLocks` against `ByteLocks`; `Fsck` with proofs; `MetadataStore` (pool,
transactions, access counts) with proofs; `AfterCommit` (queue order, budgets, watermarks, liveness); `DirectoryListing`.

Then the proofs of every safety property a run checks, both refinements among them.

Then crashes in `Namespace`, and the progress of readers; late updates by hash, truncations in the middle of a read, and opens and releases that fail.

Next: what the models still leave out and the code has: the cache of decoded blocks and read-ahead (`block_store.py`), and the checks of fsck that only
report or repair link counts.
