# Verification of OxiSQL

TLA+ models of the parts of OxiSQL in which a step of one actor can meet a step
of another, or in which a long sequence of legal calls can reach a state nobody
wrote a test for: the storage engine of `crates/oxisqlite-core` (row versions,
write-ahead log, lock, page cache and pager, B-trees) and the migration runner
of `crates/oxisql-migrate`. TLC checks them on small instances; TLAPS proves
part of what TLC checks for every value of the constants. `PROJECT.json` maps
each definition to the lines it translates, and lists the runs, the mutant that
shows each property can fail, the hazards, and the parts of the system that are
not modelled.

Run a model with `tlc -config <cfg> <module>` and a proof with
`tlapm <module>.tla`, in this directory.

## The system and its models

A statement is compiled to VDBE instructions. Those that move or change a
cursor work on a **B-tree** (`storage/btree`), whose pages come from the
connection's **pager** and private **page cache** (`storage/pager`,
`storage/page_cache.rs`). A commit or a SAVEPOINT appends the dirty pages to the
shared **write-ahead log** (`storage/wal.rs`); checkpoints copy the log into the
database file. Connections exclude one another with **LimboRwLock**s: one write
lock, and one lock per read mark. In MVCC mode rows live in **MvStore**
(`mvcc/database`) instead. **Migrations** (`oxisql-migrate`) run on top of any
driver.

| Module | Code | What a state is | What an action is |
|---|---|---|---|
| `Mvcc` | `MvStore` | clock, transactions, the Vec of versions of each row, where each thread is inside its call, the collector | what the code does under one lock, or one atomic load or store |
| `RowLockStore` | (abstract) | each row's last commit, who has claimed it | claim, commit of all claimed rows, release |
| `MvccRefines` | | refinement mapping from `Mvcc` to `RowLockStore` | |
| `Wal` | `WalFile`, `WalFileShared`, the transaction calls of the pager and the VDBE | log, index, marks and locks shared; a WalFile, page cache, savepoints and transaction state per connection | what a call does between two returns for I/O, or a part of it that nothing interrupts |
| `LimboRwLock` | the lock | lock word, reader count, what each thread loaded | one atomic operation |
| `Pager` | `DumbLruPageCache`, `Pager` | LRU list and map, page objects with flags, dirty set, header, frame writes in flight | one pager call, one I/O completion |
| `BTreePage` | `page_ops.rs` | the cells, free blocks and fragments of one page, byte positions included | one page operation |
| `BTree` | cursor, balancing, the instructions around them | pages as cell sequences, the cursor's stack and state machine | one state of the cursor's state machine, or one instruction |
| `Migrate` | `MigrationRunner`, tracker, advisory lock | files, tracker rows, what was executed, where each process is | what happens between two awaits |

The `MC*` modules and `.cfg` files are the instances. `MvccInd` holds the
inductive invariants of the store; `MvccProofs`, `MvccFirstProofs`, `WalProofs`,
`WalListProofs`, `WalMarkProofs`, `WalViewProofs`, `LimboRwLockProofs` and
`MigrateProofs` hold the proofs.

Each model leaves the one below it to its own module: `BTree` takes its pages as
given, `BTreePage` opens up the bytes of one; `Pager` has the log as `store`,
what a read returns, and `Wal` has the page cache as a map from pages to
contents; `Wal` takes the methods of `LimboRwLock` as atomic, and `LimboRwLock`
opens them up.

`Wal` is about connections that share a thread: they take turns where a call returns
for I/O, and between calls. Inside a call the code takes several locks one after the
other (choosing a read mark and locking it, `wal.rs:565-587`; clearing the index and
the list of a log that starts over, `896-899`), and a connection on another thread
could come in between. That is outside the model, and nothing it checks or proves is
claimed there.

Data is abstracted to what the properties tell apart: a page's content is the
number of the write that made it; a version is its commit timestamp; a row of a
tree is a key and a length; a migration's text is the number of its last edit
and stands for its checksum as well. Checksums of the log are cumulative, so the
last write one covers stands for it; a frame carries the one it goes on from.

## What is checked

| Run | Instance | Shows |
|---|---|---|
| `mvcc_all` | 2 transactions, 1 row, every call except `update`, failing commits, collector | `NoLostUpdate`: first writer wins. `MarksResolved`: marks are replaced before their transaction leaves the map. `LoggedBeforeVisible`, `NoDirtyRead`: nothing is seen or read before it is logged. `ViewStable`: between state stores nobody else's step, the collector's included, changes what an active transaction reads |
| `mvcc_refines` | 2 transactions, 2 rows, update, delete, rollback | `ImplementsRowLocks`: the store refines `RowLockStore`. `NoTornCommit`: a commit is seen whole. `OneCurrentVersion` |
| `wal_alone` | 1 connection, 2 pages, nested savepoints, all calls but ROLLBACK, statements that fail and checkpoints inside a transaction or savepoint; fair | `ReadsView`, `CacheFresh`: no snapshot is disturbed by savepoints, checkpoints, resets and close. `Durable`: no commit is lost by them, and the log keeps one chain of checksums, which a process that reads it back follows. `LockReleased`: the write lock comes back |
| `wal_shared` | 2 connections that read and write | `ReadsView` and `MarkPinned`: snapshots of one are isolated from the commits of the other |
| `wal_mixed` | savepoints, ROLLBACK and failing statements of one connection beside writes and checkpoints of another | `OneWriter`, `FrameCacheSound`, `PageListMatches`, `CheckpointInBounds`: whatever happens to data, lock and index stay sound |
| `wal_rollback` | 1 connection, BEGIN, write, ROLLBACK | violation: a ROLLBACK loses committed pages (below) |
| `rwlock` | 2 readers, 2 writers, a 2-bit counter | `Exclusive`, `UnlockSucceeds`, `Settled`, as long as no two threads have read at once |
| `pager` | 2 cursors, a cache of 2 or 3 pages, 7 page numbers, five workloads | `Coherent`: every page reads as last written. `DirtyPinned`, `Bounded`, `HeaderSound`, `FsyncAfterWrites`, `ClearsUnlessReading` |
| `btree_page` | a page of 33 bytes, cells of 4 and 7 | `Layout`: what `integrity_check` looks for. `FreeSpaceExact`. `Contents`: no cell lost or out of order |
| `btree` | pages of 76 bytes, tables and indexes of up to three levels | `WellFormed`, `Contents`, `NoSkip`, `SeekRight`, `BalanceEnds` |
| `btree_backwards` | a table of three levels read from its end | violation: a backward scan misses rows (below) |
| `migrate` | 2 processes, 3 versions, both kinds of entry point, up and down, edits, statements that fail, also half way, deaths; fair | `NoDoubleApply`, `InOrder`: the tracker's rows are a prefix whatever fails. `Consistent`: no row is there for a file that did not run to its end. `SuccessMeansCurrent`, `LockFreed` |

Runs switch deadlock checking off: every instance is bounded and may come to its
bound.

### Bounds, and why they are enough

- **Mvcc**: conflicts are between two transactions over one row; torn commits
  need two rows. `MaxTs = 5` lets both begin, commit and be followed by a later
  snapshot. `MaxWrites` of 2 lets one transaction write two rows, or one twice; with
  the collector it is 1, and a row loses all its versions to a delete or a rollback.
- **Wal**: two pages tell a page that was written from one that was not. A
  threshold of 2 frames makes commits checkpoint by themselves; `MaxFrame` of 2
  to 4 lets the log fill, be trimmed, start over and be written again. Two read
  locks give a reader a mark of its own and one to be shared.
- **LimboRwLock**: the counter wraps at 4, so wrapping is reached by two readers.
- **Pager**: three page numbers over a cache of two make every read an eviction;
  six page objects let a cursor keep two that the cache has dropped. The five
  workloads give calls that interact the depth they need (evictions; savepoints
  and checkpoints; allocation; renumbering; the free list).
- **BTreePage**: five cells of two sizes on 33 bytes reach fragments (limit 2 in
  place of 57), joins across gaps of up to three bytes, defragmentation, a full
  buffer of ranges (1 in place of 10), overflow and balances.
- **BTree**: pages are so small that a dozen rows make three levels, and one row
  changes the number of siblings. Loads go through every pattern of lengths in
  ascending, descending and scattered order; deletes empty the tree down to a
  collapsed root.
- **Migrate**: three versions with the target in the middle, so that two are undone
  one after the other, and a third whose `.down.sql` is rejected; three calls let one
  process go on where another failed, and again where that one did. The modes are
  *embedded* (`run_embedded`, `rollback`), *connection* (`run_with_conn` by two
  processes at once) and *serial* (`run_with_conn` and `rollback_with_conn`, one call
  after the other).

### Fairness

`FairSpec` of `Wal` makes a call that was started go on (`WF(Step(c))`: the
statement is stepped and its I/O completes) and assumes that the client commits
what it began (`WF(Commit(c))`). Without the second the lock could be kept by an
idle client, which is no fault of the code. `FairSpec` of `Migrate` is that the
async runtime polls a future that is ready. No fairness is assumed of clients'
other calls, of faults or of the collector.

### Where the runs stop looking

Some models record in a history variable that something happened for which the
code does not provide, and the properties are claimed up to then. Each of these
is a real reachable case and is listed under the disagreements.

- `BTree`, `taint`: *astray* (UPDATE inserted where its delete left the cursor),
  *spilled* (an overwrite left a cell beside its page), *deep* (the replacement
  of an interior index row in a tree of three levels), *mixed* (dividers split
  between a page and its overflow cells), *climbed* (backward scan of a table
  from an interior page). No statement starts after one of them.
- `BTreePage`, `mixed`: the same split of dividers, excepted in `Contents`.
- `Pager`, `marks`: *early*, *raced*, *torn*, *short*, *reset*, *unwound*. Each
  property names those it excepts; `MCPager`'s constraint `Untainted` cuts behaviours
  after *early*, *raced* and *torn*.
- `LimboRwLock`, `overlap`: two threads read at once. The write lock is never
  read-locked, so for it the premise always holds.
- `Migrate`, `lost`, `undone` and `edited`: versions whose change of the tracker
  table was lost to a fault; those of them on the way down; files edited or reverted
  since the run began. The rows of the tracker table are excepted nowhere in
  `InOrder`, and in `Consistent` only where a rollback failed.
- `Mvcc`: `ViewStable` excepts rows on which a rollback left its mark (`Leftover`)
  and rows that are about to be unlinked without another look (`Doomed`). It is about
  transactions that are Active; one that has drawn its timestamp and is not in the
  map yet is not, and what the collector takes from it there is not claimed to stay.
  `OneCurrentVersion` and the refinement are about clients that do not upsert.
  `NoLostUpdate` names a version by its row and timestamp; a transaction that inserts
  a row it already sees (the call *insert_over*) makes two of one name if it does so
  twice, which `mvcc_all` does not.
- `Wal`: the runs choose the calls each connection makes (`Ops`). `ReadsView`,
  `CacheFresh` and `Durable` are not claimed for two connections with
  checkpoints, nor for ROLLBACK and statements that fail inside a transaction, where
  they are false.
- `BTreePage`: a page has less than 65536 bytes, so that its sizes fit the `u16`s of
  the code.

## What is proved

TLAPS checks these theorems for every value of the constants, any number of
threads, transactions, connections, rows, pages and frames included.

- **`LimboRwLockProofs`**: `WriteExcludes`, `UnlockNeverPanics`, `LockSettles`.
  The properties alone are not inductive: the lock word is changed before or
  after the holder knows. The invariant says, as long as no two threads have
  read at once, which thread the word belongs to (holder, or in the middle of
  acquiring or giving back), that the count is that of the one reader, and what
  a thread at each program point has seen.
- **`MvccProofs`**: `TypeCorrect`. Typing needs what each program point knows of
  its call (the row is a row; the version waited on is a version).
  `CommitsAreWhole` (`NoTornCommit`) needs no more than the types: what a
  transaction may see of a commit is decided by one comparison of timestamps,
  whether the commit has rewritten its marks or not.
  `MarksAreResolved`: `MarksInv` adds who still *owes* the resolution of a mark:
  a begin or end mark's transaction is before its rewriting loop, or the loop has
  not come to the row yet; that an insert is in the write set before its version
  is in the Vec; and that the Vec an inserter, a deleter or a rollback has looked up
  is the row's, or the row's holds nothing of it although the collector unlinks Vecs.
  `VisibleIsLogged` (`LoggedBeforeVisible`) and `ReadsAreCommitted`
  (`NoDirtyRead`): `LoggedInv` says that every version which begins with a
  timestamp, or with the mark of a transaction that has published, is in the log
  under that timestamp; `ReadsInv` that whatever was read is.
- **`MvccFirstProofs`**: `FirstWriterWins` (`NoLostUpdate`), where no transaction
  inserts a row it already sees (`NoInsertOver`, see above). What `delete` compares are timestamps, so `FirstWriterInv` begins with the clock: nobody's
  begin or end timestamp is shared or in the store already. It goes on with the
  order of versions in a Vec, with the
  versions a transaction added itself (nobody else marks them before it
  publishes, and at most one of them is open), and says that whatever a
  transaction replaced stays ended, by it or by a commit. The conjuncts about one
  row's versions come first, one lemma per action.
- **`WalProofs`**: `WriterAlone` (`OneWriter`) and `IndexSound`
  (`FrameCacheSound`). The invariant adds that whoever is on its way through a commit, or holds a savepoint whose RELEASE
  commits, is the writer (so that the lock `end_tx` gives back is its own); that
  whoever is about to be given a read lock is in no transaction; and that the
  frames to which ROLLBACK and ROLLBACK TO truncate are within the log's bound.
- **`WalListProofs`**: `WorkListComplete` (`PageListMatches`). Every step edits list
  and index in one of four ways: not at all, an
  append, a retain, or clearing both; what a retain leaves (`Retained`) is shown
  by counting the elements kept up to each position. `CheckpointStaysInList`
  (`CheckpointInBounds`): the list may shrink while a commit's
  checkpoint waits for its I/O; it goes on to the next page only where the list,
  as it is by then, is longer, and nobody else moves between that comparison and
  the assert.
- **`WalMarkProofs`**: `MarksStay` (`MarkPinned`), for any finite set of
  connections, checkpoints, ROLLBACK and failing statements included. The
  invariant counts: a read lock counts at least those who remember it, so the
  checkpoint, which moves a mark only if it can take the lock for writing, moves
  none that is in use. The hypothesis is that there is no ROLLBACK TO, which sets
  the reader's last frame and not its mark; it is false without.
- **`WalViewProofs`**: `SnapshotReads` (`ReadsView`) and `CommitsStay`
  (`Durable`), for any number of connections under `Plain`: explicit and autocommit
  transactions that read and write, and a log
  below the size at which a commit checkpoints. This contains the instance of
  `wal_shared`, not that of `wal_alone`. The invariant says that the log bounded by
  any mark shows what was committed when that mark was its end (`Marks`), that
  bounded by its end it shows what is committed (`Last`) or, in the middle of a
  commit, that with the pages flushed so far (`Half`), and that what a transaction
  has not written it finds as its snapshot has it (`Sees`). An append cannot be seen
  from an older mark (`OldLookup`).

- **`MigrateProofs`**: `NothingTwice` (`NoDoubleApply`), `SuccessIsTrue`
  (`SuccessMeansCurrent`), `OneAfterTheOther` (`InOrder`) and `FileAndRow`
  (`Consistent`), for any set of files, any number of processes and every
  combination of faults. One hypothesis is needed, and they are false without it,
  `OneAtATime`: where processes run at once over a Connection a lock is attached, and
  `rollback_with_conn`, which does not take it, is not called. The invariant says
  that one call at a time looks at the database (`Alone`), that what its loop has
  left is what the tracker table lacks (`Work`), that the rows it has verified are
  the files on disk (`Verified`), and six facts about the database (`Database`): a
  version no fault touched is tracked if and only if it is there (`DbAgrees`); the
  rows are one per version and a prefix (`DbRows`); a row is backed by an execution
  (`DbBacked`); nothing is there above the target (`DbWithin`); what a successful run
  promised still holds (`DbDelivered`); and what the file between its SQL and its row
  looks like (`DbHalfway`). Every step is of one of a few kinds: quiet, executed,
  marked or torn, so that each fact is proved per kind and not per action. That a loop
  has a first and a last file is proved from the finiteness of `Version`.

The assumptions are those of the modules' `ASSUME`s: bounds are naturals, `Ops`
is a set of calls, the value for "no page" is not a page.

Only model-checked: liveness (`LockReleased`, `LockFreed`) and everything that
needs `ENABLED`; the contents of trees and pages and the page cache (`BTree`,
`BTreePage`, `Pager`), whose definitions are recursive or fold over sequences, so
that proofs would be by induction over data; `CacheFresh`, and `ReadsView` and
`Durable` where savepoints and checkpoints take part; of the store,
`OneCurrentVersion`, `ViewStable` and the refinement of `RowLockStore`.

## Disagreements met

Two of them are runs of their own, with a counterexample.

- **`wal_rollback`**, `wal.rs:972`: `rollback()` truncates the shared log to
  where this connection's *last write transaction* began. BEGIN; ROLLBACK without
  a write in between drops the frames of the last committed write and of all
  later ones. The doc says that it "removes from the frame cache every frame that
  was appended during this transaction".
- **`btree_backwards`**, `cursor_core.rs:105`: `get_prev_record` treats the cell
  index of an interior page reached from below like that of a fresh one; a
  backward scan of a table with three levels passes over rows.

The others were found in the same way; the models contain the behaviour and the
properties except it as described above.

*Multi-version store* (`mvcc/database/mod.rs`)
- 711: `rollback_tx` leaves the end marks of its deletes; the row stays invisible
  once the transaction is out of the map (doc at 688: "discarding any changes made
  by the transaction"). After a collection such a committed row is dropped.
- 1049: a deleter that is Preparing already hides the old version from others
  (doc at 490: "isolated from other transactions until you commit").
- 495: the begin timestamp is drawn before the transaction is in the map. A commit
  published in between makes two reads of one row differ (comment at 548: "sufficient
  for snapshot isolation"), and the collector may drop versions the transaction needs
  (doc at 740).
- 309: `upsert` ignores a version committed after the caller began; two current
  versions result (doc at 307: "previously deleting any old data if it existed").
- 824: the collector unlinks a row it found empty earlier, with the version an
  insert has meanwhile put there (doc at 743: "must *never* be dropped"). A `read` that
  looked the row up before (396) and locks it after may return that version, which
  `commit_tx` no longer finds and does not log; `Mvcc` takes the two as one step, and
  `NoDirtyRead` is about reads from Vecs that are still in the map.

*Write-ahead log*
- `txn_schema.rs:259`: ROLLBACK releases neither write nor read lock; every later
  writer is Busy.
- `wal.rs:885`: a complete checkpoint restarts the log although a reader is pinned
  at its end; the next commits reuse frame numbers the reader accepts.
- `wal.rs:762`: a checkpoint outside a transaction uses the `min_frame` of the
  connection's last read transaction, skips frames of the new generation and drops
  them.
- `pager_caching.rs:424`: beginning a read transaction does not invalidate the
  page cache, so commits of other connections are not seen.
- `txn_schema.rs:120`: a failing statement drops the dirty pages of the statements
  before it and leaves the transaction open.
- With a thread per connection, which `Wal` does not have: a checkpoint may move a
  read mark between its choice and its lock (`wal.rs:584`); two checkpoints at once
  may fail the assert on the page list (`801`); an append between the clearing of the
  index and that of the list (`896`) leaves the two apart. `wal.rs:180` and `188`: with two readers a writer can
  acquire a lock that is held for reading, and the assert in `unlock` can fail.
- Uncommitted frames a SAVEPOINT flushed are in the shared log: other connections
  read them and checkpoints copy them. A SAVEPOINT inside BEGIN takes no write
  lock, and its ROLLBACK TO truncates what others committed since.
- A SAVEPOINT before the first statement of a transaction remembers the end of a
  log which a checkpoint may restart; ROLLBACK TO then keeps the frames written
  since, up to that number.
- A Busy answer of `begin_write_tx` leaves the read lock taken. A transaction that
  read before it writes is not refused when its snapshot is no longer the latest.

*Pager*
- `wal.rs:730` (*early*): the index has a frame from the moment it is appended; a read
  that overtakes the frame's write returns what the file held before.
- `sqlite3_ondisk/mod.rs:1646` (*raced*): the completion of a frame write clears the
  dirty flag of a page that was written again since a SAVEPOINT flushed it. The page
  may then be evicted, although the comment at `pager_caching_2.rs:50` says that
  "dirty pages are pinned against eviction".
- `pager_caching_2.rs:93`, `232` (*torn*): with a page still locked or flagged dirty
  the cache is cleared half way. A commit reports an error after its frames are in
  the log, a rollback panics.
- `pager_caching_2.rs:286` (*reset*): `rollback` zeroes the count of writes in flight;
  later completions decrement it below zero, or the next commit syncs too early.
  `rollback_to_savepoint` says "Do NOT reset in_flight_writes".
- `pager_caching_2.rs:707` (*short*): `allocate_page` may fail with the new size in
  the header, where its doc says the header "is left exactly as it was before the
  call". `free_page` (564) counts the page before it reads the trunk, which may fail.
- *unwound*: no rollback restores the header in memory. Freed pages are never used
  again by `allocate_page`.
- `pager_caching_2.rs:713`: renumbering a page leaves its old entry in the LRU list;
  the bound on the cache is lost, and the walk of `make_room_for`
  (`page_cache.rs:322`) can follow an entry it has just freed.

*B-trees*
- `emitter.rs:1352` (*astray*): UPDATE inserts without seeking again, where
  `translate/insert/mod.rs` says "we MUST re-seek the table cursor to the target rowid
  before inserting".
- `page_ops.rs:1012` (*mixed*): a divider that fits is put on the page while one
  before it waits in `overflow_cells`; the merge by index then misorders them.
- *spilled*: `overwrite_cell` with a longer cell leaves it beside the page with no
  balance to follow. *deep*: the replacement of a deleted interior index row goes to
  the parent of the leaf, in trees of three levels another page.
- `tablebtree_seek`: a range seek that ends in a leaf without a match answers "not
  found" although the next leaf has one. `SeekRight` excepts it.
- `cursor_nav.rs:549`: after the delete of a leaf's last cell a scan may visit a row
  twice.

*Migrations* (`runner.rs`)
- 312, 630: no transaction is around a file and its tracker row, where the guide says
  "Each migration runs inside its own transaction" and "Re-runs are idempotent".
  `run_with_conn` begins none. `run_embedded` tries to, but `MemoryStorage`, the only
  storage it takes, rejects BEGIN (`oxisql-embedded/tests/memory_basic.rs:323`). A file
  that failed half way, or whose row could not be written, is executed again by the
  next run.
- 600: without the optional lock two runs apply a version twice (the test in
  `tests/migrate.rs:864` expects the mutex to serialise them).
- 595, 619: `run_with_conn` looks at neither `dry_run` nor `target_version`.
- 686: `rollback_with_conn` takes no lock.

## Not modelled

The map covers under five per cent of the repository's lines of Rust. Most of the
rest has no state that several actors or long sequences of calls act on, and a model
of it would repeat the code: the SQL parsers and lexers (28,000 lines), the
translation of SQL to VDBE programs and its optimizer, the evaluation of about 150
VDBE instructions over values, JSON, dates, vectors and numbers, the wire protocols
and type mappings of PostgreSQL and MySQL, DataFusion and GlueSQL adapters, traits,
error types, macros and vendored shims. Their properties are about text, bytes
and arithmetic, over unbounded inputs.

What has state and is left out:

- **recovery of a log from disk** (`read_entire_wal_dumb`, and `MvStore::recover`,
  whose storage always fails): a sequential scan whose correctness is that of the
  checksum;
- **overflow pages** of long records, the **pointer map**, vacuum and
  `btree_destroy`: `BTree` has records that fit;
- **several cursors on one tree**: the code saves no cursor's position when another
  changes the tree, so nothing could be claimed;
- **attached databases**, committed one after the other (a documented limitation);
- **pools and the key-value store** of `oxisql-pool`: pooling is in external crates,
  and the store's `set` is two statements without a transaction;
- **PostgreSQL logical replication**: the keepalive and acknowledgement tasks of
  `oxisql-postgres`, against a server that is external;
- of migrations, the loss of the session that holds the advisory lock, its release
  failing, and a caller that drops the future of a run half way. The BEGIN of
  `run_embedded` and `rollback` always fails (see above), so the ROLLBACK and COMMIT
  behind it are unreachable and have no actions. `execute_batch` may fail half way
  (fault `half`), which PostgreSQL's simple query protocol excludes and MySQL's does
  not.
