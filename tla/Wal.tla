--------------------------------- MODULE Wal ---------------------------------
(***************************************************************************)
(* The write-ahead log of oxisqlite-core with the pager and the            *)
(* transaction control above it: storage/wal.rs (WalFile, WalFileShared),  *)
(* storage/pager/pager_caching*.rs, vdbe/execute/txn_schema.rs, and        *)
(* commit_txn in vdbe/mod.rs.                                              *)
(*                                                                         *)
(* Every connection has its own WalFile, Pager and page cache; the log,    *)
(* its bookkeeping and the database file are shared.  A page's content is  *)
(* the number of the write that produced it, so two contents are equal     *)
(* only if one write made both.                                            *)
(*                                                                         *)
(* The connections share one thread: another one runs only where a call    *)
(* returns for I/O, or between two calls.  Steps inside a call that does   *)
(* not return are told apart where that makes them easier to read; nothing *)
(* comes between them.  (Connections on threads of their own meet in       *)
(* LimboRwLock, and there module LimboRwLock opens up its methods.)        *)
(***************************************************************************)
EXTENDS Naturals, Sequences, FiniteSetsExt

CONSTANTS
  Conn,      \* connections
  Page,      \* pages of the database
  Slots,     \* number of read_locks (5 in the code)
  Threshold, \* checkpoint_threshold (1000 in the code)
  Ops,       \* [Conn -> the client calls it makes, a subset of Calls]
  MaxFrame,  \* bound: frames in the log
  MaxWrite,  \* bound: page writes
  MaxReads,  \* bound: readers counted by one read lock
  MaxDepth   \* bound: nested savepoints

Calls == {"begin", "read", "fetch", "write", "savepoint", "rollback_to", "release",
          "rollback", "fail", "fail_in_tx", "checkpoint", "checkpoint_in_tx", "close"}

ASSUME OpsAssumption == Ops \in [Conn -> SUBSET Calls]
ASSUME SlotsAssumption == Slots \in Nat \ {0}
ASSUME BoundsAssumption ==
  /\ Threshold \in Nat /\ MaxFrame \in Nat /\ MaxWrite \in Nat
  /\ MaxReads \in Nat /\ MaxDepth \in Nat

VARIABLES
  \* WalFileShared and the two files
  max_frame, nbackfills, frame_cache, pages_in_frames, last_checksum,
  read_locks,    \* [0..Slots-1 -> [nreads, value]]
  write_lock,    \* is it WRITE_LOCK?
  log,           \* the WAL file; a frame is current if it has the header's salt
  db,            \* the database file
  \* one of each per connection
  wf,            \* WalFile: frame range, read lock held, start of the transaction
  ck,            \* WalFile::ongoing_checkpoint
  transaction_state, auto_commit, cache, dirty_pages, savepoints,
  pc,            \* where the connection is inside a call
  arg,           \* what it is in that call for
  \* history
  writes,        \* page writes so far
  committed,     \* the last committed content of every page
  snapshot,      \* [frame -> what was committed when it was the last frame]
  view,          \* [Conn -> what its transaction should see]
  wrote          \* [Conn -> the pages its transaction wrote]

shared == <<max_frame, nbackfills, frame_cache, pages_in_frames, last_checksum>>
locks  == <<read_locks, write_lock>>
files  == <<log, db>>
pager  == <<cache, dirty_pages, savepoints>>
txn    == <<transaction_state, auto_commit>>
ctl    == <<pc, arg>>
hist   == <<writes, committed, snapshot, view, wrote>>
vars   == <<shared, locks, files, wf, ck, pager, txn, ctl, hist>>

-----------------------------------------------------------------------------
(* Data                                                                    *)

Frame      == 1..MaxFrame
Content    == 0..MaxWrite
Slot       == 0..(Slots - 1)
NotUsed    == MaxFrame + 1           \* READMARK_NOT_USED, above every frame
NotCached  == MaxWrite + 1
NoPage     == "none"
ASSUME NoPageAssumption == NoPage \notin Page

\* A checksum is cumulative, so the last write it covers stands for it; Seed is
\* the header's, and NoChecksum the (0, 0) of a WalFile that never wrote.
Checksum   == 0..(MaxWrite + 1)
Seed       == 0
NoChecksum == MaxWrite + 1

WalFrame   == [page : Page \cup {NoPage}, content : Content, prev : Checksum,
               current : BOOLEAN]
NoFrame    == [page |-> NoPage, content |-> 0, prev |-> Seed, current |-> FALSE]
Snapshot   == [Page -> Content]
Initially  == [p \in Page |-> 0]
Empty      == [p \in Page |-> {}]
NoCache    == [p \in Page |-> NotCached]

WalFile    == [min_frame : 0..(MaxFrame + 1), max_frame : 0..MaxFrame, slot : Slot,
               start : 0..MaxFrame, start_checksum : Checksum]
NewWalFile == [min_frame |-> 0, max_frame |-> 0, slot |-> 0,
               start |-> 0, start_checksum |-> NoChecksum]
Checkpoint == [min_frame : 0..(MaxFrame + 1), max_frame : 0..MaxFrame,
               current_page : Nat, page : Page \cup {NoPage}, frame : 0..MaxFrame,
               touched : SUBSET Page]
NoCheckpoint == [min_frame |-> 0, max_frame |-> 0, current_page |-> 0,
                 page |-> NoPage, frame |-> 0, touched |-> {}]
SavepointFrame == [max_frame : 0..MaxFrame, checksum : Checksum, owner : BOOLEAN,
                   view : Snapshot, wrote : SUBSET Page]

\* Inside a call that does not return before the next step.
MidCall(c) ==
  \/ pc[c] \in {"lock_read", "begin_write", "append", "ReadFrame", "Done", "end_tx"}
  \/ pc[c] \in {"WaitReadFrame", "WaitWritePage"} /\ arg[c] # "commit"

Runs(c) == \A d \in Conn \ {c} : ~MidCall(d)

Idle(c) == pc[c] = "idle" /\ Runs(c)

Goto(c, label) == pc' = [pc EXCEPT ![c] = label]
Call(c, what)  == arg' = [arg EXCEPT ![c] = what]
Return(c)      == Goto(c, "idle") /\ Call(c, "none")

-----------------------------------------------------------------------------
(* The log                                                                 *)

\* Mutant: the reader's bound is ignored.
find_frame_newest(m, p) == IF frame_cache[p] = {} THEN 0 ELSE Max(frame_cache[p])

\* The latest frame of page p that a reader bounded by frame m may use.
find_frame(m, p) ==
  LET found == {f \in frame_cache[p] : f <= m}
  IN  IF found = {} THEN 0 ELSE Max(found)

\* What read_page brings in when the page is not cached.
Lookup(m, p) ==
  LET f == find_frame(m, p) IN IF f = 0 THEN db[p] ELSE log[f].content

\* Mutant: lock.write() takes a read lock that readers hold.
Busy_never(i) == FALSE

\* lock.write() on read lock i fails.
Busy(i) == read_locks[i].nreads > 0

\* No mark was found, or one that does not cover the whole log.
Outdated(mark) == mark = 0 \/ mark < max_frame

\* The mark is written into the read lock and bounds what c reads.
Adopt(c, what, slot, mark) ==
  /\ read_locks[slot].nreads < MaxReads
  /\ read_locks' = [read_locks EXCEPT ![slot].value = mark]
  /\ wf' = [wf EXCEPT ![c].slot = slot, ![c].max_frame = mark]
  /\ view' = [view EXCEPT ![c] = IF mark = max_frame THEN committed ELSE snapshot[mark]]
  /\ Goto(c, "lock_read") /\ Call(c, what)

\* begin_read_tx up to the lock.read(): adopt the largest usable mark, or
\* publish a new one in the first read lock nobody holds.
StartRead(c, what) ==
  LET usable == {i \in Slot : read_locks[i].value \in 1..max_frame}
      best   == IF usable = {} THEN 0 ELSE Max({read_locks[i].value : i \in usable})
      old    == {i \in usable : read_locks[i].value = best}
      free   == {i \in Slot : ~Busy(i)}
      update == Outdated(best) /\ free # {}
  IN  /\ IF update \/ usable # {}
           THEN Adopt(c, what, Min(IF update THEN free ELSE old), IF update THEN max_frame ELSE best)
           ELSE UNCHANGED <<read_locks, wf, view, ctl>>          \* Busy
      /\ UNCHANGED <<shared, write_lock, files, ck, pager, txn, writes, committed,
                     snapshot, wrote>>

\* The lock.read() of begin_read_tx and the three fields set after it.  It does not
\* fail: nothing has run since the mark was chosen.
LockRead(c) ==
  /\ pc[c] = "lock_read" /\ Runs(c)
  /\ read_locks' = [read_locks EXCEPT ![wf[c].slot].nreads = @ + 1]
  /\ wf' = [wf EXCEPT ![c].min_frame = nbackfills + 1]
  /\ IF arg[c] = "read"
       THEN /\ transaction_state' = [transaction_state EXCEPT ![c] = "Read"]
            /\ Return(c)
       ELSE Goto(c, "begin_write") /\ UNCHANGED <<transaction_state, arg>>
  /\ UNCHANGED <<shared, write_lock, files, ck, pager, auto_commit, hist>>

\* unlock() of the read lock that connection c remembers.
Unlocked(c) ==
  [read_locks EXCEPT ![wf[c].slot].nreads = IF @ > 0 THEN @ - 1 ELSE 0]

\* One frame for the cached page p.
append_frame(c, p) ==
  /\ max_frame < MaxFrame
  /\ max_frame' = max_frame + 1
  /\ log' = [log EXCEPT ![max_frame + 1] =
               [page |-> p, content |-> cache[c][p], prev |-> last_checksum, current |-> TRUE]]
  /\ last_checksum' = cache[c][p]
  /\ frame_cache' = [frame_cache EXCEPT ![p] = @ \cup {max_frame + 1}]
  /\ pages_in_frames' = IF frame_cache[p] = {} THEN Append(pages_in_frames, p)
                                               ELSE pages_in_frames
  /\ snapshot' = [snapshot EXCEPT ![max_frame + 1] = committed]

\* Mutant: the work list is not rebuilt.
Retain_map_only(keep) ==
  /\ frame_cache' = [p \in Page |-> frame_cache[p] \cap keep]
  /\ UNCHANGED pages_in_frames

\* The elements of sequence s that are in S, in their order: SelectSeq with its
\* positions counted, a form the proofs can use.
Retained(s, S) ==
  LET upto(i) == Cardinality({j \in 1..i : s[j] \in S})
  IN  [k \in 1..upto(Len(s)) |-> s[CHOOSE i \in 1..Len(s) : s[i] \in S /\ upto(i) = k]]

\* retain() over frame_cache and pages_in_frames together.
Retain(keep) ==
  LET kept == [p \in Page |-> frame_cache[p] \cap keep]
  IN  /\ frame_cache' = kept
      /\ pages_in_frames' = Retained(pages_in_frames, {p \in Page : kept[p] # {}})

\* Mutant: the first frame of the transaction survives.
rollback_to_frame_late(target, checksum) ==
  /\ Retain(0..(target + 1))
  /\ max_frame' = target
  /\ last_checksum' = checksum

rollback_to_frame(target, checksum) ==
  /\ Retain(0..target)
  /\ max_frame' = target
  /\ last_checksum' = checksum

-----------------------------------------------------------------------------
(* Transactions                                                            *)

\* BEGIN: AutoCommit{auto_commit: false}.
Begin(c) ==
  /\ Idle(c) /\ "begin" \in Ops[c]
  /\ auto_commit[c]
  /\ auto_commit' = [auto_commit EXCEPT ![c] = FALSE]
  /\ UNCHANGED <<shared, locks, files, wf, ck, pager, transaction_state, ctl, hist>>

\* op_transaction(write: false) on a connection without a transaction.
TransactionRead(c) ==
  /\ Idle(c) /\ "read" \in Ops[c]
  /\ transaction_state[c] = "None"
  /\ StartRead(c, "read")

\* op_transaction(write: true); SAVEPOINT takes the same two locks.
TransactionWrite(c, what) ==
  /\ Idle(c) /\ what \in {"write", "savepoint"} \cap Ops[c]
  /\ what = "savepoint" => auto_commit[c]
  /\ \/ transaction_state[c] = "None" /\ StartRead(c, what)
     \/ /\ transaction_state[c] = "Read"
        /\ Goto(c, "begin_write") /\ Call(c, what)
        /\ UNCHANGED <<shared, locks, files, wf, ck, pager, txn, hist>>

\* Mutant: the result of lock.write() is ignored.
write_busy_never == FALSE

\* write_lock.write() fails.
write_busy == write_lock

\* begin_write_tx; when busy the read lock stays as it is.
begin_write_tx(c) ==
  /\ pc[c] = "begin_write" /\ Runs(c)
  /\ Return(c)
  /\ IF write_busy
       THEN UNCHANGED <<write_lock, wf, txn, savepoints, wrote>>
       ELSE /\ write_lock' = TRUE
            /\ wf' = [wf EXCEPT ![c].start = max_frame, ![c].start_checksum = last_checksum]
            /\ transaction_state' = [transaction_state EXCEPT ![c] = "Write"]
            /\ wrote' = [wrote EXCEPT ![c] = {}]
            /\ IF arg[c] = "savepoint"
                 THEN /\ auto_commit' = [auto_commit EXCEPT ![c] = FALSE]
                      /\ savepoints' = [savepoints EXCEPT ![c] =
                           Append(@, [max_frame |-> max_frame, checksum |-> last_checksum,
                                      owner |-> TRUE, view |-> view[c], wrote |-> {}])]
                 ELSE UNCHANGED <<auto_commit, savepoints>>
  /\ UNCHANGED <<shared, read_locks, files, ck, cache, dirty_pages, writes, committed,
                 snapshot, view>>

\* read_page: a miss is filled from the log or from the database file.
ReadPage(c, p) ==
  /\ Idle(c) /\ "fetch" \in Ops[c]
  /\ transaction_state[c] # "None" /\ cache[c][p] = NotCached
  /\ cache' = [cache EXCEPT ![c][p] = Lookup(wf[c].max_frame, p)]
  /\ UNCHANGED <<shared, locks, files, wf, ck, dirty_pages, savepoints, txn, ctl, hist>>

\* A page is read, changed in the cache and added to the dirty set.
WritePage(c, p) ==
  /\ Idle(c) /\ "write" \in Ops[c]
  /\ transaction_state[c] = "Write" /\ writes < MaxWrite
  /\ writes' = writes + 1
  /\ cache' = [cache EXCEPT ![c][p] = writes + 1]
  /\ dirty_pages' = [dirty_pages EXCEPT ![c] = @ \cup {p}]
  /\ view' = [view EXCEPT ![c][p] = writes + 1]
  /\ wrote' = [wrote EXCEPT ![c] = @ \cup {p}]
  /\ UNCHANGED <<shared, locks, files, wf, ck, savepoints, txn, ctl, committed, snapshot>>

\* Mutant: only the dirty set is cleared.
clear_page_cache_dirty(c) ==
  /\ dirty_pages' = [dirty_pages EXCEPT ![c] = {}]
  /\ UNCHANGED cache

clear_page_cache(c) ==
  /\ cache' = [cache EXCEPT ![c] = NoCache]
  /\ dirty_pages' = [dirty_pages EXCEPT ![c] = {}]

\* op_halt with an error code drops every page the cache holds.  In autocommit mode
\* that undoes the statement; the transaction stays open.
Fail(c) ==
  /\ Idle(c) /\ "fail" \in Ops[c]
  /\ transaction_state[c] = "Write" /\ auto_commit[c]
  /\ clear_page_cache(c)
  /\ view' = [view EXCEPT ![c] = IF wf[c].max_frame = max_frame THEN committed
                                                               ELSE snapshot[wf[c].max_frame]]
  /\ wrote' = [wrote EXCEPT ![c] = {}]
  /\ UNCHANGED <<shared, locks, files, wf, ck, savepoints, txn, ctl, writes, committed, snapshot>>

\* Inside BEGIN or a savepoint it also drops what the statements before it wrote.
FailInTx(c) ==
  /\ Idle(c) /\ "fail_in_tx" \in Ops[c]
  /\ transaction_state[c] = "Write" /\ ~auto_commit[c]
  /\ clear_page_cache(c)
  /\ UNCHANGED <<shared, locks, files, wf, ck, savepoints, txn, ctl, hist>>

\* ROLLBACK: Pager::rollback and the AutoCommit instruction around it.
Rollback(c) ==
  /\ Idle(c) /\ "rollback" \in Ops[c]
  /\ ~auto_commit[c]
  /\ clear_page_cache(c)
  /\ rollback_to_frame(wf[c].start, wf[c].start_checksum)
  /\ savepoints' = [savepoints EXCEPT ![c] = <<>>]
  /\ transaction_state' = [transaction_state EXCEPT ![c] = "None"]
  /\ auto_commit' = [auto_commit EXCEPT ![c] = TRUE]
  /\ wrote' = [wrote EXCEPT ![c] = {}]
  /\ view' = [view EXCEPT ![c] = Initially]
  /\ UNCHANGED <<nbackfills, locks, files, wf, ck, ctl, writes, committed, snapshot>>

-----------------------------------------------------------------------------
(* Savepoints                                                              *)

\* Mutant: the reader's bound stays where the transaction began.
set_reader_max_frame_missed(c, frame) == UNCHANGED wf

set_reader_max_frame(c, frame) == wf' = [wf EXCEPT ![c].max_frame = frame]

\* open_savepoint, once nothing is dirty.
PushSavepoint(c, is_owner) ==
  savepoints' = [savepoints EXCEPT ![c] =
    Append(@, [max_frame |-> max_frame, checksum |-> last_checksum, owner |-> is_owner,
               view |-> IF transaction_state[c] = "None" THEN committed ELSE view[c],
               wrote |-> wrote[c]])]

\* SAVEPOINT on a connection that need not take the locks: inside BEGIN, or
\* (the "_stmt" savepoint of a multi-row statement) holding the write lock.
\* Dirty pages are first flushed to the log, one frame at a time.
OpenSavepoint(c) ==
  /\ Idle(c) /\ "savepoint" \in Ops[c]
  /\ ~auto_commit[c] \/ transaction_state[c] = "Write"
  /\ Len(savepoints[c]) < MaxDepth
  /\ auto_commit' = [auto_commit EXCEPT ![c] = FALSE]
  /\ IF dirty_pages[c] = {}
       THEN PushSavepoint(c, auto_commit[c]) /\ UNCHANGED ctl
       ELSE /\ Goto(c, "append")
            /\ Call(c, IF auto_commit[c] THEN "savepoint_owner" ELSE "savepoint")
            /\ UNCHANGED savepoints
  /\ UNCHANGED <<shared, locks, files, wf, ck, cache, dirty_pages, transaction_state, hist>>

\* The flush is over: the reader's bound follows it and the savepoint is pushed.
SavepointFlushed(c) ==
  /\ pc[c] = "append" /\ arg[c] \in {"savepoint", "savepoint_owner"}
  /\ dirty_pages[c] = {} /\ Runs(c)
  /\ set_reader_max_frame(c, max_frame)
  /\ PushSavepoint(c, arg[c] = "savepoint_owner")
  /\ Return(c)
  /\ UNCHANGED <<shared, locks, files, ck, cache, dirty_pages, txn, hist>>

RollbackTo(c, i) ==
  /\ Idle(c) /\ "rollback_to" \in Ops[c]
  /\ i \in 1..Len(savepoints[c])
  /\ LET sp == savepoints[c][i]
     IN  /\ rollback_to_frame(sp.max_frame, sp.checksum)
         /\ set_reader_max_frame(c, sp.max_frame)
         /\ view' = [view EXCEPT ![c] = sp.view]
         /\ wrote' = [wrote EXCEPT ![c] = sp.wrote]
  /\ savepoints' = [savepoints EXCEPT ![c] = SubSeq(@, 1, i)]
  /\ clear_page_cache(c)
  /\ UNCHANGED <<nbackfills, locks, files, ck, txn, ctl, writes, committed, snapshot>>

\* RELEASE; releasing the savepoint that began the transaction commits it.
Release(c, i) ==
  /\ Idle(c) /\ "release" \in Ops[c]
  /\ i \in 1..Len(savepoints[c])
  /\ savepoints' = [savepoints EXCEPT ![c] = SubSeq(@, 1, i - 1)]
  /\ IF savepoints[c][i].owner
       THEN /\ auto_commit' = [auto_commit EXCEPT ![c] = TRUE]
            /\ Goto(c, "append") /\ Call(c, "commit")
       ELSE UNCHANGED <<auto_commit, ctl>>
  /\ UNCHANGED <<shared, locks, files, wf, ck, cache, dirty_pages, transaction_state, hist>>

-----------------------------------------------------------------------------
(* Commit: Program::commit_txn, Pager::end_tx and cacheflush               *)

\* The end of an autocommit statement, or COMMIT.
Commit(c) ==
  /\ Idle(c)
  /\ transaction_state[c] # "None" \/ ~auto_commit[c]
  /\ auto_commit' = [auto_commit EXCEPT ![c] = TRUE]
  /\ IF transaction_state[c] = "Write"
       THEN /\ Goto(c, "append") /\ Call(c, "commit")
            /\ UNCHANGED <<read_locks, transaction_state, view>>
       ELSE /\ view' = [view EXCEPT ![c] = Initially]
            /\ read_locks' = IF transaction_state[c] = "Read" THEN Unlocked(c) ELSE read_locks
            /\ transaction_state' = [transaction_state EXCEPT ![c] = "None"]
            /\ UNCHANGED ctl
  /\ UNCHANGED <<shared, write_lock, files, wf, ck, pager, writes, committed, snapshot, wrote>>

\* One append_frame of the loop in cacheflush or flush_dirty_pages_to_wal.
FlushPage(c, p) ==
  /\ pc[c] = "append" /\ p \in dirty_pages[c] /\ Runs(c)
  /\ append_frame(c, p)
  /\ dirty_pages' = [dirty_pages EXCEPT ![c] = @ \ {p}]
  /\ UNCHANGED <<nbackfills, locks, db, wf, ck, cache, savepoints, txn, ctl, writes,
                 committed, view, wrote>>

\* The rest of FlushState::Start: every frame of the transaction is in the log.
Flushed(c) ==
  /\ pc[c] = "append" /\ arg[c] = "commit" /\ dirty_pages[c] = {} /\ Runs(c)
  /\ cache' = [cache EXCEPT ![c] = NoCache]
  /\ LET now == [p \in Page |-> IF p \in wrote[c] THEN view[c][p] ELSE committed[p]]
     IN  /\ committed' = now
         /\ snapshot' = [snapshot EXCEPT ![max_frame] = now]
  /\ Goto(c, "sync_wal")
  /\ UNCHANGED <<shared, locks, files, wf, ck, dirty_pages, savepoints, txn, arg, writes,
                 view, wrote>>

\* FlushState::Start of checkpoint: the largest frame no reader is behind, and
\* the read marks nobody holds moved out of the way.
CheckpointStart(c) ==
  LET safe(i) == Min({max_frame} \cup
                     {read_locks[j].value : j \in {k \in Slot : k < i /\ read_locks[k].nreads > 0}})
  IN  /\ ck' = [ck EXCEPT ![c] = [NoCheckpoint EXCEPT !.min_frame = wf[c].min_frame,
                                                      !.max_frame = safe(Slots)]]
      /\ read_locks' = [i \in Slot |->
           IF read_locks[i].nreads = 0 /\ read_locks[i].value < safe(i)
             THEN [read_locks[i] EXCEPT !.value = IF i = 0 THEN max_frame ELSE NotUsed]
             ELSE read_locks[i]]
      /\ Goto(c, "ReadFrame")

\* FlushState::SyncWal once the fsync is done.
SyncWal(c) ==
  /\ pc[c] = "sync_wal" /\ Runs(c)
  /\ IF max_frame >= Threshold
       THEN CheckpointStart(c)
       ELSE Goto(c, "end_tx") /\ UNCHANGED <<ck, read_locks>>
  /\ UNCHANGED <<shared, write_lock, files, wf, pager, txn, arg, hist>>

\* FlushState::SyncDbFile and WaitSyncDbFile.
SyncDb(c) ==
  /\ pc[c] = "sync_db" /\ Runs(c)
  /\ Goto(c, "end_tx")
  /\ UNCHANGED <<shared, locks, files, wf, ck, pager, txn, arg, hist>>

\* Mutant: end_tx forgets the write lock.
end_write_tx_missed == UNCHANGED write_lock

end_write_tx == write_lock' = FALSE

end_tx(c) ==
  /\ pc[c] = "end_tx" /\ Runs(c)
  /\ end_write_tx
  /\ read_locks' = Unlocked(c)
  /\ savepoints' = [savepoints EXCEPT ![c] = <<>>]
  /\ transaction_state' = [transaction_state EXCEPT ![c] = "None"]
  /\ wrote' = [wrote EXCEPT ![c] = {}]
  /\ view' = [view EXCEPT ![c] = Initially]
  /\ Return(c)
  /\ UNCHANGED <<shared, files, wf, ck, cache, dirty_pages, auto_commit, writes, committed,
                 snapshot>>

-----------------------------------------------------------------------------
(* Checkpoint: WalFile::checkpoint                                         *)

\* PRAGMA wal_checkpoint, Connection::checkpoint and checkpoint_truncate, or close():
\* blocking.
\* Neither looks at the transaction the connection may be in, nor at savepoints
\* that outlived theirs: such calls go by a name of their own.
StartCheckpoint(c, what) ==
  /\ Idle(c) /\ what \in {"checkpoint", "checkpoint_in_tx", "close"} \cap Ops[c]
  /\ (what = "checkpoint_in_tx") =
       (transaction_state[c] # "None" \/ (savepoints[c] # <<>> /\ what # "close"))
  /\ CheckpointStart(c) /\ Call(c, what)
  /\ UNCHANGED <<shared, write_lock, files, wf, pager, txn, hist>>

\* The frames of the page a checkpoint is at that it may copy.
Candidates(c) ==
  {f \in frame_cache[pages_in_frames[ck[c].current_page + 1]] :
     f \in ck[c].min_frame .. ck[c].max_frame}

\* CheckpointState::ReadFrame; the first conjunct is its assert.
ReadFrame(c) ==
  /\ pc[c] = "ReadFrame" /\ Runs(c)
  /\ ck[c].current_page <= Len(pages_in_frames)
  /\ IF ck[c].current_page = Len(pages_in_frames)
       THEN Goto(c, "Done") /\ UNCHANGED ck
       ELSE LET page == pages_in_frames[ck[c].current_page + 1]
            IN  IF Candidates(c) = {}
                  THEN ck' = [ck EXCEPT ![c].current_page = @ + 1] /\ UNCHANGED pc
                  ELSE /\ ck' = [ck EXCEPT ![c].frame = Max(Candidates(c)),
                                           ![c].page = page,
                                           ![c].touched = @ \cup {page}]
                       /\ Goto(c, "WaitReadFrame")
  /\ UNCHANGED <<shared, locks, files, wf, pager, txn, arg, hist>>

\* The read completes with what is in the file by then, and WritePage issues the
\* write.  Where a truncate removed the frame, the buffer is unspecified.
FrameRead(c) ==
  /\ pc[c] = "WaitReadFrame" /\ Runs(c)
  /\ LET frame == log[ck[c].frame]
     IN  \E x \in IF frame.page = NoPage THEN Content ELSE {frame.content} :
           db' = [db EXCEPT ![ck[c].page] = x]
  /\ Goto(c, "WaitWritePage")
  /\ UNCHANGED <<shared, locks, log, wf, ck, pager, txn, arg, hist>>

\* Mutant: the length of the list is not looked at again.
PageWritten_unchecked(c) ==
  /\ pc[c] = "WaitWritePage" /\ Runs(c)
  /\ ck' = [ck EXCEPT ![c].current_page = @ + 1] /\ Goto(c, "ReadFrame")
  /\ UNCHANGED <<shared, locks, files, wf, pager, txn, arg, hist>>

\* CheckpointState::WaitWritePage once the write is done.
PageWritten(c) ==
  /\ pc[c] = "WaitWritePage" /\ Runs(c)
  /\ IF ck[c].current_page < Len(pages_in_frames)
       THEN ck' = [ck EXCEPT ![c].current_page = @ + 1] /\ Goto(c, "ReadFrame")
       ELSE Goto(c, "Done") /\ UNCHANGED ck
  /\ UNCHANGED <<shared, locks, files, wf, pager, txn, arg, hist>>

\* The log starts over: nothing in it is current any more.
reset_wal_file(truncate) ==
  /\ log' = [f \in Frame |-> IF truncate THEN NoFrame ELSE [log[f] EXCEPT !.current = FALSE]]
  /\ last_checksum' = Seed

\* CheckpointMode::Truncate: close() asks for it, a commit does not, the others may.
Truncates(what) == CASE what = "close" -> {TRUE} [] what = "commit" -> {FALSE} [] OTHER -> BOOLEAN

\* Mutant: one frame too many is trimmed.
Backfilled_trim(c) ==
  /\ nbackfills' = ck[c].max_frame
  /\ Retain((ck[c].max_frame + 2)..MaxFrame)
  /\ UNCHANGED <<max_frame, last_checksum, log, snapshot>>

\* CheckpointState::Done.
Backfilled(c) ==
  IF max_frame = ck[c].max_frame
    THEN /\ frame_cache' = Empty /\ pages_in_frames' = <<>>
         /\ max_frame' = 0 /\ nbackfills' = 0
         /\ snapshot' = [f \in 0..MaxFrame |-> Initially]
         /\ \E truncate \in Truncates(arg[c]) : reset_wal_file(truncate)
    ELSE /\ nbackfills' = ck[c].max_frame
         /\ Retain((ck[c].max_frame + 1)..MaxFrame)     \* trim_backfilled_frames
         /\ UNCHANGED <<max_frame, last_checksum, log, snapshot>>

\* ... and what the caller does next: a commit syncs the database file, a
\* blocking call evicts what was copied, close() ends the connection and its
\* client opens another.
Done(c) ==
  /\ pc[c] = "Done" /\ Runs(c)
  /\ Backfilled(c)
  /\ ck' = [ck EXCEPT ![c] = NoCheckpoint]
  /\ IF arg[c] = "commit" THEN Goto(c, "sync_db") /\ UNCHANGED arg ELSE Return(c)
  /\ cache' = [cache EXCEPT ![c] =
       [p \in Page |-> IF arg[c] = "close" \/ (arg[c] # "commit" /\ p \in ck[c].touched
                                                 /\ p \notin dirty_pages[c])
                         THEN NotCached ELSE @[p]]]
  /\ IF arg[c] = "close"
       THEN /\ wf' = [wf EXCEPT ![c] = NewWalFile]
            /\ savepoints' = [savepoints EXCEPT ![c] = <<>>]
            /\ auto_commit' = [auto_commit EXCEPT ![c] = TRUE]
       ELSE UNCHANGED <<wf, savepoints, auto_commit>>
  /\ UNCHANGED <<locks, db, dirty_pages, transaction_state, writes, committed, view, wrote>>

-----------------------------------------------------------------------------
(* The specification                                                       *)

Init ==
  /\ max_frame = 0 /\ nbackfills = 0 /\ frame_cache = Empty /\ pages_in_frames = <<>>
  /\ last_checksum = Seed
  /\ read_locks = [i \in Slot |-> [nreads |-> 0, value |-> NotUsed]]
  /\ write_lock = FALSE
  /\ log = [f \in Frame |-> NoFrame]
  /\ db = Initially
  /\ wf = [c \in Conn |-> NewWalFile]
  /\ ck = [c \in Conn |-> NoCheckpoint]
  /\ transaction_state = [c \in Conn |-> "None"]
  /\ auto_commit = [c \in Conn |-> TRUE]
  /\ cache = [c \in Conn |-> NoCache]
  /\ dirty_pages = [c \in Conn |-> {}]
  /\ savepoints = [c \in Conn |-> <<>>]
  /\ pc = [c \in Conn |-> "idle"]
  /\ arg = [c \in Conn |-> "none"]
  /\ writes = 0
  /\ committed = Initially
  /\ snapshot = [f \in 0..MaxFrame |-> Initially]
  /\ view = [c \in Conn |-> Initially]
  /\ wrote = [c \in Conn |-> {}]

\* What runs by itself once the client has made a call.
Step(c) ==
  \/ LockRead(c) \/ begin_write_tx(c) \/ SavepointFlushed(c)
  \/ \E p \in Page : FlushPage(c, p)
  \/ Flushed(c) \/ SyncWal(c) \/ SyncDb(c) \/ end_tx(c)
  \/ ReadFrame(c) \/ FrameRead(c) \/ PageWritten(c) \/ Done(c)

Client(c) ==
  \/ Begin(c) \/ TransactionRead(c) \/ Commit(c) \/ Rollback(c) \/ Fail(c) \/ FailInTx(c)
  \/ OpenSavepoint(c)
  \/ \E what \in {"write", "savepoint"} : TransactionWrite(c, what)
  \/ \E what \in {"checkpoint", "checkpoint_in_tx", "close"} : StartCheckpoint(c, what)
  \/ \E p \in Page : ReadPage(c, p) \/ WritePage(c, p)
  \/ \E i \in 1..MaxDepth : RollbackTo(c, i) \/ Release(c, i)

Next == \E c \in Conn : Client(c) \/ Step(c)

Spec == Init /\ [][Next]_vars

\* A statement that was started is stepped until it is done, and its
\* transaction is ended.
FairSpec == Spec /\ \A c \in Conn : WF_vars(Step(c)) /\ WF_vars(Commit(c))

-----------------------------------------------------------------------------
(* Properties                                                              *)

\* Every variable has its type: no frame, mark or content leaves its range.
TypeOK ==
  /\ max_frame \in 0..MaxFrame /\ nbackfills \in 0..MaxFrame
  /\ frame_cache \in [Page -> SUBSET Frame]
  /\ \A i \in DOMAIN pages_in_frames : pages_in_frames[i] \in Page
  /\ last_checksum \in Checksum
  /\ read_locks \in [Slot -> [nreads : Nat, value : 0..NotUsed]]
  /\ write_lock \in BOOLEAN
  /\ log \in [Frame -> WalFrame] /\ db \in Snapshot
  /\ wf \in [Conn -> WalFile] /\ ck \in [Conn -> Checkpoint]
  /\ transaction_state \in [Conn -> {"None", "Read", "Write"}]
  /\ auto_commit \in [Conn -> BOOLEAN]
  /\ cache \in [Conn -> [Page -> 0..NotCached]]
  /\ dirty_pages \in [Conn -> SUBSET Page]
  /\ \A c \in Conn : \A i \in DOMAIN savepoints[c] : savepoints[c][i] \in SavepointFrame
  /\ pc \in [Conn -> {"idle", "lock_read", "begin_write", "append", "sync_wal", "ReadFrame",
                       "WaitReadFrame", "WaitWritePage", "Done", "sync_db", "end_tx"}]
  /\ writes \in Content /\ committed \in Snapshot
  /\ snapshot \in [0..MaxFrame -> Snapshot] /\ view \in [Conn -> Snapshot]
  /\ wrote \in [Conn -> SUBSET Page]

\* The write lock excludes: at most one connection is in a write transaction,
\* from begin_write_tx through its savepoints, flush, checkpoint and end_tx, and
\* nobody else's steps release the lock under it.
OneWriter ==
  \A c, d \in Conn : transaction_state[c] = "Write" =>
    write_lock /\ (transaction_state[d] = "Write" => c = d)

\* frame_cache never leads a reader to a wrong frame: an entry is not past the
\* end of the log, and the file holds a frame of that page, of this generation,
\* there.  Rollback, savepoints and checkpoints all edit the two separately.
FrameCacheSound ==
  \A p \in Page : \A f \in frame_cache[p] :
    f <= max_frame /\ log[f].page = p /\ log[f].current

\* A page that someone wrote is in exactly one place of the checkpoint's work
\* list, and nothing else is: retain() keeps the list and the map together.
PageListMatches ==
  /\ {pages_in_frames[i] : i \in DOMAIN pages_in_frames} = {p \in Page : frame_cache[p] # {}}
  /\ \A i, j \in DOMAIN pages_in_frames : pages_in_frames[i] = pages_in_frames[j] => i = j

Reading(c) == transaction_state[c] # "None" /\ pc[c] = "idle"

\* A transaction reads its snapshot: for every page it has not changed since the
\* last flush, the log and the database file hold what was committed when it
\* began, or what it wrote itself.  Neither the commits of another connection nor
\* its own savepoints, failing statements and checkpoints show.
ReadsView ==
  \A c \in Conn : Reading(c) =>
    \A p \in Page \ dirty_pages[c] : Lookup(wf[c].max_frame, p) = view[c][p]

\* A cached page is as good as a read: the private page cache never serves a
\* transaction something else than its snapshot.
CacheFresh ==
  \A c \in Conn : Reading(c) =>
    \A p \in Page : cache[c][p] \in {NotCached, view[c][p]}

\* The checksum that the frame after f goes on from.
ChecksumAfter(f) == IF f = 0 THEN Seed ELSE log[f].content

\* Every frame of the log is of this generation and goes on from the checksum of
\* the one before; the next one appended will go on from the last.
Chained ==
  /\ last_checksum = ChecksumAfter(max_frame)
  /\ \A f \in 1..max_frame : log[f].current /\ log[f].prev = ChecksumAfter(f - 1)

\* No committed page is ever lost: outside a write transaction the log over the
\* database file gives the last committed content of every page.
CommittedReachable ==
  (\A c \in Conn : transaction_state[c] # "Write") =>
    \A p \in Page : Lookup(max_frame, p) = committed[p]

\* No commit is lost, neither to the connections (CommittedReachable) nor to a process
\* that reads the log back, and stops at the first frame whose salt or checksum does
\* not follow from the one before: savepoints, resets and truncation leave the chain
\* whole.
Durable == CommittedReachable /\ Chained

\* The mark in the read lock a connection holds is the snapshot it reads, so a
\* checkpoint that respects the marks respects the readers.
MarkPinned ==
  \A c \in Conn : transaction_state[c] = "Read" /\ pc[c] # "lock_read" =>
    /\ read_locks[wf[c].slot].nreads > 0
    /\ read_locks[wf[c].slot].value = wf[c].max_frame

\* The assert of CheckpointState::ReadFrame.
CheckpointInBounds ==
  \A c \in Conn : pc[c] = "ReadFrame" => ck[c].current_page <= Len(pages_in_frames)

\* The write lock is always given back, so a connection that was told Busy may
\* try again with success.
LockReleased == write_lock ~> ~write_lock

=============================================================================
