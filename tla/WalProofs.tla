----------------------------- MODULE WalProofs -----------------------------
(***************************************************************************)
(* For any number of connections, pages, read locks, frames, writes and    *)
(* nested savepoints: the write lock excludes, and the in-memory index of  *)
(* the log never leads a reader to a wrong frame.                          *)
(***************************************************************************)
EXTENDS Wal, SequenceTheorems, WellFoundedInduction, TLAPS

Labels == {"idle", "lock_read", "begin_write", "append", "sync_wal", "ReadFrame",
           "WaitReadFrame", "WaitWritePage", "Done", "sync_db", "end_tx"}

WalFileFields == {"min_frame", "max_frame", "slot", "start", "start_checksum"}

\* The types the two proofs need.
Types ==
  /\ max_frame \in 0..MaxFrame
  /\ frame_cache \in [Page -> SUBSET Frame]
  /\ DOMAIN log = Frame
  /\ transaction_state \in [Conn -> {"None", "Read", "Write"}]
  /\ pc \in [Conn -> Labels]
  /\ DOMAIN arg = Conn

\* A truncation of the log never ends past its bound: neither the frame a write
\* transaction began at nor one a savepoint remembers does.
Targets ==
  /\ DOMAIN wf = Conn
  /\ \A c \in Conn : DOMAIN wf[c] = WalFileFields /\ wf[c].start \in 0..MaxFrame
  /\ DOMAIN savepoints = Conn
  /\ \A c \in Conn : /\ savepoints[c] \in Seq(Range(savepoints[c]))
                     /\ \A s \in Range(savepoints[c]) : s.max_frame \in 0..MaxFrame

\* Who is on the way through a commit, or holds a savepoint whose RELEASE commits,
\* is the writer; who is about to get a read lock is in no transaction.
CommitterWrites(c) ==
  /\ pc[c] = "append" => arg[c] \in {"commit", "savepoint", "savepoint_owner"}
  /\ pc[c] = "append" /\ arg[c] \in {"commit", "savepoint_owner"} => transaction_state[c] = "Write"
  /\ pc[c] \in {"sync_wal", "sync_db", "end_tx"} => transaction_state[c] = "Write"
  /\ pc[c] \in {"ReadFrame", "WaitReadFrame", "WaitWritePage", "Done"} /\ arg[c] = "commit"
       => transaction_state[c] = "Write"
  /\ pc[c] = "lock_read" => transaction_state[c] = "None"
  /\ \A s \in Range(savepoints[c]) : s.owner => transaction_state[c] = "Write"

IInv == Types /\ Targets /\ (\A c \in Conn : CommitterWrites(c)) /\ OneWriter /\ FrameCacheSound

-----------------------------------------------------------------------------
(* Sequences of savepoints                                                 *)

\* A sequence is one over its own elements.
LEMMA OwnElements ==
  ASSUME NEW S, NEW s \in Seq(S) PROVE s \in Seq(Range(s)) /\ DOMAIN s = 1..Len(s)
<1>1. DOMAIN s = 1..Len(s) /\ Len(s) \in Nat /\ s \in [1..Len(s) -> S]
  BY LenProperties
<1>2. s \in [1..Len(s) -> Range(s)]
  BY <1>1 DEF Range
<1> QED
  BY <1>1, <1>2

LEMMA NoSavepoints == <<>> \in Seq(Range(<<>>)) /\ Range(<<>>) = {}
  BY OwnElements, EmptySeq DEF Range

LEMMA PushedSavepoint ==
  ASSUME NEW s, s \in Seq(Range(s)), NEW e
  PROVE  /\ Append(s, e) \in Seq(Range(Append(s, e)))
         /\ Range(Append(s, e)) = Range(s) \cup {e}
<1> DEFINE t == Append(s, e)
<1>1. t \in Seq(Range(s) \cup {e}) /\ Len(t) = Len(s) + 1 /\ Len(s) \in Nat
  BY AppendProperties, SeqMonotonic
<1>2. DOMAIN s = 1..Len(s) /\ DOMAIN t = 1..Len(t)
  BY <1>1, LenProperties
<1>3. (\A i \in 1..Len(s) : t[i] = s[i]) /\ t[Len(s) + 1] = e
  BY AppendProperties, SeqMonotonic
<1>4. Range(t) = Range(s) \cup {e}
  BY <1>1, <1>2, <1>3 DEF Range
<1> QED
  BY <1>1, <1>4, OwnElements

LEMMA KeptSavepoints ==
  ASSUME NEW s, s \in Seq(Range(s)), NEW n \in 0..Len(s)
  PROVE  /\ SubSeq(s, 1, n) \in Seq(Range(SubSeq(s, 1, n)))
         /\ Range(SubSeq(s, 1, n)) \subseteq Range(s)
<1>1. Len(s) \in Nat /\ DOMAIN s = 1..Len(s)
  BY LenProperties
<1>2. \A i \in 1..n : s[i] \in Range(s)
  BY <1>1 DEF Range
<1>3. SubSeq(s, 1, n) \in Seq(Range(s))
  BY <1>1, <1>2, SubSeqProperties
<1>4. DOMAIN SubSeq(s, 1, n) = 1..Len(SubSeq(s, 1, n))
  BY <1>3, LenProperties
<1>5. \A i \in 1..Len(SubSeq(s, 1, n)) : SubSeq(s, 1, n)[i] \in Range(s)
  BY <1>3, ElementOfSeq
<1>6. Range(SubSeq(s, 1, n)) \subseteq Range(s)
  BY <1>4, <1>5 DEF Range
<1> QED
  BY <1>3, <1>6, OwnElements, Zenon

-----------------------------------------------------------------------------
(* Steps that leave part of the state alone                                *)

\* The index and the log are not touched.
LEMMA FramesKept ==
  ASSUME FrameCacheSound, UNCHANGED <<max_frame, frame_cache, log>> PROVE FrameCacheSound'
  BY DEF FrameCacheSound

\* What a step of another connection leaves alone.
LEMMA OthersKept ==
  ASSUME NEW d \in Conn, CommitterWrites(d), pc'[d] = pc[d], arg'[d] = arg[d],
         transaction_state'[d] = transaction_state[d], savepoints'[d] = savepoints[d]
  PROVE  CommitterWrites(d)'
  BY DEF CommitterWrites

\* Connection c goes from one place of a call to another.
LEMMA Moves ==
  ASSUME IInv, NEW c \in Conn, NEW l \in Labels, pc' = [pc EXCEPT ![c] = l],
         DOMAIN arg' = Conn, \A d \in Conn \ {c} : arg'[d] = arg[d],
         UNCHANGED <<max_frame, frame_cache, log, wf, savepoints, write_lock, transaction_state>>,
         CommitterWrites(c)'
  PROVE  IInv'
<1>1. Types'
  BY DEF IInv, Types
<1>2. Targets'
  BY DEF IInv, Targets
<1>3. \A d \in Conn : CommitterWrites(d)'
  <2> SUFFICES ASSUME NEW d \in Conn, d # c PROVE CommitterWrites(d)'
    OBVIOUS
  <2>1. pc'[d] = pc[d] /\ arg'[d] = arg[d]
    BY DEF IInv, Types
  <2> QED
    BY <2>1, OthersKept DEF IInv
<1>4. OneWriter'
  BY DEF IInv, OneWriter
<1>5. FrameCacheSound'
  BY FramesKept DEF IInv
<1> QED
  BY <1>1, <1>2, <1>3, <1>4, <1>5 DEF IInv

\* A step that changes nothing the invariant speaks of.
LEMMA Stutters ==
  ASSUME IInv,
         UNCHANGED <<max_frame, frame_cache, log, wf, savepoints, write_lock,
                     transaction_state, pc, arg>>
  PROVE  IInv'
  BY DEF IInv, Types, Targets, CommitterWrites, OneWriter, FrameCacheSound

-----------------------------------------------------------------------------
(* The calls of a client                                                   *)

LEMMA KeepsQuiet ==
  ASSUME IInv, NEW c \in Conn, NEW p,
         Begin(c) \/ Fail(c) \/ FailInTx(c) \/ ReadPage(c, p) \/ WritePage(c, p)
  PROVE  IInv'
  BY Stutters DEF Begin, Fail, FailInTx, ReadPage, WritePage, shared, locks, files, pager, txn, ctl, hist

\* begin_read_tx changes the mark and the frame bound, and only of c.
LEMMA KeepsStartRead ==
  ASSUME IInv, NEW c \in Conn, NEW what, transaction_state[c] = "None", StartRead(c, what)
  PROVE  IInv'
<1>1. UNCHANGED <<shared, write_lock, files, pager, txn>>
  BY Zenon DEF StartRead
<1>2. UNCHANGED <<max_frame, frame_cache, log, savepoints, write_lock, transaction_state>>
  BY <1>1 DEF shared, files, pager, txn
<1>3. UNCHANGED <<wf, ctl>> \/ \E slot, mark : Adopt(c, what, slot, mark)
  BY Zenon DEF StartRead
<1>4. CASE UNCHANGED <<wf, ctl>>
  BY <1>2, <1>4, Stutters DEF ctl
<1>5. CASE \E slot, mark : Adopt(c, what, slot, mark)
  <2>1. PICK slot, mark : Adopt(c, what, slot, mark)
    BY <1>5
  <2>2. /\ pc' = [pc EXCEPT ![c] = "lock_read"] /\ arg' = [arg EXCEPT ![c] = what]
        /\ wf' = [wf EXCEPT ![c].slot = slot, ![c].max_frame = mark]
    BY <2>1 DEF Adopt, Goto, Call
  <2>3. Types'
    BY <1>2, <2>2 DEF IInv, Types, Labels
  <2>4. Targets'
    BY <1>2, <2>2 DEF IInv, Targets, WalFileFields
  <2>5. \A d \in Conn : CommitterWrites(d)'
    <3>1. CommitterWrites(c)'
      BY <1>2, <2>2 DEF IInv, Types, CommitterWrites
    <3>2. ASSUME NEW d \in Conn, d # c PROVE CommitterWrites(d)'
      BY <1>2, <2>2, <3>2, OthersKept DEF IInv, Types
    <3> QED
      BY <3>1, <3>2
  <2>6. OneWriter' /\ FrameCacheSound'
    BY <1>2, FramesKept DEF IInv, OneWriter
  <2> QED
    BY <2>3, <2>4, <2>5, <2>6 DEF IInv
<1> QED
  BY <1>3, <1>4, <1>5

LEMMA KeepsTransaction ==
  ASSUME IInv, NEW c \in Conn, NEW what, TransactionRead(c) \/ TransactionWrite(c, what)
  PROVE  IInv'
<1>1. CASE transaction_state[c] = "None"
  BY <1>1, KeepsStartRead, Zenon DEF TransactionRead, TransactionWrite
<1>2. CASE transaction_state[c] # "None"
  <2>1. /\ pc' = [pc EXCEPT ![c] = "begin_write"] /\ arg' = [arg EXCEPT ![c] = what]
        /\ UNCHANGED <<max_frame, frame_cache, log, wf, savepoints, write_lock, transaction_state>>
    BY <1>2 DEF TransactionRead, TransactionWrite, Goto, Call, shared, locks, files, pager, txn
  <2>2. CommitterWrites(c)'
    BY <2>1 DEF IInv, Types, CommitterWrites
  <2>3. DOMAIN arg' = Conn /\ \A d \in Conn \ {c} : arg'[d] = arg[d]
    BY <2>1 DEF IInv, Types
  <2> QED
    BY <2>1, <2>2, <2>3, Moves, Zenon DEF Labels
<1> QED
  BY <1>1, <1>2

\* The end of a transaction that did not write only forgets it.
LEMMA KeepsCommit ==
  ASSUME IInv, NEW c \in Conn, Commit(c) PROVE IInv'
<1> USE DEF shared, locks, files, pager, txn, ctl, hist, Goto, Call
<1>1. CASE transaction_state[c] = "Write"
  <2>1. /\ pc' = [pc EXCEPT ![c] = "append"] /\ arg' = [arg EXCEPT ![c] = "commit"]
        /\ UNCHANGED <<max_frame, frame_cache, log, wf, savepoints, write_lock, transaction_state>>
    BY <1>1 DEF Commit
  <2>2. CommitterWrites(c)'
    BY <1>1, <2>1 DEF IInv, Types, CommitterWrites
  <2>3. DOMAIN arg' = Conn /\ \A d \in Conn \ {c} : arg'[d] = arg[d]
    BY <2>1 DEF IInv, Types
  <2> QED
    BY <2>1, <2>2, <2>3, Moves, Zenon DEF Labels
<1>2. CASE transaction_state[c] # "Write"
  <2>1. /\ transaction_state' = [transaction_state EXCEPT ![c] = "None"]
        /\ UNCHANGED <<max_frame, frame_cache, log, wf, savepoints, write_lock, pc, arg>>
    BY <1>2 DEF Commit
  <2>2. Types' /\ Targets'
    BY <2>1 DEF IInv, Types, Targets
  <2>3. \A d \in Conn : CommitterWrites(d)'
    BY <1>2, <2>1 DEF IInv, Types, CommitterWrites
  <2>4. OneWriter' /\ FrameCacheSound'
    BY <2>1, FramesKept DEF IInv, Types, OneWriter
  <2> QED
    BY <2>2, <2>3, <2>4 DEF IInv
<1> QED
  BY <1>1, <1>2

\* Cutting the log to a frame keeps the index within it.
LEMMA CutIndex ==
  ASSUME IInv, NEW target \in 0..MaxFrame, NEW sum, rollback_to_frame(target, sum), UNCHANGED log
  PROVE  /\ max_frame' = target /\ frame_cache' \in [Page -> SUBSET Frame]
         /\ FrameCacheSound'
<1>1. max_frame' = target /\ frame_cache' = [p \in Page |-> frame_cache[p] \cap (0..target)]
  BY DEF rollback_to_frame, Retain
<1> QED
  BY <1>1 DEF IInv, Types, FrameCacheSound, Frame

LEMMA KeepsRollback ==
  ASSUME IInv, NEW c \in Conn, Rollback(c) PROVE IInv'
<1>1. /\ transaction_state' = [transaction_state EXCEPT ![c] = "None"]
      /\ savepoints' = [savepoints EXCEPT ![c] = <<>>]
      /\ pc[c] = "idle"
      /\ UNCHANGED <<log, wf, write_lock, pc, arg>>
  BY DEF Rollback, Idle, locks, files, ctl
<1>2. rollback_to_frame(wf[c].start, wf[c].start_checksum) /\ wf[c].start \in 0..MaxFrame
  BY DEF Rollback, IInv, Targets
<1>3. max_frame' \in 0..MaxFrame /\ frame_cache' \in [Page -> SUBSET Frame] /\ FrameCacheSound'
  BY <1>1, <1>2, CutIndex
<1>4. Types'
  BY <1>1, <1>3 DEF IInv, Types
<1>5. Targets'
  BY <1>1, NoSavepoints, Zenon DEF IInv, Targets
<1>6. \A d \in Conn : CommitterWrites(d)'
  BY <1>1, NoSavepoints DEF IInv, Types, Targets, CommitterWrites
<1>7. OneWriter'
  BY <1>1 DEF IInv, Types, OneWriter
<1> QED
  BY <1>3, <1>4, <1>5, <1>6, <1>7 DEF IInv

\* A savepoint is pushed; it commits the transaction on release only if its owner
\* is the writer.
LEMMA Pushes ==
  ASSUME Targets, NEW c \in Conn, NEW e, e.max_frame \in 0..MaxFrame,
         savepoints' = [savepoints EXCEPT ![c] = Append(@, e)],
         DOMAIN wf' = Conn,
         \A d \in Conn : DOMAIN wf'[d] = WalFileFields /\ wf'[d].start \in 0..MaxFrame
  PROVE  Targets' /\ Range(savepoints'[c]) = Range(savepoints[c]) \cup {e}
<1>1. savepoints'[c] = Append(savepoints[c], e) /\ savepoints[c] \in Seq(Range(savepoints[c]))
  BY DEF Targets
<1>2. /\ savepoints'[c] \in Seq(Range(savepoints'[c]))
      /\ Range(savepoints'[c]) = Range(savepoints[c]) \cup {e}
  <2> DEFINE s == savepoints[c]
  <2>1. s \in Seq(Range(s))
    BY <1>1
  <2> HIDE DEF s
  <2>2. Append(s, e) \in Seq(Range(Append(s, e))) /\ Range(Append(s, e)) = Range(s) \cup {e}
    BY <2>1, PushedSavepoint
  <2> QED
    BY <1>1, <2>2, Zenon DEF s
<1>3. DOMAIN savepoints' = Conn /\ \A d \in Conn \ {c} : savepoints'[d] = savepoints[d]
  BY DEF Targets
<1>4. Targets'
  BY <1>2, <1>3, Zenon DEF Targets
<1> QED
  BY <1>2, <1>4

LEMMA KeepsOpenSavepoint ==
  ASSUME IInv, NEW c \in Conn, OpenSavepoint(c) PROVE IInv'
<1>1. /\ UNCHANGED <<max_frame, frame_cache, log, wf, write_lock, transaction_state>>
      /\ pc[c] = "idle"
  BY DEF OpenSavepoint, Idle, shared, locks, files
<1>2. CASE dirty_pages[c] = {}
  <2> DEFINE e == [max_frame |-> max_frame, checksum |-> last_checksum, owner |-> auto_commit[c],
                   view |-> IF transaction_state[c] = "None" THEN committed ELSE view[c],
                   wrote |-> wrote[c]]
  <2>1. savepoints' = [savepoints EXCEPT ![c] = Append(@, e)] /\ UNCHANGED <<pc, arg>>
    BY <1>2 DEF OpenSavepoint, PushSavepoint, ctl
  <2>2. e.max_frame \in 0..MaxFrame /\ (e.owner => transaction_state[c] = "Write")
    BY DEF OpenSavepoint, IInv, Types
  <2> HIDE DEF e
  <2>3. Targets' /\ Range(savepoints'[c]) = Range(savepoints[c]) \cup {e}
    BY <1>1, <2>1, <2>2, Pushes, Zenon DEF IInv, Targets
  <2>4. Types'
    BY <1>1, <2>1 DEF IInv, Types
  <2>5. \A d \in Conn : CommitterWrites(d)'
    <3>1. CommitterWrites(c)'
      BY <1>1, <2>1, <2>2, <2>3 DEF IInv, CommitterWrites
    <3>2. ASSUME NEW d \in Conn, d # c PROVE CommitterWrites(d)'
      BY <1>1, <2>1, <3>2, OthersKept, Zenon DEF IInv, Targets
    <3> QED
      BY <3>1, <3>2
  <2>6. OneWriter' /\ FrameCacheSound'
    BY <1>1, FramesKept DEF IInv, OneWriter
  <2> QED
    BY <2>3, <2>4, <2>5, <2>6 DEF IInv
<1>3. CASE dirty_pages[c] # {}
  <2>1. /\ pc' = [pc EXCEPT ![c] = "append"]
        /\ arg' = [arg EXCEPT ![c] = IF auto_commit[c] THEN "savepoint_owner" ELSE "savepoint"]
        /\ auto_commit[c] => transaction_state[c] = "Write"
        /\ UNCHANGED savepoints
    BY <1>3 DEF OpenSavepoint, Goto, Call
  <2>2. CommitterWrites(c)'
    BY <1>1, <2>1 DEF IInv, Types, CommitterWrites
  <2>3. DOMAIN arg' = Conn /\ \A d \in Conn \ {c} : arg'[d] = arg[d]
    BY <2>1 DEF IInv, Types
  <2> QED
    BY <1>1, <2>1, <2>2, <2>3, Moves, Zenon DEF Labels
<1> QED
  BY <1>2, <1>3

\* The first n savepoints are kept.
LEMMA Keeps ==
  ASSUME Targets, NEW c \in Conn, NEW n \in 0..Len(savepoints[c]),
         savepoints' = [savepoints EXCEPT ![c] = SubSeq(@, 1, n)],
         DOMAIN wf' = Conn,
         \A d \in Conn : DOMAIN wf'[d] = WalFileFields /\ wf'[d].start \in 0..MaxFrame
  PROVE  Targets' /\ Range(savepoints'[c]) \subseteq Range(savepoints[c])
<1>1. savepoints'[c] = SubSeq(savepoints[c], 1, n) /\ savepoints[c] \in Seq(Range(savepoints[c]))
  BY DEF Targets
<1>2. /\ savepoints'[c] \in Seq(Range(savepoints'[c]))
      /\ Range(savepoints'[c]) \subseteq Range(savepoints[c])
  <2> DEFINE s == savepoints[c]
  <2>1. s \in Seq(Range(s)) /\ n \in 0..Len(s)
    BY <1>1
  <2> HIDE DEF s
  <2>2. /\ SubSeq(s, 1, n) \in Seq(Range(SubSeq(s, 1, n)))
        /\ Range(SubSeq(s, 1, n)) \subseteq Range(s)
    BY <2>1, KeptSavepoints
  <2> QED
    BY <1>1, <2>2, Zenon DEF s
<1>3. DOMAIN savepoints' = Conn /\ \A d \in Conn \ {c} : savepoints'[d] = savepoints[d]
  BY DEF Targets
<1>4. Targets'
  BY <1>2, <1>3, Zenon DEF Targets
<1> QED
  BY <1>2, <1>4

LEMMA KeepsRollbackTo ==
  ASSUME IInv, NEW c \in Conn, NEW i, RollbackTo(c, i) PROVE IInv'
<1> DEFINE sp == savepoints[c][i]
<1>1. /\ UNCHANGED <<log, write_lock, transaction_state, pc, arg>>
      /\ i \in 1..Len(savepoints[c])
      /\ savepoints' = [savepoints EXCEPT ![c] = SubSeq(@, 1, i)]
      /\ wf' = [wf EXCEPT ![c].max_frame = sp.max_frame]
      /\ rollback_to_frame(sp.max_frame, sp.checksum)
  BY DEF RollbackTo, set_reader_max_frame, locks, files, txn, ctl
<1>2. savepoints[c] \in Seq(Range(savepoints[c])) /\ Len(savepoints[c]) \in Nat
  BY LenProperties DEF IInv, Targets
<1>3. sp \in Range(savepoints[c])
  BY <1>1, <1>2, ElementOfSeq
<1>4. sp.max_frame \in 0..MaxFrame
  BY <1>3 DEF IInv, Targets
<1> HIDE DEF sp
<1>5. max_frame' \in 0..MaxFrame /\ frame_cache' \in [Page -> SUBSET Frame] /\ FrameCacheSound'
  BY <1>1, <1>4, CutIndex
<1>6. DOMAIN wf' = Conn
      /\ \A d \in Conn : DOMAIN wf'[d] = WalFileFields /\ wf'[d].start \in 0..MaxFrame
  BY <1>1 DEF IInv, Targets, WalFileFields
<1>7. Targets' /\ Range(savepoints'[c]) \subseteq Range(savepoints[c])
  <2>1. i \in 0..Len(savepoints[c])
    BY <1>1, <1>2
  <2> QED
    BY <1>1, <2>1, <1>6, Keeps, Zenon DEF IInv
<1>8. Types'
  BY <1>1, <1>5 DEF IInv, Types
<1>9. \A d \in Conn : CommitterWrites(d)'
  <2>1. CommitterWrites(c)'
    BY <1>1, <1>7 DEF IInv, CommitterWrites
  <2>2. ASSUME NEW d \in Conn, d # c PROVE CommitterWrites(d)'
    BY <1>1, <2>2, OthersKept DEF IInv, Targets
  <2> QED
    BY <2>1, <2>2
<1>10. OneWriter'
  BY <1>1 DEF IInv, OneWriter
<1> QED
  BY <1>5, <1>7, <1>8, <1>9, <1>10 DEF IInv

LEMMA KeepsRelease ==
  ASSUME IInv, NEW c \in Conn, NEW i, Release(c, i) PROVE IInv'
<1>1. /\ UNCHANGED <<max_frame, frame_cache, log, wf, write_lock, transaction_state>>
      /\ pc[c] = "idle" /\ i \in 1..Len(savepoints[c])
      /\ savepoints' = [savepoints EXCEPT ![c] = SubSeq(@, 1, i - 1)]
      /\ \/ UNCHANGED <<pc, arg>>
         \/ /\ savepoints[c][i].owner
            /\ pc' = [pc EXCEPT ![c] = "append"] /\ arg' = [arg EXCEPT ![c] = "commit"]
  BY DEF Release, Idle, Goto, Call, shared, locks, files, ctl
<1>2. savepoints[c] \in Seq(Range(savepoints[c])) /\ Len(savepoints[c]) \in Nat
  BY LenProperties DEF IInv, Targets
<1>3. savepoints[c][i].owner => transaction_state[c] = "Write"
  BY <1>1, <1>2, ElementOfSeq DEF IInv, CommitterWrites
<1>4. Targets' /\ Range(savepoints'[c]) \subseteq Range(savepoints[c])
  <2>1. i - 1 \in 0..Len(savepoints[c])
    BY <1>1, <1>2
  <2>2. DOMAIN wf' = Conn
        /\ \A d \in Conn : DOMAIN wf'[d] = WalFileFields /\ wf'[d].start \in 0..MaxFrame
    BY <1>1 DEF IInv, Targets
  <2> QED
    BY <1>1, <2>1, <2>2, Keeps, Zenon DEF IInv
<1>5. Types'
  BY <1>1 DEF IInv, Types, Labels
<1>6. \A d \in Conn : CommitterWrites(d)'
  <2>1. CommitterWrites(c)'
    BY <1>1, <1>3, <1>4 DEF IInv, Types, CommitterWrites
  <2>2. ASSUME NEW d \in Conn, d # c PROVE CommitterWrites(d)'
    BY <1>1, <2>2, OthersKept DEF IInv, Types, Targets
  <2> QED
    BY <2>1, <2>2
<1>7. OneWriter' /\ FrameCacheSound'
  BY <1>1, FramesKept DEF IInv, OneWriter
<1> QED
  BY <1>4, <1>5, <1>6, <1>7 DEF IInv

LEMMA KeepsStartCheckpoint ==
  ASSUME IInv, NEW c \in Conn, NEW what \in {"checkpoint", "checkpoint_in_tx", "close"},
         StartCheckpoint(c, what)
  PROVE  IInv'
<1>1. /\ pc' = [pc EXCEPT ![c] = "ReadFrame"] /\ arg' = [arg EXCEPT ![c] = what]
      /\ UNCHANGED <<max_frame, frame_cache, log, wf, savepoints, write_lock, transaction_state>>
  BY DEF StartCheckpoint, CheckpointStart, Goto, Call, shared, files, pager, txn
<1>2. CommitterWrites(c)'
  BY <1>1 DEF IInv, Types, CommitterWrites
<1>3. DOMAIN arg' = Conn /\ \A d \in Conn \ {c} : arg'[d] = arg[d]
  BY <1>1 DEF IInv, Types
<1> QED
  BY <1>1, <1>2, <1>3, Moves, Zenon DEF Labels

-----------------------------------------------------------------------------
(* The steps a call takes by itself                                        *)

LEMMA KeepsLockRead ==
  ASSUME IInv, NEW c \in Conn, LockRead(c) PROVE IInv'
<1>1. /\ pc[c] = "lock_read"
      /\ wf' = [wf EXCEPT ![c].min_frame = nbackfills + 1]
      /\ UNCHANGED <<max_frame, frame_cache, log, savepoints, write_lock>>
      /\ \/ /\ transaction_state' = [transaction_state EXCEPT ![c] = "Read"]
            /\ pc' = [pc EXCEPT ![c] = "idle"] /\ arg' = [arg EXCEPT ![c] = "none"]
         \/ pc' = [pc EXCEPT ![c] = "begin_write"] /\ UNCHANGED <<transaction_state, arg>>
  BY DEF LockRead, Return, Goto, Call, shared, files, pager
<1>2. transaction_state[c] = "None"
  BY <1>1 DEF IInv, CommitterWrites
<1>3. Types'
  BY <1>1 DEF IInv, Types, Labels
<1>4. Targets'
  BY <1>1 DEF IInv, Targets, WalFileFields
<1>5. \A d \in Conn : CommitterWrites(d)'
  <2>1. CommitterWrites(c)'
    BY <1>1, <1>2 DEF IInv, Types, CommitterWrites
  <2>2. ASSUME NEW d \in Conn, d # c PROVE CommitterWrites(d)'
    BY <1>1, <2>2, OthersKept DEF IInv, Types
  <2> QED
    BY <2>1, <2>2
<1>6. OneWriter' /\ FrameCacheSound'
  BY <1>1, FramesKept DEF IInv, Types, OneWriter
<1> QED
  BY <1>3, <1>4, <1>5, <1>6 DEF IInv

\* Nobody is the writer when lock.write() succeeds.
LEMMA KeepsBeginWrite ==
  ASSUME IInv, NEW c \in Conn, begin_write_tx(c) PROVE IInv'
<1>1. /\ pc[c] = "begin_write"
      /\ pc' = [pc EXCEPT ![c] = "idle"] /\ arg' = [arg EXCEPT ![c] = "none"]
      /\ UNCHANGED <<max_frame, frame_cache, log>>
  BY DEF begin_write_tx, Return, Goto, Call, shared, files
<1>2. CASE write_lock
  <2>1. UNCHANGED <<write_lock, wf, transaction_state, savepoints>>
    BY <1>2 DEF begin_write_tx, write_busy, txn
  <2>2. CommitterWrites(c)'
    BY <1>1, <2>1 DEF IInv, Types, CommitterWrites
  <2>3. DOMAIN arg' = Conn /\ \A d \in Conn \ {c} : arg'[d] = arg[d]
    BY <1>1 DEF IInv, Types
  <2> QED
    BY <1>1, <2>1, <2>2, <2>3, Moves, Zenon DEF Labels
<1>3. CASE ~write_lock
  <2> DEFINE e == [max_frame |-> max_frame, checksum |-> last_checksum, owner |-> TRUE,
                   view |-> view[c], wrote |-> {}]
  <2>1. /\ write_lock' = TRUE
        /\ transaction_state' = [transaction_state EXCEPT ![c] = "Write"]
        /\ wf' = [wf EXCEPT ![c].start = max_frame, ![c].start_checksum = last_checksum]
        /\ \/ savepoints' = [savepoints EXCEPT ![c] = Append(@, e)]
           \/ UNCHANGED savepoints
    BY <1>3 DEF begin_write_tx, write_busy
  <2>2. e.max_frame \in 0..MaxFrame
    BY DEF IInv, Types
  <2> HIDE DEF e
  <2>3. Types'
    BY <1>1, <2>1 DEF IInv, Types, Labels
  <2>4. DOMAIN wf' = Conn
        /\ \A d \in Conn : DOMAIN wf'[d] = WalFileFields /\ wf'[d].start \in 0..MaxFrame
    BY <2>1 DEF IInv, Types, Targets, WalFileFields
  <2>5. Targets' /\ \A d \in Conn \ {c} : savepoints'[d] = savepoints[d]
    <3>1. CASE savepoints' = [savepoints EXCEPT ![c] = Append(@, e)]
      BY <3>1, <2>2, <2>4, Pushes, Zenon DEF IInv, Targets
    <3>2. CASE UNCHANGED savepoints
      BY <3>2, <2>4 DEF IInv, Targets
    <3> QED
      BY <2>1, <3>1, <3>2
  <2>6. \A d \in Conn : CommitterWrites(d)'
    <3>1. CommitterWrites(c)'
      BY <1>1, <2>1 DEF IInv, Types, CommitterWrites
    <3>2. ASSUME NEW d \in Conn, d # c PROVE CommitterWrites(d)'
      BY <1>1, <2>1, <2>5, <3>2, OthersKept DEF IInv, Types
    <3> QED
      BY <3>1, <3>2
  <2>7. OneWriter'
    BY <1>3, <2>1 DEF IInv, Types, OneWriter
  <2>8. FrameCacheSound'
    BY <1>1, FramesKept DEF IInv
  <2> QED
    BY <2>3, <2>5, <2>6, <2>7, <2>8 DEF IInv
<1> QED
  BY <1>2, <1>3

LEMMA KeepsSavepointFlushed ==
  ASSUME IInv, NEW c \in Conn, SavepointFlushed(c) PROVE IInv'
<1> DEFINE e == [max_frame |-> max_frame, checksum |-> last_checksum,
                 owner |-> arg[c] = "savepoint_owner",
                 view |-> IF transaction_state[c] = "None" THEN committed ELSE view[c],
                 wrote |-> wrote[c]]
<1>1. /\ pc[c] = "append"
      /\ pc' = [pc EXCEPT ![c] = "idle"] /\ arg' = [arg EXCEPT ![c] = "none"]
      /\ wf' = [wf EXCEPT ![c].max_frame = max_frame]
      /\ savepoints' = [savepoints EXCEPT ![c] = Append(@, e)]
      /\ UNCHANGED <<max_frame, frame_cache, log, write_lock, transaction_state>>
  BY DEF SavepointFlushed, PushSavepoint, set_reader_max_frame, Return, Goto, Call, shared, locks,
         files, txn
<1>2. e.max_frame \in 0..MaxFrame
  BY DEF IInv, Types
<1>3. e.owner => transaction_state[c] = "Write"
  BY <1>1, Zenon DEF IInv, CommitterWrites
<1> HIDE DEF e
<1>4. Types'
  BY <1>1 DEF IInv, Types, Labels
<1>5. DOMAIN wf' = Conn
      /\ \A d \in Conn : DOMAIN wf'[d] = WalFileFields /\ wf'[d].start \in 0..MaxFrame
  BY <1>1 DEF IInv, Targets, WalFileFields
<1>6. Targets' /\ Range(savepoints'[c]) = Range(savepoints[c]) \cup {e}
  BY <1>1, <1>2, <1>5, Pushes, Zenon DEF IInv
<1>7. \A d \in Conn : CommitterWrites(d)'
  <2>1. CommitterWrites(c)'
    BY <1>1, <1>3, <1>6 DEF IInv, Types, CommitterWrites
  <2>2. ASSUME NEW d \in Conn, d # c PROVE CommitterWrites(d)'
    BY <1>1, <2>2, OthersKept DEF IInv, Types, Targets
  <2> QED
    BY <2>1, <2>2
<1>8. OneWriter' /\ FrameCacheSound'
  BY <1>1, FramesKept DEF IInv, OneWriter
<1> QED
  BY <1>4, <1>6, <1>7, <1>8 DEF IInv

\* A frame is appended and indexed in one step, past every other entry.
LEMMA KeepsFlushPage ==
  ASSUME IInv, NEW c \in Conn, NEW p \in Page, FlushPage(c, p) PROVE IInv'
<1> DEFINE frame == [page |-> p, content |-> cache[c][p], prev |-> last_checksum, current |-> TRUE]
<1>1. /\ max_frame < MaxFrame /\ max_frame' = max_frame + 1
      /\ log' = [log EXCEPT ![max_frame + 1] = frame]
      /\ frame_cache' = [frame_cache EXCEPT ![p] = @ \cup {max_frame + 1}]
      /\ UNCHANGED <<wf, savepoints, write_lock, transaction_state, pc, arg>>
  BY DEF FlushPage, append_frame, locks, txn, ctl
<1>2. frame.page = p /\ frame.current
  OBVIOUS
<1> HIDE DEF frame
<1>3. Types' /\ max_frame + 1 \in Frame
  BY <1>1, BoundsAssumption DEF IInv, Types, Frame
<1>4. FrameCacheSound'
  <2> SUFFICES ASSUME NEW q \in Page, NEW f \in frame_cache'[q]
               PROVE  f <= max_frame' /\ log'[f].page = q /\ log'[f].current
    BY DEF FrameCacheSound
  <2>1. CASE f = max_frame + 1 /\ q = p
    BY <1>1, <1>2, <1>3, <2>1 DEF IInv, Types
  <2>2. CASE f \in frame_cache[q]
    <3>1. f <= max_frame /\ log[f].page = q /\ log[f].current /\ f \in Frame
      BY <2>2 DEF IInv, Types, FrameCacheSound
    <3>2. log'[f] = log[f]
      BY <1>1, <3>1 DEF IInv, Types, Frame
    <3> QED
      BY <1>1, <3>1, <3>2 DEF IInv, Types, Frame
  <2>3. f \in frame_cache[q] \/ (f = max_frame + 1 /\ q = p)
    BY <1>1 DEF IInv, Types
  <2> QED
    BY <2>1, <2>2, <2>3
<1>5. Targets' /\ OneWriter' /\ \A d \in Conn : CommitterWrites(d)'
  BY <1>1 DEF IInv, Targets, OneWriter, CommitterWrites
<1> QED
  BY <1>3, <1>4, <1>5 DEF IInv

\* The places of a commit are the writer's, one after the other.
LEMMA KeepsFlushed ==
  ASSUME IInv, NEW c \in Conn, Flushed(c) \/ SyncWal(c) \/ SyncDb(c) PROVE IInv'
<1>1. /\ transaction_state[c] = "Write"
      /\ UNCHANGED <<max_frame, frame_cache, log, wf, savepoints, write_lock,
                     transaction_state, arg>>
  BY Zenon DEF IInv, CommitterWrites, Flushed, SyncWal, SyncDb, shared, locks, files, pager, txn
<1>2. \E l \in {"sync_wal", "ReadFrame", "end_tx"} : pc' = [pc EXCEPT ![c] = l]
  BY DEF Flushed, SyncWal, SyncDb, CheckpointStart, Goto
<1>3. PICK l \in {"sync_wal", "ReadFrame", "end_tx"} : pc' = [pc EXCEPT ![c] = l]
  BY <1>2, Zenon
<1>4. CommitterWrites(c)'
  BY <1>1, <1>3, Zenon DEF IInv, Types, CommitterWrites
<1>5. DOMAIN arg' = Conn /\ \A d \in Conn \ {c} : arg'[d] = arg[d]
  BY <1>1 DEF IInv, Types
<1>6. l \in Labels
  BY DEF Labels
<1> QED
  BY <1>1, <1>3, <1>4, <1>5, <1>6, Moves, Zenon

\* The lock that end_tx gives back is its own: nobody else is a writer.
LEMMA KeepsEndTx ==
  ASSUME IInv, NEW c \in Conn, end_tx(c) PROVE IInv'
<1>1. /\ pc[c] = "end_tx" /\ write_lock' = FALSE
      /\ savepoints' = [savepoints EXCEPT ![c] = <<>>]
      /\ transaction_state' = [transaction_state EXCEPT ![c] = "None"]
      /\ pc' = [pc EXCEPT ![c] = "idle"] /\ arg' = [arg EXCEPT ![c] = "none"]
      /\ UNCHANGED <<max_frame, frame_cache, log, wf>>
  BY DEF end_tx, end_write_tx, Return, Goto, Call, shared, files
<1>2. transaction_state[c] = "Write"
  BY <1>1 DEF IInv, CommitterWrites
<1>3. Types'
  BY <1>1 DEF IInv, Types, Labels
<1>4. Targets'
  BY <1>1, NoSavepoints, Zenon DEF IInv, Targets
<1>5. \A d \in Conn : CommitterWrites(d)'
  <2>1. CommitterWrites(c)'
    BY <1>1, NoSavepoints DEF IInv, Types, Targets, CommitterWrites
  <2>2. ASSUME NEW d \in Conn, d # c PROVE CommitterWrites(d)'
    BY <1>1, <2>2, OthersKept, Zenon DEF IInv, Types, Targets
  <2> QED
    BY <2>1, <2>2
<1>6. OneWriter'
  BY <1>1, <1>2 DEF IInv, Types, OneWriter
<1>7. FrameCacheSound'
  BY <1>1, FramesKept DEF IInv
<1> QED
  BY <1>3, <1>4, <1>5, <1>6, <1>7 DEF IInv

\* A checkpoint on its way through the pages.
LEMMA KeepsCopying ==
  ASSUME IInv, NEW c \in Conn, ReadFrame(c) \/ FrameRead(c) \/ PageWritten(c) PROVE IInv'
<1> DEFINE Places == {"ReadFrame", "WaitReadFrame", "WaitWritePage", "Done"}
<1>1. /\ pc[c] \in Places
      /\ UNCHANGED <<max_frame, frame_cache, log, wf, savepoints, write_lock,
                     transaction_state, arg>>
  BY DEF ReadFrame, FrameRead, PageWritten, shared, locks, files, pager, txn
<1>2. UNCHANGED pc \/ \E l \in Places : pc' = [pc EXCEPT ![c] = l]
  BY DEF ReadFrame, FrameRead, PageWritten, Goto
<1>3. CASE UNCHANGED pc
  BY <1>1, <1>3, Stutters
<1>4. CASE \E l \in Places : pc' = [pc EXCEPT ![c] = l]
  <2>1. PICK l \in Places : pc' = [pc EXCEPT ![c] = l]
    BY <1>4, Zenon
  <2>2. CommitterWrites(c)'
    BY <1>1, <2>1 DEF IInv, Types, CommitterWrites
  <2>3. DOMAIN arg' = Conn /\ \A d \in Conn \ {c} : arg'[d] = arg[d]
    BY <1>1 DEF IInv, Types
  <2>4. l \in Labels
    BY DEF Labels
  <2> QED
    BY <1>1, <2>1, <2>2, <2>3, <2>4, Moves, Zenon
<1> QED
  BY <1>2, <1>3, <1>4

\* The log starts over with an empty index, or the index loses the frames that
\* were copied and the log stays.
LEMMA BackfillKeepsIndex ==
  ASSUME IInv, NEW c \in Conn, Backfilled(c)
  PROVE  /\ max_frame' \in 0..MaxFrame /\ frame_cache' \in [Page -> SUBSET Frame]
         /\ DOMAIN log' = Frame /\ FrameCacheSound'
<1>1. CASE max_frame = ck[c].max_frame
  <2>1. max_frame' = 0 /\ frame_cache' = [p \in Page |-> {}] /\ DOMAIN log' = Frame
    BY <1>1 DEF Backfilled, reset_wal_file, Empty
  <2> QED
    BY <2>1, BoundsAssumption DEF FrameCacheSound
<1>2. CASE max_frame # ck[c].max_frame
  <2> DEFINE keep == (ck[c].max_frame + 1)..MaxFrame
  <2>1. UNCHANGED <<max_frame, log>> /\ Retain(keep)
    BY <1>2 DEF Backfilled
  <2> HIDE DEF keep
  <2>2. frame_cache' = [p \in Page |-> frame_cache[p] \cap keep]
    BY <2>1 DEF Retain
  <2> QED
    BY <2>1, <2>2 DEF IInv, Types, FrameCacheSound
<1> QED
  BY <1>1, <1>2

\* A connection that starts over has a WalFile of the right shape.
LEMMA NewWalFileShape ==
  DOMAIN NewWalFile = WalFileFields /\ NewWalFile.start \in 0..MaxFrame
<1>1. DOMAIN NewWalFile = WalFileFields
  BY Zenon DEF NewWalFile, WalFileFields
<1>2. NewWalFile.start = 0
  BY DEF NewWalFile
<1>3. NewWalFile.start \in 0..MaxFrame
  BY <1>2, BoundsAssumption
<1> QED
  BY <1>1, <1>3

LEMMA KeepsDone ==
  ASSUME IInv, NEW c \in Conn, Done(c) PROVE IInv'
<1>1. /\ pc[c] = "Done" /\ Backfilled(c) /\ UNCHANGED <<write_lock, transaction_state>>
      /\ \/ /\ arg[c] = "commit" /\ pc' = [pc EXCEPT ![c] = "sync_db"] /\ UNCHANGED arg
         \/ pc' = [pc EXCEPT ![c] = "idle"] /\ arg' = [arg EXCEPT ![c] = "none"]
  BY DEF Done, Return, Goto, Call, locks
<1>2. \/ /\ wf' = [wf EXCEPT ![c] = NewWalFile]
         /\ savepoints' = [savepoints EXCEPT ![c] = <<>>]
      \/ UNCHANGED <<wf, savepoints>>
  BY Zenon DEF Done
<1>3. /\ max_frame' \in 0..MaxFrame /\ frame_cache' \in [Page -> SUBSET Frame]
      /\ DOMAIN log' = Frame /\ FrameCacheSound'
  BY <1>1, BackfillKeepsIndex
<1>4. Types'
  BY <1>1, <1>3, Zenon DEF IInv, Types, Labels
<1>5. Targets'
  BY <1>2, NewWalFileShape, NoSavepoints, Zenon DEF IInv, Targets
<1>6. \A d \in Conn : CommitterWrites(d)'
  <2>1. CommitterWrites(c)'
    <3>1. \A s \in Range(savepoints'[c]) : s \in Range(savepoints[c])
      BY <1>2, NoSavepoints DEF IInv, Targets
    <3> QED
      BY <1>1, <3>1, Zenon DEF IInv, Types, CommitterWrites
  <2>2. ASSUME NEW d \in Conn, d # c PROVE CommitterWrites(d)'
    BY <1>1, <1>2, <2>2, OthersKept DEF IInv, Types, Targets
  <2> QED
    BY <2>1, <2>2
<1>7. OneWriter'
  BY <1>1 DEF IInv, OneWriter
<1> QED
  BY <1>3, <1>4, <1>5, <1>6, <1>7 DEF IInv

-----------------------------------------------------------------------------
(* The invariant                                                           *)

LEMMA InitIInv == Init => IInv
<1> SUFFICES ASSUME Init PROVE IInv
  OBVIOUS
<1>1. Types
  BY BoundsAssumption DEF Init, Types, Empty, Labels
<1>2. Targets
  BY NewWalFileShape, NoSavepoints DEF Init, Targets
<1>3. \A c \in Conn : CommitterWrites(c)
  BY NoSavepoints DEF Init, CommitterWrites
<1>4. OneWriter /\ FrameCacheSound
  BY DEF Init, OneWriter, FrameCacheSound, Empty
<1> QED
  BY <1>1, <1>2, <1>3, <1>4 DEF IInv

LEMMA StepIInv == ASSUME IInv, NEW c \in Conn, Step(c) PROVE IInv'
<1>1. CASE LockRead(c)
  BY <1>1, KeepsLockRead
<1>2. CASE begin_write_tx(c)
  BY <1>2, KeepsBeginWrite
<1>3. CASE SavepointFlushed(c)
  BY <1>3, KeepsSavepointFlushed
<1>4. CASE \E p \in Page : FlushPage(c, p)
  BY <1>4, KeepsFlushPage
<1>5. CASE Flushed(c) \/ SyncWal(c) \/ SyncDb(c)
  BY <1>5, KeepsFlushed
<1>6. CASE end_tx(c)
  BY <1>6, KeepsEndTx
<1>7. CASE ReadFrame(c) \/ FrameRead(c) \/ PageWritten(c)
  BY <1>7, KeepsCopying
<1>8. CASE Done(c)
  BY <1>8, KeepsDone
<1> QED
  BY <1>1, <1>2, <1>3, <1>4, <1>5, <1>6, <1>7, <1>8, Zenon DEF Step

LEMMA ClientIInv == ASSUME IInv, NEW c \in Conn, Client(c) PROVE IInv'
<1>1. CASE Begin(c) \/ Fail(c) \/ FailInTx(c)
  BY <1>1, KeepsQuiet
<1>2. CASE \E p \in Page : ReadPage(c, p) \/ WritePage(c, p)
  BY <1>2, KeepsQuiet
<1>3. CASE TransactionRead(c) \/ \E what \in {"write", "savepoint"} : TransactionWrite(c, what)
  BY <1>3, KeepsTransaction
<1>4. CASE Commit(c)
  BY <1>4, KeepsCommit
<1>5. CASE Rollback(c)
  BY <1>5, KeepsRollback
<1>6. CASE OpenSavepoint(c)
  BY <1>6, KeepsOpenSavepoint
<1>7. CASE \E what \in {"checkpoint", "checkpoint_in_tx", "close"} : StartCheckpoint(c, what)
  BY <1>7, KeepsStartCheckpoint
<1>8. CASE \E i \in 1..MaxDepth : RollbackTo(c, i) \/ Release(c, i)
  BY <1>8, KeepsRollbackTo, KeepsRelease
<1> QED
  BY <1>1, <1>2, <1>3, <1>4, <1>5, <1>6, <1>7, <1>8, Zenon DEF Client

LEMMA NextIInv == IInv /\ [Next]_vars => IInv'
<1> SUFFICES ASSUME IInv, [Next]_vars PROVE IInv'
  OBVIOUS
<1>1. CASE Next
  BY <1>1, StepIInv, ClientIInv DEF Next
<1>2. CASE UNCHANGED vars
  BY <1>2, Stutters DEF vars, shared, locks, files, pager, txn, ctl
<1> QED
  BY <1>1, <1>2

\* The write lock excludes, for any number of connections: whoever is in a write
\* transaction holds the lock of WalFileShared, alone, until the transaction ends,
\* whatever the others commit, roll back, checkpoint or are refused.
THEOREM WriterAlone == Spec => []OneWriter
<1>1. IInv => OneWriter
  BY DEF IInv
<1> QED
  BY <1>1, InitIInv, NextIInv, PTL DEF Spec

\* frame_cache agrees with the log file, for any number of connections, pages and
\* frames: rollback, ROLLBACK TO, appends, trims and resets never leave an entry
\* for a frame that is not there, is of another page, or of an earlier generation.
THEOREM IndexSound == Spec => []FrameCacheSound
<1>1. IInv => FrameCacheSound
  BY DEF IInv
<1> QED
  BY <1>1, InitIInv, NextIInv, PTL DEF Spec

-----------------------------------------------------------------------------
(* Bounded sets of numbers, and the mark a reader takes                    *)

\* A set of numbers up to n has a largest one.
LEMMA LargestExists ==
  ASSUME NEW n \in Nat, NEW S \in SUBSET (0..n), S # {}
  PROVE  \E x \in S : \A y \in S : x >= y
<1> DEFINE T == {n - x : x \in S}
<1>1. T \subseteq Nat /\ T # {}
  <2>1. \A x \in S : n - x \in Nat
    OBVIOUS
  <2>2. \A t \in T : t \in Nat
    BY <2>1
  <2> QED
    BY <2>2, Zenon
<1>2. PICK t \in T : \A u \in T : ~(<<u, t>> \in OpToRel(<, Nat))
  <2> HIDE DEF T
  <2> QED
    BY <1>1, NatLessThanWellFounded, WFMin, Zenon
<1>3. \A u \in T : ~(u < t)
  <2> HIDE DEF T
  <2> QED
    BY <1>1, <1>2, Zenon DEF OpToRel
<1>4. PICK x \in S : t = n - x
  OBVIOUS
<1>5. ASSUME NEW y \in S PROVE x >= y
  <2>1. n - y \in T
    OBVIOUS
  <2>2. ~(n - y < n - x)
    BY <1>3, <1>4, <2>1
  <2> QED
    BY <2>2
<1> QED
  BY <1>5

LEMMA MaxOf ==
  ASSUME NEW n \in Nat, NEW S \in SUBSET (0..n), S # {}
  PROVE  Max(S) \in S /\ \A y \in S : y <= Max(S)
<1>1. \E x \in S : \A y \in S : x >= y
  BY LargestExists, Zenon
<1>2. Max(S) \in S /\ \A y \in S : Max(S) >= y
  BY <1>1, Zenon DEF Max
<1> QED
  BY <1>2

LEMMA MinOf ==
  ASSUME NEW n \in Nat, NEW S \in SUBSET (0..n), S # {}
  PROVE  Min(S) \in S /\ \A y \in S : Min(S) <= y
<1> DEFINE Lower == {x \in 0..n : \A y \in S : x <= y}
<1>1. PICK x \in Lower : \A y \in Lower : x >= y
  <2>1. 0 \in Lower /\ Lower \in SUBSET (0..n)
    OBVIOUS
  <2> HIDE DEF Lower
  <2> QED
    BY <2>1, LargestExists, Zenon
<1>2. x \in S
  <2> SUFFICES ASSUME x \notin S PROVE FALSE
    OBVIOUS
  <2>3. PICK y \in S : TRUE
    BY Zenon
  <2>1. x + 1 \in Lower
    BY <1>1, <2>3
  <2> QED
    BY <1>1, <2>1
<1>3. \E z \in S : \A y \in S : z =< y
  BY <1>1, <1>2
<1> QED
  BY <1>3, Zenon DEF Min

\* The mark begin_read_tx takes is one that a lock shows already, or the end of
\* the log in a lock that nobody holds.
LEMMA ChosenMark ==
  ASSUME max_frame \in Nat, read_locks \in [Slot -> [nreads : Nat, value : Nat]],
         NEW c \in Conn, NEW what, StartRead(c, what)
  PROVE  \/ UNCHANGED <<read_locks, wf, view, ctl>>
         \/ \E slot \in Slot, mark \in 0..max_frame :
              /\ Adopt(c, what, slot, mark)
              /\ \/ mark = max_frame /\ read_locks[slot].nreads = 0
                 \/ mark = read_locks[slot].value
<1> DEFINE usable == {i \in Slot : read_locks[i].value \in 1..max_frame}
           values == {read_locks[i].value : i \in usable}
           best == IF usable = {} THEN 0 ELSE Max(values)
           old == {i \in usable : read_locks[i].value = best}
           free == {i \in Slot : ~Busy(i)}
           update == Outdated(best) /\ free # {}
<1>1. IF update \/ usable # {}
        THEN Adopt(c, what, Min(IF update THEN free ELSE old), IF update THEN max_frame ELSE best)
        ELSE UNCHANGED <<read_locks, wf, view, ctl>>
  BY Zenon DEF StartRead
<1>2. \A S \in SUBSET Slot : S # {} => Min(S) \in S
  <2>1. Slots - 1 \in Nat
    BY SlotsAssumption
  <2> TAKE S \in SUBSET Slot
  <2> QED
    BY <2>1, MinOf, Zenon DEF Slot
<1>3. CASE update
  <2>1. free \in SUBSET Slot /\ free # {}
    BY <1>3, Zenon
  <2>2. Min(free) \in free
    BY <1>2, <2>1, Zenon
  <2>3. Min(free) \in Slot /\ read_locks[Min(free)].nreads = 0
    BY <2>2 DEF Busy
  <2>4. Adopt(c, what, Min(free), max_frame)
    BY <1>1, <1>3, Zenon
  <2>5. max_frame \in 0..max_frame
    OBVIOUS
  <2> QED
    BY <2>3, <2>4, <2>5, Zenon
<1>4. CASE ~update /\ usable # {}
  <2>1. values \in SUBSET (0..max_frame) /\ values # {}
    <3>1. \A i \in usable : read_locks[i].value \in 0..max_frame
      OBVIOUS
    <3>2. values # {}
      BY <1>4
    <3> HIDE DEF usable
    <3> QED
      BY <3>1, <3>2
  <2>2. best \in values
    <3> HIDE DEF values, usable
    <3> QED
      BY <1>4, <2>1, MaxOf, Zenon
  <2>3. old \in SUBSET Slot /\ old # {} /\ best \in 0..max_frame
    BY <2>1, <2>2, Zenon
  <2>4. Min(old) \in old
    BY <1>2, <2>3, Zenon
  <2>5. Min(old) \in Slot /\ read_locks[Min(old)].value = best
    BY <2>4, Zenon
  <2>6. Adopt(c, what, Min(old), best)
    BY <1>1, <1>4, Zenon
  <2> QED
    BY <2>3, <2>5, <2>6, Zenon
<1>5. CASE ~update /\ usable = {}
  BY <1>1, <1>5, Zenon
<1> QED
  BY <1>3, <1>4, <1>5

-----------------------------------------------------------------------------
(* What the log shows, and appending to it                                *)

LEMMA SameLookup ==
  ASSUME UNCHANGED <<frame_cache, log, db>>, NEW m, NEW p
  PROVE  Lookup(m, p)' = Lookup(m, p)
  BY DEF Lookup, find_frame

\* A frame of page p is added at the end of the log.
Added(p, x) ==
  /\ max_frame + 1 \in Frame /\ max_frame' = max_frame + 1
  /\ log' = [log EXCEPT ![max_frame + 1] = x]
  /\ frame_cache' = [frame_cache EXCEPT ![p] = frame_cache[p] \cup {max_frame + 1}]
  /\ UNCHANGED db

LEMMA FrameFound ==
  ASSUME Types, FrameCacheSound, NEW m, NEW q \in Page
  PROVE  \/ find_frame(m, q) = 0 /\ {f \in frame_cache[q] : f <= m} = {}
         \/ /\ find_frame(m, q) \in frame_cache[q] /\ find_frame(m, q) \in 1..max_frame
            /\ {f \in frame_cache[q] : f <= m} # {}
<1> DEFINE found == {f \in frame_cache[q] : f <= m}
<1>1. found \subseteq frame_cache[q] /\ frame_cache[q] \subseteq Frame
  BY DEF Types
<1>2. MaxFrame \in Nat /\ found \in SUBSET (0..MaxFrame)
  BY <1>1, BoundsAssumption DEF Frame
<1>3. find_frame(m, q) = IF found = {} THEN 0 ELSE Max(found)
  BY DEF find_frame
<1>4. CASE found # {}
  <2>1. Max(found) \in found
    BY <1>2, <1>4, MaxOf, Zenon
  <2>2. Max(found) \in frame_cache[q] /\ Max(found) \in Frame /\ Max(found) <= max_frame
    BY <1>1, <2>1 DEF FrameCacheSound
  <2>3. max_frame \in Nat
    BY BoundsAssumption DEF Types
  <2>4. Max(found) \in 1..max_frame
    BY <2>2, <2>3, BoundsAssumption DEF Frame
  <2> QED
    BY <1>3, <1>4, <2>2, <2>4
<1>5. CASE found = {}
  BY <1>3, <1>5
<1> QED
  BY <1>4, <1>5

\* Whoever is bounded by a frame of the log before does not notice.
LEMMA OldLookup ==
  ASSUME Types, FrameCacheSound, NEW p \in Page, NEW x, Added(p, x),
         NEW m \in 0..max_frame, NEW q \in Page
  PROVE  Lookup(m, q)' = Lookup(m, q)
<1>1. max_frame \in Nat /\ m \in Nat /\ m <= max_frame
  BY BoundsAssumption DEF Types
<1>2. {f \in frame_cache'[q] : f <= m} = {f \in frame_cache[q] : f <= m}
  <2>1. frame_cache'[q] = frame_cache[q] \/ frame_cache'[q] = frame_cache[q] \cup {max_frame + 1}
    BY DEF Added, Types
  <2>2. ~(max_frame + 1 <= m)
    BY <1>1
  <2> QED
    BY <2>1, <2>2
<1>3. find_frame(m, q)' = find_frame(m, q)
  BY <1>2 DEF find_frame
<1>4. find_frame(m, q) # 0 => find_frame(m, q) \in 1..max_frame
  BY FrameFound
<1>5. find_frame(m, q) # 0 => log'[find_frame(m, q)] = log[find_frame(m, q)]
  <2>1. \A f \in 1..max_frame : log'[f] = log[f]
    BY <1>1 DEF Added, Types
  <2> QED
    BY <1>4, <2>1
<1>6. db' = db
  BY DEF Added
<1> QED
  BY <1>3, <1>5, <1>6 DEF Lookup

\* At its new end the log shows the new frame, and of the other pages what it
\* showed before.
LEMMA NewLookup ==
  ASSUME Types, FrameCacheSound, NEW p \in Page, NEW x, Added(p, x), NEW q \in Page
  PROVE  Lookup(max_frame, q)' = IF q = p THEN x.content ELSE Lookup(max_frame, q)
<1> DEFINE n == max_frame + 1
<1>1. max_frame \in Nat /\ n \in Nat /\ n # 0 /\ n \in Frame
  BY BoundsAssumption DEF Types, Added
<1>2. max_frame' = n
  BY DEF Added
<1>3. \A f \in frame_cache[q] : f <= max_frame /\ f \in 0..max_frame
  BY <1>1, BoundsAssumption DEF FrameCacheSound, Types, Frame
<1>4. CASE q = p
  <2> DEFINE found == {f \in frame_cache'[q] : f <= n}
  <2>1. frame_cache'[q] = frame_cache[q] \cup {n}
    BY <1>4 DEF Added, Types
  <2>2. found \in SUBSET (0..n) /\ n \in found /\ found # {}
    BY <1>1, <1>3, <2>1
  <2>3. Max(found) \in found /\ \A y \in found : y <= Max(found)
    BY <1>1, <2>2, MaxOf
  <2>4. Max(found) = n
    <3> HIDE DEF found
    <3>1. Max(found) \in 0..n /\ n <= Max(found)
      BY <2>2, <2>3, Zenon
    <3> QED
      BY <1>1, <3>1
  <2>5. find_frame(max_frame, q)' = n
    BY <1>2, <2>2, <2>4 DEF find_frame
  <2>6. log'[n] = x
    BY <1>1 DEF Added, Types
  <2> QED
    BY <1>1, <1>4, <2>5, <2>6 DEF Lookup
<1>5. CASE q # p
  <2>1. frame_cache'[q] = frame_cache[q]
    BY <1>5 DEF Added, Types
  <2>2. {f \in frame_cache'[q] : f <= n} = {f \in frame_cache[q] : f <= max_frame}
    BY <1>1, <1>3, <2>1
  <2>3. find_frame(max_frame, q)' = find_frame(max_frame, q)
    BY <1>2, <2>2 DEF find_frame
  <2>4. find_frame(max_frame, q) # 0 => find_frame(max_frame, q) \in 1..max_frame
    BY FrameFound
  <2>5. \A f \in 1..max_frame : log'[f] = log[f]
    BY <1>1 DEF Added, Types
  <2>6. db' = db
    BY DEF Added
  <2> QED
    BY <1>5, <2>3, <2>4, <2>5, <2>6 DEF Lookup
<1> QED
  BY <1>4, <1>5

=============================================================================
