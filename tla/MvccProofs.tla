----------------------------- MODULE MvccProofs -----------------------------
(***************************************************************************)
(* Proofs about Mvcc, for every set of transactions and rows and every     *)
(* choice of client calls.  Types, and that commits are whole; then that   *)
(* every mark a transaction leaves in the store is resolved (the invariant *)
(* MarksInv), and on top of it that what is visible is in the log, and     *)
(* that what was read stays committed.  Last, the steps and the versions   *)
(* that the proof of NoLostUpdate in MvccFirstProofs tells apart.          *)
(***************************************************************************)
EXTENDS MvccInd, TLAPS

USE DEF Linked

\* A write call that begins, and the step that takes the row's lock to delete.
Starts(t, r) ==
  \/ \E k \in {"insert", "insert_over"} : StartInsert(t, r, k)
  \/ \E k \in {"delete", "update", "upsert"} : DeleteGet(t, r, k)
Deletes(t) == \E r \in RowID : Delete(t, r)

LEMMA StartsEffect ==
  ASSUME NEW t \in TxID, NEW r \in RowID, Starts(t, r)
  PROVE  /\ pc[t] = "idle"
         /\ \E k \in Calls : StartCall(t, k, r, NoVersion)
         /\ \/ pc' = [pc EXCEPT ![t] = "insert"]
            \/ pc' = [pc EXCEPT ![t] = "scan"] /\ entry[r].live
         /\ UNCHANGED <<clock, txs, entry, rows, log, todo, gc, superseded, observed>>
<1>1. ASSUME NEW k \in {"insert", "insert_over"}, StartInsert(t, r, k)
      PROVE  /\ pc[t] = "idle" /\ k \in Calls /\ StartCall(t, k, r, NoVersion)
             /\ pc' = [pc EXCEPT ![t] = "insert"]
             /\ UNCHANGED <<clock, txs, entry, rows, log, todo, gc, superseded, observed>>
  BY <1>1 DEF StartInsert, Goto, Calls
<1>2. ASSUME NEW k \in {"delete", "update", "upsert"}, DeleteGet(t, r, k)
      PROVE  /\ pc[t] = "idle" /\ k \in Calls /\ StartCall(t, k, r, NoVersion)
             /\ \/ pc' = [pc EXCEPT ![t] = "insert"]
                \/ pc' = [pc EXCEPT ![t] = "scan"] /\ entry[r].live
             /\ UNCHANGED <<clock, txs, entry, rows, log, todo, gc, superseded, observed>>
  BY <1>2, Zenon DEF DeleteGet, Goto, Calls
<1> QED
  BY <1>1, <1>2, Zenon DEF Starts

\* What delete() does once it has the lock.
LEMMA DeleteEffect ==
  ASSUME NEW t \in TxID, NEW r \in RowID, Delete(t, r)
  PROVE  /\ pc[t] = "scan" /\ r = call[t].row
         /\ Linked(r, call[t].gen) => ~Locked(r)
         /\ UNCHANGED <<clock, txs, entry, log, todo, gc, observed>>
         /\ \/ NotFound(t) /\ (Linked(r, call[t].gen) => VisibleVersions(t, r) = {})
            \/ Conflict(t)
            \/ \E rv \in VisibleVersions(t, r) :
                 /\ Linked(r, call[t].gen) /\ IsNewest(rv, VisibleVersions(t, r))
                 /\ rv.end.kind = "tx"
                 /\ pc' = [pc EXCEPT ![t] = "check"]
                 /\ call' = [call EXCEPT ![t].rv = rv]
                 /\ UNCHANGED <<rows, superseded>>
            \/ \E rv \in VisibleVersions(t, r) :
                 /\ Linked(r, call[t].gen) /\ IsNewest(rv, VisibleVersions(t, r))
                 /\ rv.end = None
                 /\ Mark(t, r, call[t].gen, rv)
                 /\ UNCHANGED call
            \/ /\ ~Linked(r, call[t].gen)
               /\ pc' = [pc EXCEPT ![t] = "mark"]
               /\ UNCHANGED <<rows, superseded, call>>
<1>1. CASE Linked(r, call[t].gen)
  BY <1>1, ZenonT(30) DEF Delete
<1>2. CASE ~Linked(r, call[t].gen)
  BY <1>2, ZenonT(30) DEF Delete, Mark
<1> QED
  BY <1>1, <1>2

-----------------------------------------------------------------------------
(* Types                                                                   *)

LEMMA TypeInit == Init => TInv
<1> SUFFICES ASSUME Init PROVE TInv
  OBVIOUS
<1> USE RowIDAssumption, PreloadAssumption DEF Init
<1>1. rows \in [RowID -> SUBSET RowVersion]
  BY DEF RowVersion, BeginStamp, EndStamp, Timestamp, None
<1>2. log \subseteq LoggedVersion
  BY DEF LoggedVersion, BeginStamp, EndStamp, Timestamp, None
<1>3. txs \in [TxID -> Transaction]
  BY DEF NoTransaction, Transaction, TransactionState
<1>4. call \in [TxID -> WriteCall]
  BY DEF WriteCall, NoCall, NoVersion, EndStamp
<1>5. entry \in [RowID -> Entry] /\ gc \in Collector
  BY DEF Entry, Collector, NoCollector
<1> QED
  BY <1>1, <1>2, <1>3, <1>4, <1>5 DEF TInv, TypeOK, CallOK, Control

\* Assigning one field of a record of the store.
LEMMA TransactionExcept ==
  ASSUME NEW x \in Transaction
  PROVE  /\ \A s \in TransactionState : [x EXCEPT !.state = s] \in Transaction
         /\ \A n \in Nat : [x EXCEPT !.begin_ts = n] \in Transaction
         /\ \A n \in Nat : [x EXCEPT !.end_ts = n] \in Transaction
         /\ \A r \in RowID : [x EXCEPT !.write_set = x.write_set \cup {r}] \in Transaction
         /\ \A r \in RowID : [x EXCEPT !.read_set = x.read_set \cup {r}] \in Transaction
BY DEF Transaction

LEMMA EntryExcept ==
  ASSUME NEW e \in Entry
  PROVE  [e EXCEPT !.live = FALSE] \in Entry
BY ZenonT(30) DEF Entry

LEMMA WriteCallExcept ==
  ASSUME NEW c \in WriteCall
  PROVE  \A r \in Nat, g \in Nat : /\ [c EXCEPT !.row = r, !.gen = g] \in WriteCall
                                   /\ [c EXCEPT !.row = r, !.gen = g].row = r
BY ZenonT(30) DEF WriteCall

LEMMA WriteCallRv ==
  ASSUME NEW c \in WriteCall, NEW v \in RowVersion \cup {NoVersion}
  PROVE  /\ [c EXCEPT !.rv = v] \in WriteCall
         /\ [c EXCEPT !.rv = v].row = c.row
         /\ [c EXCEPT !.rv = v].gen = c.gen
         /\ [c EXCEPT !.rv = v].rv = v
<1>1. v \in [rank : Nat, begin : EndStamp, end : EndStamp]
  BY DEF RowVersion, NoVersion, EndStamp
<1> QED
  BY <1>1 DEF WriteCall

LEMMA WriteCallGen ==
  ASSUME NEW c \in WriteCall, NEW g \in Nat
  PROVE  [c EXCEPT !.gen = g] \in WriteCall /\ [c EXCEPT !.gen = g].row = c.row
BY DEF WriteCall

LEMMA CollectorExcept ==
  ASSUME NEW c \in Collector
  PROVE  /\ [c EXCEPT !.phase = "remove"] \in Collector
         /\ \A r \in RowID : /\ [c EXCEPT !.phase = "scan", !.empty = @ \cup {r}] \in Collector
                            /\ [c EXCEPT !.phase = "scan", !.empty = @] \in Collector
BY ZenonT(30) DEF Collector

LEMMA CollectorNext ==
  ASSUME NEW c \in Collector, NEW r \in RowID, NEW g \in Nat, NEW later \in SUBSET RowID
  PROVE  [c EXCEPT !.phase = "row", !.row = r, !.gen = g, !.scan = later] \in Collector
<1>1. r \in Nat
  BY RowIDAssumption
<1> QED
  BY <1>1, Zenon DEF Collector

\* What the assignments to a transaction, and to a call, keep.
LEMMA SetStateType ==
  ASSUME TypeOK, NEW t \in TxID, NEW s \in TransactionState, SetState(t, s)
  PROVE  txs' \in [TxID -> Transaction]
<1>1. [txs[t] EXCEPT !.state = s] \in Transaction
  BY TransactionExcept DEF TypeOK
<1> QED
  BY <1>1 DEF TypeOK, SetState

LEMMA WriteSetType ==
  ASSUME TypeOK, NEW t \in TxID, NEW r \in RowID,
         txs' = [txs EXCEPT ![t].write_set = @ \cup {r}]
  PROVE  txs' \in [TxID -> Transaction]
<1>1. [txs[t] EXCEPT !.write_set = @ \cup {r}] \in Transaction
  BY TransactionExcept DEF TypeOK
<1> QED
  BY <1>1 DEF TypeOK

LEMMA NoTransactionType == NoTransaction \in Transaction
BY DEF NoTransaction, Transaction, TransactionState

LEMMA EndCallType ==
  ASSUME TypeOK, NEW t \in TxID, EndCall(t)
  PROVE  call' \in [TxID -> WriteCall] /\ \A u \in TxID \ {t} : call'[u] = call[u]
<1>1. NoCall(call[t].n) \in WriteCall
  BY DEF TypeOK, WriteCall, NoCall, NoVersion, EndStamp
<1> QED
  BY <1>1 DEF TypeOK, EndCall

LEMMA StartCallType ==
  ASSUME TypeOK, NEW t \in TxID, NEW k \in Calls, NEW r \in RowID,
         NEW rv \in RowVersion \cup {NoVersion}, StartCall(t, k, r, rv)
  PROVE  /\ call' \in [TxID -> WriteCall]
         /\ call'[t].row = r /\ call'[t].rv = rv
         /\ \A u \in TxID \ {t} : call'[u] = call[u]
<1>1. rv \in [rank : Nat, begin : EndStamp, end : EndStamp]
  BY DEF RowVersion, NoVersion, EndStamp
<1>2. entry[r].gen \in Nat /\ call[t].n + 1 \in Nat /\ r \in Nat
  BY RowIDAssumption DEF TypeOK, Entry, WriteCall
<1>3. [kind |-> k, row |-> r, gen |-> entry[r].gen, rv |-> rv, n |-> call[t].n + 1] \in WriteCall
  BY <1>1, <1>2 DEF WriteCall
<1> QED
  BY <1>3 DEF TypeOK, StartCall

\* Rewriting a version, or adding one, gives versions.
LEMMA RewrittenType ==
  ASSUME TypeOK, NEW t \in TxID, NEW v \in RowVersion
  PROVE  rewritten_for_commit(v, t) \in RowVersion
BY ZenonT(30) DEF TypeOK, RowVersion, BeginStamp, EndStamp, Transaction, rewritten_for_commit,
   Timestamp, None

LEMMA InsertType ==
  ASSUME TypeOK, NEW t \in TxID, NEW r \in RowID, insert_version_raw(t, r)
  PROVE  rows' \in [RowID -> SUBSET RowVersion]
<1> DEFINE older == {v \in rows[r] :
                      get_begin_timestamp(v.begin) < get_begin_timestamp(Id(t))}
           shift(v, p) == IF v.rank >= p THEN [v EXCEPT !.rank = @ + 1] ELSE v
<1>1. PICK pos \in {1} \cup {v.rank + 1 : v \in older} :
        rows' = [rows EXCEPT ![r] = {shift(v, pos) : v \in @}
                   \cup {[rank |-> pos, begin |-> Id(t), end |-> None]}]
  BY ZenonT(30) DEF insert_version_raw
<1>2. pos \in Nat
  BY DEF TypeOK, RowVersion
<1>3. ASSUME NEW v \in rows[r] PROVE shift(v, pos) \in RowVersion
  <2>1. v \in RowVersion
    BY DEF TypeOK
  <2>2. [v EXCEPT !.rank = @ + 1] \in RowVersion
    BY <2>1 DEF RowVersion
  <2> QED
    BY <2>1, <2>2
<1>4. [rank |-> pos, begin |-> Id(t), end |-> None] \in RowVersion
  BY <1>2 DEF RowVersion, BeginStamp, EndStamp, Id
<1> HIDE DEF shift, older
<1> QED
  BY <1>1, <1>3, <1>4 DEF TypeOK

LEMMA CommitTsType ==
  ASSUME TypeOK, NEW v \in RowVersion
  PROVE  CommitTsOf(v) \in Nat
BY DEF TypeOK, RowVersion, BeginStamp, Transaction, CommitTsOf

LEMMA MarkType ==
  ASSUME TypeOK, NEW t \in TxID, NEW r \in RowID, NEW g, NEW rv \in RowVersion,
         Mark(t, r, g, rv)
  PROVE  /\ rows' \in [RowID -> SUBSET RowVersion]
         /\ superseded' \in [TxID -> SUBSET (RowID \X Nat)]
         /\ pc' = [pc EXCEPT ![t] = "mark"]
<1>1. [rv EXCEPT !.end = Id(t)] \in RowVersion
  BY DEF RowVersion, BeginStamp, EndStamp, Id
<1>2. CommitTsOf(rv) \in Nat
  BY CommitTsType
<1> QED
  BY <1>1, <1>2 DEF TypeOK, Mark

LEMMA TypeNext == TInv /\ [Next]_vars => TInv'
<1> SUFFICES ASSUME TypeOK, CallOK, [Next]_vars PROVE TInv'
  BY DEF TInv
<1> USE DEF TInv
<1>1. ASSUME NEW t \in TxID, DrawBeginTs(t) PROVE TInv'
  <2>1. [txs[t] EXCEPT !.begin_ts = clock] \in Transaction
    BY TransactionExcept DEF TypeOK
  <2>2. txs' \in [TxID -> Transaction]
    BY <1>1, <2>1 DEF DrawBeginTs, TypeOK
  <2> QED
    BY <1>1, <2>2 DEF DrawBeginTs, TypeOK, CallOK, Goto, Control
<1>2. ASSUME NEW t \in TxID, Track(t) PROVE TInv'
  <2>1. txs' \in [TxID -> Transaction]
    BY <1>2, SetStateType DEF Track, TransactionState
  <2> QED
    BY <1>2, <2>1, ZenonT(30) DEF Track, TypeOK, CallOK, Goto, Control
<1>3. ASSUME NEW t \in TxID, NEW r \in RowID, Starts(t, r) PROVE TInv'
  <2>1. call' \in [TxID -> WriteCall] /\ call'[t].row = r
        /\ \A u \in TxID \ {t} : call'[u] = call[u]
    BY <1>3, StartsEffect, StartCallType
  <2>2. /\ \/ pc' = [pc EXCEPT ![t] = "insert"]
           \/ pc' = [pc EXCEPT ![t] = "scan"]
        /\ UNCHANGED <<clock, txs, entry, rows, log, todo, gc, superseded, observed>>
    BY <1>3, StartsEffect, Zenon
  <2> QED
    BY <2>1, <2>2, SMTT(30) DEF TypeOK, CallOK, Control
<1>4. ASSUME NEW t \in TxID, NEW r \in RowID, Delete(t, r) PROVE TInv'
  <2> DEFINE seen == VisibleVersions(t, r)
  <2>0. seen \subseteq RowVersion
    BY DEF VisibleVersions, TypeOK
  <2>u. UNCHANGED <<clock, txs, entry, log, todo, gc, observed>> /\ r = call[t].row
    BY <1>4, DeleteEffect, Zenon
  <2>1. ASSUME NEW p \in {"idle", "abort"}, pc' = [pc EXCEPT ![t] = p], EndCall(t),
               UNCHANGED <<rows, superseded>>
        PROVE  TInv'
    <3>1. call' \in [TxID -> WriteCall] /\ \A u \in TxID \ {t} : call'[u] = call[u]
      BY <2>1, EndCallType
    <3> QED
      BY <2>u, <2>1, <3>1, ZenonT(30) DEF TypeOK, CallOK, Control
  <2>2. ASSUME NEW p \in {"insert", "mark"}, pc' = [pc EXCEPT ![t] = p],
               UNCHANGED <<rows, superseded, call>>
        PROVE  TInv'
    BY <2>u, <2>2, SMTT(30) DEF TypeOK, CallOK, Control
  <2>3. ASSUME NEW rv \in seen, pc' = [pc EXCEPT ![t] = "check"],
               call' = [call EXCEPT ![t].rv = rv], UNCHANGED <<rows, superseded>>
        PROVE  TInv'
    <3> DEFINE c == [call[t] EXCEPT !.rv = rv]
    <3>1. c \in WriteCall /\ c.row = r /\ c.rv = rv
      BY <2>0, <2>u, WriteCallRv, Zenon DEF TypeOK
    <3>2. call' = [call EXCEPT ![t] = c]
      BY <2>3
    <3> HIDE DEF c
    <3> QED
      BY <2>u, <2>0, <2>3, <3>1, <3>2, SMTT(30) DEF TypeOK, CallOK, Control
  <2>4. ASSUME NEW rv \in seen, Mark(t, r, call[t].gen, rv), UNCHANGED call
        PROVE  TInv'
    <3>2. /\ rows' \in [RowID -> SUBSET RowVersion]
          /\ superseded' \in [TxID -> SUBSET (RowID \X Nat)]
          /\ pc' = [pc EXCEPT ![t] = "mark"]
      BY <2>0, <2>4, MarkType
    <3> QED
      BY <2>u, <2>4, <3>2 DEF TypeOK, CallOK, Control
  <2>5. CASE NotFound(t)
    BY <2>1, <2>2, <2>5, ZenonT(30) DEF NotFound
  <2>6. CASE Conflict(t)
    BY <2>1, <2>6, ZenonT(30) DEF Conflict
  <2> HIDE DEF seen, TInv
  <2> QED
    BY <1>4, <2>2, <2>3, <2>4, <2>5, <2>6, DeleteEffect, ZenonT(30) DEF seen
<1>5. ASSUME NEW t \in TxID, CheckConflict(t) PROVE TInv'
  <2> DEFINE r == call[t].row
             rv == call[t].rv
  <2>0. r \in RowID /\ rv \in RowVersion
    BY <1>5 DEF CheckConflict, CallOK
  <2>u. UNCHANGED <<clock, txs, entry, log, todo, gc, observed>>
    BY <1>5 DEF CheckConflict
  <2>1. CASE pc' = [pc EXCEPT ![t] = "abort"] /\ EndCall(t) /\ UNCHANGED <<rows, superseded>>
    <3>1. call' \in [TxID -> WriteCall] /\ \A u \in TxID \ {t} : call'[u] = call[u]
      BY <2>1, EndCallType
    <3> QED
      BY <2>u, <2>1, <3>1, ZenonT(30) DEF TypeOK, CallOK, Control
  <2>2. CASE Mark(t, r, call[t].gen, rv) /\ call' = [call EXCEPT ![t].rv = NoVersion]
    <3>1. [call[t] EXCEPT !.rv = NoVersion] \in WriteCall
      BY WriteCallRv, ZenonT(30) DEF TypeOK
    <3>2. /\ call' \in [TxID -> WriteCall]
          /\ call'[t].row = r
          /\ \A u \in TxID \ {t} : call'[u] = call[u]
      BY <2>2, <3>1 DEF TypeOK, WriteCall
    <3>3. /\ rows' \in [RowID -> SUBSET RowVersion]
          /\ superseded' \in [TxID -> SUBSET (RowID \X Nat)]
          /\ pc' = [pc EXCEPT ![t] = "mark"]
      BY <2>0, <2>2, MarkType
    <3> QED
      BY <2>u, <2>0, <3>2, <3>3 DEF TypeOK, CallOK, Control
  <2> HIDE DEF TInv
  <2> QED
    BY <1>5, <2>1, <2>2 DEF CheckConflict, Conflict
<1>6. ASSUME NEW t \in TxID, MarkWriteSet(t) PROVE TInv'
  <2>1. call[t].row \in RowID
    BY <1>6 DEF MarkWriteSet, CallOK
  <2>2. txs' \in [TxID -> Transaction]
    BY <1>6, <2>1, WriteSetType, ZenonT(30) DEF MarkWriteSet
  <2>3. CASE pc' = [pc EXCEPT ![t] = "idle"] /\ EndCall(t)
    <3>1. call' \in [TxID -> WriteCall] /\ \A u \in TxID \ {t} : call'[u] = call[u]
      BY <2>3, EndCallType
    <3> QED
      BY <1>6, <2>2, <2>3, <3>1, ZenonT(30) DEF MarkWriteSet, TypeOK, CallOK, Control
  <2>4. CASE pc' = [pc EXCEPT ![t] = "insert"] /\ UNCHANGED call
    BY <1>6, <2>1, <2>2, <2>4 DEF MarkWriteSet, TypeOK, CallOK, Control
  <2> QED
    BY <1>6, <2>3, <2>4 DEF MarkWriteSet
<1>7. ASSUME NEW t \in TxID, insert(t) PROVE TInv'
  <2>1. call[t].row \in RowID
    BY <1>7 DEF insert, Goto, CallOK
  <2>2. txs' \in [TxID -> Transaction]
    BY <1>7, <2>1, WriteSetType, ZenonT(30) DEF insert
  <2> QED
    BY <1>7, <2>1, <2>2 DEF insert, TypeOK, CallOK, Goto, Control
<1>8. ASSUME NEW t \in TxID, GetOrInsertEntry(t) PROVE TInv'
  <2> DEFINE r == call[t].row
             e == IF entry[r].live THEN entry[r] ELSE [live |-> TRUE, gen |-> entry[r].gen + 1]
  <2>1. r \in RowID
    BY <1>8 DEF GetOrInsertEntry, Goto, CallOK
  <2>2. e \in Entry /\ e.gen \in Nat
    BY <2>1 DEF TypeOK, Entry
  <2>3. [call[t] EXCEPT !.gen = e.gen] \in WriteCall /\ [call[t] EXCEPT !.gen = e.gen].row = r
    <3> HIDE DEF e
    <3> QED
      BY <2>2, WriteCallGen DEF TypeOK
  <2>4. entry' = [entry EXCEPT ![r] = e] /\ call' = [call EXCEPT ![t].gen = e.gen]
    BY <1>8 DEF GetOrInsertEntry
  <2> HIDE DEF e
  <2>5. entry' \in [RowID -> Entry] /\ call' \in [TxID -> WriteCall] /\ call'[t].row = r
        /\ \A u \in TxID \ {t} : call'[u] = call[u]
    BY <2>1, <2>2, <2>3, <2>4 DEF TypeOK
  <2> QED
    BY <1>8, <2>1, <2>5, SMTT(40) DEF GetOrInsertEntry, TypeOK, CallOK, Goto, Control
<1>9. ASSUME NEW t \in TxID, PushVersion(t) PROVE TInv'
  <2>1. call[t].row \in RowID
    BY <1>9 DEF PushVersion, Goto, CallOK
  <2>2. rows' \in [RowID -> SUBSET RowVersion]
    BY <1>9, <2>1, InsertType, SMTT(40) DEF PushVersion, TypeOK
  <2>3. call' \in [TxID -> WriteCall] /\ \A u \in TxID \ {t} : call'[u] = call[u]
    BY <1>9, EndCallType, SMTT(40) DEF PushVersion
  <2> QED
    BY <1>9, <2>2, <2>3, ZenonT(30) DEF PushVersion, TypeOK, CallOK, Goto, Control
<1>10. ASSUME NEW t \in TxID, NEW r \in RowID, read(t, r) PROVE TInv'
  <2>1. Reads(t, r) \subseteq BeginStamp
    <3>1. \A v \in rows[r] : v \in RowVersion /\ CommitTsOf(v) \in Nat
      BY CommitTsType DEF TypeOK
    <3>2. \A v \in rows[r] : v.begin \in BeginStamp /\ Timestamp(CommitTsOf(v)) \in BeginStamp
      BY <3>1 DEF RowVersion, BeginStamp, Timestamp
    <3> QED
      BY <3>2, ZenonT(30) DEF Reads, VisibleVersions
  <2>2. observed' \in [TxID -> SUBSET (RowID \X BeginStamp)]
    BY <1>10, <2>1 DEF read, TypeOK
  <2>3. [txs[t] EXCEPT !.read_set = @ \cup {r}] \in Transaction
    BY TransactionExcept DEF TypeOK
  <2>4. txs' \in [TxID -> Transaction]
    BY <1>10, <2>3 DEF read, TypeOK
  <2> QED
    BY <1>10, <2>2, <2>4 DEF read, TypeOK, CallOK
<1>11. ASSUME NEW t \in TxID, DrawEndTs(t) PROVE TInv'
  <2>1. [txs[t] EXCEPT !.end_ts = clock] \in Transaction
    BY TransactionExcept DEF TypeOK
  <2>2. txs' \in [TxID -> Transaction]
    BY <1>11, <2>1 DEF DrawEndTs, TypeOK
  <2> QED
    BY <1>11, <2>2 DEF DrawEndTs, TypeOK, CallOK, Goto, Control
<1>12. ASSUME NEW t \in TxID, Prepare(t) PROVE TInv'
  <2>1. txs' \in [TxID -> Transaction]
    BY <1>12, SetStateType DEF Prepare, TransactionState
  <2> QED
    BY <1>12, <2>1, ZenonT(30) DEF Prepare, TypeOK, CallOK, Goto, Control
<1>13. ASSUME NEW t \in TxID, Log(t) PROVE TInv'
  <2>1. ASSUME NEW r \in RowID, NEW v \in rows[r]
        PROVE  LogEntry(r, rewritten_for_commit(v, t)) \in LoggedVersion
    <3>1. rewritten_for_commit(v, t) \in RowVersion
      BY RewrittenType DEF TypeOK
    <3> QED
      BY <3>1 DEF LogEntry, RowVersion, LoggedVersion
  <2>2. txs[t].write_set \subseteq RowID
    BY DEF TypeOK, Transaction
  <2>3. LogRecord(t) \subseteq LoggedVersion
    BY <2>1, <2>2 DEF LogRecord
  <2> QED
    BY <1>13, <2>3 DEF Log, TypeOK, CallOK, Goto, Control
<1>14. ASSUME NEW t \in TxID, LogFails(t) PROVE TInv'
  <2>1. txs' \in [TxID -> Transaction]
    BY <1>14, SetStateType DEF LogFails, TransactionState
  <2> QED
    BY <1>14, <2>1, ZenonT(30) DEF LogFails, TypeOK, CallOK, Goto, Control
<1>15. ASSUME NEW t \in TxID, Publish(t) PROVE TInv'
  <2>1. txs' \in [TxID -> Transaction]
    BY <1>15, SetStateType DEF Publish, TransactionState
  <2>2. txs[t].write_set \subseteq RowID
    BY DEF TypeOK, Transaction
  <2> QED
    BY <1>15, <2>1, <2>2, ZenonT(30) DEF Publish, TypeOK, CallOK, Goto, Control
<1>16. ASSUME NEW t \in TxID, NEW r \in RowID, Rewrite(t, r) PROVE TInv'
  <2>1. rows' \in [RowID -> SUBSET RowVersion]
    BY <1>16, RewrittenType DEF Rewrite, TypeOK
  <2> QED
    BY <1>16, <2>1 DEF Rewrite, TypeOK, CallOK
<1>17. ASSUME NEW t \in TxID, CommitDone(t) PROVE TInv'
  BY <1>17, NoTransactionType DEF CommitDone, TypeOK, CallOK, Goto, Control
<1>18. ASSUME NEW t \in TxID, Abort(t) PROVE TInv'
  <2>1. txs' \in [TxID -> Transaction]
    BY <1>18, SetStateType DEF Abort, TransactionState
  <2>2. txs[t].write_set \subseteq RowID
    BY DEF TypeOK, Transaction
  <2> QED
    BY <1>18, <2>1, <2>2, ZenonT(30) DEF Abort, TypeOK, CallOK, Control
<1>19. ASSUME NEW t \in TxID, UndoRow(t) PROVE TInv'
  <2> DEFINE r == call[t].row
  <2>0. r \in RowID
    BY <1>19 DEF UndoRow, Goto, CallOK
  <2>1. [entry[r] EXCEPT !.live = FALSE] \in Entry
    BY <2>0, EntryExcept DEF TypeOK
  <2>2. call' \in [TxID -> WriteCall]
    BY <1>19, EndCallType DEF UndoRow
  <2>3. entry' \in [RowID -> Entry] /\ rows' \in [RowID -> SUBSET RowVersion]
    <3>1. CASE remove_row(r)
      BY <2>1, <3>1, ZenonT(30) DEF remove_row, TypeOK
    <3>2. CASE UNCHANGED entry /\ rows' = [rows EXCEPT ![r] = {v \in rows[r] : v.begin # Id(t)}]
      BY <3>2, ZenonT(30) DEF TypeOK
    <3>3. CASE UNCHANGED <<entry, rows>>
      BY <3>3 DEF TypeOK
    <3> QED
      BY <1>19, <3>1, <3>2, <3>3 DEF UndoRow
  <2>4. \A u \in TxID \ {t} : call'[u] = call[u]
    BY <1>19, SMTT(40) DEF UndoRow, EndCall, TypeOK
  <2> QED
    BY <1>19, <2>2, <2>3, <2>4, ZenonT(30) DEF UndoRow, Goto, TypeOK, CallOK, Control
<1>20. ASSUME NEW t \in TxID, Terminate(t) PROVE TInv'
  <2>1. txs' \in [TxID -> Transaction]
    BY <1>20, SetStateType DEF Terminate, TransactionState
  <2> QED
    BY <1>20, <2>1, ZenonT(30) DEF Terminate, TypeOK, CallOK, Goto, Control
<1>21. ASSUME NEW t \in TxID, RemoveTx(t) PROVE TInv'
  BY <1>21, NoTransactionType DEF RemoveTx, TypeOK, CallOK, Goto, Control
<1>22. CASE GcStart \/ GcScanned
  <2>1. gc' \in Collector
    <3>1. CASE GcStart
      <4>1. NoCollector \in Collector
        BY DEF Collector, NoCollector
      <4>2. [NoCollector EXCEPT !.phase = "scan", !.scan = RowID] \in Collector
        BY <4>1, Zenon DEF Collector
      <4> QED
        BY <3>1, <4>2, Zenon DEF GcStart
    <3>2. CASE GcScanned
      BY <3>2, CollectorExcept, Zenon DEF GcScanned, TypeOK
    <3> QED
      BY <1>22, <3>1, <3>2
  <2> QED
    BY <1>22, <2>1 DEF GcStart, GcScanned, TypeOK, CallOK
<1>30. ASSUME NEW r \in RowID, GcNext(r) PROVE TInv'
  <2>1. entry[r].gen \in Nat
    BY DEF TypeOK, Entry
  <2>2. gc \in Collector /\ gc.scan \subseteq RowID
    BY DEF TypeOK, Collector
  <2>3. {s \in gc.scan : s > r} \in SUBSET RowID
    BY <2>2
  <2>4. gc' \in Collector
    BY <1>30, <2>1, <2>2, <2>3, CollectorNext, Zenon DEF GcNext
  <2> QED
    BY <1>30, <2>4 DEF GcNext, TypeOK, CallOK
<1>23. ASSUME NEW r \in RowID, GcScan(r) PROVE TInv'
  <2>0. PICK found \in BOOLEAN :
          gc' = [gc EXCEPT !.phase = "scan", !.empty = IF found THEN @ \cup {r} ELSE @]
    BY <1>23, Zenon DEF GcScan
  <2>1. gc' \in Collector
    BY <2>0, CollectorExcept, Zenon DEF TypeOK
  <2> QED
    BY <1>23, <2>1 DEF GcScan, TypeOK, CallOK
<1>24. ASSUME NEW r \in RowID, GcRemove(r) PROVE TInv'
  <2>1. [entry[r] EXCEPT !.live = FALSE] \in Entry
    BY EntryExcept DEF TypeOK
  <2>2. gc' \in Collector
    BY <1>24 DEF GcRemove, TypeOK, Collector
  <2> QED
    BY <1>24, <2>1, <2>2 DEF GcRemove, remove_row, TypeOK, CallOK
<1>25. CASE GcDone
  BY <1>25 DEF GcDone, TypeOK, CallOK, Collector, NoCollector
<1>29. ASSUME NEW t \in TxID, NEW r \in RowID, UndoGet(t, r) PROVE TInv'
  <2>1. r \in Nat /\ entry[r].gen \in Nat
    BY RowIDAssumption DEF TypeOK, Entry
  <2>2. /\ [call[t] EXCEPT !.row = r, !.gen = entry[r].gen] \in WriteCall
        /\ [call[t] EXCEPT !.row = r, !.gen = entry[r].gen].row = r
    BY <2>1, WriteCallExcept, ZenonT(30) DEF TypeOK
  <2>3. /\ call' \in [TxID -> WriteCall]
        /\ \A u \in TxID \ {t} : call'[u] = call[u] /\ pc'[u] = pc[u]
        /\ pc'[t] = "undo" \/ (pc'[t] = "undorow" /\ call'[t].row = r)
    <3> DEFINE c == [call[t] EXCEPT !.row = r, !.gen = entry[r].gen]
    <3>1. \/ call' = call /\ pc' = pc /\ pc[t] = "undo"
          \/ call' = [call EXCEPT ![t] = c] /\ pc' = [pc EXCEPT ![t] = "undorow"]
      BY <1>29, Zenon DEF UndoGet
    <3>2. c \in WriteCall /\ c.row = r
      BY <2>2
    <3> HIDE DEF c
    <3> QED
      BY <3>1, <3>2 DEF TypeOK
  <2>4. pc' \in [TxID -> Control] /\ todo' \in [TxID -> SUBSET RowID]
    BY <1>29 DEF UndoGet, TypeOK, Control
  <2>5. CallOK'
    BY <2>3 DEF CallOK
  <2> QED
    BY <1>29, <2>3, <2>4, <2>5 DEF UndoGet, TypeOK
<1>26. CASE UNCHANGED vars
  BY <1>26 DEF vars, TypeOK, CallOK
<1> HIDE DEF TInv
<1>27. ASSUME NEW t \in TxID, TxStep(t) PROVE TInv'
  BY <1>29, <1>1, <1>2, <1>3, <1>4, <1>5, <1>6, <1>7, <1>8, <1>9, <1>10, <1>11, <1>12, <1>13, <1>14,
     <1>15, <1>16, <1>17, <1>18, <1>19, <1>20, <1>21, <1>27, ZenonT(30) DEF TxStep, Starts
<1>28. CASE GcStep
  BY <1>22, <1>23, <1>24, <1>25, <1>28, <1>30, ZenonT(30) DEF GcStep
<1> QED
  BY <1>26, <1>27, <1>28, ZenonT(30) DEF Next

\* Every variable keeps its type, whatever the transactions, rows and bounds are.
THEOREM TypeCorrect == Spec => []TypeOK
<1>1. TInv => TypeOK
  BY DEF TInv
<1> QED
  BY TypeInit, TypeNext, <1>1, PTL DEF Spec

-----------------------------------------------------------------------------
(* What the steps that write rows do to the versions                       *)

\* A mark names one transaction, and is neither a timestamp nor absent.
LEMMA IdInjective == \A t, u \in TxID : Id(t) = Id(u) => t = u
BY DEF Id

LEMMA IdNotStamp == \A t \in TxID, n \in Nat : Id(t) # Timestamp(n)
<1>1. \A t \in TxID, n \in Nat : Id(t).kind # Timestamp(n).kind
  BY DEF Id, Timestamp
<1> QED
  BY <1>1

LEMMA NoneNotStamp ==
  /\ \A t \in TxID : Id(t) # None
  /\ \A n \in Nat : Timestamp(n) # None
<1>1. \A t \in TxID : Id(t).kind # None.kind
  BY DEF Id, None
<1>2. \A n \in Nat : Timestamp(n).kind # None.kind
  BY DEF Timestamp, None
<1> QED
  BY <1>1, <1>2

LEMMA MarkEffect ==
  ASSUME TypeOK, NEW t \in TxID, NEW r \in RowID, NEW g, NEW rv \in RowVersion,
         Mark(t, r, g, rv)
  PROVE  /\ pc' = [pc EXCEPT ![t] = "mark"]
         /\ \E m \in RowVersion :
              /\ m.begin = rv.begin /\ m.rank = rv.rank /\ m.end = Id(t)
              /\ \/ /\ ~(entry[r].live /\ entry[r].gen = g)
                    /\ rows' = rows /\ superseded' = superseded
                 \/ /\ entry[r].live /\ entry[r].gen = g
                    /\ rows' = [rows EXCEPT ![r] = (@ \ {rv}) \cup {m}]
<1> DEFINE m == [rv EXCEPT !.end = Id(t)]
<1>1. m \in RowVersion /\ m.begin = rv.begin /\ m.rank = rv.rank /\ m.end = Id(t)
  BY DEF RowVersion, EndStamp, BeginStamp, Id
<1>2. pc' = [pc EXCEPT ![t] = "mark"]
  BY DEF Mark
<1>3. \/ /\ ~(entry[r].live /\ entry[r].gen = g)
         /\ rows' = rows /\ superseded' = superseded
      \/ /\ entry[r].live /\ entry[r].gen = g
         /\ rows' = [rows EXCEPT ![r] = (@ \ {rv}) \cup {m}]
  BY DEF Mark
<1> HIDE DEF m
<1> QED
  BY <1>1, <1>2, <1>3

LEMMA MarkedVersions ==
  ASSUME TypeOK, NEW t \in TxID, NEW r \in RowID, NEW g, NEW rv \in RowVersion,
         Mark(t, r, g, rv)
  PROVE  /\ pc' = [pc EXCEPT ![t] = "mark"]
         /\ \A s \in RowID : \A v \in rows'[s] :
              \/ v \in rows[s]
              \/ /\ s = r /\ entry[r].live /\ entry[r].gen = g
                 /\ v.begin = rv.begin /\ v.rank = rv.rank /\ v.end = Id(t)
<1>1. PICK m \in RowVersion :
              /\ m.begin = rv.begin /\ m.rank = rv.rank /\ m.end = Id(t)
              /\ \/ /\ ~(entry[r].live /\ entry[r].gen = g)
                    /\ rows' = rows /\ superseded' = superseded
                 \/ /\ entry[r].live /\ entry[r].gen = g
                    /\ rows' = [rows EXCEPT ![r] = (@ \ {rv}) \cup {m}]
  BY MarkEffect
<1> QED
  BY <1>1, MarkEffect DEF TypeOK

LEMMA CheckEffect ==
  ASSUME TypeOK, CallOK, NEW t \in TxID, CheckConflict(t)
  PROVE  /\ pc[t] = "check"
         /\ call[t].row \in RowID /\ call[t].rv \in RowVersion
         /\ UNCHANGED <<clock, txs, entry, log, todo, gc, observed>>
         /\ \/ pc' = [pc EXCEPT ![t] = "abort"] /\ UNCHANGED <<rows, superseded>> /\ EndCall(t)
            \/ /\ ~is_write_write_conflict(t, call[t].rv)
               /\ Mark(t, call[t].row, call[t].gen, call[t].rv)
               /\ call' = [call EXCEPT ![t].rv = NoVersion]
               /\ call'[t].row = call[t].row
<1>1. call' = [call EXCEPT ![t].rv = NoVersion] => call'[t].row = call[t].row
  BY DEF TypeOK, WriteCall
<1> QED
  BY <1>1 DEF CheckConflict, Conflict, CallOK

LEMMA PushEffect ==
  ASSUME TypeOK, NEW t \in TxID, NEW r \in RowID, insert_version_raw(t, r)
  PROVE  \E pos \in Nat :
           /\ \A v \in rows[r] : get_begin_timestamp(v.begin) < get_begin_timestamp(Id(t))
                => v.rank < pos
           /\ \/ pos = 1
              \/ \E v \in rows[r] :
                   /\ get_begin_timestamp(v.begin) < get_begin_timestamp(Id(t))
                   /\ pos = v.rank + 1
           /\ \A s \in RowID : \A v \in rows'[s] :
                \/ s = r /\ v.rank = pos /\ v.begin = Id(t) /\ v.end = None
                \/ s # r /\ v \in rows[s]
                \/ /\ s = r
                   /\ \E w \in rows[r] :
                        /\ v.begin = w.begin /\ v.end = w.end
                        /\ v.rank = IF w.rank >= pos THEN w.rank + 1 ELSE w.rank
<1> DEFINE older == {v \in rows[r] :
                      get_begin_timestamp(v.begin) < get_begin_timestamp(Id(t))}
           shift(v, p) == IF v.rank >= p THEN [v EXCEPT !.rank = @ + 1] ELSE v
           new(p) == [rank |-> p, begin |-> Id(t), end |-> None]
<1>1. PICK pos \in {1} \cup {v.rank + 1 : v \in older} :
        /\ \A v \in older : v.rank < pos
        /\ rows' = [rows EXCEPT ![r] = {shift(v, pos) : v \in @} \cup {new(pos)}]
  BY ZenonT(30) DEF insert_version_raw
<1>2. pos \in Nat
  BY DEF TypeOK, RowVersion
<1>3. ASSUME NEW w \in rows[r]
      PROVE  /\ shift(w, pos).begin = w.begin /\ shift(w, pos).end = w.end
             /\ shift(w, pos).rank = IF w.rank >= pos THEN w.rank + 1 ELSE w.rank
  <2>1. w \in RowVersion
    BY DEF TypeOK
  <2>2. [w EXCEPT !.rank = @ + 1].begin = w.begin /\ [w EXCEPT !.rank = @ + 1].end = w.end
        /\ [w EXCEPT !.rank = @ + 1].rank = w.rank + 1
    BY <2>1 DEF RowVersion
  <2> QED
    BY <2>2
<1>4. new(pos).rank = pos /\ new(pos).begin = Id(t) /\ new(pos).end = None
  OBVIOUS
<1> HIDE DEF shift, new
<1>5. ASSUME NEW s \in RowID, NEW v \in rows'[s]
      PROVE  \/ s = r /\ v = new(pos)
             \/ s # r /\ v \in rows[s]
             \/ s = r /\ \E w \in rows[r] : v = shift(w, pos)
  BY <1>1 DEF TypeOK
<1> QED
  BY <1>1, <1>2, <1>3, <1>4, <1>5

LEMMA RewriteEffect ==
  ASSUME TypeOK, NEW t \in TxID, NEW r \in RowID, Rewrite(t, r)
  PROVE  \A s \in RowID : \A v \in rows'[s] :
           \/ s # r /\ v \in rows[s]
           \/ /\ s = r
              /\ \E w \in rows[r] :
                   /\ v.rank = w.rank
                   /\ v.begin = IF w.begin = Id(t) THEN Timestamp(txs[t].end_ts) ELSE w.begin
                   /\ v.end = IF w.end = Id(t) THEN Timestamp(txs[t].end_ts) ELSE w.end
<1>1. ASSUME NEW w \in rows[r]
      PROVE  /\ rewritten_for_commit(w, t).rank = w.rank
             /\ rewritten_for_commit(w, t).begin
                  = IF w.begin = Id(t) THEN Timestamp(txs[t].end_ts) ELSE w.begin
             /\ rewritten_for_commit(w, t).end
                  = IF w.end = Id(t) THEN Timestamp(txs[t].end_ts) ELSE w.end
  <2>1. w \in RowVersion
    BY DEF TypeOK
  <2> QED
    BY <2>1 DEF RowVersion, rewritten_for_commit
<1>2. rows' = [rows EXCEPT ![r] = {rewritten_for_commit(v, t) : v \in rows[r]}]
  BY DEF Rewrite
<1> QED
  BY <1>1, <1>2 DEF TypeOK
\* After a delete() every version is an old one or an old one with t's mark.
LEMMA DeletedVersions ==
  ASSUME TypeOK, NEW t \in TxID, NEW r \in RowID, Delete(t, r)
  PROVE  \A s \in RowID : \A v \in rows'[s] :
           \/ v \in rows[s]
           \/ /\ v.end = Id(t) /\ pc'[t] = "mark" /\ s = r /\ call'[t].row = r
              /\ \E w \in rows[s] : w.begin = v.begin /\ w.rank = v.rank /\ w.end = None
                                    /\ w \in VisibleVersions(t, r)
<1>1. CASE UNCHANGED rows
  BY <1>1
<1>2. ASSUME NEW rv \in VisibleVersions(t, r), rv.end = None, UNCHANGED call,
             Mark(t, r, call[t].gen, rv)
      PROVE  \A s \in RowID : \A v \in rows'[s] :
               \/ v \in rows[s]
               \/ /\ v.end = Id(t) /\ pc'[t] = "mark" /\ s = r /\ call'[t].row = r
                  /\ \E w \in rows[s] : w.begin = v.begin /\ w.rank = v.rank /\ w.end = None
                                        /\ w \in VisibleVersions(t, r)
  <2>1. rv \in rows[r] /\ rv \in RowVersion
    BY DEF VisibleVersions, TypeOK
  <2>2. call'[t].row = r
    BY <1>2, DeleteEffect, Zenon
  <2>3. pc'[t] = "mark"
    BY <1>2, <2>1, MarkedVersions DEF TypeOK
  <2>4. \A s \in RowID : \A v \in rows'[s] :
          \/ v \in rows[s]
          \/ s = r /\ v.begin = rv.begin /\ v.rank = rv.rank /\ v.end = Id(t)
    BY <1>2, <2>1, MarkedVersions
  <2> QED
    BY <1>2, <2>1, <2>2, <2>3, <2>4
<1> QED
  BY <1>1, <1>2, DeleteEffect, ZenonT(30) DEF NotFound, Conflict

\* So it is after the second look, at the version that was found at the first.
LEMMA CheckedVersions ==
  ASSUME TypeOK, CallOK, LockOK, NEW t \in TxID, CheckConflict(t)
  PROVE  \A s \in RowID : \A v \in rows'[s] :
           \/ v \in rows[s]
           \/ /\ v.end = Id(t) /\ pc'[t] = "mark" /\ s = call[t].row /\ call'[t].row = s
              /\ call[t].rv \in rows[s] /\ ~is_write_write_conflict(t, call[t].rv)
              /\ entry[s].live /\ entry[s].gen = call[t].gen
              /\ call[t].rv.begin = v.begin /\ call[t].rv.rank = v.rank
<1>1. CASE UNCHANGED rows
  BY <1>1
<1>2. CASE /\ ~is_write_write_conflict(t, call[t].rv)
           /\ call[t].row \in RowID /\ call[t].rv \in RowVersion
           /\ Mark(t, call[t].row, call[t].gen, call[t].rv)
           /\ call'[t].row = call[t].row
  <2> DEFINE r == call[t].row
             rv == call[t].rv
  <2>1. \A s \in RowID : \A v \in rows'[s] :
          \/ v \in rows[s]
          \/ /\ s = r /\ entry[r].live /\ entry[r].gen = call[t].gen
             /\ v.begin = rv.begin /\ v.rank = rv.rank /\ v.end = Id(t)
    BY <1>2, MarkedVersions
  <2>2. pc'[t] = "mark"
    BY <1>2, MarkedVersions DEF TypeOK
  <2>3. entry[r].live /\ entry[r].gen = call[t].gen => rv \in rows[r]
    BY CheckEffect DEF LockOK
  <2> QED
    BY <1>2, <2>1, <2>2, <2>3
<1> QED
  BY <1>1, <1>2, CheckEffect

\* insert_version adds one open version of t's.
LEMMA PushedVersions ==
  ASSUME TypeOK, CallOK, NEW t \in TxID, PushVersion(t)
  PROVE  \A s \in RowID : \A v \in rows'[s] :
           \/ s = call[t].row /\ v.begin = Id(t) /\ v.end = None
           \/ \E w \in rows[s] : w.begin = v.begin /\ w.end = v.end
<1>1. call[t].row \in RowID
  BY DEF PushVersion, Goto, CallOK
<1>2. CASE UNCHANGED rows
  BY <1>2
<1>3. CASE insert_version_raw(t, call[t].row)
  <2>1. PICK pos \in Nat :
           \A s \in RowID : \A v \in rows'[s] :
                \/ s = call[t].row /\ v.rank = pos /\ v.begin = Id(t) /\ v.end = None
                \/ s # call[t].row /\ v \in rows[s]
                \/ /\ s = call[t].row
                   /\ \E w \in rows[s] : v.begin = w.begin /\ v.end = w.end
    BY <1>1, <1>3, PushEffect
  <2> QED
    BY <2>1
<1> QED
  BY <1>2, <1>3 DEF PushVersion

\* A rewritten row has no mark of t left; the others' marks stay.
LEMMA RewrittenBegins ==
  ASSUME TypeOK, NEW t \in TxID, NEW r \in RowID, Rewrite(t, r),
         NEW s \in RowID, NEW v \in rows'[s], NEW u \in TxID, v.begin = Id(u)
  PROVE  ~(u = t /\ s = r) /\ \E w \in rows[s] : w.begin = Id(u)
<1>1. txs[t].end_ts \in Nat
  BY DEF TypeOK, Transaction
<1>2. Id(u) # Timestamp(txs[t].end_ts)
  BY <1>1, IdNotStamp
<1> QED
  BY <1>2, RewriteEffect

LEMMA RewrittenEnds ==
  ASSUME TypeOK, NEW t \in TxID, NEW r \in RowID, Rewrite(t, r),
         NEW s \in RowID, NEW v \in rows'[s], NEW u \in TxID, v.end = Id(u)
  PROVE  ~(u = t /\ s = r) /\ \E w \in rows[s] : w.end = Id(u)
<1>1. txs[t].end_ts \in Nat
  BY DEF TypeOK, Transaction
<1>2. Id(u) # Timestamp(txs[t].end_ts)
  BY <1>1, IdNotStamp
<1> QED
  BY <1>2, RewriteEffect

\* The types the proofs below use, in one place.
Types ==
  /\ txs \in [TxID -> Transaction] /\ entry \in [RowID -> Entry]
  /\ rows \in [RowID -> SUBSET RowVersion] /\ pc \in [TxID -> Control]
  /\ call \in [TxID -> WriteCall] /\ todo \in [TxID -> SUBSET RowID]

LEMMA TypesHold == TInv => Types
BY DEF TInv, TypeOK, Types

\* A call that is under way is about a row.
LEMMA CallRow ==
  ASSUME TInv, NEW t \in TxID,
         pc[t] \in {"scan", "insert", "entry", "push", "check", "mark", "undorow"}
  PROVE  call[t].row \in RowID
BY DEF TInv, CallOK

-----------------------------------------------------------------------------
(* What a reader sees                                                      *)

\* What t sees of another's write was committed by the time t began.
LEMMA SeenCommitted ==
  ASSUME TInv, NEW t \in TxID, NEW r \in RowID, NEW v \in rows[r],
         is_begin_visible(t, v), v.begin # Id(t)
  PROVE  /\ CommitTsOf(v) \in Nat /\ CommitTsOf(v) <= txs[t].begin_ts
         /\ \/ v.begin.kind = "ts" /\ v.begin = Timestamp(CommitTsOf(v))
            \/ \E u \in TxID : /\ v.begin = Id(u) /\ txs[u].state = "Committed"
                               /\ CommitTsOf(v) = txs[u].end_ts
<1>0. /\ v.begin \in BeginStamp
      /\ \A u \in TxID : txs[u].begin_ts \in Nat /\ txs[u].end_ts \in Nat
  BY TypesHold DEF Types, RowVersion, Transaction
<1>1. CASE v.begin \in [kind : {"ts"}, at : Nat]
  <2>1. v.begin.kind = "ts" /\ v.begin.at \in Nat /\ v.begin = Timestamp(v.begin.at)
    BY <1>1 DEF Timestamp
  <2>2. CommitTsOf(v) = v.begin.at /\ txs[t].begin_ts >= v.begin.at
    BY <2>1 DEF CommitTsOf, is_begin_visible
  <2> QED
    BY <1>0, <2>1, <2>2
<1>2. CASE v.begin \in [kind : {"tx"}, at : TxID]
  <2> DEFINE u == v.begin.at
  <2>1. v.begin.kind = "tx" /\ u \in TxID /\ v.begin = Id(u)
    BY <1>2 DEF Id
  <2>2. CommitTsOf(v) = txs[u].end_ts
    BY <2>1 DEF CommitTsOf
  <2>3. txs[u].state = "Committed" /\ txs[t].begin_ts >= txs[u].end_ts
    BY <2>1 DEF is_begin_visible
  <2> HIDE DEF u
  <2> QED
    BY <1>0, <2>1, <2>2, <2>3
<1> QED
  BY <1>0, <1>1, <1>2, Zenon DEF BeginStamp

\* NoTornCommit: visibility is decided by the one timestamp of a commit, before and
\* after its rows are rewritten, so types are all it rests on.
LEMMA WholeCommits == TInv => NoTornCommit
<1> SUFFICES ASSUME TInv, NEW t \in TxID, NEW r \in RowID, NEW s \in RowID,
                    NEW x \in Reads(t, r), NEW w \in VisibleVersions(t, s), x.kind = "ts"
             PROVE  /\ w.end # x
                    /\ w.end.kind = "tx" /\ txs[w.end.at].state = "Committed"
                         => txs[w.end.at].end_ts # x.at
  BY Zenon DEF NoTornCommit
<1>1. PICK v \in VisibleVersions(t, r) :
             x = IF v.begin = Id(t) THEN v.begin ELSE Timestamp(CommitTsOf(v))
  BY Zenon DEF Reads
<1>2. v.begin # Id(t)
  BY <1>1 DEF Id
<1>3. v \in rows[r] /\ is_begin_visible(t, v)
  BY Zenon DEF VisibleVersions, is_visible_to
<1>4. CommitTsOf(v) \in Nat /\ CommitTsOf(v) <= txs[t].begin_ts
  BY <1>2, <1>3, SeenCommitted, Zenon
<1>5. x.at = CommitTsOf(v)
  BY <1>1, <1>2 DEF Timestamp
<1>6. w \in rows[s] /\ is_end_visible(t, w)
  BY Zenon DEF VisibleVersions, is_visible_to
<1>7. /\ w.end \in EndStamp
      /\ \A u \in TxID : txs[u].begin_ts \in Nat /\ txs[u].end_ts \in Nat
  BY <1>6, TypesHold DEF Types, RowVersion, Transaction
<1>8. CASE w.end = None
  BY <1>8 DEF None
<1>9. CASE w.end \in [kind : {"ts"}, at : Nat]
  <2>1. w.end # None /\ w.end.kind = "ts" /\ w.end.at \in Nat
    BY <1>9 DEF None
  <2>2. txs[t].begin_ts < w.end.at
    BY <1>6, <2>1 DEF is_end_visible
  <2> QED
    BY <1>4, <1>5, <1>7, <2>1, <2>2
<1>10. CASE w.end \in [kind : {"tx"}, at : TxID]
  <2>1. w.end # None /\ w.end.kind = "tx" /\ w.end.at \in TxID
    BY <1>10 DEF None
  <2>2. txs[w.end.at].state = "Committed" => txs[t].begin_ts < txs[w.end.at].end_ts
    BY <1>6, <2>1 DEF is_end_visible
  <2> QED
    BY <1>4, <1>5, <1>7, <2>1, <2>2
<1> QED
  BY <1>7, <1>8, <1>9, <1>10, Zenon DEF EndStamp, BeginStamp

\* Snapshots are whole for every set of transactions and rows and every choice of
\* client calls: nobody reads one row as a commit left it and another row as it was
\* before that commit.
THEOREM CommitsAreWhole == Spec => []NoTornCommit
BY TypeInit, TypeNext, WholeCommits, PTL DEF Spec

-----------------------------------------------------------------------------
(* delete() and the collector                                              *)

\* What delete() and the collector leave alone.
LEMMA DeleteFrame ==
  ASSUME TInv, NEW t \in TxID, NEW r \in RowID, Delete(t, r)
  PROVE  /\ pc[t] = "scan" /\ r = call[t].row /\ (Linked(r, call[t].gen) => ~Locked(r))
         /\ pc'[t] \in {"idle", "insert", "check", "abort", "mark"}
         /\ \A u \in TxID \ {t} : pc'[u] = pc[u] /\ call'[u] = call[u]
         /\ UNCHANGED <<txs, todo, entry>>
<1>0. pc \in [TxID -> Control] /\ call \in [TxID -> WriteCall]
  BY TypesHold DEF Types
<1>1. CASE NotFound(t) \/ Conflict(t)
  BY <1>0, <1>1, DeleteEffect DEF NotFound, Conflict, EndCall
<1>2. CASE ~(NotFound(t) \/ Conflict(t))
  BY <1>0, <1>2, DeleteEffect DEF Mark
<1> QED
  BY <1>1, <1>2

LEMMA CollectorScans ==
  ASSUME NEW r \in RowID, GcScan(r)
  PROVE  /\ \/ ~Locked(r) /\ rows' = [rows EXCEPT ![r] = {v \in rows[r] : should_stay(v)}]
            \/ UNCHANGED rows
         /\ UNCHANGED <<txs, entry, pc, call, todo>>
BY Zenon DEF GcScan

LEMMA CollectorRemoves ==
  ASSUME NEW r \in RowID, GcRemove(r)
  PROVE  /\ entry' = [entry EXCEPT ![r].live = FALSE]
         /\ rows' = [rows EXCEPT ![r] = {}]
         /\ UNCHANGED <<txs, pc, call, todo>>
BY Zenon DEF GcRemove, remove_row

-----------------------------------------------------------------------------
(* The steps that touch the rows or their locks, and all the others        *)

\* No delete() comes to wait between its two looks at a version.
SameChecks == \A u \in TxID : pc'[u] = "check" => pc[u] = "check" /\ call'[u] = call[u]

LEMMA StoreSteps ==
  ASSUME TInv, [Next]_vars
  PROVE  \/ SameChecks /\ UNCHANGED <<rows, entry>>
         \/ \E t \in TxID : \/ Deletes(t) \/ CheckConflict(t) \/ GetOrInsertEntry(t)
                            \/ PushVersion(t) \/ UndoRow(t)
         \/ \E t \in TxID, r \in RowID : Rewrite(t, r)
         \/ \E r \in RowID : GcScan(r) \/ GcRemove(r)
<1> DEFINE Still == SameChecks /\ UNCHANGED <<rows, entry>>
<1>0. pc \in [TxID -> Control] /\ call \in [TxID -> WriteCall]
  BY TypesHold DEF Types
<1>1. ASSUME NEW t \in TxID, DrawBeginTs(t) \/ Track(t) \/ DrawEndTs(t) \/ Prepare(t)
      PROVE  Still
  BY <1>0, <1>1 DEF DrawBeginTs, Track, DrawEndTs, Prepare, Goto, SameChecks
<1>2. ASSUME NEW t \in TxID, Log(t) \/ LogFails(t) \/ Publish(t) \/ CommitDone(t)
      PROVE  Still
  BY <1>0, <1>2 DEF Log, LogFails, Publish, CommitDone, Goto, SameChecks
<1>3. ASSUME NEW t \in TxID, Abort(t) \/ Terminate(t) \/ RemoveTx(t)
      PROVE  Still
  BY <1>0, <1>3 DEF Abort, Terminate, RemoveTx, Goto, SameChecks
<1>4. ASSUME NEW t \in TxID, MarkWriteSet(t) \/ insert(t) PROVE Still
  BY <1>0, <1>4 DEF MarkWriteSet, insert, Goto, EndCall, SameChecks
<1>5. ASSUME NEW t \in TxID, NEW r \in RowID, Starts(t, r) \/ read(t, r) PROVE Still
  BY <1>0, <1>5, StartsEffect DEF StartCall, read, Goto, SameChecks
<1>6. ASSUME NEW t \in TxID, NEW r \in RowID, UndoGet(t, r) PROVE Still
  BY <1>0, <1>6 DEF UndoGet, SameChecks
<1>7. CASE GcStart \/ GcScanned \/ GcDone \/ UNCHANGED vars \/ \E r \in RowID : GcNext(r)
  BY <1>0, <1>7, Zenon DEF GcStart, GcScanned, GcNext, GcDone, vars, SameChecks
<1> HIDE DEF Still
<1>8. ASSUME NEW t \in TxID, TxStep(t)
      PROVE  \/ Still \/ Deletes(t) \/ CheckConflict(t) \/ GetOrInsertEntry(t)
             \/ PushVersion(t) \/ UndoRow(t) \/ \E r \in RowID : Rewrite(t, r)
  BY <1>1, <1>2, <1>3, <1>4, <1>5, <1>6, <1>8, ZenonT(30) DEF TxStep, Starts, Deletes
<1>9. CASE GcStep
  BY <1>7, <1>9, ZenonT(30) DEF GcStep, Still
<1> QED
  BY <1>7, <1>8, <1>9, ZenonT(30) DEF Next, Still

\* The steps that do more to a row than drop versions.
LEMMA RowSteps ==
  ASSUME TInv, [Next]_vars
  PROVE  \/ \A s \in RowID : rows'[s] \subseteq rows[s]
         \/ \E t \in TxID : CheckConflict(t) \/ PushVersion(t)
         \/ \E t \in TxID, r \in RowID : Rewrite(t, r)
         \/ \E t \in TxID : Deletes(t)
<1>0. rows \in [RowID -> SUBSET RowVersion]
  BY TypesHold DEF Types
<1> DEFINE Drops == \A s \in RowID : rows'[s] \subseteq rows[s]
<1>1. ASSUME NEW t \in TxID, GetOrInsertEntry(t) \/ UndoRow(t) PROVE Drops
  <2>1. CASE GetOrInsertEntry(t)
    BY <2>1 DEF GetOrInsertEntry
  <2>2. CASE UndoRow(t)
    BY <1>0, <2>2 DEF UndoRow, remove_row
  <2> QED
    BY <1>1, <2>1, <2>2
<1>2. ASSUME NEW r \in RowID, GcScan(r) \/ GcRemove(r) PROVE Drops
  BY <1>0, <1>2, CollectorScans, CollectorRemoves
<1>3. CASE UNCHANGED rows
  BY <1>3
<1> HIDE DEF Drops
<1> QED
  BY <1>1, <1>2, <1>3, StoreSteps, ZenonT(30) DEF Deletes, Drops

\* An entry that changes was unlinked before, or is emptied.
LEMMA EntrySteps ==
  ASSUME TInv, [Next]_vars
  PROVE  \A s \in RowID : entry'[s] = entry[s] \/ rows'[s] = {} \/ ~entry[s].live
<1>0. rows \in [RowID -> SUBSET RowVersion] /\ entry \in [RowID -> Entry]
  BY TypesHold DEF Types
<1> DEFINE Goal == \A s \in RowID : entry'[s] = entry[s] \/ rows'[s] = {} \/ ~entry[s].live
<1>1. CASE UNCHANGED entry
  BY <1>1
<1>2. ASSUME NEW t \in TxID, GetOrInsertEntry(t) PROVE Goal
  <2>1. call[t].row \in RowID
    BY <1>2, CallRow DEF GetOrInsertEntry, Goto
  <2> QED
    BY <1>0, <1>2, <2>1 DEF GetOrInsertEntry
<1>3. ASSUME NEW t \in TxID, UndoRow(t) PROVE Goal
  <2>1. call[t].row \in RowID
    BY <1>3, CallRow DEF UndoRow, Goto
  <2> QED
    BY <1>0, <1>3, <2>1 DEF UndoRow, remove_row
<1>4. ASSUME NEW r \in RowID, GcRemove(r) PROVE Goal
  BY <1>0, <1>4, CollectorRemoves
<1>5. ASSUME NEW t \in TxID, Deletes(t) \/ CheckConflict(t) \/ PushVersion(t)
      PROVE  UNCHANGED entry
  BY <1>5, Zenon DEF Deletes, Delete, CheckConflict, PushVersion
<1>6. /\ \A t \in TxID, r \in RowID : Rewrite(t, r) => UNCHANGED entry
      /\ \A r \in RowID : GcScan(r) => UNCHANGED entry
  BY CollectorScans, Zenon DEF Rewrite
<1> HIDE DEF Goal
<1> QED
  BY <1>1, <1>2, <1>3, <1>4, <1>5, <1>6, StoreSteps, ZenonT(30) DEF Goal

\* Removing an entry empties the row.
LEMMA UnlinkedEmptyNext ==
  ASSUME TInv, UnlinkedEmpty, [Next]_vars
  PROVE  UnlinkedEmpty'
<1>0. rows \in [RowID -> SUBSET RowVersion] /\ entry \in [RowID -> Entry]
  BY TypesHold DEF Types
<1>1. CASE UNCHANGED <<rows, entry>>
  BY <1>1 DEF UnlinkedEmpty
<1>2. ASSUME NEW t \in TxID, Deletes(t) PROVE UnlinkedEmpty'
  <2>1. PICK r \in RowID : Delete(t, r)
    BY <1>2 DEF Deletes
  <2>2. UNCHANGED entry
    BY <2>1, DeleteFrame
  <2>3. \A s \in RowID : rows'[s] = rows[s] \/ rows[s] # {}
    BY <1>0, <2>1, DeleteEffect, ZenonT(30) DEF NotFound, Conflict, Mark, VisibleVersions
  <2> QED
    BY <2>2, <2>3 DEF UnlinkedEmpty
<1>3. ASSUME NEW t \in TxID, CheckConflict(t) PROVE UnlinkedEmpty'
  BY <1>0, <1>3 DEF CheckConflict, Conflict, Mark, UnlinkedEmpty
<1>4. ASSUME NEW t \in TxID, GetOrInsertEntry(t) PROVE UnlinkedEmpty'
  BY <1>0, <1>4 DEF GetOrInsertEntry, UnlinkedEmpty
<1>5. ASSUME NEW t \in TxID, PushVersion(t) PROVE UnlinkedEmpty'
  <2>1. call[t].row \in RowID
    BY <1>5, CallRow DEF PushVersion, Goto
  <2>2. \A s \in RowID : s # call[t].row \/ ~entry[s].live => rows'[s] = rows[s]
    BY <1>0, <1>5, <2>1 DEF PushVersion, insert_version_raw
  <2> QED
    BY <1>5, <2>2 DEF PushVersion, UnlinkedEmpty
<1>6. ASSUME NEW t \in TxID, UndoRow(t) PROVE UnlinkedEmpty'
  BY <1>0, <1>6 DEF UndoRow, remove_row, UnlinkedEmpty
<1>7. ASSUME NEW t \in TxID, NEW r \in RowID, Rewrite(t, r) PROVE UnlinkedEmpty'
  BY <1>0, <1>7 DEF Rewrite, UnlinkedEmpty
<1>8. ASSUME NEW r \in RowID, GcScan(r) PROVE UnlinkedEmpty'
  BY <1>0, <1>8, CollectorScans DEF UnlinkedEmpty
<1>9. ASSUME NEW r \in RowID, GcRemove(r) PROVE UnlinkedEmpty'
  BY <1>0, <1>9, CollectorRemoves DEF UnlinkedEmpty
<1> QED
  BY <1>1, <1>2, <1>3, <1>4, <1>5, <1>6, <1>7, <1>8, <1>9, StoreSteps, ZenonT(30)

-----------------------------------------------------------------------------
(* The row lock                                                            *)

\* A step keeps the lock when it brings nobody to wait on a version and leaves
\* alone the versions of the Vecs that are waited on.
LEMMA LockKept ==
  ASSUME TInv, LockOK,
         \A u \in TxID : pc'[u] = "check" =>
           /\ pc[u] = "check" /\ call'[u] = call[u]
           /\ LET s == call[u].row IN
              /\ entry'[s] = entry[s] \/ entry'[s].gen = entry[s].gen + 1
                   \/ (~entry'[s].live /\ entry'[s].gen = entry[s].gen)
              /\ entry[s].live /\ entry[s].gen = call[u].gen =>
                   ~entry'[s].live \/ call[u].rv \in rows'[s]
  PROVE  LockOK'
<1>0. ASSUME NEW u \in TxID, pc[u] = "check"
      PROVE  entry[call[u].row].gen \in Nat /\ call[u].gen \in Nat
  <2>1. call[u].row \in RowID
    BY <1>0, CallRow
  <2> QED
    BY <2>1, TypesHold DEF Types, Entry, WriteCall
<1>1. ASSUME NEW u \in TxID, pc'[u] = "check"
      PROVE  /\ call'[u].gen <= entry'[call'[u].row].gen
             /\ entry'[call'[u].row].live /\ entry'[call'[u].row].gen = call'[u].gen
                  => call'[u].rv \in rows'[call'[u].row]
  <2>1. /\ call[u].gen <= entry[call[u].row].gen
        /\ entry[call[u].row].live /\ entry[call[u].row].gen = call[u].gen
             => call[u].rv \in rows[call[u].row]
    BY <1>1 DEF LockOK
  <2> QED
    BY <1>0, <1>1, <2>1
<1>2. ASSUME NEW u \in TxID, NEW w \in TxID, pc'[u] = "check", pc'[w] = "check",
             call'[u].row = call'[w].row, call'[u].gen = call'[w].gen
      PROVE  u = w
  BY <1>2 DEF LockOK
<1> QED
  BY <1>1, <1>2, ZenonT(30) DEF LockOK

\* The row lock keeps the version delete() looks at in place.
LEMMA LockOKNext ==
  ASSUME TInv, UnlinkedEmpty, LockOK, [Next]_vars
  PROVE  LockOK'
<1>0. /\ rows \in [RowID -> SUBSET RowVersion] /\ entry \in [RowID -> Entry]
      /\ pc \in [TxID -> Control] /\ call \in [TxID -> WriteCall]
      /\ \A s \in RowID : entry[s].gen \in Nat
  BY TypesHold DEF Types, Entry
<1>00. \A u \in TxID : pc[u] = "check" =>
         /\ call[u].row \in RowID
         /\ LET s == call[u].row IN
            entry[s].live /\ entry[s].gen = call[u].gen => call[u].rv \in rows[s] /\ Locked(s)
  BY CallRow DEF LockOK, Locked
<1>1. CASE SameChecks /\ UNCHANGED <<rows, entry>>
  BY <1>1, <1>00, LockKept DEF SameChecks
<1>2. ASSUME NEW t \in TxID, NEW r \in RowID, Delete(t, r)
      PROVE  LockOK'
  <2>0. /\ pc[t] = "scan" /\ UNCHANGED entry /\ r = call[t].row
        /\ Linked(r, call[t].gen) => ~Locked(r)
        /\ \A u \in TxID \ {t} : call'[u] = call[u] /\ pc'[u] = pc[u]
    BY <1>2, DeleteFrame
  <2>1. CASE pc'[t] = "check"
    <3>0. ~(NotFound(t) \/ Conflict(t)) /\ \A rv : ~Mark(t, r, call[t].gen, rv)
      BY <1>0, <2>1 DEF NotFound, Conflict, Mark
    <3>1. PICK rv \in rows[r] : /\ call' = [call EXCEPT ![t].rv = rv] /\ UNCHANGED rows
                               /\ Linked(r, call[t].gen)
      BY <1>0, <1>2, <2>1, <3>0, DeleteEffect, Zenon DEF VisibleVersions
    <3>2. call'[t].row = r /\ call'[t].gen = entry[r].gen /\ call'[t].rv = rv
      <4>1. [call[t] EXCEPT !.rv = rv].row = r /\ [call[t] EXCEPT !.rv = rv].gen = call[t].gen
            /\ [call[t] EXCEPT !.rv = rv].rv = rv
        <5>1. rv \in RowVersion /\ call[t] \in WriteCall
          BY <1>0
        <5> QED
          BY <2>0, <5>1, WriteCallRv, Zenon
      <4> QED
        BY <1>0, <3>1, <4>1, Zenon
    <3>3. entry[r].live
      BY <3>1 DEF UnlinkedEmpty
    <3>4. ASSUME NEW u \in TxID, pc'[u] = "check", u # t
          PROVE  /\ pc[u] = "check" /\ call'[u] = call[u]
                 /\ ~(call[u].row = r /\ call[u].gen = entry[r].gen)
      BY <2>0, <3>1, <3>3, <3>4 DEF Locked
    <3>5. ASSUME NEW u \in TxID, pc'[u] = "check"
          PROVE  /\ call'[u].gen <= entry'[call'[u].row].gen
                 /\ entry'[call'[u].row].live /\ entry'[call'[u].row].gen = call'[u].gen
                      => call'[u].rv \in rows'[call'[u].row]
      <4>1. CASE u = t
        BY <1>0, <2>0, <3>1, <3>2, <4>1
      <4>2. CASE u # t
        BY <2>0, <3>1, <3>4, <3>5, <4>2, Zenon DEF LockOK
      <4> QED
        BY <4>1, <4>2
    <3>6. ASSUME NEW u \in TxID, NEW w \in TxID, pc'[u] = "check", pc'[w] = "check",
                 call'[u].row = call'[w].row, call'[u].gen = call'[w].gen
          PROVE  u = w
      <4>1. CASE u # t /\ w # t
        BY <3>4, <3>6, <4>1 DEF LockOK
      <4> QED
        BY <3>2, <3>4, <3>6, <4>1
    <3> QED
      BY <3>5, <3>6, ZenonT(30) DEF LockOK
  <2>2. CASE pc'[t] # "check"
    <3>1. \A s \in RowID : rows'[s] = rows[s] \/ (s = r /\ ~Locked(r))
      BY <1>0, <1>2, <2>0, DeleteEffect DEF NotFound, Conflict, Mark
    <3> QED
      BY <1>00, <2>0, <2>2, <3>1, LockKept
  <2> QED
    BY <2>1, <2>2
<1>3. ASSUME NEW t \in TxID, CheckConflict(t) PROVE LockOK'
  <2>0. /\ pc[t] = "check" /\ pc'[t] # "check" /\ UNCHANGED entry
        /\ \A u \in TxID \ {t} : call'[u] = call[u] /\ pc'[u] = pc[u]
    BY <1>0, <1>3 DEF CheckConflict, Conflict, EndCall, Mark
  <2>1. \A s \in RowID : rows'[s] = rows[s]
          \/ (s = call[t].row /\ entry[s].live /\ entry[s].gen = call[t].gen)
    BY <1>0, <1>3 DEF CheckConflict, Conflict, Mark
  <2>2. \A u \in TxID \ {t} : pc[u] = "check" /\ call[u].row = call[t].row
                              => call[u].gen # call[t].gen
    BY <2>0 DEF LockOK
  <2> QED
    BY <1>00, <2>0, <2>1, <2>2, LockKept
<1>4. ASSUME NEW t \in TxID, GetOrInsertEntry(t) PROVE LockOK'
  <2>1. call[t].row \in RowID /\ pc[t] = "entry"
    BY <1>4, CallRow DEF GetOrInsertEntry, Goto
  <2>2. /\ pc' = [pc EXCEPT ![t] = "push"] /\ UNCHANGED rows
        /\ \A u \in TxID \ {t} : call'[u] = call[u]
        /\ \A s \in RowID : \/ entry'[s] = entry[s]
                             \/ entry'[s].gen = entry[s].gen + 1
    BY <1>0, <1>4, <2>1 DEF GetOrInsertEntry, Goto
  <2>3. \A u \in TxID : pc'[u] = "check" => u # t /\ pc[u] = "check"
    BY <1>0, <2>2
  <2> QED
    BY <1>00, <2>2, <2>3, LockKept
<1>5. ASSUME NEW t \in TxID, PushVersion(t) PROVE LockOK'
  <2> DEFINE r == call[t].row
  <2>1. r \in RowID /\ ~Locked(r) /\ UNCHANGED entry
    BY <1>5, CallRow DEF PushVersion, Goto
  <2>2. \A s \in RowID : s = r \/ rows'[s] = rows[s]
    BY <1>0, <1>5, <2>1 DEF PushVersion, insert_version_raw
  <2>3. \A u \in TxID : pc'[u] = "check" => pc[u] = "check" /\ call'[u] = call[u]
    BY <1>0, <1>5 DEF PushVersion, Goto, EndCall
  <2> QED
    BY <1>00, <2>1, <2>2, <2>3, LockKept
<1>6. ASSUME NEW t \in TxID, UndoRow(t) PROVE LockOK'
  <2> DEFINE r == call[t].row
  <2>0. r \in RowID
    BY <1>6, CallRow DEF UndoRow, Goto
  <2>1. \A s \in RowID : s = r \/ (rows'[s] = rows[s] /\ entry'[s] = entry[s])
    BY <1>0, <1>6, <2>0 DEF UndoRow, remove_row
  <2>2. \/ entry'[r].live = FALSE /\ entry'[r].gen = entry[r].gen
        \/ entry'[r] = entry[r] /\ (rows'[r] = rows[r] \/ ~Locked(r))
    BY <1>0, <1>6, <2>0 DEF UndoRow, remove_row, Entry
  <2>3. \A u \in TxID : pc'[u] = "check" => pc[u] = "check" /\ call'[u] = call[u]
    BY <1>0, <1>6 DEF UndoRow, Goto, EndCall
  <2> QED
    BY <1>00, <2>0, <2>1, <2>2, <2>3, LockKept, Zenon
<1>7. ASSUME NEW t \in TxID, NEW r \in RowID, Rewrite(t, r) PROVE LockOK'
  <2>1. ~Locked(r) /\ UNCHANGED <<entry, pc, call>> /\ \A s \in RowID : s = r \/ rows'[s] = rows[s]
    BY <1>0, <1>7 DEF Rewrite
  <2> QED
    BY <1>00, <2>1, LockKept
<1>8. ASSUME NEW r \in RowID, GcScan(r) PROVE LockOK'
  <2>1. /\ UNCHANGED <<entry, pc, call>>
        /\ \A s \in RowID : rows'[s] = rows[s] \/ (s = r /\ ~Locked(r))
    BY <1>0, <1>8, CollectorScans
  <2> QED
    BY <1>00, <2>1, LockKept
<1>9. ASSUME NEW r \in RowID, GcRemove(r) PROVE LockOK'
  <2>1. /\ UNCHANGED <<pc, call>> /\ ~entry'[r].live /\ entry'[r].gen = entry[r].gen
        /\ \A s \in RowID : s = r \/ (rows'[s] = rows[s] /\ entry'[s] = entry[s])
    BY <1>0, <1>9, CollectorRemoves DEF Entry
  <2> QED
    BY <1>00, <2>1, LockKept
<1> QED
  BY <1>1, <1>2, <1>3, <1>4, <1>5, <1>6, <1>7, <1>8, <1>9, StoreSteps, ZenonT(30) DEF Deletes

-----------------------------------------------------------------------------
(* Control: where a thread is, and what its transaction still owes         *)

\* The collector moves no transaction.
LEMMA CollectorFrame ==
  ASSUME GcStep \/ UNCHANGED vars
  PROVE  UNCHANGED <<txs, pc, call, todo>>
BY CollectorScans, CollectorRemoves, Zenon DEF GcStep, GcStart, GcNext, GcScanned, GcDone, vars

\* A transaction moves no other.
LEMMA OthersStay ==
  ASSUME TInv, NEW t \in TxID, TxStep(t), NEW u \in TxID, u # t
  PROVE  txs'[u] = txs[u] /\ pc'[u] = pc[u] /\ call'[u] = call[u] /\ todo'[u] = todo[u]
<1>0. /\ txs \in [TxID -> Transaction] /\ pc \in [TxID -> Control]
      /\ call \in [TxID -> WriteCall] /\ todo \in [TxID -> SUBSET RowID]
  BY TypesHold DEF Types
<1>1. CASE DrawBeginTs(t) \/ Track(t) \/ DrawEndTs(t) \/ Prepare(t)
  BY <1>0, <1>1 DEF DrawBeginTs, Track, DrawEndTs, Prepare, Goto, SetState
<1>2. CASE Log(t) \/ LogFails(t) \/ Publish(t) \/ CommitDone(t)
  BY <1>0, <1>2 DEF Log, LogFails, Publish, CommitDone, Goto, SetState
<1>3. CASE Abort(t) \/ Terminate(t) \/ RemoveTx(t) \/ UndoRow(t)
  BY <1>0, <1>3 DEF Abort, Terminate, RemoveTx, UndoRow, Goto, SetState, EndCall
<1>4. CASE MarkWriteSet(t) \/ insert(t) \/ GetOrInsertEntry(t) \/ PushVersion(t)
  BY <1>0, <1>4 DEF MarkWriteSet, insert, GetOrInsertEntry, PushVersion, Goto, EndCall
<1>5. CASE \E r \in RowID : Starts(t, r) \/ read(t, r) \/ UndoGet(t, r) \/ Rewrite(t, r)
  <2>1. PICK r \in RowID : Starts(t, r) \/ read(t, r) \/ UndoGet(t, r) \/ Rewrite(t, r)
    BY <1>5
  <2>2. CASE Starts(t, r) \/ read(t, r)
    BY <1>0, <2>2, StartsEffect DEF StartCall, read, Goto
  <2>3. CASE UndoGet(t, r) \/ Rewrite(t, r)
    BY <1>0, <2>3 DEF UndoGet, Rewrite
  <2> QED
    BY <2>1, <2>2, <2>3
<1>6. CASE Deletes(t) \/ CheckConflict(t)
  <2>1. CASE CheckConflict(t)
    BY <1>0, <2>1 DEF CheckConflict, Conflict, Mark, EndCall
  <2> QED
    BY <1>6, <2>1, DeleteFrame DEF Deletes
<1> QED
  BY <1>1, <1>2, <1>3, <1>4, <1>5, <1>6, ZenonT(30) DEF TxStep, Starts, Deletes

\* A thread's place in the code and its transaction's state stay in step, and
\* insert() records the row before it adds a version.
LEMMA ControlNext ==
  ASSUME TInv, PcState, InsertInWriteSet, [Next]_vars
  PROVE  PcState' /\ InsertInWriteSet'
<1> DEFINE Placed(u) ==
         /\ pc[u] \in {"start", "begin", "committed", "aborted"} => txs[u].state = "Untracked"
         /\ pc[u] \in {"idle", "scan", "insert", "entry", "push", "check", "mark", "prepare",
                       "abort"}
              => txs[u].state = "Active"
         /\ pc[u] \in {"log", "publish"} => txs[u].state = "Preparing"
         /\ pc[u] = "rewrite" => txs[u].state = "Committed"
         /\ pc[u] \in {"undo", "undorow"} => txs[u].state = "Aborted"
         /\ pc[u] = "remove" => txs[u].state = "Terminated"
         /\ pc[u] \in {"entry", "push"} => call[u].row \in txs[u].write_set
<1>0. /\ txs \in [TxID -> Transaction] /\ pc \in [TxID -> Control]
      /\ call \in [TxID -> WriteCall]
  BY TypesHold DEF Types
<1>00. \A u \in TxID : Placed(u)
  BY DEF PcState, InsertInWriteSet
<1>1. ASSUME NEW t \in TxID, DrawBeginTs(t) \/ Track(t) \/ DrawEndTs(t) \/ Prepare(t)
      PROVE  Placed(t)'
  BY <1>0, <1>00, <1>1
     DEF Transaction, DrawBeginTs, Track, DrawEndTs, Prepare, Goto, SetState
<1>2. ASSUME NEW t \in TxID, Log(t) \/ LogFails(t) \/ Publish(t) \/ CommitDone(t)
      PROVE  Placed(t)'
  BY <1>0, <1>00, <1>2
     DEF Transaction, Log, LogFails, Publish, CommitDone, Goto, SetState, NoTransaction
<1>3. ASSUME NEW t \in TxID, Abort(t) \/ Terminate(t) \/ RemoveTx(t) \/ UndoRow(t)
      PROVE  Placed(t)'
  BY <1>0, <1>00, <1>3
     DEF Transaction, Abort, Terminate, RemoveTx, UndoRow, Goto, SetState, NoTransaction
<1>4. ASSUME NEW t \in TxID, MarkWriteSet(t) \/ insert(t) \/ GetOrInsertEntry(t) \/ PushVersion(t)
      PROVE  Placed(t)'
  <2>1. CASE MarkWriteSet(t) \/ insert(t)
    BY <1>0, <1>00, <2>1 DEF Transaction, MarkWriteSet, insert, Goto
  <2>2. CASE GetOrInsertEntry(t)
    <3>1. /\ UNCHANGED txs /\ pc[t] = "entry" /\ pc'[t] = "push"
          /\ call'[t].row = call[t].row
      BY <1>0, <2>2 DEF WriteCall, GetOrInsertEntry, Goto
    <3> QED
      BY <1>00, <3>1
  <2>3. CASE PushVersion(t)
    BY <1>0, <1>00, <2>3 DEF PushVersion, Goto
  <2> QED
    BY <1>4, <2>1, <2>2, <2>3
<1>5. ASSUME NEW t \in TxID, NEW r \in RowID,
             Starts(t, r) \/ read(t, r) \/ UndoGet(t, r) \/ Rewrite(t, r)
      PROVE  Placed(t)'
  <2>1. CASE Starts(t, r)
    <3>1. UNCHANGED txs /\ pc[t] = "idle" /\ pc'[t] \in {"insert", "scan"}
      BY <1>0, <2>1, StartsEffect
    <3> QED
      BY <1>00, <3>1
  <2>2. CASE read(t, r)
    BY <1>0, <1>00, <2>2 DEF Transaction, read
  <2>3. CASE UndoGet(t, r) \/ Rewrite(t, r)
    BY <1>0, <1>00, <2>3 DEF UndoGet, Rewrite
  <2> QED
    BY <1>5, <2>1, <2>2, <2>3, Zenon
<1>6. ASSUME NEW t \in TxID, Deletes(t) \/ CheckConflict(t) PROVE Placed(t)'
  <2>1. UNCHANGED txs /\ pc[t] \in {"scan", "check"}
        /\ pc'[t] \in {"idle", "insert", "check", "abort", "mark"}
    BY <1>0, <1>6, DeleteFrame DEF Deletes, CheckConflict, Conflict, Mark
  <2> QED
    BY <1>00, <2>1
<1>7. CASE GcStep \/ UNCHANGED vars
  BY <1>00, <1>7, CollectorFrame DEF PcState, InsertInWriteSet
<1>8. ASSUME NEW t \in TxID, TxStep(t) PROVE \A u \in TxID : Placed(u)'
  <2>1. \A u \in TxID \ {t} : Placed(u)'
    BY <1>00, <1>8, OthersStay
  <2> HIDE DEF Placed
  <2>2. Placed(t)'
    BY <1>1, <1>2, <1>3, <1>4, <1>5, <1>6, <1>8, ZenonT(30) DEF TxStep, Starts, Deletes
  <2> QED
    BY <2>1, <2>2
<1>9. CASE \A u \in TxID : Placed(u)'
  BY <1>9, ZenonT(30) DEF PcState, InsertInWriteSet
<1> HIDE DEF Placed
<1> QED
  BY <1>7, <1>8, <1>9, ZenonT(30) DEF Next

\* A rollback, or a delete(), at a row got there by looking its entry up.
LEMMA UndoHolds ==
  ASSUME TInv, [Next]_vars
  PROVE  \A u \in TxID : pc'[u] \in {"scan", "undorow"} =>
           \/ pc[u] = pc'[u] /\ call'[u] = call[u]
           \/ \E r \in RowID : (UndoGet(u, r) \/ Starts(u, r)) /\ entry[r].live
<1>0. pc \in [TxID -> Control]
  BY TypesHold DEF Types
<1>1. ASSUME NEW t \in TxID, TxStep(t), pc'[t] \in {"scan", "undorow"}
      PROVE  \/ pc[t] = pc'[t] /\ call'[t] = call[t]
             \/ \E r \in RowID : (UndoGet(t, r) \/ Starts(t, r)) /\ entry[r].live
  <2>1. ~(DrawBeginTs(t) \/ Track(t) \/ DrawEndTs(t) \/ Prepare(t) \/ Log(t) \/ LogFails(t)
          \/ Publish(t) \/ CommitDone(t) \/ Abort(t) \/ Terminate(t) \/ RemoveTx(t) \/ UndoRow(t))
    BY <1>0, <1>1 DEF DrawBeginTs, Track, DrawEndTs, Prepare, Log, LogFails, Publish, CommitDone,
                      Abort, Terminate, RemoveTx, UndoRow, Goto
  <2>2. ~(MarkWriteSet(t) \/ insert(t) \/ GetOrInsertEntry(t) \/ PushVersion(t)
          \/ CheckConflict(t) \/ Deletes(t))
    BY <1>0, <1>1, DeleteFrame DEF MarkWriteSet, insert, GetOrInsertEntry, PushVersion,
                                   CheckConflict, Conflict, Deletes, Mark, Goto
  <2>3. \A r \in RowID : read(t, r) \/ Rewrite(t, r) => pc[t] = pc'[t] /\ call'[t] = call[t]
    BY <1>1 DEF read, Rewrite
  <2>4. ASSUME NEW r \in RowID, UndoGet(t, r)
        PROVE  entry[r].live \/ (pc[t] = pc'[t] /\ call'[t] = call[t])
    BY <2>4, Zenon DEF UndoGet
  <2>5. ASSUME NEW r \in RowID, Starts(t, r) PROVE entry[r].live
    BY <1>0, <1>1, <2>5, StartsEffect
  <2> QED
    BY <1>1, <2>1, <2>2, <2>3, <2>4, <2>5, ZenonT(30) DEF TxStep, Starts, Deletes
<1>2. CASE GcStep \/ UNCHANGED vars
  BY <1>2, CollectorFrame
<1>3. CASE \E t \in TxID : TxStep(t)
  BY <1>1, <1>3, OthersStay
<1> QED
  BY <1>2, <1>3, ZenonT(30) DEF Next

\* A transaction goes on owing a mark until it visits the row.
LEMMA OwesNext ==
  ASSUME TInv, [Next]_vars, NEW u \in TxID, NEW s \in RowID
  PROVE  /\ OwesBegin(u, s) => OwesBegin(u, s)' \/ Rewrite(u, s)
                                \/ (UndoRow(u) /\ call[u].row = s) \/ ~entry[s].live
         /\ OwesEnd(u, s) => OwesEnd(u, s)' \/ Rewrite(u, s)
<1> DEFINE Owes == /\ OwesBegin(u, s) => OwesBegin(u, s)'
                   /\ OwesEnd(u, s) => OwesEnd(u, s)'
           Goal == /\ OwesBegin(u, s) => OwesBegin(u, s)' \/ Rewrite(u, s)
                                \/ (UndoRow(u) /\ call[u].row = s) \/ ~entry[s].live
                   /\ OwesEnd(u, s) => OwesEnd(u, s)' \/ Rewrite(u, s)
<1>0. /\ txs \in [TxID -> Transaction] /\ pc \in [TxID -> Control]
      /\ call \in [TxID -> WriteCall] /\ todo \in [TxID -> SUBSET RowID]
  BY TypesHold DEF Types
<1>1. CASE DrawBeginTs(u) \/ Track(u) \/ DrawEndTs(u) \/ Prepare(u)
  BY <1>0, <1>1
     DEF Transaction, DrawBeginTs, Track, DrawEndTs, Prepare, Goto, SetState,
         OwesBegin, OwesEnd, RolledBack
<1>2. CASE Log(u) \/ LogFails(u) \/ Publish(u) \/ CommitDone(u)
  BY <1>0, <1>2
     DEF Transaction, Log, LogFails, Publish, CommitDone, Goto, SetState,
         OwesBegin, OwesEnd, RolledBack
<1>3. CASE Abort(u) \/ Terminate(u) \/ RemoveTx(u)
  BY <1>0, <1>3
     DEF Transaction, Abort, Terminate, RemoveTx, Goto, SetState, OwesBegin, OwesEnd, RolledBack
<1>4. CASE MarkWriteSet(u) \/ insert(u) \/ GetOrInsertEntry(u) \/ PushVersion(u)
  BY <1>0, <1>4 DEF Transaction, MarkWriteSet, insert, GetOrInsertEntry, PushVersion, Goto, EndCall,
                    OwesBegin, OwesEnd, RolledBack
<1>5. CASE \E r \in RowID : Starts(u, r) \/ read(u, r)
  <2>1. /\ txs'[u].write_set = txs[u].write_set /\ UNCHANGED todo
        /\ pc[u] = "idle" /\ pc'[u] \in {"idle", "insert", "scan"}
    BY <1>0, <1>5, StartsEffect DEF Transaction, read
  <2> QED
    BY <2>1 DEF OwesBegin, OwesEnd, RolledBack
<1>6. CASE Deletes(u) \/ CheckConflict(u)
  <2>1. UNCHANGED <<txs, todo>> /\ pc[u] \in {"scan", "check"}
        /\ pc'[u] \in {"idle", "insert", "check", "abort", "mark"}
    BY <1>0, <1>6, DeleteFrame DEF Deletes, CheckConflict, Conflict, Mark
  <2> QED
    BY <2>1 DEF OwesBegin, OwesEnd, RolledBack
<1>7. CASE \E r \in RowID : Rewrite(u, r)
  <2>1. PICK r \in RowID : Rewrite(u, r)
    BY <1>7
  <2>2. /\ UNCHANGED <<txs, pc, call>> /\ todo' = [todo EXCEPT ![u] = @ \ {r}]
        /\ pc[u] = "rewrite"
    BY <2>1 DEF Rewrite
  <2>3. s # r => Owes
    BY <1>0, <2>2 DEF OwesBegin, OwesEnd, RolledBack
  <2> QED
    BY <2>1, <2>3
<1>8. CASE \E r \in RowID : UndoGet(u, r)
  <2>1. UNCHANGED txs /\ pc[u] = "undo" /\ pc'[u] \in {"undo", "undorow"}
        /\ (s \in todo[u] => s \in todo'[u] \/ ~entry[s].live)
    BY <1>0, <1>8 DEF UndoGet
  <2> QED
    BY <2>1 DEF OwesBegin, OwesEnd, RolledBack
<1>9. CASE UndoRow(u)
  <2>1. /\ UNCHANGED txs /\ todo' = [todo EXCEPT ![u] = @ \ {call[u].row}]
        /\ pc[u] = "undorow" /\ pc' = [pc EXCEPT ![u] = "undo"]
    BY <1>9 DEF UndoRow, Goto
  <2> QED
    BY <1>0, <1>9, <2>1 DEF OwesBegin, OwesEnd, RolledBack
<1>10. CASE /\ txs'[u] = txs[u] /\ pc'[u] = pc[u] /\ call'[u] = call[u] /\ todo'[u] = todo[u]
  BY <1>10 DEF OwesBegin, OwesEnd, RolledBack
<1>11. CASE GcStep \/ UNCHANGED vars \/ \E t \in TxID \ {u} : TxStep(t)
  BY <1>10, <1>11, CollectorFrame, OthersStay, Zenon
<1> HIDE DEF Goal
<1>12. CASE TxStep(u)
  BY <1>1, <1>2, <1>3, <1>4, <1>5, <1>6, <1>7, <1>8, <1>9, <1>12, ZenonT(30)
     DEF TxStep, Starts, Deletes, Goal
<1> QED
  BY <1>11, <1>12, ZenonT(30) DEF Next, Goal

-----------------------------------------------------------------------------
(* Marks                                                                   *)

\* A delete() marks versions and adds none.
LEMMA BeginsKept ==
  ASSUME TInv, LockOK, NEW t \in TxID, Deletes(t) \/ CheckConflict(t),
         NEW s \in RowID, NEW v \in rows'[s]
  PROVE  \E w \in rows[s] : w.begin = v.begin
<1>0. TypeOK /\ CallOK
  BY DEF TInv
<1>1. ASSUME NEW r \in RowID, Delete(t, r)
      PROVE  \E w \in rows[s] : w.begin = v.begin
  BY <1>0, <1>1, DeletedVersions, SMTT(40), SMTT(30)
<1>2. CASE CheckConflict(t)
  BY <1>0, <1>2, CheckedVersions, SMTT(40)
<1> QED
  BY <1>1, <1>2, Zenon DEF Deletes

\* A begin mark was there before the step, unless its transaction has just added it.
LEMMA BeginFrom ==
  ASSUME TInv, LockOK, [Next]_vars,
         NEW s \in RowID, NEW v \in rows'[s], NEW u \in TxID, v.begin = Id(u)
  PROVE  \/ \E w \in rows[s] : w.begin = Id(u)
         \/ PushVersion(u) /\ s = call[u].row
<1> DEFINE Goal == \/ \E w \in rows[s] : w.begin = Id(u)
                   \/ PushVersion(u) /\ s = call[u].row
<1> SUFFICES Goal
  OBVIOUS
<1>1. CASE \A x \in RowID : rows'[x] \subseteq rows[x]
  BY <1>1
<1>2. ASSUME NEW t \in TxID, Deletes(t) \/ CheckConflict(t) PROVE Goal
  BY <1>2, BeginsKept, Zenon
<1>3. ASSUME NEW t \in TxID, PushVersion(t) PROVE Goal
  <2>1. CASE s = call[t].row /\ v.begin = Id(t)
    BY <1>3, <2>1, IdInjective, ZenonT(30)
  <2>2. CASE \E w \in rows[s] : w.begin = v.begin
    BY <2>2, SMTT(40)
  <2> QED
    BY <1>3, <2>1, <2>2, PushedVersions, SMTT(40) DEF TInv
<1>4. ASSUME NEW t \in TxID, NEW r \in RowID, Rewrite(t, r) PROVE Goal
  BY <1>4, RewrittenBegins DEF TInv
<1> HIDE DEF Goal
<1> QED
  BY <1>1, <1>2, <1>3, <1>4, RowSteps, Zenon DEF Deletes

\* Begin marks: only insert_version makes one, in its own write set.
LEMMA BeginMarksNext ==
  ASSUME TInv, InsertInWriteSet, LockOK, UnlinkedEmpty, UndoOK, BeginMarks, [Next]_vars
  PROVE  BeginMarks'
<1> SUFFICES ASSUME NEW s \in RowID, NEW v \in rows'[s], NEW u \in TxID, v.begin = Id(u)
             PROVE  OwesBegin(u, s)'
  BY DEF BeginMarks
<1>1. ASSUME Rewrite(u, s) PROVE FALSE
  BY <1>1, RewrittenBegins DEF TInv
<1>2. ASSUME UndoRow(u), call[u].row = s PROVE FALSE
  BY <1>2 DEF UndoRow, Goto, remove_row, UndoOK, TInv, TypeOK
<1>3. CASE \E w \in rows[s] : w.begin = Id(u)
  <2>1. OwesBegin(u, s)
    BY <1>3 DEF BeginMarks
  <2>2. entry[s].live
    BY <1>3 DEF UnlinkedEmpty
  <2> QED
    BY <1>1, <1>2, <2>1, <2>2, OwesNext, SMTT(40)
<1>4. CASE PushVersion(u) /\ s = call[u].row
  BY <1>4, ZenonT(20) DEF PushVersion, Goto, InsertInWriteSet, OwesBegin, TInv, TypeOK
<1> QED
  BY <1>3, <1>4, BeginFrom, SMTT(40)

\* A rollback or a delete() that lost its Vec has nothing in the one that replaced it.
LEMMA UndoOKNext ==
  ASSUME TInv, LockOK, UnlinkedEmpty, UndoOK, [Next]_vars
  PROVE  UndoOK'
<1> SUFFICES ASSUME NEW u \in TxID, pc'[u] \in {"scan", "undorow"},
                    ~(entry'[call'[u].row].live /\ entry'[call'[u].row].gen = call'[u].gen),
                    NEW v \in rows'[call'[u].row], v.begin = Id(u)
             PROVE  FALSE
  BY ZenonT(30) DEF UndoOK
<1>1. ASSUME NEW r \in RowID, UndoGet(u, r) \/ Starts(u, r), entry[r].live PROVE FALSE
  <2>1. CASE UndoGet(u, r)
    <3>1. call'[u].row = r /\ call'[u].gen = entry[r].gen /\ entry' = entry
      BY <1>1, <2>1 DEF UndoGet, TInv, TypeOK, WriteCall
    <3> QED
      BY <1>1, <3>1, Zenon
  <2>2. CASE Starts(u, r)
    <3>1. call'[u].row = r /\ call'[u].gen = entry[r].gen /\ entry' = entry
      BY <2>2, StartsEffect DEF StartCall, TInv, TypeOK
    <3> QED
      BY <1>1, <3>1, Zenon
  <2> QED
    BY <1>1, <2>1, <2>2
<1>2. CASE pc[u] \in {"scan", "undorow"} /\ call'[u] = call[u]
  <2> DEFINE r == call[u].row
  <2>1. r \in RowID
    BY <1>2 DEF TInv, CallOK
  <2>2. ~PushVersion(u)
    BY <1>2, ZenonT(20) DEF PushVersion, Goto
  <2>3. \E w \in rows[r] : w.begin = Id(u)
    BY <1>2, <2>1, <2>2, BeginFrom, ZenonT(20)
  <2>4. entry[r].live /\ entry[r].gen = call[u].gen
    BY <1>2, <2>3, SMTT(40) DEF UndoOK
  <2>5. entry'[r] = entry[r]
    BY <1>2, <2>1, <2>4, EntrySteps
  <2> QED
    BY <1>2, <2>4, <2>5, ZenonT(20)
<1> QED
  BY <1>1, <1>2, UndoHolds, ZenonT(20)

\* End marks: only delete() makes one, and its write set learns of it next.
LEMMA EndMarksNext ==
  ASSUME TInv, LockOK, EndMarks, [Next]_vars
  PROVE  EndMarks'
<1> SUFFICES ASSUME NEW s \in RowID, NEW v \in rows'[s], NEW u \in TxID, v.end = Id(u)
             PROVE  OwesEnd(u, s)'
  BY DEF EndMarks
<1>1. ASSUME NEW w \in rows[s], w.end = Id(u), ~Rewrite(u, s)
      PROVE  OwesEnd(u, s)'
  <2>1. OwesEnd(u, s)
    BY <1>1 DEF EndMarks
  <2> QED
    BY <1>1, <2>1, OwesNext, ZenonT(20)
<1>2. ASSUME Rewrite(u, s) PROVE FALSE
  BY <1>2, RewrittenEnds DEF TInv
<1>3. ASSUME NEW t \in TxID, v.end = Id(t), pc'[t] = "mark", call'[t].row = s
      PROVE  OwesEnd(u, s)'
  <2>1. u = t
    BY <1>3, IdInjective, Zenon
  <2> QED
    BY <1>3, <2>1 DEF OwesEnd
<1>4. CASE \A x \in RowID : rows'[x] \subseteq rows[x]
  BY <1>1, <1>2, <1>4, SMTT(40)
<1>5. ASSUME NEW t \in TxID, NEW r \in RowID, Delete(t, r)
      PROVE  OwesEnd(u, s)'
  <2>1. v \in rows[s] \/ (v.end = Id(t) /\ pc'[t] = "mark" /\ call'[t].row = s)
    BY <1>5, DeletedVersions, SMTT(40) DEF TInv
  <2> QED
    BY <1>1, <1>2, <1>3, <2>1, SMTT(40)
<1>6. ASSUME NEW t \in TxID, CheckConflict(t) PROVE OwesEnd(u, s)'
  <2>1. v \in rows[s] \/ (v.end = Id(t) /\ pc'[t] = "mark" /\ call'[t].row = s)
    BY <1>6, CheckedVersions DEF TInv
  <2> QED
    BY <1>1, <1>2, <1>3, <2>1, SMTT(40)
<1>7. ASSUME NEW t \in TxID, PushVersion(t) PROVE OwesEnd(u, s)'
  <2>1. \E w \in rows[s] : w.end = v.end
    BY <1>7, PushedVersions, NoneNotStamp DEF TInv
  <2> QED
    BY <1>1, <1>2, <2>1, SMTT(40)
<1>8. ASSUME NEW t \in TxID, NEW r \in RowID, Rewrite(t, r) PROVE OwesEnd(u, s)'
  <2>1. \E w \in rows[s] : w.end = Id(u)
    BY <1>8, RewrittenEnds DEF TInv
  <2> QED
    BY <1>1, <1>2, <2>1
<1> QED
  BY <1>4, <1>5, <1>6, <1>7, <1>8, RowSteps, Zenon DEF Deletes

-----------------------------------------------------------------------------
\* Nothing is marked, and no call is under way, at the start.
LEMMA MarksInit == Init => TInv /\ MarksInv
<1> SUFFICES ASSUME Init PROVE TInv /\ MarksInv
  OBVIOUS
<1>1. TInv
  BY TypeInit
<1>2. UndoOK /\ PcState /\ InsertInWriteSet /\ LockOK /\ UnlinkedEmpty
  BY Zenon DEF Init, UndoOK, PcState, InsertInWriteSet, LockOK, UnlinkedEmpty, NoTransaction
<1>3. ASSUME NEW r \in RowID, NEW v \in rows[r]
      PROVE  v.begin = Timestamp(0) /\ v.end = None
  <2>1. v \in {[rank |-> 1, begin |-> Timestamp(0), end |-> None]}
    BY Zenon DEF Init
  <2> QED
    BY <2>1
<1>4. BeginMarks /\ EndMarks
  BY <1>3, IdNotStamp, NoneNotStamp DEF BeginMarks, EndMarks
<1> QED
  BY <1>1, <1>2, <1>4 DEF MarksInv

LEMMA MarksNext == TInv /\ MarksInv /\ [Next]_vars => TInv' /\ MarksInv'
<1> SUFFICES ASSUME TInv, MarksInv, [Next]_vars PROVE TInv' /\ MarksInv'
  OBVIOUS
<1>3. TInv'
  BY TypeNext
<1> QED
  BY <1>3, UndoOKNext, ControlNext, BeginMarksNext, EndMarksNext,
     UnlinkedEmptyNext, LockOKNext DEF MarksInv

\* The invariant says what MarksResolved says: a begin mark's transaction is in
\* the middle of its life, hence tracked; an untracked one behind an end mark is
\* a finished rollback.
LEMMA MarksInvImplies == TInv /\ MarksInv => MarksResolved
<1> SUFFICES ASSUME TInv, MarksInv, NEW r \in RowID, NEW v \in rows[r]
             PROVE  /\ v.begin.kind = "tx" => Tracked(v.begin.at)
                    /\ v.end.kind = "tx" /\ ~Tracked(v.end.at) => pc[v.end.at] = "aborted"
  BY DEF MarksResolved
<1>0. v \in RowVersion
  BY DEF TInv, TypeOK
<1>1. \A u \in TxID : pc[u] \notin {"start", "begin", "committed", "aborted"} => Tracked(u)
  BY DEF MarksInv, PcState, Tracked, TInv, TypeOK, Control
<1>2. ASSUME v.begin.kind = "tx" PROVE Tracked(v.begin.at)
  <2>1. v.begin.at \in TxID /\ v.begin = Id(v.begin.at)
    BY <1>0, <1>2, SMTT(40) DEF RowVersion, BeginStamp, Id
  <2>2. OwesBegin(v.begin.at, r)
    BY <2>1 DEF MarksInv, BeginMarks
  <2> QED
    BY <1>1, <2>1, <2>2, ZenonT(20) DEF OwesBegin
<1>3. ASSUME v.end.kind = "tx", ~Tracked(v.end.at) PROVE pc[v.end.at] = "aborted"
  <2>1. v.end.at \in TxID /\ v.end = Id(v.end.at)
    BY <1>0, <1>3 DEF RowVersion, EndStamp, BeginStamp, Id, None
  <2>2. OwesEnd(v.end.at, r)
    BY <2>1 DEF MarksInv, EndMarks
  <2> QED
    BY <1>1, <1>3, <2>1, <2>2, SMTT(40) DEF OwesEnd
<1> QED
  BY <1>2, <1>3

\* The inductive invariant holds in every reachable state of the store.
THEOREM MarksInvariant == Spec => [](TInv /\ MarksInv)
<1>1. (TInv /\ MarksInv) /\ UNCHANGED vars => (TInv /\ MarksInv)'
  BY MarksNext
<1> QED
  BY MarksInit, MarksNext, PTL DEF Spec

\* MarksResolved for every set of transactions and rows: whatever commit_tx,
\* rollback_tx, delete() and the collector interleave, a begin mark names a
\* tracked transaction and a dangling end mark names a rolled back one.
THEOREM MarksAreResolved == Spec => []MarksResolved
BY MarksInvariant, MarksInvImplies, PTL

-----------------------------------------------------------------------------
(* The log                                                                 *)

LEMMA LogGrows ==
  ASSUME [Next]_vars
  PROVE  log \subseteq log'
<1>1. ASSUME NEW t \in TxID, TxStep(t) PROVE log \subseteq log'
  <2>1. CASE Log(t)
    BY <2>1 DEF Log
  <2>2. CASE UNCHANGED log
    BY <2>2
  <2> QED
    BY <1>1, <2>1, <2>2, ZenonT(60)
       DEF TxStep, DrawBeginTs, Track, StartInsert, DeleteGet, Delete, CheckConflict, MarkWriteSet, insert,
           GetOrInsertEntry, PushVersion, read, DrawEndTs, Prepare, LogFails, Publish, Rewrite,
           CommitDone, Abort, UndoGet, UndoRow, Terminate, RemoveTx
<1>2. CASE GcStep \/ UNCHANGED vars
  BY <1>2, Zenon DEF GcStep, GcStart, GcNext, GcScan, GcScanned, GcRemove, GcDone, vars
<1> QED
  BY <1>1, <1>2, Zenon DEF Next

\* Between the log and the last rewrite a transaction keeps its end timestamp.
LEMMA LoggedStays ==
  ASSUME TInv, [Next]_vars, NEW u \in TxID, pc'[u] \in {"publish", "rewrite"}
  PROVE  \/ pc[u] \in {"publish", "rewrite"} /\ txs'[u].end_ts = txs[u].end_ts
         \/ Log(u)
<1>0. txs \in [TxID -> Transaction] /\ pc \in [TxID -> Control]
  BY TypesHold DEF Types
<1>1. CASE DrawBeginTs(u) \/ Track(u) \/ DrawEndTs(u) \/ Prepare(u) \/ LogFails(u)
           \/ CommitDone(u) \/ insert(u) \/ GetOrInsertEntry(u) \/ PushVersion(u) \/ Terminate(u)
           \/ RemoveTx(u) \/ UndoRow(u)
  BY <1>0, <1>1, Zenon DEF DrawBeginTs, Track, DrawEndTs, Prepare, LogFails, CommitDone, insert,
                    GetOrInsertEntry, PushVersion, Terminate, RemoveTx, UndoRow, Goto
<1>2. CASE MarkWriteSet(u) \/ Abort(u) \/ CheckConflict(u)
           \/ \E r \in RowID : Starts(u, r) \/ read(u, r) \/ UndoGet(u, r)
  BY <1>0, <1>2, StartsEffect, Zenon
     DEF MarkWriteSet, Abort, CheckConflict, Conflict, Mark, read, UndoGet, Goto
<1>3. CASE Deletes(u)
  BY <1>3, DeleteFrame DEF Deletes
<1>4. CASE Publish(u) \/ \E r \in RowID : Rewrite(u, r)
  BY <1>0, <1>4 DEF Transaction, Publish, Rewrite, Goto, SetState
<1>5. CASE GcStep \/ UNCHANGED vars \/ \E t \in TxID \ {u} : TxStep(t)
  BY <1>5, CollectorFrame, OthersStay
<1>6. CASE TxStep(u)
  BY <1>1, <1>2, <1>3, <1>4, <1>6, ZenonT(30) DEF TxStep, Starts, Deletes
<1> QED
  BY <1>5, <1>6, Zenon DEF Next

\* A commit timestamp was on the version before the step, or it takes the place of
\* the mark of the transaction that rewrites the row.
LEMMA StampFrom ==
  ASSUME TInv, LockOK, [Next]_vars, NEW s \in RowID, NEW v \in rows'[s], v.begin.kind = "ts"
  PROVE  \/ \E w \in rows[s] : w.begin = v.begin
         \/ \E t \in TxID : /\ pc[t] = "rewrite" /\ v.begin = Timestamp(txs[t].end_ts)
                            /\ \E w \in rows[s] : w.begin = Id(t)
<1> DEFINE Old == \E w \in rows[s] : w.begin = v.begin
           New(t) == /\ pc[t] = "rewrite" /\ v.begin = Timestamp(txs[t].end_ts)
                     /\ \E w \in rows[s] : w.begin = Id(t)
<1> SUFFICES Old \/ \E t \in TxID : New(t)
  OBVIOUS
<1>0. TypeOK /\ CallOK
  BY DEF TInv
<1>1. ASSUME \A x \in RowID : rows'[x] \subseteq rows[x] PROVE Old
  BY <1>1
<1>2. ASSUME NEW t \in TxID, Deletes(t) \/ CheckConflict(t) PROVE Old
  BY <1>2, BeginsKept, Zenon
<1>3. ASSUME NEW t \in TxID, PushVersion(t) PROVE Old
  <2>1. v.begin # Id(t)
    BY DEF Id
  <2> QED
    BY <1>0, <1>3, <2>1, PushedVersions, Zenon
<1>4. ASSUME NEW t \in TxID, NEW r \in RowID, Rewrite(t, r) PROVE Old \/ New(t)
  <2>1. pc[t] = "rewrite"
    BY <1>4, Zenon DEF Rewrite
  <2> QED
    BY <1>0, <1>4, <2>1, RewriteEffect
<1> HIDE DEF Old, New
<1> QED
  BY <1>1, <1>2, <1>3, <1>4, RowSteps, ZenonT(30) DEF Deletes

LEMMA LoggedNext ==
  ASSUME TInv, MarksInv, LoggedInv, [Next]_vars
  PROVE  LoggedInv'
<1>0. LockOK /\ BeginMarks
  BY DEF MarksInv
<1>1. ASSUME NEW r \in RowID, NEW x, InLog(r, x) PROVE InLog(r, x)'
  BY <1>1, LogGrows, Zenon DEF InLog
<1>2. ASSUME NEW s \in RowID, NEW v \in rows'[s], v.begin.kind = "ts"
      PROVE  InLog(s, v.begin)'
  <2>1. CASE \E w \in rows[s] : w.begin = v.begin
    BY <1>1, <1>2, <2>1, Zenon DEF LoggedInv
  <2>2. ASSUME NEW t \in TxID, NEW w \in rows[s], pc[t] = "rewrite",
               v.begin = Timestamp(txs[t].end_ts), w.begin = Id(t)
        PROVE  InLog(s, v.begin)'
    BY <1>1, <2>2, Zenon DEF LoggedInv
  <2> QED
    BY <1>0, <1>2, <2>1, <2>2, StampFrom, Zenon
<1>3. ASSUME NEW s \in RowID, NEW v \in rows'[s], NEW u \in TxID, v.begin = Id(u),
             pc'[u] \in {"publish", "rewrite"}
      PROVE  InLog(s, Timestamp(txs[u].end_ts))'
  <2>1. ~PushVersion(u)
    BY <1>3, TypesHold, Zenon DEF PushVersion, Goto, Types
  <2>2. PICK w \in rows[s] : w.begin = Id(u)
    BY <1>0, <1>3, <2>1, BeginFrom, Zenon
  <2>3. CASE pc[u] \in {"publish", "rewrite"} /\ txs'[u].end_ts = txs[u].end_ts
    <3>1. InLog(s, Timestamp(txs[u].end_ts))
      BY <2>2, <2>3, Zenon DEF LoggedInv
    <3>2. InLog(s, Timestamp(txs[u].end_ts)) => InLog(s, Timestamp(txs[u].end_ts))'
      BY <2>3, LogGrows, Zenon DEF InLog, Timestamp
    <3> QED
      BY <3>1, <3>2
  <2>4. CASE Log(u)
    <3> DEFINE l == LogEntry(s, rewritten_for_commit(w, u))
    <3>1. s \in txs[u].write_set /\ owned(w, u)
      BY <1>0, <2>2, Zenon DEF BeginMarks, OwesBegin, owned
    <3>2. l \in log'
      <4>1. l \in LogRecord(u)
        BY <3>1 DEF LogRecord
      <4> QED
        BY <2>4, <4>1, Zenon DEF Log
    <3>3. w \in RowVersion
      BY TypesHold, Zenon DEF Types
    <3>4. l.row = s /\ l.begin = Timestamp(txs[u].end_ts)
      BY <2>2, <3>3 DEF LogEntry, rewritten_for_commit, RowVersion
    <3>5. txs' = txs
      BY <2>4, Zenon DEF Log
    <3> HIDE DEF l
    <3> QED
      BY <3>2, <3>4, <3>5, Zenon DEF InLog, Timestamp
  <2> QED
    BY <1>3, <2>3, <2>4, LoggedStays, Zenon
<1> QED
  BY <1>2, <1>3, Zenon DEF LoggedInv

-----------------------------------------------------------------------------
(* What a reader has read                                                  *)

LEMMA LoggedImplies == TInv /\ MarksInv /\ LoggedInv => LoggedBeforeVisible
<1> SUFFICES ASSUME TInv, MarksInv, LoggedInv, NEW t \in TxID, NEW r \in RowID,
                    NEW v \in rows[r], is_begin_visible(t, v), v.begin # Id(t)
             PROVE  InLog(r, Timestamp(CommitTsOf(v)))
  BY Zenon DEF LoggedBeforeVisible, InLog
<1>1. ASSUME NEW u \in TxID, txs[u].state = "Committed" PROVE pc[u] = "rewrite"
  BY <1>1, TypesHold, SMTT(30) DEF MarksInv, PcState, Types, Control
<1> QED
  BY <1>1, SeenCommitted, Zenon DEF LoggedInv

\* read() adds what is logged, of a commit no later than the reader's begin.
LEMMA ReadNext ==
  ASSUME TInv, MarksInv, LoggedInv, ReadsInv, NEW t \in TxID, NEW r \in RowID, read(t, r)
  PROVE  ReadsInv'
<1>0. /\ pc[t] = "idle" /\ log' = log /\ pc' = pc
      /\ observed' = [observed EXCEPT ![t] = @ \cup {<<r, x>> : x \in Reads(t, r)}]
      /\ \A u \in TxID : txs'[u].begin_ts = txs[u].begin_ts /\ Tracked(u)' = Tracked(u)
  BY TypesHold, SMTT(30) DEF read, Tracked, Types, Transaction
<1>1. observed \in [TxID -> SUBSET (RowID \X BeginStamp)]
  BY DEF TInv, TypeOK
<1>2. ASSUME NEW x \in Reads(t, r), x # Id(t)
      PROVE  InLog(r, x) /\ x.at <= txs[t].begin_ts
  <2>1. PICK v \in VisibleVersions(t, r) :
               x = IF v.begin = Id(t) THEN v.begin ELSE Timestamp(CommitTsOf(v))
    BY Zenon DEF Reads
  <2>2. v \in rows[r] /\ is_begin_visible(t, v) /\ v.begin # Id(t)
    BY <1>2, <2>1, Zenon DEF VisibleVersions, is_visible_to
  <2>3. x = Timestamp(CommitTsOf(v))
    BY <2>1, <2>2, Zenon
  <2>4. Live(t)
    BY <1>0, Zenon DEF MarksInv, PcState, Live
  <2>5. InLog(r, x)
    BY <2>2, <2>3, <2>4, LoggedImplies, Zenon DEF LoggedBeforeVisible, InLog
  <2>6. CommitTsOf(v) <= txs[t].begin_ts
    BY <2>2, SeenCommitted, Zenon
  <2>7. x.at = CommitTsOf(v)
    BY <2>3 DEF Timestamp
  <2> QED
    BY <2>5, <2>6, <2>7
<1>3. ASSUME NEW u \in TxID, NEW x \in observed'[u], x[2] # Id(u)
      PROVE  /\ \E l \in log' : l.row = x[1] /\ l.begin = x[2]
             /\ Tracked(u)' => x[2].at <= txs'[u].begin_ts
  <2>1. CASE x \in observed[u]
    BY <1>0, <1>3, <2>1, Zenon DEF ReadsInv, NoDirtyRead
  <2>2. CASE u = t /\ x \in {<<r, y>> : y \in Reads(t, r)}
    <3>1. PICK y \in Reads(t, r) : x = <<r, y>>
      BY <2>2
    <3>2. x[1] = r /\ x[2] = y
      BY <3>1
    <3> QED
      BY <1>0, <1>2, <1>3, <2>2, <3>2, Zenon DEF InLog
  <2> QED
    BY <1>0, <1>1, <1>3, <2>1, <2>2, Zenon
<1>4. \A u \in TxID : pc'[u] \in {"start", "begin"} => observed'[u] = {}
  BY <1>0, <1>1 DEF ReadsInv
<1> QED
  BY <1>3, <1>4, Zenon DEF ReadsInv, NoDirtyRead

\* Nobody else adds to what was read, and a begin timestamp stays as it is while
\* its transaction is tracked.
LEMMA OtherReads ==
  ASSUME TInv, PcState, [Next]_vars
  PROVE  \/ \E t \in TxID, r \in RowID : read(t, r)
         \/ /\ UNCHANGED observed
            /\ \A u \in TxID :
                 /\ pc'[u] \in {"start", "begin"} => pc[u] \in {"start", "begin"}
                 /\ Tracked(u)' => pc[u] = "begin"
                                   \/ (Tracked(u) /\ txs'[u].begin_ts = txs[u].begin_ts)
<1> DEFINE Kept(u) == /\ pc'[u] \in {"start", "begin"} => pc[u] \in {"start", "begin"}
                      /\ Tracked(u)' => pc[u] = "begin"
                           \/ (Tracked(u) /\ txs'[u].begin_ts = txs[u].begin_ts)
<1>0. txs \in [TxID -> Transaction] /\ pc \in [TxID -> Control]
  BY TypesHold DEF Types
<1>1. ASSUME NEW t \in TxID,
             DrawBeginTs(t) \/ Track(t) \/ DrawEndTs(t) \/ Prepare(t) \/ Log(t) \/ LogFails(t)
      PROVE  Kept(t)
  BY <1>0, <1>1 DEF Transaction, Tracked, PcState, DrawBeginTs, Track, DrawEndTs, Prepare, Log,
                    LogFails, Goto, SetState
<1>2. ASSUME NEW t \in TxID,
             \/ Publish(t) \/ CommitDone(t) \/ Abort(t) \/ Terminate(t) \/ RemoveTx(t)
             \/ \E r \in RowID : Rewrite(t, r)
      PROVE  Kept(t)
  BY <1>0, <1>2 DEF Transaction, Tracked, PcState, Publish, CommitDone, Abort, Terminate, RemoveTx,
                    Rewrite, Goto, SetState, NoTransaction
<1>3. ASSUME NEW t \in TxID, MarkWriteSet(t) \/ insert(t) \/ CheckConflict(t) \/ Deletes(t)
      PROVE  Kept(t)
  <2>1. CASE MarkWriteSet(t) \/ insert(t)
    BY <1>0, <2>1 DEF Transaction, Tracked, PcState, MarkWriteSet, insert, Goto
  <2>2. CASE CheckConflict(t) \/ Deletes(t)
    BY <1>0, <2>2, DeleteFrame DEF Tracked, PcState, CheckConflict, Conflict, Mark, Deletes
  <2> QED
    BY <1>3, <2>1, <2>2
<1>4. ASSUME NEW t \in TxID,
             \/ GetOrInsertEntry(t) \/ PushVersion(t) \/ UndoRow(t)
             \/ \E r \in RowID : Starts(t, r) \/ UndoGet(t, r)
      PROVE  Kept(t)
  BY <1>0, <1>4, StartsEffect, Zenon
     DEF Tracked, GetOrInsertEntry, PushVersion, UndoRow, UndoGet, Goto
<1>5. ASSUME NEW t \in TxID, TxStep(t), \A r \in RowID : ~read(t, r)
      PROVE  UNCHANGED observed /\ \A u \in TxID : Kept(u)
  <2>1. UNCHANGED observed
    BY <1>5, ZenonT(60)
       DEF TxStep, DrawBeginTs, Track, StartInsert, DeleteGet, Delete, CheckConflict, MarkWriteSet, insert,
           GetOrInsertEntry, PushVersion, DrawEndTs, Prepare, Log, LogFails, Publish, Rewrite,
           CommitDone, Abort, UndoGet, UndoRow, Terminate, RemoveTx
  <2>2. ASSUME NEW u \in TxID, u # t PROVE Kept(u)
    BY <1>5, <2>2, OthersStay DEF Tracked
  <2> HIDE DEF Kept
  <2>3. Kept(t)
    BY <1>1, <1>2, <1>3, <1>4, <1>5, ZenonT(30) DEF TxStep, Starts, Deletes
  <2> QED
    BY <2>1, <2>2, <2>3, Zenon
<1>6. CASE GcStep \/ UNCHANGED vars
  <2>1. UNCHANGED observed
    BY <1>6, Zenon DEF GcStep, GcStart, GcNext, GcScan, GcScanned, GcRemove, GcDone, vars
  <2> QED
    BY <1>6, <2>1, CollectorFrame DEF Tracked
<1> HIDE DEF Kept
<1> QED
  BY <1>5, <1>6, Zenon DEF Next, Kept

LEMMA ReadsNext ==
  ASSUME TInv, MarksInv, LoggedInv, ReadsInv, [Next]_vars
  PROVE  ReadsInv'
<1>1. CASE \E t \in TxID, r \in RowID : read(t, r)
  BY <1>1, ReadNext, Zenon
<1>2. CASE /\ UNCHANGED observed
           /\ \A u \in TxID :
                /\ pc'[u] \in {"start", "begin"} => pc[u] \in {"start", "begin"}
                /\ Tracked(u)' => pc[u] = "begin"
                                  \/ (Tracked(u) /\ txs'[u].begin_ts = txs[u].begin_ts)
  <2>1. \A u \in TxID : pc'[u] \in {"start", "begin"} => observed'[u] = {}
    BY <1>2, Zenon DEF ReadsInv
  <2>2. ASSUME NEW u \in TxID, NEW x \in observed'[u], x[2] # Id(u)
        PROVE  /\ \E l \in log' : l.row = x[1] /\ l.begin = x[2]
               /\ Tracked(u)' => x[2].at <= txs'[u].begin_ts
    <3>1. x \in observed[u] /\ pc[u] # "begin"
      BY <1>2, <2>2, Zenon DEF ReadsInv
    <3> QED
      BY <1>2, <2>2, <3>1, LogGrows, Zenon DEF ReadsInv, NoDirtyRead
  <2> QED
    BY <2>1, <2>2, Zenon DEF ReadsInv, NoDirtyRead
<1> QED
  BY <1>1, <1>2, OtherReads, Zenon DEF MarksInv

LEMMA LoggedInit == Init => LoggedInv /\ ReadsInv
<1> SUFFICES ASSUME Init PROVE LoggedInv /\ ReadsInv
  OBVIOUS
<1>1. ASSUME NEW r \in RowID, NEW v \in rows[r]
      PROVE  r \in Preload /\ v = [rank |-> 1, begin |-> Timestamp(0), end |-> None]
  BY Zenon DEF Init
<1>2. ASSUME NEW r \in RowID, NEW v \in rows[r]
      PROVE  v.begin = Timestamp(0) /\ InLog(r, Timestamp(0))
  <2>1. v.begin = Timestamp(0)
    BY <1>1
  <2>2. [row |-> r, begin |-> Timestamp(0), end |-> None] \in log
    BY <1>1, Zenon DEF Init
  <2>3. InLog(r, Timestamp(0))
    BY <2>2 DEF InLog
  <2> QED
    BY <2>1, <2>3
<1>3. \A u \in TxID : pc[u] = "start" /\ observed[u] = {}
  BY Zenon DEF Init
<1> QED
  BY <1>2, <1>3, Zenon DEF LoggedInv, ReadsInv, NoDirtyRead

LEMMA LogInvariant == Spec => [](TInv /\ MarksInv /\ LoggedInv /\ ReadsInv)
<1>1. Init => TInv /\ MarksInv /\ LoggedInv /\ ReadsInv
  BY MarksInit, LoggedInit
<1>2. TInv /\ MarksInv /\ LoggedInv /\ ReadsInv /\ [Next]_vars
        => (TInv /\ MarksInv /\ LoggedInv /\ ReadsInv)'
  BY MarksNext, LoggedNext, ReadsNext, Zenon
<1> QED
  BY <1>1, <1>2, PTL DEF Spec

\* LoggedBeforeVisible for every set of transactions and rows: commit_tx hands its
\* versions to log_tx before the store of the Committed state that makes them
\* visible, and no rewrite, rollback or collection afterwards shows one that is not
\* in the log.
THEOREM VisibleIsLogged == Spec => []LoggedBeforeVisible
BY LogInvariant, LoggedImplies, PTL

\* NoDirtyRead for every set of transactions and rows: what read() has returned of
\* another transaction is in the log and was committed before the reader began.
THEOREM ReadsAreCommitted == Spec => []NoDirtyRead
<1>1. ReadsInv => NoDirtyRead
  BY DEF ReadsInv
<1> QED
  BY <1>1, LogInvariant, PTL

-----------------------------------------------------------------------------
(* The steps that write to a row or move a timestamp, and all the others   *)

Writing(t) == pc[t] \in {"insert", "entry", "push", "check", "mark"}

\* Nothing about u changes that the invariant speaks of.
QuietFor(u) ==
  /\ Begun(u)' => Begun(u)
  /\ Ending(u)' => Ending(u)
  /\ RolledBack(u) => RolledBack(u)'
  /\ pc[u] = "rewrite" => pc'[u] \in {"rewrite", "committed"}
  /\ pc'[u] = "rewrite" => pc[u] = "rewrite" /\ todo'[u] = todo[u]
  /\ \/ txs'[u].begin_ts = txs[u].begin_ts /\ txs'[u].end_ts = txs[u].end_ts
     \/ /\ pc'[u] \in {"committed", "aborted"}
        /\ txs'[u].begin_ts = 0 /\ txs'[u].end_ts = 0

\* A step that draws no timestamp, publishes nothing and marks, adds or rewrites
\* no version.
Quiet ==
  /\ clock' = clock
  /\ superseded' = superseded
  /\ \A s \in RowID : rows'[s] \subseteq rows[s]
  /\ \A u \in TxID : QuietFor(u)

\* No write call starts, and none comes to wait on a version.
SameCall(u) ==
  /\ Writing(u)' => Writing(u) /\ call'[u].row = call[u].row
  /\ pc'[u] = "check" => pc[u] = "check" /\ call'[u] = call[u]
SameCalls == \A u \in TxID : SameCall(u)

\* The steps that do write a version or a timestamp, or publish.
Loud(t) ==
  \/ DrawBeginTs(t) \/ DrawEndTs(t) \/ Publish(t) \/ CheckConflict(t) \/ PushVersion(t)
  \/ \E r \in RowID : Starts(t, r) \/ Rewrite(t, r)
  \/ Deletes(t)

\* Everything else t does, as far as the invariant goes.
LEMMA QuietMove ==
  ASSUME TInv, NEW t \in TxID, TxStep(t), ~Loud(t)
  PROVE  /\ clock' = clock /\ superseded' = superseded
         /\ QuietFor(t) /\ SameCall(t)
<1> DEFINE Goal == clock' = clock /\ superseded' = superseded /\ QuietFor(t) /\ SameCall(t)
<1>0. Types
  BY TypesHold
<1>1. ASSUME Track(t) \/ Prepare(t) \/ Log(t) \/ LogFails(t) PROVE Goal
  BY <1>0, <1>1 DEF Types, Transaction, Track, Prepare, Log, LogFails, Goto, SetState,
                    QuietFor, SameCall, Writing, Begun, Ending, RolledBack
<1>2. ASSUME CommitDone(t) \/ RemoveTx(t) PROVE Goal
  <2>1. UNCHANGED <<clock, superseded>>
    BY <1>2, Zenon DEF CommitDone, RemoveTx
  <2>2. /\ pc[t] \in {"rewrite", "remove"} /\ pc'[t] \in {"committed", "aborted"}
        /\ pc[t] = "rewrite" => pc'[t] = "committed"
        /\ pc[t] = "remove" => pc'[t] = "aborted"
    BY <1>0, <1>2 DEF Types, CommitDone, RemoveTx, Goto
  <2>3. txs'[t] = NoTransaction
    BY <1>0, <1>2 DEF Types, CommitDone, RemoveTx
  <2>4. txs'[t].begin_ts = 0 /\ txs'[t].end_ts = 0
    BY <2>3 DEF NoTransaction
  <2>5. QuietFor(t)
    BY <2>2, <2>4 DEF QuietFor, Begun, Ending, RolledBack
  <2>6. SameCall(t)
    BY <2>2 DEF SameCall, Writing
  <2> QED
    BY <2>1, <2>5, <2>6
<1>3. ASSUME Abort(t) \/ Terminate(t) PROVE Goal
  BY <1>0, <1>3 DEF Types, Transaction, Abort, Terminate, Goto, SetState,
                    QuietFor, SameCall, Writing, Begun, Ending, RolledBack
<1>4. ASSUME MarkWriteSet(t) \/ insert(t) \/ \E r \in RowID : read(t, r) PROVE Goal
  <2>1. UNCHANGED <<clock, superseded, todo>>
    BY <1>4, Zenon DEF MarkWriteSet, insert, read
  <2>2. txs'[t].begin_ts = txs[t].begin_ts /\ txs'[t].end_ts = txs[t].end_ts
    BY <1>0, <1>4 DEF Types, Transaction, MarkWriteSet, insert, read
  <2>3. /\ pc[t] \in {"mark", "insert", "idle"} /\ pc'[t] \in {"idle", "insert", "entry"}
        /\ pc[t] = "idle" => pc'[t] = "idle"
        /\ pc'[t] # "idle" => call'[t] = call[t]
    BY <1>0, <1>4 DEF Types, MarkWriteSet, insert, read, Goto
  <2> QED
    BY <2>1, <2>2, <2>3, Zenon DEF QuietFor, SameCall, Writing, Begun, Ending, RolledBack
<1>5. ASSUME GetOrInsertEntry(t) PROVE Goal
  <2>1. call'[t].row = call[t].row
    BY <1>0, <1>5 DEF Types, GetOrInsertEntry, WriteCall
  <2>2. /\ pc[t] = "entry" /\ pc'[t] = "push" /\ UNCHANGED <<clock, txs, todo, superseded>>
    BY <1>0, <1>5 DEF Types, GetOrInsertEntry, Goto
  <2> QED
    BY <2>1, <2>2, Zenon DEF QuietFor, SameCall, Writing, Begun, Ending, RolledBack
<1>6. ASSUME UndoRow(t) \/ \E r \in RowID : UndoGet(t, r) PROVE Goal
  <2>1. /\ pc[t] \in {"undo", "undorow"} /\ pc'[t] \in {"undo", "undorow"}
        /\ UNCHANGED <<clock, txs, superseded>>
    BY <1>0, <1>6, ZenonT(30) DEF Types, UndoRow, UndoGet, Goto
  <2> QED
    BY <2>1, Zenon DEF QuietFor, SameCall, Writing, Begun, Ending, RolledBack
<1> HIDE DEF Goal
<1>7. Goal
  BY <1>1, <1>2, <1>3, <1>4, <1>5, <1>6, ZenonT(30) DEF TxStep, Starts, Loud, Deletes
<1> QED
  BY <1>7 DEF Goal

LEMMA StepKinds ==
  ASSUME TInv, [Next]_vars
  PROVE  \/ Quiet /\ SameCalls
         \/ \E t \in TxID : \/ DrawBeginTs(t) \/ DrawEndTs(t) \/ Publish(t)
                            \/ CheckConflict(t) \/ PushVersion(t)
         \/ \E t \in TxID, r \in RowID : Starts(t, r) \/ Rewrite(t, r)
         \/ \E t \in TxID : Deletes(t)
<1>1. ASSUME NEW u \in TxID, pc'[u] = pc[u], txs'[u] = txs[u], call'[u] = call[u],
             todo'[u] = todo[u]
      PROVE  QuietFor(u) /\ SameCall(u)
  BY <1>1 DEF QuietFor, SameCall, Writing, Begun, Ending, RolledBack
<1>2. ASSUME \A t \in TxID : ~Loud(t) PROVE \A s \in RowID : rows'[s] \subseteq rows[s]
  BY <1>2, RowSteps, ZenonT(30) DEF Loud, Deletes
<1>3. ASSUME NEW t \in TxID, TxStep(t), \A u \in TxID : ~Loud(u)
      PROVE  Quiet /\ SameCalls
  BY <1>1, <1>2, <1>3, QuietMove, OthersStay, Zenon DEF Quiet, SameCalls
<1>4. ASSUME GcStep \/ UNCHANGED vars, \A u \in TxID : ~Loud(u) PROVE Quiet /\ SameCalls
  <2>1. clock' = clock /\ superseded' = superseded
    BY <1>4, Zenon DEF GcStep, GcStart, GcNext, GcScan, GcScanned, GcRemove, GcDone, vars
  <2>2. \A u \in TxID : QuietFor(u) /\ SameCall(u)
    BY <1>1, <1>4, CollectorFrame
  <2> QED
    BY <1>2, <1>4, <2>1, <2>2, Zenon DEF Quiet, SameCalls
<1>5. CASE \A u \in TxID : ~Loud(u)
  BY <1>3, <1>4, <1>5, ZenonT(30) DEF Next
<1>6. CASE \E u \in TxID : Loud(u)
  BY <1>6, ZenonT(30) DEF Loud, Deletes
<1> QED
  BY <1>5, <1>6

-----------------------------------------------------------------------------
(* Versions and the transactions behind their marks                        *)

\* A begin mark is a timestamp or names a transaction; an end mark may be absent.
LEMMA StampShape ==
  ASSUME TInv, NEW r \in RowID, NEW v \in rows[r]
  PROVE  /\ v \in RowVersion
         /\ \/ v.begin.kind = "ts" /\ v.begin.at \in Nat /\ v.begin = Timestamp(v.begin.at)
            \/ v.begin.kind = "tx" /\ v.begin.at \in TxID /\ v.begin = Id(v.begin.at)
         /\ \/ v.end = None
            \/ v.end.kind = "ts" /\ v.end.at \in Nat /\ v.end = Timestamp(v.end.at)
            \/ v.end.kind = "tx" /\ v.end.at \in TxID /\ v.end = Id(v.end.at)
<1>1. v \in RowVersion
  BY DEF TInv, TypeOK
<1>2. v.begin \in BeginStamp /\ v.end \in EndStamp
  BY <1>1 DEF RowVersion
<1> QED
  BY <1>1, <1>2 DEF EndStamp, BeginStamp, Timestamp, Id

\* Versions are ordered by a number.
LEMMA BeginTimestampType ==
  ASSUME TInv, NEW r \in RowID, NEW v \in rows[r]
  PROVE  get_begin_timestamp(v.begin) \in Nat
<1>1. \A u \in TxID : txs[u].begin_ts \in Nat
  BY DEF TInv, TypeOK, Transaction
<1>2. \/ v.begin.kind = "ts" /\ v.begin.at \in Nat
      \/ v.begin.kind = "tx" /\ v.begin.at \in TxID
  BY StampShape, Zenon
<1>3. CASE v.begin.kind = "ts" /\ v.begin.at \in Nat
  BY <1>3 DEF get_begin_timestamp
<1>4. CASE v.begin.kind = "tx" /\ v.begin.at \in TxID
  BY <1>1, <1>4 DEF get_begin_timestamp
<1> QED
  BY <1>2, <1>3, <1>4

\* The committed transactions are those that are rewriting their rows.
LEMMA CommittedPc ==
  ASSUME TInv, PcState, NEW t \in TxID
  PROVE  txs[t].state = "Committed" <=> pc[t] = "rewrite"
BY DEF TInv, TypeOK, Control, PcState

\* The transaction behind a begin mark is in the middle of its life.
LEMMA BeginOwner ==
  ASSUME TInv, MarksInv, NEW r \in RowID, NEW v \in rows[r], NEW u \in TxID, v.begin = Id(u)
  PROVE  /\ Tracked(u) /\ Begun(u)
         /\ pc[u] \notin {"start", "begin", "committed", "remove", "aborted"}
         /\ pc[u] \in {"rewrite", "undo", "undorow"} => r \in todo[u]
<1>1. OwesBegin(u, r)
  BY DEF MarksInv, BeginMarks
<1>2. pc[u] \in Control
  BY DEF TInv, TypeOK
<1>3. Tracked(u)
  BY <1>1, <1>2 DEF OwesBegin, Control, MarksInv, PcState, Tracked
<1> QED
  BY <1>1, <1>3, Zenon DEF OwesBegin, Begun

\* What is told of a version by the transaction behind its mark stays through a
\* quiet step.
LEMMA QuietVersion ==
  ASSUME TInv, MarksInv, TInv', MarksInv', Quiet, NEW r \in RowID, NEW v \in rows'[r]
  PROVE  /\ v \in rows[r]
         /\ CommittedBegin(v)' <=> CommittedBegin(v)
         /\ CommitTsOf(v)' = CommitTsOf(v)
         /\ get_begin_timestamp(v.begin)' = get_begin_timestamp(v.begin)
         /\ \A u \in TxID : v.begin = Id(u) => txs'[u].begin_ts = txs[u].begin_ts
<1>1. v \in rows[r]
  BY DEF Quiet
<1>2. CASE v.begin.kind = "ts"
  <2>1. \A u \in TxID : v.begin # Id(u)
    BY <1>2 DEF Id
  <2> QED
    BY <1>1, <1>2, <2>1, Zenon DEF CommittedBegin, CommitTsOf, get_begin_timestamp
<1>3. CASE v.begin.kind = "tx" /\ v.begin.at \in TxID /\ v.begin = Id(v.begin.at)
  <2> DEFINE u == v.begin.at
  <2>1. Tracked(u)
    BY <1>1, <1>3, BeginOwner
  <2>2. Tracked(u)' /\ pc'[u] \notin {"committed", "aborted"}
    <3>1. OwesBegin(u, r)'
      BY <1>3, Zenon DEF MarksInv, BeginMarks
    <3>2. pc'[u] \in Control
      BY <1>3, Zenon DEF TInv, TypeOK
    <3> QED
      BY <1>3, <3>1, <3>2 DEF OwesBegin, Control, MarksInv, PcState, Tracked
  <2>3. txs'[u].begin_ts = txs[u].begin_ts /\ txs'[u].end_ts = txs[u].end_ts
    BY <1>3, <2>2, Zenon DEF Quiet, QuietFor
  <2>4. txs[u].state = "Committed" <=> pc[u] = "rewrite"
    BY <1>3, CommittedPc, SMTT(30) DEF MarksInv
  <2>5. txs'[u].state = "Committed" <=> pc'[u] = "rewrite"
    BY <1>3, ZenonT(20) DEF TInv, TypeOK, Control, MarksInv, PcState
  <2>6. pc[u] = "rewrite" <=> pc'[u] = "rewrite"
    BY <1>3, <2>2, Zenon DEF Quiet, QuietFor
  <2>7. CommittedBegin(v)' <=> CommittedBegin(v)
    BY <1>3, <2>4, <2>5, <2>6, Zenon DEF CommittedBegin
  <2>8. CommitTsOf(v)' = CommitTsOf(v)
    BY <1>3, <2>3, Zenon DEF CommitTsOf
  <2>9. get_begin_timestamp(v.begin)' = get_begin_timestamp(v.begin)
    BY <1>3, <2>1, <2>2, <2>3, Zenon DEF get_begin_timestamp
  <2>10. \A x \in TxID : v.begin = Id(x) => x = u
    BY <1>3 DEF Id
  <2> QED
    BY <1>1, <2>3, <2>7, <2>8, <2>9, <2>10, Zenon
<1> QED
  BY <1>1, <1>2, <1>3, StampShape, Zenon

=============================================================================
