--------------------------- MODULE MvccFirstProofs ---------------------------
(***************************************************************************)
(* The first writer wins: the invariant FirstWriterInv is inductive on top *)
(* of MarksInv and holds NoLostUpdate, for every set of transactions and   *)
(* rows and every choice of client calls.  First the steps that write no   *)
(* version (most change nothing it is about; the rest draw a timestamp or  *)
(* publish a commit) and the commit that rewrites a row; then the steps    *)
(* that add a version to a row or mark one.                                *)
(***************************************************************************)
EXTENDS MvccProofs

USE DEF Linked

\* No transaction inserts a row it already sees.
NoInsertOver == "insert_over" \notin Ops

-----------------------------------------------------------------------------
(* Quiet steps                                                             *)

LEMMA QuietTimes ==
  ASSUME TInv, TInv', TimestampsFresh, StampsFresh, SupersededFresh, Quiet
  PROVE  TimestampsFresh' /\ StampsFresh' /\ SupersededFresh'
<1>0. clock \in Nat /\ \A u \in TxID : txs[u].begin_ts \in Nat /\ txs[u].end_ts \in Nat
  BY DEF TInv, TypeOK, Transaction
<1>1. ASSUME NEW u \in TxID
      PROVE  /\ Begun(u)' => Begun(u) /\ txs'[u].begin_ts = txs[u].begin_ts
             /\ Ending(u)' => Ending(u) /\ txs'[u].begin_ts = txs[u].begin_ts
                              /\ txs'[u].end_ts = txs[u].end_ts
             /\ txs'[u].begin_ts < clock' /\ txs'[u].end_ts < clock'
             /\ Ending(u)' /\ pc'[u] # "rewrite" => pc[u] # "rewrite"
             /\ pc'[u] = "rewrite" => pc[u] = "rewrite" /\ todo'[u] = todo[u]
  <2>1. \/ txs'[u].begin_ts = txs[u].begin_ts /\ txs'[u].end_ts = txs[u].end_ts
        \/ /\ pc'[u] \in {"committed", "aborted"}
           /\ txs'[u].begin_ts = 0 /\ txs'[u].end_ts = 0
    BY DEF Quiet, QuietFor
  <2>2. txs'[u].begin_ts < clock' /\ txs'[u].end_ts < clock'
    BY <1>0, <2>1 DEF Quiet, QuietFor, TimestampsFresh
  <2> QED
    BY <2>1, <2>2, Zenon DEF Quiet, QuietFor, Begun, Ending
<1>2. TimestampsFresh'
  BY <1>1 DEF TimestampsFresh
<1>3. StampsFresh'
  BY <1>1 DEF StampsFresh, Quiet
<1>4. SupersededFresh'
  <2>1. \A u \in TxID : pc'[u] \in {"prepare", "log", "publish"}
          => pc[u] \in {"prepare", "log", "publish"} /\ txs'[u].end_ts = txs[u].end_ts
    BY <1>1 DEF Ending
  <2> QED
    BY <2>1 DEF SupersededFresh, Quiet
<1> QED
  BY <1>2, <1>3, <1>4

LEMMA QuietRows ==
  ASSUME TInv, MarksInv, TInv', MarksInv', Quiet,
         RankOrder, RanksPositive, OwnEnds, OneOpen, Replaced, NoLostUpdate
  PROVE  RankOrder' /\ RanksPositive' /\ OwnEnds' /\ OneOpen' /\ Replaced' /\ NoLostUpdate'
<1>1. RankOrder'
  <2> SUFFICES ASSUME NEW r \in RowID, NEW t \in TxID, NEW v \in rows'[r], NEW w \in rows'[r],
                      w.begin = Id(t), get_begin_timestamp(v.begin)' < txs'[t].begin_ts
               PROVE  v.rank < w.rank
    BY DEF RankOrder
  <2>1. v \in rows[r] /\ w \in rows[r]
    BY DEF Quiet
  <2>2. get_begin_timestamp(v.begin) < txs[t].begin_ts
    BY QuietVersion
  <2> QED
    BY <2>1, <2>2, Zenon DEF RankOrder
<1>2. RanksPositive'
  BY DEF RanksPositive, Quiet
<1>3. OwnEnds'
  <2> SUFFICES ASSUME NEW r \in RowID, NEW t \in TxID, NEW v \in rows'[r],
                      v.begin = Id(t), pc'[t] # "rewrite"
               PROVE  v.end \in {None, Id(t)}
    BY DEF OwnEnds
  <2>1. v \in rows[r]
    BY DEF Quiet
  <2>2. OwesBegin(t, r)'
    BY DEF MarksInv, BeginMarks
  <2>3. pc[t] # "rewrite"
    BY <2>2 DEF Quiet, QuietFor, OwesBegin
  <2> QED
    BY <2>1, <2>3 DEF OwnEnds
<1>4. OneOpen'
  BY DEF OneOpen, Quiet
<1>5. Replaced'
  <2> SUFFICES ASSUME NEW t \in TxID, NEW r \in RowID, NEW v \in rows'[r],
                      ~RolledBack(t)', CommittedBegin(v)', v.end # v.begin,
                      <<r, CommitTsOf(v)'>> \in superseded'[t]
               PROVE  v.end.kind = "ts" \/ v.end = Id(t)
    BY DEF Replaced
  <2>1. /\ v \in rows[r] /\ CommittedBegin(v) /\ CommitTsOf(v)' = CommitTsOf(v)
    BY QuietVersion
  <2>2. ~RolledBack(t) /\ superseded' = superseded
    BY DEF Quiet, QuietFor
  <2> QED
    BY <2>1, <2>2, Zenon DEF Replaced
<1>6. NoLostUpdate'
  BY Zenon DEF NoLostUpdate, Quiet, QuietFor
<1> QED
  BY <1>1, <1>2, <1>3, <1>4, <1>5, <1>6

\* The version a delete() waits on stays committed while its Vec is the row's.
LEMMA QuietChecked ==
  ASSUME TInv, MarksInv, TInv', MarksInv', [Next]_vars, Quiet, CheckedCommitted,
         NEW t \in TxID, pc[t] = "check", pc'[t] = "check", call'[t] = call[t],
         entry'[call[t].row].live, entry'[call[t].row].gen = call[t].gen
  PROVE  CommittedBegin(call[t].rv)'
<1> DEFINE r == call[t].row
           rv == call[t].rv
<1>1. r \in RowID
  BY DEF TInv, CallOK
<1>2. rv \in rows'[r]
  BY Zenon DEF MarksInv, LockOK
<1>3. rv \in rows[r]
  BY <1>1, <1>2, SMTT(30) DEF Quiet
<1>4. entry[r].live
  BY <1>1, <1>3, Zenon DEF MarksInv, UnlinkedEmpty
<1>5. entry'[r] = entry[r]
  BY <1>1, <1>2, <1>4, EntrySteps
<1>6. CommittedBegin(rv)
  BY <1>4, <1>5, Zenon DEF CheckedCommitted
<1> QED
  BY <1>1, <1>2, <1>6, QuietVersion

LEMMA QuietCalls ==
  ASSUME TInv, MarksInv, TInv', MarksInv', [Next]_vars, Quiet, SameCalls,
         NoOwnOpen, CheckedCommitted
  PROVE  NoOwnOpen' /\ CheckedCommitted'
<1>1. NoOwnOpen'
  <2> SUFFICES ASSUME NEW t \in TxID, Writing(t)', NEW v \in rows'[call'[t].row], v.begin = Id(t)
               PROVE  v.end = Id(t)
    BY DEF NoOwnOpen, Writing
  <2>1. Writing(t) /\ call'[t].row = call[t].row
    BY DEF SameCalls, SameCall
  <2>2. call[t].row \in RowID
    BY <2>1, SMTT(30) DEF Writing, TInv, CallOK
  <2>3. v \in rows[call[t].row]
    BY <2>1, <2>2 DEF Quiet
  <2> QED
    BY <2>1, <2>3 DEF NoOwnOpen, Writing
<1>2. CheckedCommitted'
  <2> SUFFICES ASSUME NEW t \in TxID, pc'[t] = "check",
                      entry'[call'[t].row].live, entry'[call'[t].row].gen = call'[t].gen
               PROVE  CommittedBegin(call[t].rv)'
    BY Zenon DEF CheckedCommitted
  <2>1. pc[t] = "check" /\ call'[t] = call[t]
    BY SMTT(30) DEF SameCalls, SameCall
  <2> QED
    BY <2>1, QuietChecked
<1> QED
  BY <1>1, <1>2

-----------------------------------------------------------------------------
(* The clock and the commit point                                          *)

\* What begin_tx's and commit_tx's draws of a timestamp and the store that
\* publishes a commit have in common: the rows stay, and of the transactions that
\* own a version nothing changes that orders it.
Draws(t) == DrawBeginTs(t) \/ DrawEndTs(t) \/ Publish(t)

LEMMA DrawFrame ==
  ASSUME TInv, MarksInv, NEW t \in TxID, Draws(t)
  PROVE  /\ UNCHANGED <<rows, superseded, entry, call>>
         /\ \A u \in TxID :
              /\ u # t => pc'[u] = pc[u] /\ txs'[u] = txs[u] /\ todo'[u] = todo[u]
              /\ pc[u] # "start" => txs'[u].begin_ts = txs[u].begin_ts
              /\ Tracked(u)' <=> Tracked(u)
              /\ pc'[u] # "rewrite" => pc[u] # "rewrite"
              /\ Writing(u)' => Writing(u)
              /\ pc'[u] = "check" => pc[u] = "check"
              /\ RolledBack(u)' <=> RolledBack(u)
              /\ pc[u] = "rewrite" => txs'[u] = txs[u] /\ pc'[u] = "rewrite"
<1>0. /\ txs \in [TxID -> Transaction] /\ pc \in [TxID -> Control]
      /\ todo \in [TxID -> SUBSET RowID]
  BY DEF TInv, TypeOK
<1>1. CASE DrawBeginTs(t)
  BY <1>0, <1>1 DEF DrawBeginTs, Goto, Tracked, Writing, RolledBack
<1>2. CASE DrawEndTs(t)
  BY <1>0, <1>2 DEF DrawEndTs, Goto, Tracked, Writing, RolledBack
<1>3. CASE Publish(t)
  <2>1. pc[t] = "publish" /\ Tracked(t)
    BY <1>3 DEF Publish, Goto, MarksInv, PcState, Tracked
  <2> QED
    BY <1>0, <1>3, <2>1, SMTT(30) DEF Publish, Goto, SetState, Tracked, Writing, RolledBack
<1> QED
  BY <1>1, <1>2, <1>3, Zenon DEF Draws

LEMMA DrawTimes ==
  ASSUME TInv, TInv', TimestampsFresh, StampsFresh, SupersededFresh, NEW t \in TxID, Draws(t)
  PROVE  TimestampsFresh' /\ StampsFresh' /\ SupersededFresh'
<1>0. /\ txs \in [TxID -> Transaction] /\ pc \in [TxID -> Control]
      /\ todo \in [TxID -> SUBSET RowID]
      /\ clock \in Nat /\ \A u \in TxID : txs[u].begin_ts \in Nat /\ txs[u].end_ts \in Nat
  BY Zenon DEF TInv, TypeOK, Transaction
<1>00. /\ \A r \in RowID : \A v \in rows[r] : v.begin.kind = "ts" => v.begin.at \in Nat
       /\ \A u \in TxID : \A x \in superseded[u] : x[2] \in Nat
  <2>1. \A u \in TxID : \A x \in superseded[u] : x[2] \in Nat
    BY DEF TInv, TypeOK
  <2> QED
    BY <2>1, StampShape
<1>1. CASE DrawBeginTs(t)
  <2>1. /\ clock' = clock + 1 /\ pc[t] = "start" /\ pc'[t] = "begin"
        /\ txs'[t].begin_ts = clock /\ txs'[t].end_ts = txs[t].end_ts
        /\ \A u \in TxID \ {t} : pc'[u] = pc[u] /\ txs'[u] = txs[u]
        /\ UNCHANGED <<rows, todo, superseded>>
    BY <1>0, <1>1, SMTT(30) DEF DrawBeginTs, Goto
  <2>2. TimestampsFresh'
    BY <1>0, <2>1, SMTT(30) DEF TimestampsFresh, Begun, Ending
  <2>3. StampsFresh'
    BY <1>0, <1>00, <2>1 DEF StampsFresh, Begun, Ending
  <2>4. SupersededFresh'
    BY <1>0, <1>00, <2>1 DEF SupersededFresh
  <2> QED
    BY <2>2, <2>3, <2>4
<1>2. CASE DrawEndTs(t)
  <2>1. /\ clock' = clock + 1 /\ pc[t] = "idle" /\ pc'[t] = "prepare"
        /\ txs'[t].end_ts = clock /\ txs'[t].begin_ts = txs[t].begin_ts
        /\ \A u \in TxID \ {t} : pc'[u] = pc[u] /\ txs'[u] = txs[u]
        /\ UNCHANGED <<rows, todo, superseded>>
    BY <1>0, <1>2 DEF DrawEndTs, Goto
  <2>2. TimestampsFresh'
    BY <1>0, <2>1 DEF TimestampsFresh, Begun, Ending
  <2>3. StampsFresh'
    BY <1>0, <1>00, <2>1 DEF StampsFresh, Begun, Ending
  <2>4. SupersededFresh'
    BY <1>0, <1>00, <2>1 DEF SupersededFresh
  <2> QED
    BY <2>2, <2>3, <2>4
<1>3. CASE Publish(t)
  <2>1. /\ clock' = clock /\ pc[t] = "publish" /\ pc'[t] = "rewrite"
        /\ \A u \in TxID : txs'[u].end_ts = txs[u].end_ts /\ txs'[u].begin_ts = txs[u].begin_ts
        /\ \A u \in TxID \ {t} : pc'[u] = pc[u] /\ todo'[u] = todo[u]
        /\ UNCHANGED <<rows, superseded>>
    BY <1>0, <1>3, SMTT(30) DEF Publish, Goto, SetState
  <2>2. TimestampsFresh'
    <3>1. \A u \in TxID : Begun(u)' = Begun(u) /\ Ending(u)' = Ending(u)
      BY <2>1, SMTT(30) DEF Begun, Ending
    <3> QED
      BY <2>1, <3>1, SMTT(30) DEF TimestampsFresh
  <2>3. StampsFresh'
    BY <2>1 DEF StampsFresh, Begun, Ending
  <2>4. SupersededFresh'
    BY <2>1 DEF SupersededFresh
  <2> QED
    BY <2>2, <2>3, <2>4
<1> QED
  BY <1>1, <1>2, <1>3 DEF Draws

LEMMA DrawKeeps ==
  ASSUME TInv, MarksInv, TInv', MarksInv', FirstWriterInv, NEW t \in TxID, Draws(t)
  PROVE  FirstWriterInv'
<1>0. /\ UNCHANGED <<rows, superseded, entry, call>>
      /\ \A u \in TxID :
           /\ pc[u] # "start" => txs'[u].begin_ts = txs[u].begin_ts
           /\ Tracked(u)' <=> Tracked(u)
           /\ pc'[u] # "rewrite" => pc[u] # "rewrite"
           /\ Writing(u)' => Writing(u)
           /\ pc'[u] = "check" => pc[u] = "check"
           /\ RolledBack(u)' <=> RolledBack(u)
           /\ pc[u] = "rewrite" => txs'[u] = txs[u] /\ pc'[u] = "rewrite"
           /\ u # t => txs'[u] = txs[u]
  BY DrawFrame, Zenon
<1>1. TimestampsFresh' /\ StampsFresh' /\ SupersededFresh'
  BY DrawTimes DEF FirstWriterInv
<1>2. RankOrder'
  <2> SUFFICES ASSUME NEW r \in RowID, NEW u \in TxID, NEW v \in rows[r], NEW w \in rows[r],
                      w.begin = Id(u), get_begin_timestamp(v.begin)' < txs'[u].begin_ts
               PROVE  v.rank < w.rank
    BY <1>0, SMTT(30) DEF RankOrder
  <2>1. txs'[u].begin_ts = txs[u].begin_ts
    BY <1>0, BeginOwner, Zenon
  <2>2. get_begin_timestamp(v.begin)' = get_begin_timestamp(v.begin)
    <3>1. CASE v.begin.kind = "ts"
      BY <3>1, SMTT(30) DEF get_begin_timestamp
    <3>2. CASE v.begin.kind = "tx" /\ v.begin.at \in TxID /\ v.begin = Id(v.begin.at)
      <4>1. pc[v.begin.at] # "start"
        BY <3>2, BeginOwner
      <4> QED
        BY <1>0, <3>2, <4>1, Zenon DEF get_begin_timestamp
    <3> QED
      BY <3>1, <3>2, StampShape, SMTT(30)
  <2> QED
    BY <2>1, <2>2, Zenon DEF RankOrder, FirstWriterInv
<1>3. RanksPositive' /\ OneOpen'
  BY <1>0 DEF FirstWriterInv, RanksPositive, OneOpen
<1>4. OwnEnds'
  BY <1>0, Zenon DEF FirstWriterInv, OwnEnds
<1>5. NoOwnOpen'
  BY <1>0, Zenon DEF FirstWriterInv, NoOwnOpen, Writing
<1>6. CheckedCommitted'
  <2> SUFFICES ASSUME NEW u \in TxID, pc[u] = "check",
                      entry[call[u].row].live, entry[call[u].row].gen = call[u].gen
               PROVE  CommittedBegin(call[u].rv)'
    BY <1>0, Zenon DEF CheckedCommitted
  <2> DEFINE rv == call[u].rv
  <2>1. CommittedBegin(rv)
    BY Zenon DEF FirstWriterInv, CheckedCommitted
  <2>2. call[u].row \in RowID /\ rv \in rows[call[u].row]
    BY Zenon DEF TInv, CallOK, MarksInv, LockOK
  <2>3. call'[u].rv = rv
    BY <1>0, Zenon
  <2>4. CASE rv.begin.kind = "ts"
    BY <2>3, <2>4, Zenon DEF CommittedBegin
  <2>5. CASE rv.begin.kind = "tx" /\ rv.begin.at \in TxID /\ txs[rv.begin.at].state = "Committed"
    <3>1. pc[rv.begin.at] = "rewrite"
      BY <2>5, CommittedPc, Zenon DEF MarksInv
    <3> QED
      BY <1>0, <2>3, <2>5, <3>1, Zenon DEF CommittedBegin
  <2> QED
    BY <2>1, <2>2, <2>4, <2>5, StampShape, ZenonT(30) DEF CommittedBegin
<1>7. Replaced'
  <2> SUFFICES ASSUME NEW u \in TxID, NEW r \in RowID, NEW v \in rows[r],
                      ~RolledBack(u), CommittedBegin(v)', v.end # v.begin,
                      <<r, CommitTsOf(v)'>> \in superseded[u]
               PROVE  v.end.kind = "ts" \/ v.end = Id(u)
    BY <1>0, Zenon DEF Replaced
  <2>1. CASE v.begin.kind = "ts"
    BY <2>1, Zenon DEF FirstWriterInv, Replaced, CommittedBegin, CommitTsOf
  <2>2. CASE v.begin.kind = "tx" /\ v.begin.at \in TxID
    <3> DEFINE x == v.begin.at
    <3>1. txs'[x].state = "Committed"
      BY <2>2, Zenon DEF CommittedBegin
    <3>2. pc'[x] = "rewrite"
      BY <2>2, <3>1, ZenonT(30) DEF TInv, TypeOK, Control, MarksInv, PcState
    <3>3. CASE pc[x] = "rewrite"
      <4>1. txs'[x] = txs[x]
        BY <1>0, <2>2, <3>3, Zenon
      <4> QED
        BY <2>2, <3>1, <4>1, Zenon DEF FirstWriterInv, Replaced, CommittedBegin, CommitTsOf
    <3>4. CASE pc[x] # "rewrite"
      <4>1. pc[x] = "publish" /\ txs'[x].end_ts = txs[x].end_ts
        <5>0. txs \in [TxID -> Transaction] /\ pc \in [TxID -> Control]
          BY Zenon DEF TInv, TypeOK
        <5>1. ~DrawBeginTs(t) /\ ~DrawEndTs(t)
          BY <5>0, <2>2, <3>2, <3>4, Zenon DEF DrawBeginTs, DrawEndTs, Goto
        <5>2. Publish(t)
          BY <5>1, Zenon DEF Draws
        <5> QED
          BY <5>0, <5>2, <2>2, <3>2, <3>4, SMTT(30) DEF Publish, Goto, SetState
      <4>2. CommitTsOf(v)' = txs[x].end_ts
        BY <2>2, <4>1, Zenon DEF CommitTsOf
      <4>3. <<r, txs[x].end_ts>> \in superseded[u]
        BY <4>2, Zenon
      <4>4. \A y \in superseded[u] : y[2] # txs[x].end_ts
        BY <2>2, <4>1, Zenon DEF FirstWriterInv, SupersededFresh
      <4> QED
        BY <4>3, <4>4, Zenon
    <3> QED
      BY <3>3, <3>4, Zenon
  <2> QED
    BY <2>1, <2>2, StampShape, Zenon
<1>8. NoLostUpdate'
  BY <1>0 DEF FirstWriterInv, NoLostUpdate
<1> QED
  BY <1>1, <1>2, <1>3, <1>4, <1>5, <1>6, <1>7, <1>8, Zenon DEF FirstWriterInv

-----------------------------------------------------------------------------
(* commit_tx rewrites the marks of a row                                   *)

\* v is what t's commit makes of version w when it visits row r.
RewriteOf(t, r, s, v, w) ==
  LET e == txs[t].end_ts IN
  /\ v = IF s = r THEN rewritten_for_commit(w, t) ELSE w
  /\ v.rank = w.rank
  /\ v.begin = w.begin \/ (s = r /\ w.begin = Id(t) /\ v.begin = Timestamp(e))
  /\ v.end = w.end \/ (s = r /\ w.end = Id(t) /\ v.end = Timestamp(e))
  /\ w.end = w.begin => v.end = v.begin
  /\ \A u \in TxID : v.begin = Id(u) => w.begin = Id(u)
  /\ CommittedBegin(w) \/ v.begin = w.begin
  /\ CommitTsOf(v) = CommitTsOf(w)
  /\ get_begin_timestamp(w.begin) <= get_begin_timestamp(v.begin)

\* A rewritten version says the same of its commit as the marked one did.
LEMMA RewrittenFrom ==
  ASSUME TInv, MarksInv, TimestampsFresh, NEW t \in TxID, NEW r \in RowID, Rewrite(t, r),
         NEW s \in RowID, NEW v \in rows'[s]
  PROVE  \E w \in rows[s] : RewriteOf(t, r, s, v, w)
<1>0. txs[t].end_ts \in Nat /\ txs[t].begin_ts \in Nat /\ pc[t] = "rewrite"
  BY Zenon DEF TInv, TypeOK, Transaction, Rewrite
<1>1. PICK w \in rows[s] : v = IF s = r THEN rewritten_for_commit(w, t) ELSE w
  BY Zenon DEF Rewrite, TInv, TypeOK
<1>2. w \in RowVersion
  BY StampShape, Zenon
<1>3. /\ rewritten_for_commit(w, t).rank = w.rank
      /\ rewritten_for_commit(w, t).begin
           = IF w.begin = Id(t) THEN Timestamp(txs[t].end_ts) ELSE w.begin
      /\ rewritten_for_commit(w, t).end
           = IF w.end = Id(t) THEN Timestamp(txs[t].end_ts) ELSE w.end
  BY <1>2 DEF RowVersion, rewritten_for_commit
<1> HIDE DEF rewritten_for_commit
<1>4. /\ v.rank = w.rank
      /\ \/ v.begin = w.begin
         \/ s = r /\ w.begin = Id(t) /\ v.begin = Timestamp(txs[t].end_ts)
      /\ \/ v.end = w.end
         \/ s = r /\ w.end = Id(t) /\ v.end = Timestamp(txs[t].end_ts)
      /\ w.end = w.begin => v.end = v.begin
  BY <1>1, <1>3, Zenon
<1>5. \A u \in TxID : v.begin = Id(u) => w.begin = Id(u)
  BY <1>0, <1>4, IdNotStamp
<1>6. txs[t].state = "Committed" /\ Tracked(t) /\ Ending(t)
  BY <1>0 DEF MarksInv, PcState, Tracked, Ending
<1>7. get_begin_timestamp(w.begin) \in Nat
  BY BeginTimestampType
<1>8. CASE v.begin = w.begin
  BY <1>1, <1>4, <1>5, <1>7, <1>8 DEF CommitTsOf, RewriteOf
<1>9. CASE w.begin = Id(t) /\ v.begin = Timestamp(txs[t].end_ts)
  <2>1. w.begin.kind = "tx" /\ w.begin.at = t /\ v.begin.kind = "ts"
        /\ v.begin.at = txs[t].end_ts
    BY <1>9 DEF Id, Timestamp
  <2>2. CommittedBegin(w) /\ CommitTsOf(v) = CommitTsOf(w)
    BY <1>6, <2>1, Zenon DEF CommittedBegin, CommitTsOf
  <2>3. get_begin_timestamp(w.begin) = txs[t].begin_ts
        /\ get_begin_timestamp(v.begin) = txs[t].end_ts
    BY <1>6, <2>1 DEF get_begin_timestamp
  <2>4. txs[t].begin_ts <= txs[t].end_ts
    BY <1>0, <1>6 DEF TimestampsFresh
  <2> QED
    BY <1>1, <1>4, <1>5, <2>2, <2>3, <2>4, Zenon DEF RewriteOf
<1> QED
  BY <1>4, <1>8, <1>9

LEMMA RewriteKeeps ==
  ASSUME TInv, MarksInv, FirstWriterInv, NEW t \in TxID, NEW r \in RowID, Rewrite(t, r)
  PROVE  FirstWriterInv'
<1>0. /\ UNCHANGED <<clock, txs, entry, pc, call, superseded>>
      /\ pc[t] = "rewrite" /\ r \in todo[t] /\ todo' = [todo EXCEPT ![t] = @ \ {r}]
  BY DEF Rewrite, IsNext
<1>1. TimestampsFresh' /\ SupersededFresh' /\ NoLostUpdate' /\ CheckedCommitted'
  <2>1. TimestampsFresh'
    BY <1>0 DEF FirstWriterInv, TimestampsFresh, Begun, Ending
  <2>2. SupersededFresh'
    BY <1>0 DEF FirstWriterInv, SupersededFresh
  <2>3. NoLostUpdate'
    BY <1>0 DEF FirstWriterInv, NoLostUpdate, RolledBack
  <2>4. CheckedCommitted'
    BY <1>0, Zenon DEF FirstWriterInv, CheckedCommitted, CommittedBegin
  <2> QED
    BY <2>1, <2>2, <2>3, <2>4, Zenon
<1> DEFINE e == txs[t].end_ts
           From(s, v, w) == RewriteOf(t, r, s, v, w)
<1>2. \A s \in RowID : \A v \in rows'[s] : \E w \in rows[s] : From(s, v, w)
  BY RewrittenFrom DEF FirstWriterInv
<1> USE DEF RewriteOf
<1>3. Ending(t) /\ e \in Nat
  BY <1>0 DEF Ending, TInv, TypeOK, Transaction
<1>4. StampsFresh'
  <2> SUFFICES ASSUME NEW s \in RowID, NEW v \in rows'[s], v.begin.kind = "ts"
               PROVE  /\ v.begin.at < clock
                      /\ \A u \in TxID :
                           /\ Begun(u) => v.begin.at # txs[u].begin_ts
                           /\ Ending(u) /\ (pc[u] = "rewrite" => s \in todo'[u])
                                => v.begin.at # txs[u].end_ts
    BY <1>0 DEF StampsFresh, Begun, Ending
  <2>1. PICK w \in rows[s] : From(s, v, w)
    BY <1>2, Zenon
  <2>2. \A u \in TxID : s \in todo'[u] => s \in todo[u]
    BY <1>0, Zenon DEF TInv, TypeOK
  <2>3. CASE v.begin = w.begin
    BY <2>2, <2>3 DEF FirstWriterInv, StampsFresh
  <2>4. CASE s = r /\ v.begin = Timestamp(e)
    <3>1. v.begin.at = e
      BY <2>4 DEF Timestamp
    <3>2. r \notin todo'[t]
      BY <1>0, Zenon DEF TInv, TypeOK
    <3> QED
      BY <1>0, <1>3, <2>4, <3>1, <3>2, ZenonT(30) DEF FirstWriterInv, TimestampsFresh
  <2> QED
    BY <2>1, <2>3, <2>4, Zenon
<1>5. RankOrder' /\ RanksPositive'
  <2>1. RanksPositive'
    BY <1>2 DEF FirstWriterInv, RanksPositive
  <2> SUFFICES ASSUME NEW s \in RowID, NEW u \in TxID, NEW v \in rows'[s], NEW w \in rows'[s],
                      w.begin = Id(u), get_begin_timestamp(v.begin)' < txs'[u].begin_ts
               PROVE  v.rank < w.rank
    BY <2>1, Zenon DEF RankOrder
  <2>2. PICK x \in rows[s] : From(s, v, x)
    BY <1>2, Zenon
  <2>3. PICK y \in rows[s] : From(s, w, y)
    BY <1>2, Zenon
  <2>4. get_begin_timestamp(v.begin) < txs[u].begin_ts
    BY <1>0, Zenon DEF get_begin_timestamp, Tracked
  <2>5. get_begin_timestamp(x.begin) < txs[u].begin_ts
    <3>1. \A z \in TxID : txs[z].begin_ts \in Nat
      BY Zenon DEF TInv, TypeOK, Transaction
    <3>2. get_begin_timestamp(x.begin) \in Nat
      BY BeginTimestampType, Zenon
    <3>3. get_begin_timestamp(v.begin) \in Nat
      <4>1. v.begin = x.begin \/ v.begin = Timestamp(e)
        BY <2>2, Zenon
      <4>2. get_begin_timestamp(Timestamp(e)) = e
        BY DEF get_begin_timestamp, Timestamp
      <4> QED
        BY <1>3, <3>2, <4>1, <4>2, Zenon
    <3>4. get_begin_timestamp(x.begin) <= get_begin_timestamp(v.begin)
      BY <2>2, Zenon
    <3> HIDE DEF From
    <3> QED
      BY <2>4, <3>1, <3>2, <3>3, <3>4
  <2> QED
    BY <2>2, <2>3, <2>5, Zenon DEF FirstWriterInv, RankOrder
<1>6. OwnEnds'
  <2> SUFFICES ASSUME NEW s \in RowID, NEW u \in TxID, NEW v \in rows'[s],
                      v.begin = Id(u), pc[u] # "rewrite"
               PROVE  v.end \in {None, Id(u)}
    BY <1>0, Zenon DEF OwnEnds
  <2>1. PICK w \in rows[s] : From(s, v, w)
    BY <1>2, Zenon
  <2>2. w.end \in {None, Id(u)}
    BY <2>1, Zenon DEF FirstWriterInv, OwnEnds
  <2>3. w.end # Id(t)
    BY <1>0, <2>2, IdInjective, NoneNotStamp
  <2> QED
    BY <2>1, <2>2, <2>3, Zenon
<1>7. NoOwnOpen'
  <2> SUFFICES ASSUME NEW u \in TxID, Writing(u), NEW v \in rows'[call[u].row], v.begin = Id(u)
               PROVE  v.end = Id(u)
    BY <1>0, Zenon DEF NoOwnOpen, Writing
  <2>0. call[u].row \in RowID
    BY Zenon DEF Writing, TInv, CallOK
  <2>1. PICK w \in rows[call[u].row] : From(call[u].row, v, w)
    BY <1>2, <2>0, Zenon
  <2>2. w.end = Id(u)
    BY <2>1, Zenon DEF FirstWriterInv, NoOwnOpen, Writing
  <2>3. u # t
    BY <1>0 DEF Writing
  <2> QED
    BY <2>1, <2>2, <2>3, IdInjective, ZenonT(30)
<1>8. OneOpen'
  <2> SUFFICES ASSUME NEW s \in RowID, NEW v \in rows'[s], NEW w \in rows'[s],
                      v.begin = w.begin, v.end # v.begin, w.end # w.begin
               PROVE  v = w
    BY DEF OneOpen
  <2>1. PICK x \in rows[s] : From(s, v, x)
    BY <1>2, Zenon
  <2>2. PICK y \in rows[s] : From(s, w, y)
    BY <1>2, Zenon
  <2>3. ASSUME NEW z \in rows[s], s = r PROVE z.begin # Timestamp(e)
    <3>1. z.begin.kind = "ts" => z.begin.at # e
      BY <1>0, <1>3, <2>3, Zenon DEF FirstWriterInv, StampsFresh
    <3> QED
      BY <3>1, SMTT(30) DEF Timestamp
  <2>4. x.begin = y.begin
    BY <2>1, <2>2, <2>3, Zenon
  <2>5. x = y
    BY <2>1, <2>2, <2>4, Zenon DEF FirstWriterInv, OneOpen
  <2> QED
    BY <2>1, <2>2, <2>5
<1>9. Replaced'
  <2> SUFFICES ASSUME NEW u \in TxID, NEW s \in RowID, NEW v \in rows'[s],
                      ~RolledBack(u), CommittedBegin(v), v.end # v.begin,
                      <<s, CommitTsOf(v)>> \in superseded[u]
               PROVE  v.end.kind = "ts" \/ v.end = Id(u)
    BY <1>0, ZenonT(30) DEF Replaced, RolledBack, CommittedBegin, CommitTsOf
  <2>1. PICK w \in rows[s] : From(s, v, w)
    BY <1>2, Zenon
  <2>2. CommittedBegin(w)
    BY <2>1, Zenon DEF CommittedBegin
  <2>3. w.end.kind = "ts" \/ w.end = Id(u)
    BY <2>1, <2>2, Zenon DEF FirstWriterInv, Replaced
  <2>4. v.end = w.end \/ v.end = Timestamp(e)
    BY <2>1
  <2> QED
    BY <2>3, <2>4 DEF Timestamp
<1> QED
  BY <1>1, <1>4, <1>5, <1>6, <1>7, <1>8, <1>9, Zenon DEF FirstWriterInv

-----------------------------------------------------------------------------
(* insert_version adds a version                                           *)

\* v is version w after a version was added to row r at place pos.
ShiftOf(r, pos, s, v, w) ==
  /\ v.begin = w.begin /\ v.end = w.end
  /\ v.rank = IF s = r /\ w.rank >= pos THEN w.rank + 1 ELSE w.rank

LEMMA PushKeeps ==
  ASSUME TInv, MarksInv, TInv', MarksInv', FirstWriterInv, NEW t \in TxID, PushVersion(t),
         insert_version_raw(t, call[t].row)
  PROVE  FirstWriterInv'
<1> DEFINE r == call[t].row
<1>0. /\ UNCHANGED <<clock, txs, entry, todo, superseded>>
      /\ pc[t] = "push" /\ pc'[t] = "idle"
      /\ \A u \in TxID \ {t} : call'[u] = call[u] /\ pc'[u] = pc[u]
  BY DEF PushVersion, Goto, EndCall, TInv, TypeOK
<1>1. r \in RowID
  BY <1>0, Zenon DEF TInv, CallOK
<1>2. \A u \in TxID : txs[u].begin_ts \in Nat
  BY Zenon DEF TInv, TypeOK, Transaction
<1>3. txs[t].state = "Active" /\ get_begin_timestamp(Id(t)) = txs[t].begin_ts
  BY <1>0, Zenon DEF MarksInv, PcState, get_begin_timestamp, Tracked, Id
<1>4. PICK pos \in Nat :
        /\ \A v \in rows[r] : get_begin_timestamp(v.begin) < get_begin_timestamp(Id(t))
             => v.rank < pos
        /\ \/ pos = 1
           \/ \E v \in rows[r] :
                /\ get_begin_timestamp(v.begin) < get_begin_timestamp(Id(t))
                /\ pos = v.rank + 1
        /\ \A s \in RowID : \A v \in rows'[s] :
             \/ s = r /\ v.rank = pos /\ v.begin = Id(t) /\ v.end = None
             \/ s # r /\ v \in rows[s]
             \/ /\ s = r
                /\ \E w \in rows[r] :
                     /\ v.begin = w.begin /\ v.end = w.end
                     /\ v.rank = IF w.rank >= pos THEN w.rank + 1 ELSE w.rank
  <2>1. TypeOK
    BY DEF TInv
  <2> QED
    BY <1>1, <2>1, PushEffect, Zenon
<1>40. /\ \A v \in rows[r] : get_begin_timestamp(v.begin) < txs[t].begin_ts => v.rank < pos
       /\ \/ pos = 1
          \/ \E v \in rows[r] :
               get_begin_timestamp(v.begin) < txs[t].begin_ts /\ pos = v.rank + 1
  BY <1>3, <1>4, Zenon
<1> DEFINE New(s, v) == s = r /\ v.rank = pos /\ v.begin = Id(t) /\ v.end = None
           Old(s, v, w) == ShiftOf(r, pos, s, v, w)
<1>5. ASSUME NEW s \in RowID, NEW v \in rows'[s]
      PROVE  New(s, v) \/ \E w \in rows[s] : Old(s, v, w)
  BY <1>4, Zenon DEF ShiftOf
<1>6. \A s \in RowID : \A w \in rows[s] : w.rank \in Nat
  BY StampShape, Zenon DEF RowVersion
<1>7. TimestampsFresh' /\ SupersededFresh' /\ NoLostUpdate'
  <2>1. \A u \in TxID : Begun(u)' = Begun(u) /\ Ending(u)' = Ending(u)
                        /\ RolledBack(u)' = RolledBack(u)
    BY <1>0, SMTT(30) DEF Begun, Ending, RolledBack
  <2>2. TimestampsFresh'
    BY <1>0, <2>1, ZenonT(30) DEF FirstWriterInv, TimestampsFresh
  <2>3. SupersededFresh'
    BY <1>0, Zenon DEF FirstWriterInv, SupersededFresh
  <2>4. NoLostUpdate'
    BY <1>0, <2>1, Zenon DEF FirstWriterInv, NoLostUpdate
  <2> QED
    BY <2>2, <2>3, <2>4, Zenon
<1>8. StampsFresh'
  <2> SUFFICES ASSUME NEW s \in RowID, NEW v \in rows'[s], v.begin.kind = "ts"
               PROVE  /\ v.begin.at < clock
                      /\ \A u \in TxID :
                           /\ Begun(u) => v.begin.at # txs[u].begin_ts
                           /\ Ending(u) /\ (pc[u] = "rewrite" => s \in todo[u])
                                => v.begin.at # txs[u].end_ts
    BY <1>0 DEF StampsFresh, Begun, Ending
  <2>1. PICK w \in rows[s] : w.begin = v.begin
    BY <1>5 DEF Id, ShiftOf
  <2> QED
    BY <2>1 DEF FirstWriterInv, StampsFresh
<1>9. RanksPositive'
  <2>1. pos > 0
    BY <1>40, <1>6, <1>1, SMTT(30)
  <2> QED
    BY <1>5, <1>6, <2>1 DEF FirstWriterInv, RanksPositive, ShiftOf
<1>10. RankOrder'
  <2> SUFFICES ASSUME NEW s \in RowID, NEW u \in TxID, NEW v \in rows'[s], NEW x \in rows'[s],
                      x.begin = Id(u), get_begin_timestamp(v.begin) < txs[u].begin_ts
               PROVE  v.rank < x.rank
    BY <1>0, ZenonT(30) DEF RankOrder, get_begin_timestamp, Tracked
  <2>1. ASSUME NEW w \in rows[s], Old(s, v, w), NEW y \in rows[s], Old(s, x, y)
        PROVE  v.rank < x.rank
    <3>1. w.rank < y.rank
      BY <2>1, ZenonT(30) DEF FirstWriterInv, RankOrder, ShiftOf
    <3> QED
      BY <1>6, <2>1, <3>1, SMTT(10), SMTT(30) DEF ShiftOf
  <2>2. ASSUME NEW w \in rows[s], Old(s, v, w), New(s, x)
        PROVE  v.rank < x.rank
    <3>1. u = t
      BY <2>2, IdInjective, ZenonT(30)
    <3>2. w.rank < pos
      BY <1>40, <2>2, <3>1, ZenonT(30) DEF ShiftOf
    <3> QED
      BY <1>6, <2>2, <3>2 DEF ShiftOf
  <2>3. ASSUME New(s, v), NEW y \in rows[s], Old(s, x, y)
        PROVE  v.rank < x.rank
    <3>1. txs[t].begin_ts < txs[u].begin_ts
      BY <1>3, <2>3
    <3>2. CASE pos = 1
      BY <1>6, <2>3, <3>2, SMTT(30) DEF FirstWriterInv, RanksPositive, ShiftOf
    <3>3. CASE \E z \in rows[r] :
                 get_begin_timestamp(z.begin) < txs[t].begin_ts /\ pos = z.rank + 1
      <4>1. PICK z \in rows[r] :
                 get_begin_timestamp(z.begin) < txs[t].begin_ts /\ pos = z.rank + 1
        BY <3>3, SMTT(30)
      <4>2. get_begin_timestamp(z.begin) \in Nat
        BY <1>1, BeginTimestampType
      <4>3. get_begin_timestamp(z.begin) < txs[u].begin_ts
        BY <1>2, <3>1, <4>1, <4>2, SMTT(30)
      <4>4. z.rank < y.rank
        BY <2>3, <4>3, ZenonT(30) DEF FirstWriterInv, RankOrder, ShiftOf
      <4> QED
        BY <1>1, <1>6, <2>3, <4>1, <4>4, SMTT(30) DEF ShiftOf
    <3> QED
      BY <1>40, <3>2, <3>3
  <2>4. ASSUME New(s, v), New(s, x) PROVE FALSE
    <3>1. u = t
      BY <2>4, IdInjective, ZenonT(30)
    <3> QED
      BY <1>2, <1>3, <2>4, <3>1
  <2> QED
    BY <1>5, <2>1, <2>2, <2>3, <2>4, ZenonT(20)
<1>11. OwnEnds'
  <2> SUFFICES ASSUME NEW s \in RowID, NEW u \in TxID, NEW v \in rows'[s],
                      v.begin = Id(u), pc[u] # "rewrite"
               PROVE  v.end \in {None, Id(u)}
    BY <1>0 DEF OwnEnds
  <2> QED
    BY <1>5 DEF FirstWriterInv, OwnEnds, ShiftOf
<1>12. NoOwnOpen'
  <2> SUFFICES ASSUME NEW u \in TxID \ {t}, Writing(u), NEW v \in rows'[call[u].row],
                      v.begin = Id(u)
               PROVE  v.end = Id(u)
    BY <1>0 DEF NoOwnOpen, Writing
  <2>0. call[u].row \in RowID
    BY DEF Writing, TInv, CallOK
  <2>1. PICK w \in rows[call[u].row] : Old(call[u].row, v, w)
    BY <1>5, <2>0, IdInjective
  <2> QED
    BY <2>1, ZenonT(30) DEF FirstWriterInv, NoOwnOpen, Writing, ShiftOf
<1>13. OneOpen'
  <2> SUFFICES ASSUME NEW s \in RowID, NEW v \in rows'[s], NEW x \in rows'[s],
                      v.begin = x.begin, v.end # v.begin, x.end # x.begin
               PROVE  v = x
    BY SMTT(30) DEF OneOpen
  <2>0. v \in RowVersion /\ x \in RowVersion
    BY SMTT(30) DEF TInv, TypeOK
  <2>1. ASSUME NEW w \in rows[r], w.begin = Id(t) PROVE w.end = w.begin
    BY <1>0, <2>1, SMTT(30) DEF FirstWriterInv, NoOwnOpen
  <2>2. ASSUME NEW w \in rows[s], Old(s, v, w), NEW y \in rows[s], Old(s, x, y)
        PROVE  v = x
    <3>1. w = y
      BY <2>2, ZenonT(30) DEF FirstWriterInv, OneOpen, ShiftOf
    <3> QED
      BY <2>0, <2>2, <3>1, SMTT(30) DEF ShiftOf, RowVersion
  <2>3. ASSUME New(s, v), New(s, x) PROVE v = x
    BY <2>0, <2>3 DEF RowVersion
  <2>4. ASSUME New(s, v), NEW y \in rows[s], Old(s, x, y) PROVE FALSE
    BY <2>1, <2>4, ZenonT(30) DEF ShiftOf
  <2>5. ASSUME New(s, x), NEW y \in rows[s], Old(s, v, y) PROVE FALSE
    BY <2>1, <2>5 DEF ShiftOf
  <2> QED
    BY <1>5, <2>2, <2>3, <2>4, <2>5, ZenonT(20)
<1>14. CheckedCommitted'
  BY <1>0, ZenonT(20) DEF FirstWriterInv, CheckedCommitted, CommittedBegin
<1>15. Replaced'
  <2> SUFFICES ASSUME NEW u \in TxID, NEW s \in RowID, NEW v \in rows'[s],
                      ~RolledBack(u), CommittedBegin(v), v.end # v.begin,
                      <<s, CommitTsOf(v)>> \in superseded[u]
               PROVE  v.end.kind = "ts" \/ v.end = Id(u)
    BY <1>0, SMTT(30) DEF Replaced, RolledBack, CommittedBegin, CommitTsOf
  <2>0. v.begin # Id(t)
    BY <1>3, SMTT(30) DEF CommittedBegin, Id
  <2>1. PICK w \in rows[s] : Old(s, v, w)
    BY <1>5, <2>0, ZenonT(30)
  <2>2. CommittedBegin(w) /\ CommitTsOf(w) = CommitTsOf(v)
    BY <2>1, Zenon DEF CommittedBegin, CommitTsOf, ShiftOf
  <2> QED
    BY <2>1, <2>2, Zenon DEF FirstWriterInv, Replaced, ShiftOf
<1> QED
  BY <1>7, <1>8, <1>9, <1>10, <1>11, <1>12, <1>13, <1>14, <1>15, ZenonT(30) DEF FirstWriterInv

-----------------------------------------------------------------------------
(* delete() marks a version                                                *)

\* Two versions of a row with one commit timestamp were added by one transaction.
LEMMA SameCommit ==
  ASSUME TInv, MarksInv, TimestampsFresh, StampsFresh,
         NEW r \in RowID, NEW v \in rows[r], NEW w \in rows[r],
         CommittedBegin(v), CommittedBegin(w), CommitTsOf(v) = CommitTsOf(w)
  PROVE  v.begin = w.begin
<1>1. ASSUME NEW x \in rows[r], x.begin.kind = "tx", CommittedBegin(x)
      PROVE  /\ x.begin.at \in TxID /\ x.begin = Id(x.begin.at)
             /\ pc[x.begin.at] = "rewrite" /\ r \in todo[x.begin.at] /\ Ending(x.begin.at)
             /\ CommitTsOf(x) = txs[x.begin.at].end_ts
  <2>1. x.begin.at \in TxID /\ x.begin = Id(x.begin.at)
    BY <1>1, StampShape, Zenon
  <2>2. pc[x.begin.at] = "rewrite"
    BY <1>1, <2>1, CommittedPc, Zenon DEF CommittedBegin, MarksInv
  <2>3. r \in todo[x.begin.at]
    BY <2>1, <2>2, BeginOwner, Zenon
  <2> QED
    BY <1>1, <2>1, <2>2, <2>3, Zenon DEF Ending, CommitTsOf
<1>2. ASSUME NEW x \in rows[r], x.begin.kind = "ts"
      PROVE  x.begin = Timestamp(x.begin.at) /\ CommitTsOf(x) = x.begin.at
  BY <1>2, StampShape DEF CommitTsOf
<1>3. CASE v.begin.kind = "ts" /\ w.begin.kind = "ts"
  BY <1>2, <1>3, Zenon
<1>4. CASE v.begin.kind = "tx" /\ w.begin.kind = "tx"
  BY <1>1, <1>4 DEF TimestampsFresh
<1>5. CASE v.begin.kind = "ts" /\ w.begin.kind = "tx"
  BY <1>1, <1>2, <1>5, Zenon DEF StampsFresh
<1>6. CASE v.begin.kind = "tx" /\ w.begin.kind = "ts"
  BY <1>1, <1>2, <1>6 DEF StampsFresh
<1> QED
  BY <1>3, <1>4, <1>5, <1>6, StampShape

\* A version that may be marked was ended by nobody whose changes count.
LEMMA MarkableVersion ==
  ASSUME TInv, MarksInv, FirstWriterInv, NEW t \in TxID, NEW r \in RowID, NEW rv \in rows[r],
         txs[t].state = "Active", ~is_write_write_conflict(t, rv), CommittedBegin(rv)
  PROVE  /\ rv.end # rv.begin
         /\ \A u \in TxID \ {t} : ~RolledBack(u) => <<r, CommitTsOf(rv)>> \notin superseded[u]
<1>1. rv.end.kind # "ts"
  BY DEF is_write_write_conflict
<1>2. ASSUME NEW u \in TxID, rv.end = Id(u), u # t
      PROVE  ~Tracked(u) \/ txs[u].state = "Aborted"
  BY <1>2 DEF is_write_write_conflict, Id
<1>3. rv.end # rv.begin
  <2>1. CASE rv.begin.kind = "ts"
    BY <1>1, <2>1, Zenon
  <2>2. CASE rv.begin.kind = "tx" /\ rv.begin.at \in TxID /\ rv.begin = Id(rv.begin.at)
    <3>1. txs[rv.begin.at].state = "Committed"
      BY <2>2, Zenon DEF CommittedBegin
    <3> QED
      BY <1>2, <2>2, <3>1, Zenon DEF Tracked
  <2> QED
    BY <2>1, <2>2, StampShape, Zenon
<1>4. ASSUME NEW u \in TxID \ {t}, ~RolledBack(u), <<r, CommitTsOf(rv)>> \in superseded[u]
      PROVE  FALSE
  <2>1. rv.end = Id(u)
    BY <1>1, <1>3, <1>4 DEF FirstWriterInv, Replaced
  <2>2. OwesEnd(u, r)
    BY <2>1, Zenon DEF MarksInv, EndMarks
  <2>3. pc[u] \in Control
    BY DEF TInv, TypeOK
  <2>4. txs[u].state \in {"Active", "Preparing", "Committed"}
    BY <1>4, <2>2, <2>3 DEF OwesEnd, RolledBack, Control, MarksInv, PcState
  <2> QED
    BY <1>2, <2>1, <2>4 DEF Tracked
<1> QED
  BY <1>3, <1>4

LEMMA MarkKeeps ==
  ASSUME TInv, MarksInv, TInv', MarksInv', FirstWriterInv,
         NEW t \in TxID, NEW r \in RowID, NEW rv \in rows[r],
         pc[t] \in {"scan", "check"}, entry[r].live, Mark(t, r, entry[r].gen, rv),
         UNCHANGED <<clock, txs, entry, todo>>,
         call'[t].row = r, \A u \in TxID \ {t} : call'[u] = call[u],
         ~is_write_write_conflict(t, rv),
         rv.begin = Id(t) \/ CommittedBegin(rv),
         \A w \in rows[r] : w.begin = Id(t) => w.end = Id(t) \/ w = rv
  PROVE  FirstWriterInv'
<1> DEFINE m == [rv EXCEPT !.end = Id(t)]
           c == CommitTsOf(rv)
<1>1. rv \in RowVersion
  BY StampShape
<1>2. m.begin = rv.begin /\ m.rank = rv.rank /\ m.end = Id(t)
  BY <1>1, Zenon DEF RowVersion
<1>3. /\ pc'[t] = "mark" /\ \A u \in TxID \ {t} : pc'[u] = pc[u]
      /\ rows'[r] = (rows[r] \ {rv}) \cup {m}
      /\ \A s \in RowID \ {r} : rows'[s] = rows[s]
  BY DEF Mark, TInv, TypeOK
<1> HIDE DEF m
<1>4. /\ \A u \in TxID \ {t} : superseded'[u] = superseded[u]
      /\ \A x \in superseded'[t] : x \in superseded[t] \/ (x = <<r, c>> /\ rv.begin # Id(t))
  BY DEF Mark, TInv, TypeOK
<1> HIDE DEF c
<1>5. txs[t].state = "Active"
  BY DEF MarksInv, PcState
<1>6. CommittedBegin(rv) <=> rv.begin # Id(t)
  BY <1>5, SMTT(10), SMTT(30) DEF CommittedBegin, Id
<1>7. rv.begin # Id(t) =>
        /\ rv.end # rv.begin
        /\ \A u \in TxID \ {t} : ~RolledBack(u) => <<r, c>> \notin superseded[u]
  BY <1>5, <1>6, MarkableVersion, Zenon DEF c
<1>8. ASSUME NEW s \in RowID, NEW v \in rows'[s]
      PROVE  \/ s = r /\ v = m
             \/ v \in rows[s] /\ (s = r => v # rv)
  BY <1>3
<1>9. ASSUME NEW u \in TxID \ {t}, rv.begin = Id(u) PROVE pc[u] = "rewrite"
  <2>1. rv.begin # Id(t)
    BY <1>9, IdInjective
  <2>2. txs[u].state = "Committed"
    BY <1>6, <1>9, <2>1 DEF CommittedBegin, Id
  <2> QED
    BY <2>2, CommittedPc, Zenon DEF MarksInv
<1>10. \A u \in TxID : /\ Begun(u)' = Begun(u) /\ Ending(u)' = Ending(u)
                       /\ RolledBack(u)' = RolledBack(u)
                       /\ (pc'[u] = "rewrite") = (pc[u] = "rewrite")
  BY <1>3 DEF Begun, Ending, RolledBack
<1>11. TimestampsFresh'
  BY <1>10, Zenon DEF FirstWriterInv, TimestampsFresh
<1>12. StampsFresh'
  <2>1. ASSUME NEW s \in RowID, NEW v \in rows'[s]
        PROVE  \E w \in rows[s] : w.begin = v.begin
    BY <1>2, <1>8
  <2> QED
    BY <1>10, <2>1, SMTT(10), SMTT(30) DEF FirstWriterInv, StampsFresh
<1>13. SupersededFresh'
  <2>1. ASSUME rv.begin # Id(t)
        PROVE  /\ c < clock
               /\ \A u \in TxID : pc[u] \in {"prepare", "log", "publish"} => c # txs[u].end_ts
    <3>1. CASE rv.begin.kind = "ts"
      <4>1. c = rv.begin.at
        BY <3>1, Zenon DEF c, CommitTsOf
      <4> QED
        BY <3>1, <4>1, Zenon DEF FirstWriterInv, StampsFresh, Ending
    <3>2. CASE rv.begin.kind = "tx" /\ rv.begin.at \in TxID /\ rv.begin = Id(rv.begin.at)
      <4>1. c = txs[rv.begin.at].end_ts
        BY <3>2, Zenon DEF c, CommitTsOf
      <4>2. pc[rv.begin.at] = "rewrite"
        BY <1>9, <2>1, <3>2, Zenon
      <4> QED
        BY <3>2, <4>1, <4>2, Zenon DEF FirstWriterInv, TimestampsFresh, Ending
    <3> QED
      BY <3>1, <3>2, StampShape, Zenon
  <2>2. ASSUME NEW u \in TxID, NEW x \in superseded'[u]
        PROVE  \/ x \in superseded[u]
               \/ x[2] = c /\ rv.begin # Id(t)
    BY <1>4, <2>2
  <2>3. \A u \in TxID : pc'[u] \in {"prepare", "log", "publish"}
                          => pc[u] \in {"prepare", "log", "publish"}
    BY <1>3, Zenon
  <2> QED
    BY <2>1, <2>2, <2>3, ZenonT(20) DEF FirstWriterInv, SupersededFresh
<1>14. RankOrder' /\ RanksPositive'
  <2>1. ASSUME NEW s \in RowID, NEW v \in rows'[s]
        PROVE  \E w \in rows[s] : w.begin = v.begin /\ w.rank = v.rank
    BY <1>2, <1>8
  <2>2. RanksPositive'
    BY <2>1 DEF FirstWriterInv, RanksPositive
  <2> SUFFICES ASSUME NEW s \in RowID, NEW u \in TxID, NEW v \in rows'[s], NEW w \in rows'[s],
                      w.begin = Id(u), get_begin_timestamp(v.begin) < txs[u].begin_ts
               PROVE  v.rank < w.rank
    BY <2>2 DEF RankOrder, get_begin_timestamp, Tracked
  <2> QED
    BY <2>1 DEF FirstWriterInv, RankOrder
<1>15. OwnEnds'
  <2> SUFFICES ASSUME NEW s \in RowID, NEW u \in TxID, NEW v \in rows'[s],
                      v.begin = Id(u), pc[u] # "rewrite"
               PROVE  v.end \in {None, Id(u)}
    BY <1>10 DEF OwnEnds
  <2>1. CASE v = m
    BY <1>2, <1>9, <2>1
  <2>2. CASE v \in rows[s]
    BY <2>2, Zenon DEF FirstWriterInv, OwnEnds
  <2> QED
    BY <1>8, <2>1, <2>2, Zenon
<1>16. NoOwnOpen'
  <2> SUFFICES ASSUME NEW u \in TxID, Writing(u)', NEW v \in rows'[call'[u].row], v.begin = Id(u)
               PROVE  v.end = Id(u)
    BY Zenon DEF NoOwnOpen, Writing
  <2>1. CASE u = t
    BY <1>2, <1>8, <2>1, Zenon
  <2>2. CASE u # t
    <3>1. Writing(u) /\ call'[u] = call[u] /\ pc[u] # "rewrite"
      BY <1>3, <2>2, Zenon DEF Writing
    <3>2. call[u].row \in RowID
      BY <3>1, Zenon DEF Writing, TInv, CallOK
    <3>3. v # m
      BY <1>2, <1>9, <2>2, <3>1, Zenon
    <3>4. v \in rows[call[u].row]
      BY <1>8, <3>1, <3>2, <3>3, Zenon
    <3> QED
      BY <3>1, <3>4 DEF FirstWriterInv, NoOwnOpen, Writing
  <2> QED
    BY <2>1, <2>2
<1>17. OneOpen'
  <2> SUFFICES ASSUME NEW s \in RowID, NEW v \in rows'[s], NEW w \in rows'[s],
                      v.begin = w.begin, v.end # v.begin, w.end # w.begin
               PROVE  v = w
    BY Zenon DEF OneOpen
  <2>1. ASSUME NEW x \in rows[r], x # rv, x.begin = m.begin, x.end # x.begin, m.end # m.begin
        PROVE  FALSE
    BY <1>2, <1>7, <2>1 DEF FirstWriterInv, OneOpen
  <2>2. CASE v \in rows[s] /\ w \in rows[s]
    BY <2>2, SMTT(30) DEF FirstWriterInv, OneOpen
  <2> QED
    BY <1>8, <2>1, <2>2
<1>18. CheckedCommitted'
  <2>1. \A u \in TxID : pc'[u] = "check" => pc[u] = "check" /\ call'[u] = call[u]
    BY <1>3, Zenon
  <2>2. \A u \in TxID : pc'[u] = "check" =>
         (CommittedBegin(call[u].rv) <=> CommittedBegin(call[u].rv)')
    BY <2>1, Zenon DEF CommittedBegin
  <2> QED
    BY <2>1, <2>2, Zenon DEF FirstWriterInv, CheckedCommitted
<1>19. Replaced'
  <2> SUFFICES ASSUME NEW u \in TxID, NEW s \in RowID, NEW v \in rows'[s],
                      ~RolledBack(u), CommittedBegin(v), v.end # v.begin,
                      <<s, CommitTsOf(v)>> \in superseded'[u]
               PROVE  v.end.kind = "ts" \/ v.end = Id(u)
    BY <1>10, ZenonT(30) DEF Replaced, CommittedBegin, CommitTsOf
  <2>1. CASE s = r /\ v = m
    <3>1. CommittedBegin(rv) /\ CommitTsOf(v) = c
      BY <1>2, <2>1, Zenon DEF CommittedBegin, CommitTsOf, c
    <3> QED
      BY <1>2, <1>4, <1>6, <1>7, <2>1, <3>1, ZenonT(30)
  <2>2. CASE v \in rows[s] /\ (s = r => v # rv)
    <3>1. CASE <<s, CommitTsOf(v)>> \in superseded[u]
      BY <2>2, <3>1 DEF FirstWriterInv, Replaced
    <3>2. CASE s = r /\ CommitTsOf(v) = c /\ rv.begin # Id(t)
      <4>1. v.begin = rv.begin
        BY <1>6, <2>2, <3>2, SameCommit, ZenonT(30) DEF FirstWriterInv, c
      <4> QED
        BY <1>7, <2>2, <3>2, <4>1, ZenonT(30) DEF FirstWriterInv, OneOpen
    <3> QED
      BY <1>4, <3>1, <3>2, SMTT(10), SMTT(30)
  <2> QED
    BY <1>8, <2>1, <2>2, ZenonT(20)
<1>20. NoLostUpdate'
  <2> SUFFICES ASSUME NEW u \in TxID, NEW w \in TxID, u # w, ~RolledBack(u), ~RolledBack(w),
                      NEW x \in superseded'[u], x \in superseded'[w]
               PROVE  FALSE
    BY <1>10, Zenon DEF NoLostUpdate
  <2>1. CASE x \in superseded[u] /\ x \in superseded[w]
    BY <2>1 DEF FirstWriterInv, NoLostUpdate
  <2> QED
    BY <1>4, <1>7, <2>1, SMTT(30)
<1> QED
  BY <1>11, <1>12, <1>13, <1>14, <1>15, <1>16, <1>17, <1>18, <1>19, <1>20 DEF FirstWriterInv

-----------------------------------------------------------------------------
(* The first look of insert(), delete() and update()                       *)

\* A quiet step keeps the invariant.
LEMMA QuietKeeps ==
  ASSUME TInv, MarksInv, TInv', MarksInv', [Next]_vars, FirstWriterInv, Quiet, SameCalls
  PROVE  FirstWriterInv'
<1>1. TimestampsFresh' /\ StampsFresh' /\ SupersededFresh'
  BY QuietTimes DEF FirstWriterInv
<1>2. RankOrder' /\ RanksPositive' /\ OwnEnds' /\ OneOpen' /\ Replaced' /\ NoLostUpdate'
  BY QuietRows DEF FirstWriterInv
<1>3. NoOwnOpen' /\ CheckedCommitted'
  BY QuietCalls DEF FirstWriterInv
<1> QED
  BY <1>1, <1>2, <1>3, Zenon DEF FirstWriterInv

\* A transaction sees its own version of a row until it ends it ...
LEMMA OwnVisible ==
  ASSUME TInv, MarksInv, OwnEnds, NEW t \in TxID, pc[t] \in {"idle", "scan"},
         NEW r \in RowID, NEW v \in rows[r], v.begin = Id(t), v.end # Id(t)
  PROVE  v \in VisibleVersions(t, r) /\ v.end = None
<1>1. v.end = None
  BY DEF OwnEnds
<1>2. txs[t].state = "Active"
  BY DEF MarksInv, PcState
<1> QED
  BY <1>1, <1>2 DEF VisibleVersions, is_visible_to, is_begin_visible, is_end_visible, Id

\* A write call that ends, waits no longer or has yet to look, without a version
\* written.
LEMMA CallEnds ==
  ASSUME NEW t \in TxID, pc[t] \in {"idle", "scan", "check", "push"},
         pc'[t] \in {"abort", "mark", "idle", "scan"},
         pc'[t] = "mark" => pc[t] = "check" /\ call'[t].row = call[t].row,
         \A u \in TxID \ {t} : pc'[u] = pc[u] /\ call'[u] = call[u],
         UNCHANGED <<clock, txs, rows, todo, superseded>>
  PROVE  Quiet /\ SameCalls
<1>1. ASSUME NEW u \in TxID, u # t PROVE QuietFor(u) /\ SameCall(u)
  BY <1>1, Zenon DEF QuietFor, SameCall, Begun, Ending, RolledBack, Writing
<1>2. QuietFor(t) /\ SameCall(t)
  BY ZenonT(20) DEF QuietFor, SameCall, Begun, Ending, RolledBack, Writing
<1> QED
  BY <1>1, <1>2, Zenon DEF Quiet, SameCalls

\* ... and what it sees of others is committed, and older in the Vec.
LEMMA SeenOlder ==
  ASSUME TInv, MarksInv, FirstWriterInv, NEW t \in TxID, pc[t] = "scan",
         NEW r \in RowID, NEW rv \in VisibleVersions(t, r), rv.begin # Id(t)
  PROVE  /\ CommittedBegin(rv)
         /\ \A w \in rows[r] : w.begin = Id(t) => rv.rank < w.rank
<1>0. rv \in rows[r] /\ is_begin_visible(t, rv)
  BY DEF VisibleVersions, is_visible_to
<1>1. \A u \in TxID : txs[u].begin_ts \in Nat /\ txs[u].end_ts \in Nat
  BY SMTT(30) DEF TInv, TypeOK, Transaction
<1>2. CASE rv.begin.kind = "ts" /\ rv.begin.at \in Nat
  <2>1. txs[t].begin_ts >= rv.begin.at
    BY <1>0, <1>2 DEF is_begin_visible
  <2>2. rv.begin.at # txs[t].begin_ts
    BY <1>0, <1>2 DEF FirstWriterInv, StampsFresh, Begun
  <2>3. get_begin_timestamp(rv.begin) < txs[t].begin_ts
    BY <1>1, <1>2, <2>1, <2>2 DEF get_begin_timestamp
  <2> QED
    BY <1>0, <1>2, <2>3, Zenon DEF FirstWriterInv, RankOrder, CommittedBegin
<1>3. CASE rv.begin.kind = "tx" /\ rv.begin.at \in TxID /\ rv.begin = Id(rv.begin.at)
  <2> DEFINE u == rv.begin.at
  <2>1. txs[u].state = "Committed" /\ txs[t].begin_ts >= txs[u].end_ts
    BY <1>0, <1>3 DEF is_begin_visible
  <2>2. Ending(u) /\ Tracked(u)
    BY <1>3, <2>1, CommittedPc DEF MarksInv, Ending, Tracked
  <2>3. txs[u].begin_ts < txs[u].end_ts
    BY <1>3, <2>2 DEF FirstWriterInv, TimestampsFresh
  <2>4. get_begin_timestamp(rv.begin) < txs[t].begin_ts
    BY <1>1, <1>3, <2>1, <2>2, <2>3 DEF get_begin_timestamp
  <2> QED
    BY <1>0, <1>3, <2>1, <2>4 DEF FirstWriterInv, RankOrder, CommittedBegin
<1> QED
  BY <1>0, <1>2, <1>3, StampShape

\* So the version delete() finds is the transaction's own one if it has an open one.
LEMMA NewestOwn ==
  ASSUME TInv, MarksInv, FirstWriterInv, NEW t \in TxID, pc[t] = "scan",
         NEW r \in RowID, NEW rv \in VisibleVersions(t, r), IsNewest(rv, VisibleVersions(t, r)),
         NEW w \in rows[r], w.begin = Id(t), w.end # Id(t)
  PROVE  w = rv
<1>0. rv \in rows[r] /\ is_begin_visible(t, rv)
  BY Zenon DEF VisibleVersions, is_visible_to
<1>1. w \in VisibleVersions(t, r) /\ w.end = None
  BY OwnVisible DEF FirstWriterInv
<1>2. w.rank <= rv.rank /\ w.rank \in Nat /\ rv.rank \in Nat
  <2>1. w.rank \in Nat /\ rv.rank \in Nat
    BY <1>0, StampShape, Zenon DEF RowVersion
  <2> QED
    BY <1>1, <2>1, Zenon DEF IsNewest
<1>3. rv.begin = Id(t)
  <2>1. rv.begin # Id(t) => rv.rank < w.rank
    BY SeenOlder
  <2> QED
    BY <1>2, <2>1
<1>4. rv.end = None
  <2>1. txs[t].state = "Active"
    BY Zenon DEF MarksInv, PcState
  <2> QED
    BY <1>0, <1>3, <2>1 DEF is_begin_visible, Id
<1> QED
  BY <1>0, <1>1, <1>3, <1>4, NoneNotStamp, Zenon DEF FirstWriterInv, OneOpen

\* A write call that starts, to add a version or to wait on one.
LEMMA EnterKeeps ==
  ASSUME TInv, MarksInv, TInv', MarksInv', [Next]_vars, FirstWriterInv,
         NEW t \in TxID, NEW r \in RowID, pc[t] \in {"idle", "scan"},
         UNCHANGED <<clock, txs, entry, rows, todo, superseded>>,
         pc'[t] \in {"insert", "check", "mark"}, call'[t].row = r,
         \A u \in TxID \ {t} : pc'[u] = pc[u] /\ call'[u] = call[u],
         \A v \in rows[r] : v.begin = Id(t) => v.end = Id(t),
         pc'[t] = "check" => CommittedBegin(call[t].rv)'
  PROVE  FirstWriterInv'
<1>1. Quiet
  BY SMTT(30) DEF Quiet, QuietFor, Begun, Ending, RolledBack
<1>2. TimestampsFresh' /\ StampsFresh' /\ SupersededFresh'
  BY <1>1, QuietTimes DEF FirstWriterInv
<1>3. RankOrder' /\ RanksPositive' /\ OwnEnds' /\ OneOpen' /\ Replaced' /\ NoLostUpdate'
  BY <1>1, QuietRows, Zenon DEF FirstWriterInv
<1>4. NoOwnOpen'
  BY DEF FirstWriterInv, NoOwnOpen
<1>5. CheckedCommitted'
  <2> SUFFICES ASSUME NEW u \in TxID, pc'[u] = "check",
                      entry'[call'[u].row].live, entry'[call'[u].row].gen = call'[u].gen
               PROVE  CommittedBegin(call[u].rv)'
    BY Zenon DEF CheckedCommitted
  <2>1. CASE u = t
    BY <2>1, Zenon
  <2>2. CASE u # t
    BY <1>1, <2>2, QuietChecked, Zenon DEF FirstWriterInv
  <2> QED
    BY <2>1, <2>2, Zenon
<1> QED
  BY <1>2, <1>3, <1>4, <1>5, Zenon DEF FirstWriterInv

LEMMA StartsKeeps ==
  ASSUME NoInsertOver, TInv, MarksInv, TInv', MarksInv', [Next]_vars, FirstWriterInv,
         NEW t \in TxID, NEW r \in RowID, Starts(t, r)
  PROVE  FirstWriterInv'
<1>1. /\ pc[t] = "idle" /\ pc'[t] \in {"insert", "scan"} /\ call'[t].row = r
      /\ UNCHANGED <<clock, txs, entry, rows, todo, superseded>>
      /\ \A u \in TxID \ {t} : pc'[u] = pc[u] /\ call'[u] = call[u]
  BY StartsEffect DEF StartCall, TInv, TypeOK
<1>2. CASE pc'[t] = "scan"
  <2>1. Quiet /\ SameCalls
    BY <1>1, <1>2, CallEnds, SMTT(30)
  <2> QED
    BY <2>1, QuietKeeps, Zenon
<1>3. CASE pc'[t] = "insert"
  <2>1. ASSUME NEW k \in {"insert", "insert_over"}, StartInsert(t, r, k)
        PROVE  VisibleVersions(t, r) = {}
    <3>1. k \in Ops /\ (k = "insert_over") = (VisibleVersions(t, r) # {})
      BY <2>1, Zenon DEF StartInsert
    <3>2. k # "insert_over"
      BY <3>1 DEF NoInsertOver
    <3> QED
      BY <3>1, <3>2
  <2>2. ASSUME NEW k \in {"delete", "update", "upsert"}, DeleteGet(t, r, k)
        PROVE  rows[r] = {}
    <3>1. ~entry[r].live
      BY <1>3, <2>2 DEF DeleteGet, Goto, TInv, TypeOK
    <3> QED
      BY <3>1 DEF MarksInv, UnlinkedEmpty
  <2>3. \A v \in rows[r] : v.begin = Id(t) => v.end = Id(t)
    BY <1>1, <2>1, <2>2, OwnVisible, Zenon DEF FirstWriterInv, Starts
  <2> QED
    BY <1>1, <1>3, <2>3, EnterKeeps, ZenonT(30)
<1> QED
  BY <1>1, <1>2, <1>3, Zenon

LEMMA DeleteKeeps ==
  ASSUME TInv, MarksInv, TInv', MarksInv', [Next]_vars, FirstWriterInv,
         NEW t \in TxID, NEW r \in RowID, Delete(t, r)
  PROVE  FirstWriterInv'
<1> DEFINE seen == VisibleVersions(t, r)
<1>0. /\ pc[t] = "scan" /\ r = call[t].row
      /\ UNCHANGED <<clock, txs, entry, todo>>
      /\ \A u \in TxID \ {t} : pc'[u] = pc[u] /\ call'[u] = call[u]
  BY DeleteFrame, DeleteEffect, Zenon
<1>1. ASSUME NEW p \in {"insert", "mark"}, pc' = [pc EXCEPT ![t] = p],
             UNCHANGED <<rows, superseded, call>>,
             Linked(r, call[t].gen) => seen = {}
      PROVE  FirstWriterInv'
  <2>1. pc'[t] = p /\ call'[t].row = r
    BY <1>0, <1>1, Zenon DEF TInv, TypeOK
  <2>2. \A v \in rows[r] : v.begin = Id(t) => v.end = Id(t)
    <3>1. CASE Linked(r, call[t].gen)
      BY <1>0, <1>1, <3>1, OwnVisible, Zenon DEF FirstWriterInv
    <3>2. CASE ~Linked(r, call[t].gen)
      BY <1>0, <3>2, Zenon DEF MarksInv, UndoOK
    <3> QED
      BY <3>1, <3>2
  <2> QED
    BY <1>0, <1>1, <2>1, <2>2, EnterKeeps, ZenonT(30)
<1>2. ASSUME NEW p \in {"idle", "abort"}, pc' = [pc EXCEPT ![t] = p],
             UNCHANGED <<rows, superseded>>
      PROVE  FirstWriterInv'
  <2>1. pc'[t] \in {"idle", "abort"}
    BY <1>2, Zenon DEF TInv, TypeOK
  <2>2. Quiet /\ SameCalls
    BY <1>0, <1>2, <2>1, CallEnds, SMTT(30)
  <2> QED
    BY <2>2, QuietKeeps, Zenon
<1>3. ASSUME NEW rv \in seen, IsNewest(rv, seen), rv.end.kind = "tx",
             pc' = [pc EXCEPT ![t] = "check"], call' = [call EXCEPT ![t].rv = rv],
             UNCHANGED <<rows, superseded>>
      PROVE  FirstWriterInv'
  <2>1. pc'[t] = "check"
    BY <1>3, Zenon DEF TInv, TypeOK
  <2>2. rv.end # None /\ rv \in rows[r] /\ is_begin_visible(t, rv)
    <3>1. rv.end # None
      BY <1>3 DEF None
    <3> QED
      BY <3>1, Zenon DEF VisibleVersions, is_visible_to
  <2>3. rv.begin # Id(t)
    <3>1. txs[t].state = "Active"
      BY <1>0, Zenon DEF MarksInv, PcState
    <3> QED
      BY <2>2, <3>1, SMTT(30) DEF is_begin_visible, Id
  <2>4. CommittedBegin(rv)
    BY <1>0, <2>3, SeenOlder, Zenon
  <2>5. \A v \in rows[r] : v.begin = Id(t) => v.end = Id(t)
    BY <1>0, <1>3, <2>3, NewestOwn, Zenon
  <2>6. call'[t].row = r /\ call'[t].rv = rv
    <3>1. rv \in RowVersion /\ call[t] \in WriteCall
      BY <2>2, StampShape, Zenon DEF TInv, TypeOK
    <3>2. [call[t] EXCEPT !.rv = rv].row = r /\ [call[t] EXCEPT !.rv = rv].rv = rv
      BY <1>0, <3>1, WriteCallRv, Zenon
    <3> QED
      BY <1>3, <3>2, Zenon DEF TInv, TypeOK
  <2>7. CommittedBegin(call[t].rv)'
    BY <1>0, <2>4, <2>6, Zenon DEF CommittedBegin
  <2> QED
    BY <1>0, <1>3, <2>1, <2>5, <2>6, <2>7, EnterKeeps, ZenonT(30)
<1>4. ASSUME NEW rv \in seen, IsNewest(rv, seen), rv.end = None, Linked(r, call[t].gen),
             UNCHANGED call, Mark(t, r, call[t].gen, rv)
      PROVE  FirstWriterInv'
  <2>1. rv \in rows[r]
    BY SMTT(30) DEF VisibleVersions
  <2>2. entry[r].live /\ Mark(t, r, entry[r].gen, rv) /\ call'[t].row = r
    BY <1>0, <1>4, Zenon
  <2>3. ~is_write_write_conflict(t, rv)
    <3>1. rv.end = None
      BY <1>4, Zenon
    <3>2. rv.end.kind = "none"
      BY <3>1, SMTT(10), SMTT(30) DEF None
    <3> QED
      BY <3>2 DEF is_write_write_conflict
  <2>4. rv.begin = Id(t) \/ CommittedBegin(rv)
    BY <1>0, SeenOlder, Zenon
  <2>5. \A w \in rows[r] : w.begin = Id(t) => w.end = Id(t) \/ w = rv
    BY <1>0, <1>4, NewestOwn, Zenon
  <2> QED
    BY <1>0, <2>1, <2>2, <2>3, <2>4, <2>5, MarkKeeps, ZenonT(30)
<1>5. CASE NotFound(t) /\ (Linked(r, call[t].gen) => seen = {})
  BY <1>1, <1>2, <1>5, ZenonT(30) DEF NotFound
<1>6. CASE Conflict(t)
  BY <1>2, <1>6, ZenonT(30) DEF Conflict
<1> QED
  BY <1>1, <1>3, <1>4, <1>5, <1>6, DeleteEffect, ZenonT(30)

\* The second look, with the lock of the Vec still held.
LEMMA CheckKeeps ==
  ASSUME TInv, MarksInv, TInv', MarksInv', [Next]_vars, FirstWriterInv,
         NEW t \in TxID, CheckConflict(t)
  PROVE  FirstWriterInv'
<1> DEFINE r == call[t].row
           rv == call[t].rv
<1>0. /\ pc[t] = "check" /\ r \in RowID /\ UNCHANGED <<clock, txs, entry, todo>>
  BY Zenon DEF CheckConflict, TInv, CallOK
<1>1. ASSUME UNCHANGED <<rows, superseded>>, pc'[t] \in {"abort", "mark"},
             pc'[t] = "mark" => call'[t].row = r,
             \A u \in TxID \ {t} : pc'[u] = pc[u] /\ call'[u] = call[u]
      PROVE  FirstWriterInv'
  <2>1. Quiet /\ SameCalls
    BY <1>0, <1>1, CallEnds, ZenonT(20)
  <2> QED
    BY <2>1, QuietKeeps, SMTT(30)
<1>2. CASE pc' = [pc EXCEPT ![t] = "abort"] /\ EndCall(t) /\ UNCHANGED <<rows, superseded>>
  <2>1. pc'[t] = "abort" /\ \A u \in TxID \ {t} : pc'[u] = pc[u] /\ call'[u] = call[u]
    BY <1>2, Zenon DEF EndCall, TInv, TypeOK
  <2> QED
    BY <1>1, <1>2, <2>1, ZenonT(20)
<1>3. CASE /\ ~is_write_write_conflict(t, rv)
           /\ Mark(t, r, call[t].gen, rv)
           /\ call' = [call EXCEPT ![t].rv = NoVersion]
  <2>1. call'[t].row = r /\ \A u \in TxID \ {t} : call'[u] = call[u]
    BY <1>3, SMTT(30) DEF TInv, TypeOK, WriteCall
  <2>2. pc'[t] = "mark" /\ \A u \in TxID \ {t} : pc'[u] = pc[u]
    BY <1>3, SMTT(30) DEF Mark, TInv, TypeOK
  <2>3. CASE ~Linked(r, call[t].gen)
    <3>1. UNCHANGED <<rows, superseded>>
      BY <1>3, <2>3, Zenon DEF Mark
    <3> QED
      BY <1>1, <2>1, <2>2, <3>1, ZenonT(20)
  <2>4. CASE entry[r].live /\ entry[r].gen = call[t].gen
    <3>1. rv \in rows[r]
      BY <1>0, <2>4, ZenonT(30) DEF MarksInv, LockOK
    <3>2. CommittedBegin(rv)
      BY <1>0, <2>4, Zenon DEF FirstWriterInv, CheckedCommitted
    <3>3. \A w \in rows[r] : w.begin = Id(t) => w.end = Id(t)
      BY <1>0, Zenon DEF FirstWriterInv, NoOwnOpen
    <3>4. Mark(t, r, entry[r].gen, rv)
      BY <1>3, <2>4, Zenon
    <3> HIDE DEF r, rv
    <3> QED
      BY <1>0, <1>3, <2>1, <2>4, <3>1, <3>2, <3>3, <3>4, MarkKeeps, ZenonT(30)
  <2> QED
    BY <2>3, <2>4
<1> QED
  BY <1>2, <1>3 DEF CheckConflict, Conflict

-----------------------------------------------------------------------------
(* The invariant                                                           *)

LEMMA FirstWriterInit ==
  ASSUME Init
  PROVE  FirstWriterInv
<1>1. /\ clock = 1 /\ \A t \in TxID : /\ txs[t].begin_ts = 0 /\ txs[t].end_ts = 0
                                     /\ pc[t] = "start" /\ superseded[t] = {}
  BY Zenon DEF Init, NoTransaction
<1>2. ASSUME NEW r \in RowID, NEW v \in rows[r]
      PROVE  v = [rank |-> 1, begin |-> Timestamp(0), end |-> None]
  BY Zenon DEF Init
<1>3. ASSUME NEW r \in RowID, NEW v \in rows[r]
      PROVE  /\ v.rank = 1 /\ v.begin = Timestamp(0) /\ v.begin.kind = "ts" /\ v.begin.at = 0
             /\ \A t \in TxID : v.begin # Id(t)
  <2>1. v.rank = 1 /\ v.begin = Timestamp(0)
    BY <1>2
  <2>2. \A t \in TxID : Timestamp(0) # Id(t)
    BY IdNotStamp, Zenon
  <2> QED
    BY <2>1, <2>2 DEF Timestamp
<1>4. TimestampsFresh /\ SupersededFresh /\ NoLostUpdate
  BY <1>1, SMTT(30) DEF TimestampsFresh, SupersededFresh, NoLostUpdate, Begun, Ending
<1>5. StampsFresh
  BY <1>1, <1>3 DEF StampsFresh, Begun, Ending
<1>6. RankOrder /\ RanksPositive /\ OwnEnds
  BY <1>3 DEF RankOrder, RanksPositive, OwnEnds
<1>7. OneOpen
  BY <1>2 DEF OneOpen
<1>8. NoOwnOpen /\ CheckedCommitted
  BY <1>1, Zenon DEF NoOwnOpen, CheckedCommitted
<1>9. Replaced
  BY <1>1 DEF Replaced
<1> QED
  BY <1>4, <1>5, <1>6, <1>7, <1>8, <1>9 DEF FirstWriterInv

LEMMA FirstWriterNext ==
  ASSUME NoInsertOver, TInv, MarksInv, FirstWriterInv, [Next]_vars
  PROVE  FirstWriterInv'
<1>0. TInv' /\ MarksInv'
  BY MarksNext, Zenon
<1>1. CASE Quiet /\ SameCalls
  BY <1>0, <1>1, QuietKeeps, ZenonT(30)
<1>2. ASSUME NEW t \in TxID, DrawBeginTs(t) \/ DrawEndTs(t) \/ Publish(t)
      PROVE  FirstWriterInv'
  <2>1. Draws(t)
    BY <1>2, Zenon DEF Draws
  <2> QED
    BY <1>0, <2>1, DrawKeeps, Zenon
<1>3. ASSUME NEW t \in TxID, CheckConflict(t) PROVE FirstWriterInv'
  BY <1>0, <1>3, CheckKeeps, Zenon
<1>4. ASSUME NEW t \in TxID, PushVersion(t) PROVE FirstWriterInv'
  <2>1. CASE insert_version_raw(t, call[t].row)
    BY <1>0, <1>4, <2>1, PushKeeps
  <2>2. CASE UNCHANGED rows
    <3>1. /\ UNCHANGED <<clock, txs, entry, todo, superseded>>
          /\ pc[t] = "push" /\ pc'[t] = "idle"
          /\ \A u \in TxID \ {t} : call'[u] = call[u] /\ pc'[u] = pc[u]
      BY <1>4, ZenonT(30) DEF PushVersion, Goto, EndCall, TInv, TypeOK
    <3>2. Quiet /\ SameCalls
      BY <2>2, <3>1, CallEnds, SMTT(30)
    <3> QED
      BY <1>0, <3>2, QuietKeeps, Zenon
  <2> QED
    BY <1>4, <2>1, <2>2, Zenon DEF PushVersion
<1>5. ASSUME NEW t \in TxID, NEW r \in RowID, Starts(t, r) PROVE FirstWriterInv'
  BY <1>0, <1>5, StartsKeeps
<1>6. ASSUME NEW t \in TxID, NEW r \in RowID, Rewrite(t, r) PROVE FirstWriterInv'
  BY <1>6, RewriteKeeps
<1>7. ASSUME NEW t \in TxID, NEW r \in RowID, Delete(t, r) PROVE FirstWriterInv'
  BY <1>0, <1>7, DeleteKeeps, Zenon
<1> QED
  BY <1>1, <1>2, <1>3, <1>4, <1>5, <1>6, <1>7, StepKinds, ZenonT(30) DEF Deletes

\* The first writer wins, whatever the number of transactions and rows: of two
\* transactions that replaced the same committed version one is rolled back.  (When a
\* transaction inserts a row twice, both versions get one commit timestamp, and a
\* version is no longer named by its row and timestamp.)
THEOREM FirstWriterWins == NoInsertOver => (Spec => []NoLostUpdate)
<1> SUFFICES ASSUME NoInsertOver PROVE Spec => []NoLostUpdate
  OBVIOUS
<1>1. Init => TInv /\ MarksInv /\ FirstWriterInv
  BY MarksInit, FirstWriterInit
<1>2. TInv /\ MarksInv /\ FirstWriterInv /\ [Next]_vars
        => (TInv /\ MarksInv /\ FirstWriterInv)'
  BY MarksNext, FirstWriterNext
<1>3. FirstWriterInv => NoLostUpdate
  BY DEF FirstWriterInv
<1> QED
  BY <1>1, <1>2, <1>3, PTL DEF Spec

=============================================================================
