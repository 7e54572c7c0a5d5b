------------------------------- MODULE MvccInd -------------------------------
(***************************************************************************)
(* The inductive invariants behind MarksResolved, LoggedBeforeVisible,     *)
(* NoDirtyRead and NoLostUpdate.                                           *)
(***************************************************************************)
EXTENDS Mvcc

\* While a call is under way its row is a row; while it waits between its two
\* looks at a version, that version is one.
CallOK ==
  \A t \in TxID :
    /\ pc[t] \in {"scan", "insert", "entry", "push", "check", "mark", "undorow"}
         => call[t].row \in RowID
    /\ pc[t] = "check" => call[t].rv \in RowVersion

TInv == TypeOK /\ CallOK

\* The state of a transaction follows from where its thread is.
PcState ==
  \A t \in TxID :
    /\ pc[t] \in {"start", "begin", "committed", "aborted"} => txs[t].state = "Untracked"
    /\ pc[t] \in {"idle", "scan", "insert", "entry", "push", "check", "mark", "prepare", "abort"}
         => txs[t].state = "Active"
    /\ pc[t] \in {"log", "publish"} => txs[t].state = "Preparing"
    /\ pc[t] = "rewrite" => txs[t].state = "Committed"
    /\ pc[t] \in {"undo", "undorow"} => txs[t].state = "Aborted"
    /\ pc[t] = "remove" => txs[t].state = "Terminated"

\* A begin mark is in the write set of a transaction that has yet to resolve it.
OwesBegin(u, r) ==
  /\ pc[u] \notin {"start", "begin", "committed", "remove", "aborted"}
  /\ r \in txs[u].write_set
  /\ pc[u] \in {"rewrite", "undo", "undorow"} => r \in todo[u]

BeginMarks ==
  \A r \in RowID : \A v \in rows[r] : \A u \in TxID : v.begin = Id(u) => OwesBegin(u, r)

\* So is an end mark, but for the mark just made and for those of rollbacks.
OwesEnd(u, r) ==
  /\ pc[u] \notin {"start", "begin", "committed"}
  /\ \/ RolledBack(u)
     \/ r \in txs[u].write_set
     \/ pc[u] = "mark" /\ call[u].row = r
  /\ pc[u] = "rewrite" => r \in todo[u]

EndMarks ==
  \A r \in RowID : \A v \in rows[r] : \A u \in TxID : v.end = Id(u) => OwesEnd(u, r)

\* insert() puts the row in the write set before it adds the version.
InsertInWriteSet ==
  \A t \in TxID : pc[t] \in {"entry", "push"} => call[t].row \in txs[t].write_set

\* An unlinked entry has no versions that count.
UnlinkedEmpty == \A r \in RowID : ~entry[r].live => rows[r] = {}

\* delete() holds the row's lock between its two looks at the marks: the version
\* it found stays where it is, unless the whole Vec is unlinked.
LockOK ==
  /\ \A t \in TxID : pc[t] = "check" =>
       /\ call[t].gen <= entry[call[t].row].gen
       /\ Linked(call[t].row, call[t].gen) => call[t].rv \in rows[call[t].row]
  /\ \A t, u \in TxID :
       /\ pc[t] = "check" /\ pc[u] = "check"
       /\ call[t].row = call[u].row /\ call[t].gen = call[u].gen
       => t = u

\* A delete() or a rollback that holds a Vec which is no longer the row's has no
\* version in the one that is.
UndoOK ==
  \A t \in TxID :
    /\ pc[t] \in {"scan", "undorow"}
    /\ ~Linked(call[t].row, call[t].gen)
    => \A v \in rows[call[t].row] : v.begin # Id(t)

MarksInv ==
  /\ UndoOK
  /\ PcState
  /\ BeginMarks
  /\ EndMarks
  /\ InsertInWriteSet
  /\ UnlinkedEmpty
  /\ LockOK

-----------------------------------------------------------------------------
(* What LoggedBeforeVisible and NoDirtyRead need on top                    *)

InLog(r, stamp) == \E l \in log : l.row = r /\ l.begin = stamp

\* A version that has its commit timestamp, or whose transaction is past the log,
\* is in the log.
LoggedInv ==
  \A r \in RowID : \A v \in rows[r] :
    /\ v.begin.kind = "ts" => InLog(r, v.begin)
    /\ \A u \in TxID : v.begin = Id(u) /\ pc[u] \in {"publish", "rewrite"}
         => InLog(r, Timestamp(txs[u].end_ts))

\* A transaction reads nothing before it is tracked.
ReadsInv ==
  /\ \A t \in TxID : pc[t] \in {"start", "begin"} => observed[t] = {}
  /\ NoDirtyRead

-----------------------------------------------------------------------------
(* What NoLostUpdate needs on top                                          *)

\* t has drawn the end timestamp it may commit with.
Ending(t) == pc[t] \in {"prepare", "log", "publish", "rewrite"}
\* t has drawn its begin timestamp and is not over.
Begun(t) == pc[t] \notin {"start", "committed", "aborted"}

\* Timestamps come from one clock and are not shared.
TimestampsFresh ==
  /\ \A t \in TxID :
       /\ txs[t].begin_ts < clock
       /\ txs[t].end_ts < clock
       /\ Ending(t) => txs[t].begin_ts < txs[t].end_ts
  /\ \A t, u \in TxID :
       /\ Ending(t) /\ Ending(u) /\ t # u => txs[t].end_ts # txs[u].end_ts
       /\ Begun(t) /\ Ending(u) => txs[t].begin_ts # txs[u].end_ts

\* Nobody's begin or future end timestamp is in the store already.
StampsFresh ==
  \A r \in RowID : \A v \in rows[r] : v.begin.kind = "ts" =>
    /\ v.begin.at < clock
    /\ \A t \in TxID :
         /\ Begun(t) => v.begin.at # txs[t].begin_ts
         /\ Ending(t) /\ (pc[t] = "rewrite" => r \in todo[t]) => v.begin.at # txs[t].end_ts

SupersededFresh ==
  \A t \in TxID : \A x \in superseded[t] :
    /\ x[2] < clock
    /\ \A u \in TxID : pc[u] \in {"prepare", "log", "publish"} => x[2] # txs[u].end_ts

\* A transaction's own version is newer, in the Vec, than all that began before it.
RankOrder ==
  \A r \in RowID, t \in TxID : \A v, w \in rows[r] :
    w.begin = Id(t) /\ get_begin_timestamp(v.begin) < txs[t].begin_ts => v.rank < w.rank

\* The first place of a Vec has rank 1.
RanksPositive == \A r \in RowID : \A v \in rows[r] : v.rank > 0

\* Until a transaction publishes, nobody else marks its versions.
OwnEnds ==
  \A r \in RowID, t \in TxID : \A v \in rows[r] :
    v.begin = Id(t) /\ pc[t] # "rewrite" => v.end \in {None, Id(t)}

\* A transaction that is about to add a version of a row has no open one there.
NoOwnOpen ==
  \A t \in TxID :
    pc[t] \in {"insert", "entry", "push", "check", "mark"} =>
      \A v \in rows[call[t].row] : v.begin = Id(t) => v.end = Id(t)

\* Of the versions one transaction added to a row, one at most was not ended by it.
OneOpen ==
  \A r \in RowID : \A v, w \in rows[r] :
    v.begin = w.begin /\ v.end # v.begin /\ w.end # w.begin => v = w

\* The version delete() waits on was committed by another.
CheckedCommitted ==
  \A t \in TxID :
    /\ pc[t] = "check"
    /\ Linked(call[t].row, call[t].gen)
    => CommittedBegin(call[t].rv)

\* What a transaction replaced stays ended, by it or by a commit.
Replaced ==
  \A t \in TxID, r \in RowID : \A v \in rows[r] :
    /\ ~RolledBack(t)
    /\ CommittedBegin(v) /\ v.end # v.begin
    /\ <<r, CommitTsOf(v)>> \in superseded[t]
    => v.end.kind = "ts" \/ v.end = Id(t)

FirstWriterInv ==
  /\ TimestampsFresh
  /\ StampsFresh
  /\ SupersededFresh
  /\ RankOrder
  /\ RanksPositive
  /\ OwnEnds
  /\ NoOwnOpen
  /\ OneOpen
  /\ CheckedCommitted
  /\ Replaced
  /\ NoLostUpdate
=============================================================================
