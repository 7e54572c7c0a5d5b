----------------------------- MODULE MvccRefines -----------------------------
(***************************************************************************)
(* The multi-version store implements RowLockStore when clients update and *)
(* delete rows: a version's end mark is the writer's claim, the store of   *)
(* Committed is the commit; every other step is invisible.                 *)
(***************************************************************************)
EXTENDS Mvcc

Current(r) == {v \in rows[r] : CommittedBegin(v) /\ ~CommittedEnd(v)}

rowValue ==
  [r \in RowID |-> IF Current(r) = {} THEN -1
                   ELSE CommitTsOf(CHOOSE v \in Current(r) : TRUE)]

claimed ==
  [t \in TxID |-> {r \in RowID : Live(t) /\ \E v \in Current(r) : v.end = Id(t)}]

Locks == INSTANCE RowLockStore WITH
  Writer <- TxID, Row <- RowID, Stamp <- 0 .. MaxTs, Absent <- -1,
  db <- rowValue, claims <- claimed

\* Every behaviour of the store, clients that update, delete and roll back, is one
\* of RowLockStore: exclusive writers, and commits that replace rows all at once.
ImplementsRowLocks == Locks!AbsSpec
=============================================================================
