-------------------------------- MODULE Mvcc --------------------------------
(***************************************************************************)
(* The multi-version row store of oxisqlite-core                           *)
(* (crates/oxisqlite-core/mvcc/database/mod.rs, MvStore).                  *)
(*                                                                         *)
(* Every transaction is driven by one thread.  A step is what the code     *)
(* does while it holds one lock, or one atomic load or store; between two  *)
(* steps of a call the other threads and the garbage collector may act.    *)
(*                                                                         *)
(* A version carries no payload: a committed version is identified by the  *)
(* commit timestamp in its begin field.  The Vec of a row's versions is a  *)
(* set whose members carry their rank in the Vec (ranks may have gaps).    *)
(***************************************************************************)
EXTENDS Integers

CONSTANTS
  TxID,      \* transactions (one thread each)
  RowID,     \* row identifiers, a set of numbers: write sets are walked in order
  Ops,       \* the client calls that are made: a subset of Calls
  Preload,   \* the rows a transaction committed before the others begin
  MaxTs,     \* bound: timestamps the clock hands out
  MaxWrites  \* bound: write calls a transaction makes

Calls == {"insert", "insert_over", "update", "upsert", "delete", "read", "rollback", "gc"}

ASSUME RowIDAssumption == RowID \subseteq Nat
ASSUME OpsAssumption == Ops \subseteq Calls
ASSUME PreloadAssumption == Preload \subseteq RowID
ASSUME BoundsAssumption == MaxTs \in Nat /\ MaxWrites \in Nat

VARIABLES
  clock,      \* the next timestamp
  txs,        \* [TxID -> transaction]; state "Untracked": not in MvStore::txs
  entry,      \* [RowID -> the row's entry in the SkipMap: is it there, which one]
  rows,       \* [RowID -> the versions in that entry's Vec]
  log,        \* what Storage::log_tx was handed: [row, begin, end]
  pc,         \* [TxID -> where the thread is inside a call]
  call,       \* [TxID -> the write call it is in: kind, row, entry, version; how many so far]
  todo,       \* [TxID -> rows the commit or rollback loop still has to visit]
  gc,         \* the collector: phase, rows ahead, the row it is at, rows found empty
  superseded, \* history: [TxID -> <<row, commit timestamp>> of what it replaced]
  observed    \* history: [TxID -> <<row, version>> that read() returned]

vars == <<clock, txs, entry, rows, log, pc, call, todo, gc, superseded, observed>>

-----------------------------------------------------------------------------
(* Data                                                                    *)

Timestamp(n) == [kind |-> "ts", at |-> n]
Id(t)        == [kind |-> "tx", at |-> t]
None         == [kind |-> "none", at |-> 0]

BeginStamp == [kind : {"ts"}, at : Nat] \cup [kind : {"tx"}, at : TxID]
EndStamp   == BeginStamp \cup {None}
RowVersion == [rank : Nat, begin : BeginStamp, end : EndStamp]

TransactionState ==
  {"Untracked", "Active", "Preparing", "Committed", "Aborted", "Terminated"}

Transaction == [state : TransactionState, begin_ts : Nat, end_ts : Nat,
                write_set : SUBSET RowID, read_set : SUBSET RowID]

NoTransaction == [state |-> "Untracked", begin_ts |-> 0, end_ts |-> 0,
                  write_set |-> {}, read_set |-> {}]

LoggedVersion == [row : RowID, begin : BeginStamp, end : EndStamp]
Entry         == [live : BOOLEAN, gen : Nat]
Collector     == [phase : {"idle", "scan", "row", "remove"}, scan : SUBSET RowID,
                  row : Nat, gen : Nat, empty : SUBSET RowID]
WriteCall     == [kind : Calls \cup {"none"}, row : Nat, gen : Nat, n : Nat,
                  rv : [rank : Nat, begin : EndStamp, end : EndStamp]]

Control == {"start", "begin", "idle", "scan", "insert", "entry", "push", "check", "mark",
            "prepare", "log", "publish", "rewrite", "abort", "undo", "undorow", "remove",
            "committed", "aborted"}

Tracked(t) == txs[t].state # "Untracked"
Live(t)    == txs[t].state \in {"Active", "Preparing"}

-----------------------------------------------------------------------------
(* Visibility                                                              *)

is_begin_visible(t, rv) ==
  IF rv.begin.kind = "ts"
  THEN txs[t].begin_ts >= rv.begin.at
  ELSE LET tb == rv.begin.at IN
       \/ txs[tb].state = "Active" /\ tb = t /\ rv.end = None
       \/ txs[tb].state = "Committed" /\ txs[t].begin_ts >= txs[tb].end_ts

\* Mutant: a version that a commit ended stays visible.
is_end_visible_kept(t, rv) ==
  \/ rv.end.kind # "tx"
  \/ LET te == rv.end.at IN txs[te].state \in {"Active", "Committed"} /\ te # t

is_end_visible(t, rv) ==
  \/ rv.end = None
  \/ rv.end.kind = "ts" /\ txs[t].begin_ts < rv.end.at
  \/ /\ rv.end.kind = "tx"
     /\ LET te == rv.end.at IN
        \/ txs[te].state = "Active" /\ te # t
        \/ txs[te].state = "Committed" /\ txs[t].begin_ts < txs[te].end_ts

is_visible_to(rv, t) == is_begin_visible(t, rv) /\ is_end_visible(t, rv)

\* Mutant: only a finished writer conflicts.
is_write_write_conflict_ts_only(t, rv) == rv.end.kind = "ts"

is_write_write_conflict(t, rv) ==
  \/ rv.end.kind = "ts"
  \/ /\ rv.end.kind = "tx"
     /\ Tracked(rv.end.at)
     /\ rv.end.at # t
     /\ txs[rv.end.at].state # "Aborted"

\* the version a newest-first scan of the row's Vec stops at
IsNewest(v, vs) == v \in vs /\ \A w \in vs : w.rank <= v.rank

VisibleVersions(t, r) == {v \in rows[r] : is_visible_to(v, t)}

-----------------------------------------------------------------------------
(* Helpers of the store                                                    *)

get_begin_timestamp(stamp) ==
  IF stamp.kind = "ts" THEN stamp.at
  ELSE IF Tracked(stamp.at) THEN txs[stamp.at].begin_ts ELSE 0

\* rows[r] becomes vs with a version by t put after the last older one
insert_version_raw(t, r) ==
  LET older == {v \in rows[r] :
                  get_begin_timestamp(v.begin) < get_begin_timestamp(Id(t))}
      shift(v, pos) == IF v.rank >= pos THEN [v EXCEPT !.rank = @ + 1] ELSE v
  IN \E pos \in {1} \cup {v.rank + 1 : v \in older} :
       /\ \A v \in older : v.rank < pos
       /\ rows' = [rows EXCEPT ![r] =
            {shift(v, pos) : v \in @}
              \cup {[rank |-> pos, begin |-> Id(t), end |-> None]}]

owned(rv, t) == rv.begin = Id(t) \/ rv.end = Id(t)

rewritten_for_commit(rv, t) ==
  [rv EXCEPT !.begin = IF @ = Id(t) THEN Timestamp(txs[t].end_ts) ELSE @,
             !.end   = IF @ = Id(t) THEN Timestamp(txs[t].end_ts) ELSE @]

\* SkipMap::remove: the Vec is unlinked; a thread that still holds a reference
\* to it writes where no other thread looks
remove_row(r) ==
  /\ entry' = [entry EXCEPT ![r].live = FALSE]
  /\ rows' = [rows EXCEPT ![r] = {}]

\* the commit timestamp a version has, or will have once its writer commits
CommitTsOf(rv) ==
  IF rv.begin.kind = "ts" THEN rv.begin.at ELSE txs[rv.begin.at].end_ts

\* What t reads of r: the commit timestamp of the version, or its own mark.
Reads(t, r) ==
  LET seen == VisibleVersions(t, r) IN
  {IF v.begin = Id(t) THEN v.begin ELSE Timestamp(CommitTsOf(v)) :
     v \in {w \in seen : IsNewest(w, seen)}}

NoCollector == [phase |-> "idle", scan |-> {}, row |-> 0, gen |-> 0, empty |-> {}]
NoVersion == [rank |-> 0, begin |-> None, end |-> None]
NoCall(n) == [kind |-> "none", row |-> 0, gen |-> 0, rv |-> NoVersion, n |-> n]
StartCall(t, kind, r, rv) ==
  call' = [call EXCEPT ![t] =
             [kind |-> kind, row |-> r, gen |-> entry[r].gen, rv |-> rv, n |-> @.n + 1]]
EndCall(t) == call' = [call EXCEPT ![t] = NoCall(@.n)]

\* the Vec with number gen is still the one in the map
Linked(r, gen) == entry[r].live /\ entry[r].gen = gen

\* a delete() between its two looks at the marks of a version holds the row's lock
Locked(r) ==
  entry[r].live /\ \E u \in TxID :
    pc[u] = "check" /\ call[u].row = r /\ call[u].gen = entry[r].gen

SetState(t, s) == txs' = [txs EXCEPT ![t].state = s]
Goto(t, from, to) == pc[t] = from /\ pc' = [pc EXCEPT ![t] = to]

-----------------------------------------------------------------------------
Init ==
  /\ clock = 1
  /\ txs = [t \in TxID |-> NoTransaction]
  /\ entry = [r \in RowID |-> [live |-> r \in Preload, gen |-> 0]]
  /\ rows = [r \in RowID |-> IF r \in Preload
                             THEN {[rank |-> 1, begin |-> Timestamp(0), end |-> None]}
                             ELSE {}]
  /\ log = {[row |-> r, begin |-> Timestamp(0), end |-> None] : r \in Preload}
  /\ pc = [t \in TxID |-> "start"]
  /\ call = [t \in TxID |-> NoCall(0)]
  /\ todo = [t \in TxID |-> {}]
  /\ gc = NoCollector
  /\ superseded = [t \in TxID |-> {}]
  /\ observed = [t \in TxID |-> {}]

-----------------------------------------------------------------------------
(* begin_tx: the timestamp is drawn before the transaction is tracked      *)

DrawBeginTs(t) ==
  /\ clock < MaxTs
  /\ Goto(t, "start", "begin")
  /\ clock' = clock + 1
  /\ txs' = [txs EXCEPT ![t].begin_ts = clock]
  /\ UNCHANGED <<entry, rows, log, call, todo, gc, superseded, observed>>

Track(t) ==
  /\ Goto(t, "begin", "idle")
  /\ SetState(t, "Active")
  /\ UNCHANGED <<clock, entry, rows, log, call, todo, gc, superseded, observed>>

-----------------------------------------------------------------------------
(* insert, delete, update, upsert, read                                    *)

\* insert(): nothing is checked.  A call that inserts a row its transaction already
\* sees goes by a name of its own.
StartInsert(t, r, kind) ==
  /\ kind \in Ops
  /\ (kind = "insert_over") = (VisibleVersions(t, r) # {})
  /\ call[t].n < MaxWrites
  /\ Goto(t, "idle", "insert")
  /\ StartCall(t, kind, r, NoVersion)
  /\ UNCHANGED <<clock, txs, entry, rows, log, todo, gc, superseded, observed>>

\* Mutant: a copy of the version is marked.
Mark_copy(t, r, gen, rv) ==
  /\ pc' = [pc EXCEPT ![t] = "mark"]
  /\ UNCHANGED <<rows, superseded>>

\* delete() marks rv in the Vec it holds locked; if the Vec was unlinked meanwhile,
\* where no other thread looks
Mark(t, r, gen, rv) ==
  /\ pc' = [pc EXCEPT ![t] = "mark"]
  /\ rows' = IF Linked(r, gen)
             THEN [rows EXCEPT ![r] = (@ \ {rv}) \cup {[rv EXCEPT !.end = Id(t)]}]
             ELSE rows
  /\ superseded' = IF Linked(r, gen) /\ rv.begin # Id(t)
                   THEN [superseded EXCEPT ![t] = @ \cup {<<r, CommitTsOf(rv)>>}]
                   ELSE superseded

\* delete(), the first half of update() and upsert(): the row's entry is looked up.
\* Without one there is nothing to delete, and only upsert() goes on.
DeleteGet(t, r, kind) ==
  /\ kind \in Ops
  /\ call[t].n < MaxWrites
  /\ entry[r].live \/ kind = "upsert"
  /\ Goto(t, "idle", IF entry[r].live THEN "scan" ELSE "insert")
  /\ StartCall(t, kind, r, NoVersion)
  /\ UNCHANGED <<clock, txs, entry, rows, log, todo, gc, superseded, observed>>

\* No version is visible: Ok(false).
NotFound(t) ==
  /\ IF call[t].kind = "upsert"
     THEN pc' = [pc EXCEPT ![t] = "insert"] /\ UNCHANGED call
     ELSE pc' = [pc EXCEPT ![t] = "idle"] /\ EndCall(t)
  /\ UNCHANGED <<rows, superseded>>

Conflict(t) ==
  pc' = [pc EXCEPT ![t] = "abort"] /\ EndCall(t) /\ UNCHANGED <<rows, superseded>>

\* ... and its versions are scanned under its lock.  The states behind rv's marks are
\* read twice, for visibility and then for the conflict; when rv.end names another
\* transaction, which may abort in between, the conflict is decided in a step of its
\* own (CheckConflict).  A Vec that was unlinked meanwhile may hold anything.
Delete(t, r) ==
  LET seen == VisibleVersions(t, r) IN
  /\ pc[t] = "scan" /\ r = call[t].row
  /\ IF Linked(r, call[t].gen)
     THEN /\ ~Locked(r)
          /\ \/ seen = {} /\ NotFound(t)
             \/ \E rv \in seen :
                  /\ IsNewest(rv, seen)
                  /\ \/ /\ rv.end.kind = "tx"
                        /\ pc' = [pc EXCEPT ![t] = "check"]
                        /\ call' = [call EXCEPT ![t].rv = rv]
                        /\ UNCHANGED <<rows, superseded>>
                     \/ rv.end.kind = "ts" /\ Conflict(t)       \* whoever wrote it
                     \/ rv.end = None /\ Mark(t, r, call[t].gen, rv) /\ UNCHANGED call
     ELSE \/ NotFound(t) \/ Conflict(t)
          \/ Mark(t, r, call[t].gen, NoVersion) /\ UNCHANGED call
  /\ UNCHANGED <<clock, txs, entry, log, todo, gc, observed>>

CheckConflict(t) ==
  LET rv == call[t].rv IN
  /\ pc[t] = "check"
  /\ IF is_write_write_conflict(t, rv)
     THEN Conflict(t)
     ELSE /\ Mark(t, call[t].row, call[t].gen, rv)
          /\ call' = [call EXCEPT ![t].rv = NoVersion]
  /\ UNCHANGED <<clock, txs, entry, log, todo, gc, observed>>

\* the row locks are dropped before the write set learns of the row
MarkWriteSet(t) ==
  /\ pc[t] = "mark"
  /\ txs' = [txs EXCEPT ![t].write_set = @ \cup {call[t].row}]
  /\ IF call[t].kind = "delete"
     THEN pc' = [pc EXCEPT ![t] = "idle"] /\ EndCall(t)
     ELSE pc' = [pc EXCEPT ![t] = "insert"] /\ UNCHANGED call
  /\ UNCHANGED <<clock, entry, rows, log, todo, gc, superseded, observed>>

insert(t) ==
  /\ Goto(t, "insert", "entry")
  /\ txs' = [txs EXCEPT ![t].write_set = @ \cup {call[t].row}]
  /\ UNCHANGED <<clock, entry, rows, log, call, todo, gc, superseded, observed>>

\* insert_version: get_or_insert_with returns the row's entry ...
GetOrInsertEntry(t) ==
  LET r == call[t].row
      e == IF entry[r].live THEN entry[r] ELSE [live |-> TRUE, gen |-> entry[r].gen + 1]
  IN /\ Goto(t, "entry", "push")
     /\ entry' = [entry EXCEPT ![r] = e]
     /\ call' = [call EXCEPT ![t].gen = e.gen]
     /\ UNCHANGED <<clock, txs, rows, log, todo, gc, superseded, observed>>

\* ... and its lock is taken afterwards; by then it may have been unlinked
PushVersion(t) ==
  LET r == call[t].row IN
  /\ Goto(t, "push", "idle")
  /\ ~Locked(r)
  /\ IF Linked(r, call[t].gen)
     THEN insert_version_raw(t, r)
     ELSE UNCHANGED rows
  /\ EndCall(t)
  /\ UNCHANGED <<clock, txs, entry, log, todo, gc, superseded, observed>>

\* Mutant: read() returns the newest version, whoever wrote it.
read_newest(t, r) ==
  /\ "read" \in Ops
  /\ pc[t] = "idle"
  /\ ~Locked(r)
  /\ txs' = [txs EXCEPT ![t].read_set = @ \cup {r}]
  /\ observed' = [observed EXCEPT ![t] =
       @ \cup {<<r, Timestamp(CommitTsOf(v))>> : v \in {w \in rows[r] : IsNewest(w, rows[r])}}]
  /\ UNCHANGED <<clock, entry, rows, log, pc, call, todo, gc, superseded>>

\* The row's entry is looked up and its lock taken.  observed has what is read from the
\* row's own Vec: one that the collector unlinks between the two is not followed.
read(t, r) ==
  /\ "read" \in Ops
  /\ pc[t] = "idle"
  /\ ~Locked(r)
  /\ VisibleVersions(t, r) # {}
  /\ txs' = [txs EXCEPT ![t].read_set = @ \cup {r}]
  /\ observed' = [observed EXCEPT ![t] = @ \cup {<<r, x>> : x \in Reads(t, r)}]
  /\ UNCHANGED <<clock, entry, rows, log, pc, call, todo, gc, superseded>>

-----------------------------------------------------------------------------
(* commit_tx                                                               *)

DrawEndTs(t) ==
  /\ clock < MaxTs
  /\ Goto(t, "idle", "prepare")
  /\ clock' = clock + 1
  /\ txs' = [txs EXCEPT ![t].end_ts = clock]
  /\ UNCHANGED <<entry, rows, log, call, todo, gc, superseded, observed>>

Prepare(t) ==
  /\ Goto(t, "prepare", "log")
  /\ SetState(t, "Preparing")
  /\ UNCHANGED <<clock, entry, rows, log, call, todo, gc, superseded, observed>>

LogEntry(r, rv) == [row |-> r, begin |-> rv.begin, end |-> rv.end]

LogRecord(t) ==
  UNION {{LogEntry(r, rewritten_for_commit(v, t)) : v \in {w \in rows[r] : owned(w, t)}} :
           r \in txs[t].write_set}

\* log_tx succeeds, or there is nothing to log
Log(t) ==
  /\ Goto(t, "log", "publish")
  /\ log' = log \cup LogRecord(t)
  /\ UNCHANGED <<clock, txs, entry, rows, call, todo, gc, superseded, observed>>

\* Mutant: the error of log_tx is ignored.
LogFails_ignored(t) ==
  /\ LogRecord(t) # {}
  /\ Goto(t, "log", "publish")
  /\ UNCHANGED <<clock, txs, entry, rows, log, call, todo, gc, superseded, observed>>

\* log_tx fails: back to Active, the caller may retry or roll back
LogFails(t) ==
  /\ LogRecord(t) # {}
  /\ Goto(t, "log", "idle")
  /\ SetState(t, "Active")
  /\ UNCHANGED <<clock, entry, rows, log, call, todo, gc, superseded, observed>>

Publish(t) ==
  /\ Goto(t, "publish", "rewrite")
  /\ SetState(t, "Committed")
  /\ todo' = [todo EXCEPT ![t] = txs[t].write_set]
  /\ UNCHANGED <<clock, entry, rows, log, call, gc, superseded, observed>>

\* rows are visited in the order of the write set
IsNext(t, r) == r \in todo[t] /\ \A s \in todo[t] : r <= s

\* (What commit_tx does to a Vec unlinked after its lookup is of no consequence: the
\* row's own has no mark of t then.)
Rewrite(t, r) ==
  /\ pc[t] = "rewrite"
  /\ ~Locked(r)
  /\ IsNext(t, r)
  /\ todo' = [todo EXCEPT ![t] = @ \ {r}]
  /\ rows' = [rows EXCEPT ![r] = {rewritten_for_commit(v, t) : v \in @}]
  /\ UNCHANGED <<clock, txs, entry, log, pc, call, gc, superseded, observed>>

\* Mutant: the transaction leaves the map before its rows are rewritten.
CommitDone_early(t) ==
  /\ Goto(t, "rewrite", "committed")
  /\ txs' = [txs EXCEPT ![t] = NoTransaction]
  /\ UNCHANGED <<clock, entry, rows, log, call, todo, gc, superseded, observed>>

CommitDone(t) ==
  /\ todo[t] = {}
  /\ Goto(t, "rewrite", "committed")
  /\ txs' = [txs EXCEPT ![t] = NoTransaction]
  /\ UNCHANGED <<clock, entry, rows, log, call, todo, gc, superseded, observed>>

-----------------------------------------------------------------------------
(* rollback_tx, called by the client or by delete() on a conflict          *)

Abort(t) ==
  /\ pc[t] = "abort" \/ (pc[t] = "idle" /\ "rollback" \in Ops)
  /\ pc' = [pc EXCEPT ![t] = "undo"]
  /\ SetState(t, "Aborted")
  /\ todo' = [todo EXCEPT ![t] = txs[t].write_set]
  /\ UNCHANGED <<clock, entry, rows, log, call, gc, superseded, observed>>

\* the row's entry is looked up before its lock is taken ...
UndoGet(t, r) ==
  /\ pc[t] = "undo"
  /\ IsNext(t, r)
  /\ IF entry[r].live
     THEN /\ pc' = [pc EXCEPT ![t] = "undorow"]
          /\ call' = [call EXCEPT ![t].row = r, ![t].gen = entry[r].gen]
          /\ UNCHANGED todo
     ELSE todo' = [todo EXCEPT ![t] = @ \ {r}] /\ UNCHANGED <<pc, call>>
  /\ UNCHANGED <<clock, txs, entry, rows, log, gc, superseded, observed>>

\* ... and when the Vec was unlinked in between, the one that is found empty is
\* not the one that is removed
UndoRow(t) ==
  LET r == call[t].row
      kept == {v \in rows[r] : v.begin # Id(t)}
  IN /\ Goto(t, "undorow", "undo")
     /\ IF Linked(r, call[t].gen)
        THEN /\ ~Locked(r)
             /\ IF kept = {}
                THEN remove_row(r)
                ELSE rows' = [rows EXCEPT ![r] = kept] /\ UNCHANGED entry
        ELSE remove_row(r) \/ UNCHANGED <<entry, rows>>
     /\ todo' = [todo EXCEPT ![t] = @ \ {r}]
     /\ EndCall(t)
     /\ UNCHANGED <<clock, txs, log, gc, superseded, observed>>

Terminate(t) ==
  /\ todo[t] = {}
  /\ Goto(t, "undo", "remove")
  /\ SetState(t, "Terminated")
  /\ UNCHANGED <<clock, entry, rows, log, call, todo, gc, superseded, observed>>

RemoveTx(t) ==
  /\ Goto(t, "remove", "aborted")
  /\ txs' = [txs EXCEPT ![t] = NoTransaction]
  /\ UNCHANGED <<clock, entry, rows, log, call, todo, gc, superseded, observed>>

-----------------------------------------------------------------------------
(* drop_unused_row_versions                                                *)

\* Mutant: only transactions about to commit keep an ended version.
should_stay_preparing(rv) ==
  \/ rv.begin.kind = "tx" /\ Tracked(rv.begin.at)
  \/ rv.end = None
  \/ rv.end.kind = "tx" /\ Tracked(rv.end.at)
  \/ rv.end.kind = "ts" /\ \E t \in TxID : txs[t].state = "Preparing" /\ rv.end.at > txs[t].begin_ts

should_stay(rv) ==
  \/ rv.begin.kind = "tx" /\ Tracked(rv.begin.at)
  \/ rv.end = None
  \/ rv.end.kind = "tx" /\ Tracked(rv.end.at)
  \/ rv.end.kind = "ts" /\ \E t \in TxID : Live(t) /\ rv.end.at > txs[t].begin_ts

GcStart ==
  /\ "gc" \in Ops
  /\ gc.phase = "idle"
  /\ gc' = [NoCollector EXCEPT !.phase = "scan", !.scan = RowID]
  /\ UNCHANGED <<clock, txs, entry, rows, log, pc, call, todo, superseded, observed>>

\* The iterator comes to the next entry that is in the map by then ...
GcNext(r) ==
  LET ahead == {s \in gc.scan : entry[s].live} IN
  /\ gc.phase = "scan"
  /\ r \in ahead /\ \A s \in ahead : r <= s
  /\ gc' = [gc EXCEPT !.phase = "row", !.row = r, !.gen = entry[r].gen,
                       !.scan = {s \in @ : s > r}]
  /\ UNCHANGED <<clock, txs, entry, rows, log, pc, call, todo, superseded, observed>>

\* ... and its lock is taken.  (A Vec unlinked meanwhile may be empty or not.)
GcScan(r) ==
  LET kept   == {v \in rows[r] : should_stay(v)}
      linked == Linked(r, gc.gen)
  IN
  /\ gc.phase = "row" /\ r = gc.row
  /\ linked => ~Locked(r)
  /\ rows' = IF linked THEN [rows EXCEPT ![r] = kept] ELSE rows
  /\ \E found \in IF linked THEN {kept = {}} ELSE BOOLEAN :
       gc' = [gc EXCEPT !.phase = "scan", !.empty = IF found THEN @ \cup {r} ELSE @]
  /\ UNCHANGED <<clock, txs, entry, log, pc, call, todo, superseded, observed>>

GcScanned ==
  /\ gc.phase = "scan"
  /\ \A r \in gc.scan : ~entry[r].live
  /\ gc' = [gc EXCEPT !.phase = "remove"]
  /\ UNCHANGED <<clock, txs, entry, rows, log, pc, call, todo, superseded, observed>>

\* the rows found empty are removed after the scan, without looking again
GcRemove(r) ==
  /\ gc.phase = "remove"
  /\ r \in gc.empty
  /\ remove_row(r)
  /\ gc' = [gc EXCEPT !.empty = @ \ {r}]
  /\ UNCHANGED <<clock, txs, log, pc, call, todo, superseded, observed>>

GcDone ==
  /\ gc.phase = "remove"
  /\ gc.empty = {}
  /\ gc' = NoCollector
  /\ UNCHANGED <<clock, txs, entry, rows, log, pc, call, todo, superseded, observed>>

-----------------------------------------------------------------------------
TxStep(t) ==
  \/ DrawBeginTs(t)
  \/ Track(t)
  \/ \E r \in RowID, kind \in {"insert", "insert_over"} : StartInsert(t, r, kind)
  \/ \E r \in RowID, kind \in {"delete", "update", "upsert"} : DeleteGet(t, r, kind)
  \/ \E r \in RowID : Delete(t, r)
  \/ CheckConflict(t)
  \/ MarkWriteSet(t)
  \/ insert(t)
  \/ GetOrInsertEntry(t)
  \/ PushVersion(t)
  \/ \E r \in RowID : read(t, r)
  \/ DrawEndTs(t)
  \/ Prepare(t)
  \/ Log(t)
  \/ LogFails(t)
  \/ Publish(t)
  \/ \E r \in RowID : Rewrite(t, r)
  \/ CommitDone(t)
  \/ Abort(t)
  \/ \E r \in RowID : UndoGet(t, r)
  \/ UndoRow(t)
  \/ Terminate(t)
  \/ RemoveTx(t)

GcStep ==
  \/ GcStart
  \/ \E r \in RowID : GcNext(r) \/ GcScan(r)
  \/ GcScanned
  \/ \E r \in RowID : GcRemove(r)
  \/ GcDone

Next == GcStep \/ \E t \in TxID : TxStep(t)

Spec == Init /\ [][Next]_vars

-----------------------------------------------------------------------------
(* Properties                                                              *)

TypeOK ==
  /\ clock \in Nat
  /\ txs \in [TxID -> Transaction]
  /\ entry \in [RowID -> Entry]
  /\ rows \in [RowID -> SUBSET RowVersion]
  /\ log \subseteq LoggedVersion
  /\ pc \in [TxID -> Control]
  /\ call \in [TxID -> WriteCall]
  /\ todo \in [TxID -> SUBSET RowID]
  /\ gc \in Collector
  /\ superseded \in [TxID -> SUBSET (RowID \X Nat)]
  /\ observed \in [TxID -> SUBSET (RowID \X BeginStamp)]

\* The transaction's changes were discarded, or are being discarded.
RolledBack(t) == pc[t] \in {"abort", "undo", "undorow", "remove", "aborted"}

\* First writer wins: two transactions never both replace the same committed
\* version of a row, unless one of them is rolled back (delete()'s visibility
\* check and is_write_write_conflict, with GC, commits and rollbacks around them).
NoLostUpdate ==
  \A t, u \in TxID :
    t # u /\ ~RolledBack(t) /\ ~RolledBack(u) => superseded[t] \cap superseded[u] = {}

\* A mark outlives its transaction only as the leftover of a rollback: every
\* begin mark names a tracked transaction, and an end mark that names an
\* untracked one names one that was rolled back, never a committed one (the
\* claim is_begin_visible, is_end_visible and the collector rely on).
MarksResolved ==
  \A r \in RowID : \A v \in rows[r] :
    /\ v.begin.kind = "tx" => Tracked(v.begin.at)
    /\ v.end.kind = "tx" /\ ~Tracked(v.end.at) => pc[v.end.at] = "aborted"

\* Whatever one transaction can see of another's commit is already in the log.
LoggedBeforeVisible ==
  \A t \in TxID, r \in RowID : \A v \in rows[r] :
    Live(t) /\ is_begin_visible(t, v) /\ v.begin # Id(t) =>
      \E l \in log : l.row = r /\ l.begin = Timestamp(CommitTsOf(v))

\* No dirty reads: what read() returned of another transaction's writes is in the
\* log, so it cannot be rolled back any more, and was committed before the reader
\* began (unless it was read from a Vec that is the row's no longer).
NoDirtyRead ==
  \A t \in TxID : \A x \in observed[t] :
    x[2] # Id(t) =>
      /\ \E l \in log : l.row = x[1] /\ l.begin = x[2]
      /\ Tracked(t) => x[2].at <= txs[t].begin_ts

CommittedBegin(v) ==
  v.begin.kind = "ts" \/ (v.begin.kind = "tx" /\ txs[v.begin.at].state = "Committed")

CommittedEnd(v) ==
  v.end.kind = "ts" \/ (v.end.kind = "tx" /\ txs[v.end.at].state = "Committed")

\* A row has at most one version that is committed and not replaced by a commit.
\* Holds for clients that update and delete rows (upsert breaks it).
OneCurrentVersion ==
  \A r \in RowID : \A v, w \in rows[r] :
    /\ CommittedBegin(v) /\ ~CommittedEnd(v)
    /\ CommittedBegin(w) /\ ~CommittedEnd(w)
    => v = w

\* A commit is seen whole: a transaction that reads one row as commit c left it
\* does not see, in any row, a version that commit c ended (publishing a commit
\* is one state store; rewriting its rows afterwards takes a step per row).
NoTornCommit ==
  \A t \in TxID, r, s \in RowID : \A x \in Reads(t, r), w \in VisibleVersions(t, s) :
    txs[t].state = "Active" /\ x.kind = "ts" =>
      /\ w.end # x
      /\ w.end.kind = "tx" /\ txs[w.end.at].state = "Committed" => txs[w.end.at].end_ts # x.at

Decides(u) == /\ txs'[u].state # txs[u].state
              /\ \/ txs'[u].state \in {"Preparing", "Committed", "Aborted"}
                 \/ txs[u].state = "Preparing"

\* A rollback left its mark on the row and the row stays hidden.
Leftover(r) == \E v \in rows[r] : v.end.kind = "tx" /\ RolledBack(v.end.at)

\* The collector, or a rollback that lost its Vec, is about to remove the row without
\* looking at it again.
Doomed(r) ==
  \/ r \in gc.empty
  \/ \E u \in TxID : pc[u] = "undorow" /\ call[u].row = r /\ ~Linked(r, call[u].gen)

\* What an active transaction reads is changed by its own calls and by the four
\* state stores of commit_tx and rollback_tx only: never by another's insert,
\* delete or half-done rewrite or undo, by a transaction leaving the map, or by
\* the collector's choice of the versions that nobody needs.  Excepted are rows a
\* rollback left its mark on, and rows found empty that are removed unseen.
ViewStable ==
  [][\A t \in TxID, r \in RowID :
       /\ txs[t].state = "Active" /\ txs'[t].state = "Active"
       /\ pc'[t] = pc[t]
       /\ \A u \in TxID : ~Decides(u)
       /\ ~Leftover(r) /\ ~Doomed(r)
       => Reads(t, r)' = Reads(t, r)]_vars
=============================================================================
