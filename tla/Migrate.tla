------------------------------- MODULE Migrate -------------------------------
(***************************************************************************)
(* oxisql-migrate: MigrationRunner (runner.rs) over the tracker table      *)
(* (tracker.rs, tracker_generic.rs) and the advisory lock (lock.rs).       *)
(*                                                                         *)
(* In mode "embedded" the calls are run_embedded and rollback: the caller  *)
(* owns the GlueSQL storage, so calls do not overlap.  They try BEGIN      *)
(* before each file, but MemoryStorage, the only storage they accept,      *)
(* rejects it: in_txn is always false, so there is no ROLLBACK and no      *)
(* COMMIT.  In modes "connection" and "serial" the calls are run_with_conn *)
(* and rollback_with_conn, which begin no transaction; in "connection"     *)
(* several processes make them at once, in "serial" one after the other.   *)
(* One action is what happens between two awaits on the database.          *)
(*                                                                         *)
(* The content of a file is the number of its last edit, and stands for    *)
(* its checksum as well.  effect[v] is what the database has of migration  *)
(* v: one entry for every time its SQL was executed and not undone.        *)
(***************************************************************************)
EXTENDS Naturals, Sequences, FiniteSetsExt

CONSTANTS
  Runner,     \* processes, each with a MigrationRunner
  Modes,      \* how the entry points are used: a subset of ModeKinds
  Version,    \* the versions that scan_migrations finds
  Invalid,    \* versions whose SQL validate_sql rejects
  NoDown,     \* versions without a .down.sql file
  InvalidDown,       \* versions whose .down.sql file validate_sql rejects
  Locked,     \* is a PostgresAdvisoryLock attached?
  Target,     \* MigrateOptions::target_version
  Ops,        \* [Modes -> the calls that are made]
  Faults,     \* [Modes -> what goes wrong, a subset of FaultKinds]
  NoRunner,
  MaxEdit,    \* bound: edits of a file
  MaxCalls    \* bound: calls of all runners together

ModeKinds  == {"embedded", "connection", "serial"}
FaultKinds == {"edit", "read", "exec", "half", "track", "crash"}

ASSUME VersionAssumption == Version \subseteq Nat /\ Target \in Nat /\ IsFiniteSet(Version)
ASSUME RunnerAssumption == NoRunner \notin Runner /\ Modes \subseteq ModeKinds
ASSUME OptionsAssumption ==
  /\ Locked \in BOOLEAN /\ Faults \in [Modes -> SUBSET FaultKinds]
  /\ Ops \in [Modes -> SUBSET {"run", "rollback"}]
  /\ MaxEdit \in Nat /\ MaxCalls \in Nat

VARIABLES
  mode,       \* which entry points the application uses
  content,    \* [Version -> the file on disk]
  rows,       \* [Version -> the checksums of its rows in _oxisql_migrations]
  effect,     \* [Version -> executions that are in the database]
  lock,       \* the runner whose session has the advisory lock
  pc, todo,   \* where a runner is, and the versions its loop has left
  applied,    \* what applied_versions returned to it
  sql,        \* what it read of the file it is applying
  result,     \* what its last call returned
  calls, edited,     \* history: calls made; versions edited or reverted since r called
  lost,       \* history: versions executed, up or down, whose change of the
              \* tracker table was lost to a fault
  undone      \* history: those of them that were lost on the way down

database == <<rows, effect>>
own      == <<pc, todo, applied, sql, result, calls>>
history  == <<lost, undone>>
vars     == <<mode, content, database, lock, own, edited, history>>

Content   == 0..MaxEdit
Execution == [sql : Content, whole : BOOLEAN]
Pristine  == [v \in Version |-> <<>>]

Goto(r, label) == pc' = [pc EXCEPT ![r] = label]

\* r may make a call: the embedded storage is borrowed by one call at a time.
Free(r) ==
  /\ pc[r] = "idle"
  /\ mode # "connection" => \A q \in Runner : pc[q] = "idle"

\* The call is over, and with it its locals; run_with_conn still has to release
\* its lock.
Finish(r, res) ==
  /\ result' = [result EXCEPT ![r] = res]
  /\ todo' = [todo EXCEPT ![r] = {}]
  /\ applied' = [applied EXCEPT ![r] = {}]
  /\ sql' = [sql EXCEPT ![r] = 0]
  /\ Goto(r, IF lock = r THEN "release" ELSE "idle")

-----------------------------------------------------------------------------
(* run_embedded and run_with_conn                                          *)

\* Mutant: the lock is taken by nobody who runs migrations.
FirstStep_unlocked(r) == "scan"

\* run_with_conn takes the lock first, if there is one.
FirstStep(r) == IF Locked /\ mode # "embedded" THEN "acquire" ELSE "scan"

\* Only run_embedded looks at dry_run.
Run(r, dry_run) ==
  /\ Free(r) /\ "run" \in Ops[mode] /\ calls < MaxCalls
  /\ calls' = calls + 1
  /\ edited' = [edited EXCEPT ![r] = {}]
  /\ IF dry_run /\ mode = "embedded"
       THEN result' = [result EXCEPT ![r] = "DryRun"] /\ UNCHANGED pc
       ELSE Goto(r, FirstStep(r)) /\ result' = [result EXCEPT ![r] = "running"]
  /\ UNCHANGED <<content, database, lock, todo, sql, applied, mode, history>>

\* pg_try_advisory_lock returned true.
Acquire(r) ==
  /\ pc[r] = "acquire" /\ lock = NoRunner
  /\ lock' = r
  /\ Goto(r, "scan")
  /\ UNCHANGED <<content, database, todo, sql, result, applied, calls, edited, mode, history>>

\* It returned false until the deadline.
LockTimeout(r) ==
  /\ pc[r] = "acquire" /\ lock # NoRunner
  /\ Finish(r, "LockTimeout")
  /\ UNCHANGED <<content, database, lock, calls, edited, mode, history>>

applied_versions == {v \in Version : rows[v] # <<>>}

\* initialize, scan_migrations and applied_versions.
ReadApplied(r) ==
  /\ pc[r] = "scan"
  /\ todo' = [todo EXCEPT ![r] = applied_versions]
  /\ applied' = [applied EXCEPT ![r] = applied_versions]
  /\ Goto(r, "verify")
  /\ UNCHANGED <<content, database, lock, sql, result, calls, edited, mode, history>>

\* Mutant: a changed file of an applied migration goes unnoticed.
Modified_never(v) == FALSE

\* get_checksum finds a row and it differs from the file.
Modified(v) == rows[v] # <<>> /\ Head(rows[v]) # content[v]

\* One applied file of the checksum loop.
Verify(r) ==
  /\ pc[r] = "verify" /\ todo[r] # {}
  /\ LET v == Min(todo[r])
     IN  IF Modified(v)
           THEN Finish(r, "ChecksumMismatch")
           ELSE todo' = [todo EXCEPT ![r] = @ \ {v}] /\ UNCHANGED <<pc, result, applied, sql>>
  /\ UNCHANGED <<content, database, lock, calls, edited, mode, history>>

\* Only run_embedded looks at target_version.
Wanted(r, v) == mode = "embedded" => v <= Target

\* The pending files.
Pending(r) ==
  /\ pc[r] = "verify" /\ todo[r] = {}
  /\ todo' = [todo EXCEPT ![r] = {v \in Version \ applied[r] : Wanted(r, v)}]
  /\ Goto(r, "apply")
  /\ UNCHANGED <<content, database, lock, sql, result, applied, calls, edited, mode, history>>

\* Mutant: the newest file first.
next_file_newest(r) == Max(todo[r])

next_file(r) == Min(todo[r])

\* Read the next file and validate it.
ReadFile(r) ==
  /\ pc[r] = "apply" /\ todo[r] # {}
  /\ LET v == next_file(r)
     IN  IF v \in Invalid
           THEN Finish(r, "Parse")
           ELSE /\ sql' = [sql EXCEPT ![r] = content[v]]
                /\ Goto(r, "exec") /\ UNCHANGED <<todo, applied, result>>
  /\ UNCHANGED <<content, database, lock, calls, edited, mode, history>>

Applied(r) ==
  /\ pc[r] \in {"apply", "revert"} /\ todo[r] = {}
  /\ Finish(r, IF pc[r] = "apply" THEN "Applied" ELSE "RolledBack")
  /\ UNCHANGED <<content, database, lock, calls, edited, mode, history>>

Execute(r) ==
  /\ pc[r] = "exec"
  /\ LET v == next_file(r)
     IN  effect' = [effect EXCEPT ![v] = Append(@, [sql |-> sql[r], whole |-> TRUE])]
  /\ Goto(r, "track")
  /\ UNCHANGED <<content, rows, lock, todo, sql, result, applied, calls, edited, mode, history>>

\* Mutant: the oldest file first.
next_down_oldest(r) == Min(todo[r])

\* rollback goes through the versions in descending order.
next_down(r) == Max(todo[r])

\* The file r is working on, and a fault between it and the tracker table.
Current(r) == IF pc[r] \in {"exec", "track"} THEN next_file(r) ELSE next_down(r)

Loses(r, torn) ==
  LET v == IF torn THEN {Current(r)} ELSE {}
  IN  /\ lost' = lost \cup v
      /\ undone' = IF pc[r] \in {"down", "untrack"} THEN undone \cup v ELSE undone

\* The SQL of a file, up or down, fails at its first statement or at a later one:
\* what the earlier statements did stays.
ExecuteFails(r) ==
  /\ pc[r] \in {"exec", "down"}
  /\ LET v == Current(r)
     IN  \/ "exec" \in Faults[mode] /\ UNCHANGED <<effect, history>>
         \/ /\ "half" \in Faults[mode] /\ Loses(r, TRUE)
            /\ effect' = [effect EXCEPT ![v] = Append(@, [sql |-> sql[r], whole |-> FALSE])]
  /\ Finish(r, "Execution")
  /\ UNCHANGED <<content, rows, lock, calls, edited, mode>>

\* Mutant: the checksum is that of the file as it is when the row is written.
Recorded_reread(r, v) == content[v]

\* The checksum that goes into the row.
Recorded(r, v) == sql[r]

\* mark_applied.
MarkApplied(r) ==
  /\ pc[r] = "track"
  /\ LET v == next_file(r)
     IN  /\ rows' = [rows EXCEPT ![v] = Append(@, Recorded(r, v))]
         /\ todo' = [todo EXCEPT ![r] = @ \ {v}]
  /\ Goto(r, "apply")
  /\ UNCHANGED <<content, effect, lock, sql, result, applied, calls, edited, mode, history>>

\* The tracker statement fails after the file was executed.
TrackFails(r) ==
  /\ "track" \in Faults[mode] /\ pc[r] \in {"track", "untrack"}
  /\ Loses(r, TRUE)
  /\ Finish(r, "Execution")
  /\ UNCHANGED <<content, database, lock, calls, edited, mode>>

\* Mutant: the lock is only released after a successful run.
Release_ok(r) ==
  /\ pc[r] = "release"
  /\ lock' = IF result[r] = "Applied" THEN NoRunner ELSE lock
  /\ Goto(r, "idle")
  /\ UNCHANGED <<content, database, todo, sql, result, applied, calls, edited, mode, history>>

\* "Always release the lock, regardless of whether the run succeeded."
Release(r) ==
  /\ pc[r] = "release"
  /\ lock' = NoRunner
  /\ Goto(r, "idle")
  /\ UNCHANGED <<content, database, todo, sql, result, applied, calls, edited, mode, history>>

-----------------------------------------------------------------------------
(* rollback and rollback_with_conn: neither takes the lock                 *)

\* The versions above the target are the candidates.
Rollback(r, target) ==
  /\ Free(r) /\ "rollback" \in Ops[mode] /\ calls < MaxCalls
  /\ calls' = calls + 1
  /\ edited' = [q \in Runner |-> IF q = r THEN {}
                                ELSE edited[q] \cup {v \in Version : v > target}]
  /\ todo' = [todo EXCEPT ![r] = {v \in Version : v > target}]
  /\ result' = [result EXCEPT ![r] = "running"]
  /\ Goto(r, "list")
  /\ UNCHANGED <<content, database, lock, sql, applied, mode, history>>

\* initialize and applied_versions: those of them that are applied.
ListApplied(r) ==
  /\ pc[r] = "list"
  /\ todo' = [todo EXCEPT ![r] = @ \cap applied_versions]
  /\ Goto(r, "revert")
  /\ UNCHANGED <<content, database, lock, sql, result, applied, calls, edited, mode, history>>

ReadDown(r) ==
  /\ pc[r] = "revert" /\ todo[r] # {}
  /\ IF next_down(r) \in NoDown \cup InvalidDown
       THEN Finish(r, IF next_down(r) \in NoDown THEN "NoDownMigration" ELSE "Parse")
       ELSE /\ sql' = [sql EXCEPT ![r] = content[next_down(r)]]
            /\ Goto(r, "down") /\ UNCHANGED <<todo, applied, result>>
  /\ UNCHANGED <<content, database, lock, calls, edited, mode, history>>

ExecuteDown(r) ==
  /\ pc[r] = "down"
  /\ effect' = [effect EXCEPT ![next_down(r)] = <<>>]
  /\ Goto(r, "untrack")
  /\ UNCHANGED <<content, rows, lock, todo, sql, result, applied, calls, edited, mode, history>>

\* mark_reverted.
MarkReverted(r) ==
  /\ pc[r] = "untrack"
  /\ rows' = [rows EXCEPT ![next_down(r)] = <<>>]
  /\ todo' = [todo EXCEPT ![r] = @ \ {next_down(r)}]
  /\ Goto(r, "revert")
  /\ UNCHANGED <<content, effect, lock, sql, result, applied, calls, edited, mode, history>>

\* A statement that asks for the lock or reads the tracker table fails, or the
\* migration directory or a file cannot be read.
ReadFails(r) ==
  /\ "read" \in Faults[mode]
  /\ \/ pc[r] \in {"acquire", "scan", "list"}
     \/ pc[r] \in {"verify", "apply", "revert"} /\ todo[r] # {}
  /\ Finish(r, "Execution")
  /\ UNCHANGED <<content, database, lock, calls, edited, mode, history>>

-----------------------------------------------------------------------------
(* Outside the program                                                     *)

\* Somebody edits a migration file.
Edit(v) ==
  /\ "edit" \in Faults[mode] /\ content[v] < MaxEdit
  /\ content' = [content EXCEPT ![v] = @ + 1]
  /\ edited' = [r \in Runner |-> edited[r] \cup {v}]
  /\ UNCHANGED <<database, lock, own, mode, history>>

\* A process dies; its session's advisory lock goes with it.
Crash(r) ==
  /\ "crash" \in Faults[mode] /\ pc[r] # "idle" /\ mode # "embedded"
  /\ lock' = IF lock = r THEN NoRunner ELSE lock
  /\ Loses(r, pc[r] \in {"track", "untrack"})
  /\ Goto(r, "idle")
  /\ result' = [result EXCEPT ![r] = "crashed"]
  /\ todo' = [todo EXCEPT ![r] = {}]
  /\ applied' = [applied EXCEPT ![r] = {}]
  /\ sql' = [sql EXCEPT ![r] = 0]
  /\ UNCHANGED <<content, database, calls, edited, mode>>

-----------------------------------------------------------------------------
Init ==
  /\ mode \in Modes /\ lost = {} /\ undone = {}
  /\ content = [v \in Version |-> 0]
  /\ rows = Pristine /\ effect = Pristine
  /\ lock = NoRunner
  /\ pc = [r \in Runner |-> "idle"]
  /\ todo = [r \in Runner |-> {}]
  /\ applied = [r \in Runner |-> {}]
  /\ sql = [r \in Runner |-> 0]
  /\ result = [r \in Runner |-> "none"]
  /\ calls = 0
  /\ edited = [r \in Runner |-> {}]

\* What a call does by itself.
Step(r) ==
  \/ Acquire(r) \/ LockTimeout(r) \/ ReadApplied(r) \/ Verify(r) \/ Pending(r)
  \/ ReadFile(r) \/ Applied(r) \/ Execute(r) \/ ExecuteFails(r)
  \/ MarkApplied(r) \/ TrackFails(r) \/ Release(r)
  \/ ListApplied(r) \/ ReadDown(r) \/ ExecuteDown(r) \/ MarkReverted(r)
  \/ ReadFails(r)

Next ==
  \/ \E r \in Runner : Step(r) \/ Crash(r)
  \/ \E r \in Runner, dry_run \in BOOLEAN : Run(r, dry_run)
  \/ \E r \in Runner, target \in Version \cup {0} : Rollback(r, target)
  \/ \E v \in Version : Edit(v)

Spec == Init /\ [][Next]_vars

\* The async runtime polls a future that is ready.
FairSpec == Spec /\ \A r \in Runner : WF_vars(Step(r))

-----------------------------------------------------------------------------
(* Properties                                                              *)

\* No migration is applied twice, however the runs interleave and whoever dies:
\* the SQL of a version is in the database at most once, unless a fault between
\* the file and its tracker row (no transaction is around the two) made the next
\* run execute it again.
NoDoubleApply == \A v \in Version \ lost : Len(effect[v]) <= 1

\* Migrations are applied in version order and undone in the opposite one: the
\* tracked versions are a prefix of the versions at every step, whatever fails,
\* and so are the ones in the database, but for those a fault left half way.
InOrder ==
  /\ \A u, v \in Version : u < v /\ rows[v] # <<>> => rows[u] # <<>>
  /\ \A u, v \in Version \ lost : u < v /\ effect[v] # <<>> => effect[u] # <<>>

\* The file of v was executed to its end with the text c.
Executed(v, c) == \E i \in DOMAIN effect[v] : effect[v][i] = [sql |-> c, whole |-> TRUE]

\* When no runner is between a file and its tracker row, the rows are exactly the
\* executions, with the text that was executed, unless a fault came between the
\* two.  Even then a row is never there for a file that did not run to its end:
\* only a failed rollback leaves a row without its migration.
Consistent ==
  (\A r \in Runner : pc[r] \notin {"track", "untrack"}) =>
    /\ \A v \in Version \ lost :
         effect[v] = [i \in DOMAIN rows[v] |-> [sql |-> rows[v][i], whole |-> TRUE]]
    /\ \A v \in Version \ undone : rows[v] # <<>> => Executed(v, Head(rows[v]))

\* The versions a call of r is responsible for.
Covered(r) == {v \in Version : mode = "embedded" => v <= Target}

\* A run that reports success means what it says: every file it covers is in the
\* database as it is on disk, unless it was edited or reverted since the run
\* began or a rollback of it failed, and only once unless a fault came between
\* it and its row; run_embedded has left the versions above target_version
\* pending.
SuccessMeansCurrent ==
  \A r \in Runner : result[r] = "Applied" =>
    /\ \A v \in Covered(r) \ (edited[r] \cup undone) : Executed(v, content[v])
    /\ \A v \in Covered(r) \ (edited[r] \cup lost) : Len(effect[v]) = 1
    /\ \A v \in Version \ Covered(r) : effect[v] = <<>>

\* The lock does not outlive the run that took it, whether it failed or not.
LockFreed == \A r \in Runner : lock = r ~> lock # r

=============================================================================
