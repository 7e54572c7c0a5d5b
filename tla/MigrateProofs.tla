---------------------------- MODULE MigrateProofs ----------------------------
(***************************************************************************)
(* Proofs about Migrate, for any set of versions and any number of         *)
(* processes: nothing is applied twice or out of order, the tracker table  *)
(* agrees with what was executed, and a run that succeeds means it.        *)
(***************************************************************************)
EXTENDS Migrate, FiniteSetTheorems, WellFoundedInduction, TLAPS

-----------------------------------------------------------------------------
(* The invariant                                                           *)

\* Calls of several processes exclude each other: all of them take the lock.
OneAtATime == "connection" \in Modes => Locked /\ "rollback" \notin Ops["connection"]

Control == {"idle", "acquire", "scan", "verify", "apply", "exec", "track", "release",
            "list", "revert", "down", "untrack"}

Outcome == {"none", "running", "DryRun", "LockTimeout", "ChecksumMismatch", "Parse", "Applied",
            "RolledBack", "Execution", "NoDownMigration", "crashed"}
Table   == [Version -> Seq(Content)]
Effects == [Version -> Seq(Execution)]

TypeOK ==
  /\ mode \in Modes
  /\ content \in [Version -> Content]
  /\ rows \in Table
  /\ effect \in Effects
  /\ lock \in Runner \cup {NoRunner}
  /\ pc \in [Runner -> Control]
  /\ todo \in [Runner -> SUBSET Version]
  /\ applied \in [Runner -> SUBSET Version]
  /\ sql \in [Runner -> Content]
  /\ result \in [Runner -> Outcome]
  /\ edited \in [Runner -> SUBSET Version]
  /\ lost \subseteq Version /\ undone \subseteq lost

Inside(r)    == pc[r] \notin {"idle", "acquire"}
Applying(r)  == pc[r] \in {"apply", "exec", "track"}
Reverting(r) == pc[r] \in {"revert", "down", "untrack"}
Rolling(r)   == Reverting(r) \/ pc[r] = "list"

\* One call at a time looks at the database.
Alone ==
  /\ mode = "embedded" => lock = NoRunner /\ \A r \in Runner : pc[r] \notin {"acquire", "release"}
  /\ mode # "connection" => \A q, r \in Runner : pc[q] # "idle" /\ pc[r] # "idle" => q = r
  /\ mode = "connection" =>
       \A r \in Runner : ~Rolling(r) /\ (Inside(r) => lock = r)

\* What a call has left to do agrees with the tracker table.
WorkOf(r) ==
  /\ pc[r] = "verify" => todo[r] \subseteq applied[r] /\ applied[r] = applied_versions
  /\ Applying(r) => todo[r] = {v \in Version : Wanted(r, v) /\ rows[v] = <<>>}
  /\ pc[r] = "list" =>
       /\ \A u \in todo[r], w \in Version \ todo[r] : ~(u < w)
       /\ \A q \in Runner \ {r} : todo[r] \subseteq edited[q]
  /\ Reverting(r) =>
       /\ todo[r] \subseteq applied_versions
       /\ \A u \in todo[r], w \in Version \ todo[r] : u < w => rows[w] = <<>>
       /\ \A q \in Runner \ {r} : todo[r] \subseteq edited[q]
  /\ pc[r] \in {"exec", "track", "down", "untrack"} => todo[r] # {}
  /\ pc[r] \notin {"idle", "release"} => result[r] # "Applied"

Work == \A r \in Runner : WorkOf(r)

\* What a call has verified, or recorded, is what is on disk.
VerifiedBy(r) ==
  /\ \A v \in Version \ edited[r] :
       rows[v] # <<>> /\ (Applying(r) \/ (pc[r] = "verify" /\ v \notin todo[r]))
         => rows[v] = <<content[v]>>
  /\ pc[r] \in {"exec", "track"} /\ next_file(r) \notin edited[r]
       => sql[r] = content[next_file(r)]

Verified == \A r \in Runner : VerifiedBy(r)

\* v is neither tracked nor in the database, or both, once, with the same text.
Once(v) ==
  \/ rows[v] = <<>> /\ effect[v] = <<>>
  \/ \E c \in Content : rows[v] = <<c>> /\ effect[v] = <<[sql |-> c, whole |-> TRUE]>>

\* Between its SQL and its tracker row.
Halfway(r) == pc[r] \in {"track", "untrack"}
Busy       == {Current(r) : r \in {q \in Runner : Halfway(q)}}

\* But for the versions that are half way, or were left there by a fault.
DbAgrees == \A v \in Version \ (lost \cup Busy) : Once(v)

\* The tracker table has one row of a version at most, and the rows of a prefix.
DbRows ==
  /\ \A v \in Version : rows[v] = <<>> \/ \E c \in Content : rows[v] = <<c>>
  /\ \A u, v \in Version : u < v /\ rows[v] # <<>> => rows[u] # <<>>

\* A row is there because the file was executed with its text, whatever failed.
DbBacked ==
  \A v \in Version \ (undone \cup Busy), c \in Content : rows[v] = <<c>> => Executed(v, c)

DbWithin ==
  mode = "embedded" => \A v \in Version : v > Target => rows[v] = <<>> /\ effect[v] = <<>>

DbDelivered ==
  \A r \in Runner : result[r] = "Applied" =>
    \A v \in Covered(r) \ (edited[r] \cup undone) : Executed(v, content[v])

\* What the version a call has executed, and not yet tracked, looks like.
DbHalfway ==
  \A r \in Runner : Halfway(r) =>
    /\ pc[r] = "track" => Executed(Current(r), sql[r])
    /\ Current(r) \notin lost => effect[Current(r)] =
         IF pc[r] = "track" THEN <<[sql |-> sql[r], whole |-> TRUE]>> ELSE <<>>

\* Where a call is working on a file.
OnFile(r) == pc[r] \in {"exec", "track", "down", "untrack"}

Database == DbAgrees /\ DbRows /\ DbBacked /\ DbWithin /\ DbDelivered /\ DbHalfway

IInv == TypeOK /\ Alone /\ Work /\ Verified /\ Database

-----------------------------------------------------------------------------
(* The first and the last file                                             *)

\* A finite set of versions has a largest one: a smallest set that had none would
\* have one without any of its elements.
LEMMA LargestExists ==
  ASSUME NEW S \in SUBSET Version, S # {}
  PROVE  \E x \in S : \A y \in S : x >= y
<1> DEFINE Has(A) == \E x \in A : \A y \in A : x >= y
           T == {A \in FiniteSubsetsOf(Version) : A # {} /\ ~Has(A)}
<1>1. IsFiniteSet(S) /\ S \in FiniteSubsetsOf(Version)
  BY FS_Subset, VersionAssumption, Zenon DEF FiniteSubsetsOf
<1>2. ASSUME T # {} PROVE FALSE
  <2>1. IsWellFoundedOn(StrictSubsetOrdering(Version), FiniteSubsetsOf(Version))
    BY FS_StrictSubsetOrderingWellFounded
  <2>2. PICK A \in T : \A B \in T : ~(<<B, A>> \in StrictSubsetOrdering(Version))
    <3>1. T \subseteq FiniteSubsetsOf(Version)
      OBVIOUS
    <3> HIDE DEF T
    <3> QED
      BY <1>2, <2>1, <3>1, WFMin, Zenon
  <2>3. PICK a \in A : TRUE
    BY <2>2
  <2> DEFINE B == A \ {a}
  <2>4. A \subseteq Version /\ IsFiniteSet(A) /\ A \subseteq Nat
    BY <2>2, VersionAssumption DEF FiniteSubsetsOf
  <2>5. B \in FiniteSubsetsOf(Version)
    BY <2>4, FS_RemoveElement, Zenon DEF FiniteSubsetsOf
  <2>6. <<B, A>> \in StrictSubsetOrdering(Version)
    <3>1. B \in SUBSET Version /\ A \in SUBSET Version /\ B \subseteq A /\ B # A
      BY <2>3, <2>4
    <3> HIDE DEF B
    <3> QED
      BY <3>1 DEF StrictSubsetOrdering
  <2>7. B = {} \/ Has(B)
    BY <2>2, <2>5, <2>6, Zenon
  <2>8. Has(A)
    <3>1. CASE B = {}
      BY <2>3, <2>4, <3>1
    <3>2. CASE Has(B)
      <4>1. PICK x \in B : \A y \in B : x >= y
        BY <3>2
      <4>2. \A y \in A : y \in B \/ y = a
        OBVIOUS
      <4>3. CASE x >= a
        BY <4>1, <4>2, <4>3
      <4>4. CASE a >= x
        <5>1. \A y \in A : a >= y
          BY <2>4, <4>1, <4>2, <4>4
        <5> QED
          BY <2>3, <5>1
      <4> QED
        BY <2>3, <2>4, <4>1, <4>3, <4>4
    <3> QED
      BY <2>7, <3>1, <3>2
  <2> QED
    BY <2>2, <2>8
<1> QED
  BY <1>1, <1>2

\* ... and a smallest one.
LEMMA SmallestExists ==
  ASSUME NEW S \in SUBSET Version, S # {}
  PROVE  \E x \in S : \A y \in S : x <= y
<1>1. S \subseteq Nat
  BY VersionAssumption
<1>2. PICK x \in S : \A y \in S : ~(<<y, x>> \in OpToRel(<, Nat))
  BY <1>1, NatLessThanWellFounded, WFMin, Zenon
<1>3. \A y \in S : ~(y < x)
  BY <1>1, <1>2, Zenon DEF OpToRel
<1> QED
  BY <1>1, <1>3

LEMMA FirstVersion ==
  ASSUME NEW S \in SUBSET Version, S # {}
  PROVE  Min(S) \in S /\ \A y \in S : Min(S) <= y
BY SmallestExists, Zenon DEF Min

LEMMA LastVersion ==
  ASSUME NEW S \in SUBSET Version, S # {}
  PROVE  Max(S) \in S /\ \A y \in S : y <= Max(S)
<1>1. Max(S) \in S /\ \A y \in S : Max(S) >= y
  BY LargestExists, Zenon DEF Max
<1> QED
  BY <1>1, VersionAssumption

-----------------------------------------------------------------------------
(* Types and control                                                       *)

\* The file a call is working on.
LEMMA CurrentFile ==
  ASSUME TypeOK, Work, NEW r \in Runner, pc[r] \in {"exec", "track", "down", "untrack"}
  PROVE  /\ Current(r) \in todo[r] /\ Current(r) \in Version
         /\ pc[r] \in {"exec", "track"} => /\ Current(r) = next_file(r)
                                           /\ \A v \in todo[r] : Current(r) <= v
         /\ pc[r] \in {"down", "untrack"} => /\ Current(r) = next_down(r)
                                             /\ \A v \in todo[r] : v <= Current(r)
<1>1. todo[r] \in SUBSET Version /\ todo[r] # {}
  BY DEF TypeOK, Work, WorkOf
<1>2. pc[r] \in {"exec", "track"} => Current(r) = next_file(r)
  BY DEF Current
<1>3. pc[r] \in {"down", "untrack"} => Current(r) = next_down(r)
  BY DEF Current, next_down
<1> QED
  BY <1>1, <1>2, <1>3, FirstVersion, LastVersion DEF next_file, next_down

\* The next file a loop will turn to.
LEMMA NextFile ==
  ASSUME TypeOK, NEW r \in Runner, todo[r] # {}
  PROVE  /\ next_file(r) \in todo[r] /\ next_file(r) \in Version
         /\ next_down(r) \in todo[r] /\ next_down(r) \in Version
         /\ \A v \in todo[r] : next_file(r) <= v /\ v <= next_down(r)
<1>1. todo[r] \in SUBSET Version
  BY DEF TypeOK
<1> QED
  BY <1>1, FirstVersion, LastVersion DEF next_file, next_down

LEMMA Appends ==
  /\ \A s \in Seq(Content), c \in Content : Append(s, c) \in Seq(Content)
  /\ \A s \in Seq(Execution), c \in Content, b \in BOOLEAN :
       Append(s, [sql |-> c, whole |-> b]) \in Seq(Execution)
<1>1. \A c \in Content, b \in BOOLEAN : [sql |-> c, whole |-> b] \in Execution
  BY Zenon DEF Execution
<1> QED
  BY <1>1

LEMMA Entries ==
  ASSUME NEW v \in Version
  PROVE  /\ \A t \in Table, s \in Seq(Content) : [t EXCEPT ![v] = s] \in Table
         /\ \A e \in Effects, s \in Seq(Execution) : [e EXCEPT ![v] = s] \in Effects
         /\ \A t \in Table : [t EXCEPT ![v] = <<>>] \in Table
         /\ \A e \in Effects : [e EXCEPT ![v] = <<>>] \in Effects
BY DEF Table, Effects

LEMMA TypeNext ==
  ASSUME TypeOK, Work, [Next]_vars
  PROVE  TypeOK'
<1>0. 0 \in Content
  BY OptionsAssumption DEF Content
<1>1. ASSUME NEW r \in Runner, NEW d \in BOOLEAN, Run(r, d) PROVE TypeOK'
  BY <1>1 DEF Run, Goto, FirstStep, Control, Outcome, TypeOK, database, history
<1>2. ASSUME NEW r \in Runner, Acquire(r) \/ LockTimeout(r) \/ Release(r) PROVE TypeOK'
  BY <1>0, <1>2 DEF Acquire, LockTimeout, Release, Finish, Goto, Control, Outcome, TypeOK, database,
     history
<1>3. ASSUME NEW r \in Runner, ReadApplied(r) \/ Pending(r) \/ ListApplied(r) PROVE TypeOK'
  BY <1>3 DEF ReadApplied, Pending, ListApplied, applied_versions, Goto, Control, Outcome, TypeOK,
     database, history
<1>4. ASSUME NEW r \in Runner, Verify(r) \/ Applied(r) \/ ReadFails(r) PROVE TypeOK'
  BY <1>0, <1>4 DEF Verify, Applied, ReadFails, Finish, Goto, Control, Outcome, TypeOK, database,
     history
<1>5. ASSUME NEW r \in Runner, ReadFile(r) \/ ReadDown(r) PROVE TypeOK'
  <2>1. /\ next_file(r) \in Version /\ next_down(r) \in Version
        /\ pc' \in [Runner -> Control] /\ result' \in [Runner -> Outcome]
        /\ todo' \in [Runner -> SUBSET Version] /\ applied' \in [Runner -> SUBSET Version]
        /\ UNCHANGED <<content, rows, effect, lock, edited, mode, lost, undone>>
    BY <1>5, NextFile DEF ReadFile, ReadDown, Finish, Goto, Control, Outcome, TypeOK, database,
       history
  <2>2. sql' \in [Runner -> Content]
    BY <1>0, <1>5, <2>1 DEF ReadFile, ReadDown, Finish, TypeOK
  <2> QED
    BY <2>1, <2>2 DEF TypeOK
<1>6. ASSUME NEW r \in Runner, Execute(r) \/ ExecuteDown(r) PROVE TypeOK'
  <2>1. next_file(r) \in Version /\ next_down(r) \in Version
    BY <1>6, NextFile DEF Execute, ExecuteDown, Work, WorkOf
  <2>2. effect' \in Effects
    <3>1. Append(effect[next_file(r)], [sql |-> sql[r], whole |-> TRUE]) \in Seq(Execution)
      BY <2>1, Appends, Zenon DEF TypeOK, Effects
    <3>2. \/ effect' = [effect EXCEPT ![next_file(r)] =
                            Append(effect[next_file(r)], [sql |-> sql[r], whole |-> TRUE])]
          \/ effect' = [effect EXCEPT ![next_down(r)] = <<>>]
      BY <1>6, Zenon DEF Execute, ExecuteDown
    <3>3. effect \in Effects
      BY DEF TypeOK
    <3> QED
      BY <2>1, <3>1, <3>2, <3>3, Entries, Zenon
  <2> QED
    BY <1>6, <2>2 DEF Execute, ExecuteDown, Goto, Control, Outcome, TypeOK, history
<1>7. ASSUME NEW r \in Runner, ExecuteFails(r) \/ TrackFails(r) PROVE TypeOK'
  <2>1. Current(r) \in Version
    BY <1>7, CurrentFile, Zenon DEF ExecuteFails, TrackFails
  <2>2. lost' \subseteq Version /\ undone' \subseteq lost'
    BY <1>7, <2>1 DEF ExecuteFails, TrackFails, Loses, TypeOK, history
  <2>3. effect' \in Effects
    <3>1. effect \in Effects
      BY DEF TypeOK
    <3>2. Append(effect[Current(r)], [sql |-> sql[r], whole |-> FALSE]) \in Seq(Execution)
      BY <2>1, Appends, Zenon DEF TypeOK, Effects
    <3>3. \/ effect' = effect
          \/ effect' = [effect EXCEPT ![Current(r)] =
                           Append(effect[Current(r)], [sql |-> sql[r], whole |-> FALSE])]
      BY <1>7, Zenon DEF ExecuteFails, TrackFails, database
    <3> QED
      BY <2>1, <3>1, <3>2, <3>3, Entries, Zenon
  <2>4. rows' = rows
    BY <1>7, Zenon DEF ExecuteFails, TrackFails, database
  <2>5. Finish(r, "Execution") /\ UNCHANGED <<content, lock, edited, mode>>
    BY <1>7, Zenon DEF ExecuteFails, TrackFails
  <2>6. /\ pc' \in [Runner -> Control] /\ result' \in [Runner -> Outcome]
        /\ todo' \in [Runner -> SUBSET Version] /\ applied' \in [Runner -> SUBSET Version]
        /\ sql' \in [Runner -> Content]
    BY <1>0, <2>5 DEF Finish, Goto, Control, Outcome, TypeOK
  <2> QED
    BY <2>2, <2>3, <2>4, <2>5, <2>6 DEF TypeOK
<1>8. ASSUME NEW r \in Runner, MarkApplied(r) \/ MarkReverted(r) PROVE TypeOK'
  <2>1. next_file(r) \in Version /\ next_down(r) \in Version
    BY <1>8, NextFile DEF MarkApplied, MarkReverted, Work, WorkOf
  <2>2. rows' \in Table
    <3>1. Append(rows[next_file(r)], sql[r]) \in Seq(Content)
      BY <2>1, Appends DEF TypeOK, Table
    <3>2. \/ rows' = [rows EXCEPT ![next_file(r)] = Append(rows[next_file(r)], sql[r])]
          \/ rows' = [rows EXCEPT ![next_down(r)] = <<>>]
      BY <1>8, Zenon DEF MarkApplied, MarkReverted, Recorded
    <3>3. rows \in Table
      BY DEF TypeOK
    <3> QED
      BY <2>1, <3>1, <3>2, <3>3, Entries, Zenon
  <2> QED
    BY <1>8, <2>2 DEF MarkApplied, MarkReverted, Goto, Control, Outcome, TypeOK, history
<1>9. ASSUME NEW r \in Runner, NEW t \in Version \cup {0}, Rollback(r, t) PROVE TypeOK'
  BY <1>9 DEF Rollback, Goto, Control, Outcome, TypeOK, database, history
<1>10. ASSUME NEW r \in Runner, Crash(r) PROVE TypeOK'
  <2>1. pc[r] \in {"track", "untrack"} => Current(r) \in Version
    BY CurrentFile
  <2> QED
    BY <1>0, <1>10, <2>1 DEF Crash, Loses, Goto, Control, Outcome, TypeOK, database
<1>11. ASSUME NEW v \in Version, Edit(v) PROVE TypeOK'
  <2>1. UNCHANGED <<rows, effect, lock, pc, todo, applied, sql, result, mode, lost, undone>>
    BY <1>11, Zenon DEF Edit, database, own, history
  <2>2. content' \in [Version -> Content]
    BY <1>11, OptionsAssumption DEF Edit, Content, TypeOK
  <2>3. edited' \in [Runner -> SUBSET Version]
    BY <1>11 DEF Edit, TypeOK
  <2> QED
    BY <2>1, <2>2, <2>3, Zenon DEF TypeOK
<1>12. CASE UNCHANGED vars
  BY <1>12 DEF vars, own, database, history, TypeOK
<1> HIDE DEF TypeOK
<1> QED
  BY <1>1, <1>2, <1>3, <1>4, <1>5, <1>6, <1>7, <1>8, <1>9, <1>10, <1>11, <1>12, ZenonT(30)
     DEF Next, Step

-----------------------------------------------------------------------------
(* One call at a time                                                      *)

LEMMA ModeIs == ASSUME TypeOK PROVE mode \in {"embedded", "connection", "serial"}
BY RunnerAssumption DEF TypeOK, ModeKinds

\* Whoever looks at the database is alone.
LEMMA AloneInside ==
  ASSUME TypeOK, Alone, NEW r \in Runner, NEW q \in Runner, q # r, Inside(r)
  PROVE  ~Inside(q)
BY ModeIs DEF Alone, Inside

\* What any call does.
CallStep(r) ==
  \/ Step(r) \/ Crash(r)
  \/ \E dry_run \in BOOLEAN : Run(r, dry_run)
  \/ \E target \in Version \cup {0} : Rollback(r, target)

\* A call leaves what is another call's alone.
LEMMA OthersStay ==
  ASSUME TypeOK, NEW r \in Runner, NEW q \in Runner, q # r, CallStep(r)
  PROVE  /\ mode' = mode
         /\ pc'[q] = pc[q] /\ todo'[q] = todo[q] /\ applied'[q] = applied[q]
         /\ sql'[q] = sql[q] /\ result'[q] = result[q]
<1> DEFINE Goal == /\ mode' = mode
                   /\ pc'[q] = pc[q] /\ todo'[q] = todo[q] /\ applied'[q] = applied[q]
                   /\ sql'[q] = sql[q] /\ result'[q] = result[q]
<1>1. ASSUME NEW d \in BOOLEAN, Run(r, d) PROVE Goal
  BY <1>1 DEF Run, Goto, TypeOK
<1>2. ASSUME NEW t \in Version \cup {0}, Rollback(r, t) PROVE Goal
  BY <1>2 DEF Rollback, Goto, TypeOK
<1>3. ASSUME Acquire(r) \/ LockTimeout(r) \/ Release(r) PROVE Goal
  BY <1>3 DEF Acquire, LockTimeout, Release, Finish, Goto, TypeOK
<1>4. ASSUME ReadApplied(r) \/ Pending(r) \/ ListApplied(r) PROVE Goal
  BY <1>4 DEF ReadApplied, Pending, ListApplied, Goto, TypeOK
<1>5. ASSUME Verify(r) \/ Applied(r) \/ ReadFails(r) PROVE Goal
  BY <1>5 DEF Verify, Applied, ReadFails, Finish, Goto, TypeOK
<1>6. ASSUME ReadFile(r) \/ ReadDown(r) PROVE Goal
  BY <1>6 DEF ReadFile, ReadDown, Finish, Goto, TypeOK
<1>7. ASSUME Execute(r) \/ ExecuteDown(r) PROVE Goal
  BY <1>7 DEF Execute, ExecuteDown, Goto, TypeOK
<1>8. ASSUME ExecuteFails(r) \/ TrackFails(r) PROVE Goal
  BY <1>8, Zenon DEF ExecuteFails, TrackFails, Finish, Goto, TypeOK
<1>9. ASSUME MarkApplied(r) \/ MarkReverted(r) PROVE Goal
  BY <1>9 DEF MarkApplied, MarkReverted, Goto, TypeOK
<1>10. ASSUME Crash(r) PROVE Goal
  BY <1>10 DEF Crash, Goto, TypeOK
<1> HIDE DEF Goal
<1>11. Goal
  BY <1>1, <1>2, <1>3, <1>4, <1>5, <1>6, <1>7, <1>8, <1>9, <1>10, Zenon DEF CallStep, Step
<1> QED
  BY <1>11 DEF Goal

\* Nothing but calls, and the edits of files.
LEMMA NextIs ==
  ASSUME Next
  PROVE  (\E r \in Runner : CallStep(r)) \/ (\E v \in Version : Edit(v))
BY Zenon DEF Next, CallStep

LEMMA AloneNext ==
  ASSUME OneAtATime, TypeOK, Alone, [Next]_vars
  PROVE  Alone'
<1>1. ASSUME NEW r \in Runner, NEW d \in BOOLEAN, Run(r, d) PROVE Alone'
  BY <1>1 DEF Run, Free, FirstStep, Goto, OneAtATime, Alone, Inside, Rolling, Reverting, TypeOK
<1>2. ASSUME NEW r \in Runner, NEW t \in Version \cup {0}, Rollback(r, t) PROVE Alone'
  BY <1>2 DEF Rollback, Free, Goto, OneAtATime, Alone, Inside, Rolling, Reverting, TypeOK
<1>3. ASSUME NEW r \in Runner, Acquire(r) \/ Release(r) PROVE Alone'
  BY <1>3, RunnerAssumption DEF Acquire, Release, Goto, Alone, Inside, Rolling, Reverting, TypeOK
<1>4. ASSUME NEW r \in Runner, ReadApplied(r) \/ Pending(r) \/ ListApplied(r) PROVE Alone'
  BY <1>4 DEF ReadApplied, Pending, ListApplied, Goto, Alone, Inside, Rolling, Reverting, TypeOK
\* A call that is over keeps the lock until it has released it.
<1>5. ASSUME NEW r \in Runner, pc[r] # "idle", UNCHANGED <<lock, mode>>,
             pc' = [pc EXCEPT ![r] = IF lock = r THEN "release" ELSE "idle"]
      PROVE  Alone'
  BY <1>5, RunnerAssumption DEF Alone, Inside, Rolling, Reverting, TypeOK
<1>6. ASSUME NEW r \in Runner, Verify(r) \/ ReadFile(r) \/ ReadDown(r) PROVE Alone'
  <2>1. CASE pc' = [pc EXCEPT ![r] = IF lock = r THEN "release" ELSE "idle"]
    BY <1>5, <1>6, <2>1, Zenon DEF Verify, ReadFile, ReadDown
  <2>2. CASE pc' # [pc EXCEPT ![r] = IF lock = r THEN "release" ELSE "idle"]
    BY <1>6, <2>2 DEF Verify, ReadFile, ReadDown, Finish, Goto, Alone, Inside, Rolling, Reverting, TypeOK
  <2> QED
    BY <2>1, <2>2
<1>7. ASSUME NEW r \in Runner, Execute(r) \/ ExecuteDown(r) PROVE Alone'
  BY <1>7 DEF Execute, ExecuteDown, Goto, Alone, Inside, Rolling, Reverting, TypeOK
<1>8. ASSUME NEW r \in Runner, \/ LockTimeout(r) \/ Applied(r) \/ ReadFails(r)
                               \/ ExecuteFails(r) \/ TrackFails(r)
      PROVE  Alone'
  <2>1. /\ pc[r] # "idle" /\ UNCHANGED <<lock, mode>>
        /\ pc' = [pc EXCEPT ![r] = IF lock = r THEN "release" ELSE "idle"]
    BY <1>8, Zenon DEF LockTimeout, Applied, ReadFails, ExecuteFails, TrackFails, Finish, Goto
  <2> QED
    BY <1>5, <2>1, Zenon
<1>9. ASSUME NEW r \in Runner, MarkApplied(r) \/ MarkReverted(r) PROVE Alone'
  BY <1>9 DEF MarkApplied, MarkReverted, Goto, Alone, Inside, Rolling, Reverting, TypeOK
<1>10. ASSUME NEW r \in Runner, Crash(r) PROVE Alone'
  BY <1>10, RunnerAssumption DEF Crash, Goto, Alone, Inside, Rolling, Reverting, TypeOK
<1>11. ASSUME NEW v \in Version, Edit(v) PROVE Alone'
  BY <1>11, Zenon DEF Edit, own, Alone, Inside, Rolling, Reverting
<1>12. CASE UNCHANGED vars
  BY <1>12, Zenon DEF vars, own, Alone, Inside, Rolling, Reverting
<1> HIDE DEF Alone
<1> QED
  BY <1>1, <1>2, <1>3, <1>4, <1>5, <1>6, <1>7, <1>8, <1>9, <1>10, <1>11, <1>12, ZenonT(30)
     DEF Next, Step

-----------------------------------------------------------------------------
(* What a call has left to do                                              *)

\* The step of r that does not come between q and the tracker table.
LEMMA WorkOthers ==
  ASSUME TypeOK, Alone, NEW r \in Runner, NEW q \in Runner, q # r, WorkOf(q), CallStep(r),
         \/ Inside(r)
         \/ rows' = rows /\ (Rolling(q) => \A p \in Runner : edited[p] \subseteq edited'[p])
  PROVE  WorkOf(q)'
<1>1. /\ mode' = mode
      /\ pc'[q] = pc[q] /\ todo'[q] = todo[q] /\ applied'[q] = applied[q] /\ result'[q] = result[q]
  BY OthersStay
<1>2. CASE Inside(r)
  <2>1. pc[q] \in {"idle", "acquire"}
    BY <1>2, AloneInside DEF Inside
  <2> QED
    BY <1>1, <2>1 DEF WorkOf, Applying, Reverting
<1>3. CASE rows' = rows /\ (Rolling(q) => \A p \in Runner : edited[p] \subseteq edited'[p])
  <2>1. \A v \in Version : Wanted(q, v)' <=> Wanted(q, v)
    BY <1>1, Zenon DEF Wanted
  <2>2. applied_versions' = applied_versions
    BY <1>3, Zenon DEF applied_versions
  <2>3. {v \in Version : Wanted(q, v) /\ rows[v] = <<>>}'
          = {v \in Version : Wanted(q, v) /\ rows[v] = <<>>}
    BY <1>3, <2>1
  <2>4. Rolling(q) /\ (\A p \in Runner \ {q} : todo[q] \subseteq edited[p])
          => \A p \in Runner \ {q} : todo[q] \subseteq edited'[p]
    BY <1>3
  <2> QED
    BY <1>1, <1>3, <2>2, <2>3, <2>4, Zenon DEF WorkOf, Applying, Reverting, Rolling
<1> QED
  BY <1>2, <1>3

LEMMA AppendNonEmpty ==
  /\ \A s \in Seq(Content), c \in Content : Append(s, c) # <<>>
  /\ \A s \in Seq(Execution), x \in Execution : Append(s, x) # <<>>
<1>1. ASSUME NEW S, NEW s \in Seq(S), NEW c \in S PROVE Append(s, c) # <<>>
  <2>1. Len(Append(s, c)) = Len(s) + 1 /\ Len(s) \in Nat
    OBVIOUS
  <2> QED
    BY <2>1
<1> QED
  BY <1>1, Zenon

\* The steps that change the tracker table, or begin with it, leave r's own work right.
LEMMA WorkApplied ==
  ASSUME TypeOK, Work, NEW r \in Runner, MarkApplied(r)
  PROVE  WorkOf(r)'
<1> DEFINE v == next_file(r)
<1>1. v \in Version
  BY CurrentFile DEF MarkApplied
<1>2. /\ rows' = [rows EXCEPT ![v] = Append(rows[v], sql[r])]
      /\ todo'[r] = todo[r] \ {v} /\ pc'[r] = "apply" /\ UNCHANGED <<result, mode>>
  BY DEF MarkApplied, Goto, TypeOK, Recorded
<1>3. rows'[v] # <<>> /\ \A u \in Version \ {v} : rows'[u] = rows[u]
  BY <1>1, <1>2, AppendNonEmpty, Zenon DEF TypeOK, Table
<1>4. todo[r] = {u \in Version : Wanted(r, u) /\ rows[u] = <<>>} /\ result[r] # "Applied"
  BY DEF Work, WorkOf, Applying, MarkApplied
<1>5. \A u \in Version : Wanted(r, u)' <=> Wanted(r, u)
  BY <1>2, Zenon DEF Wanted
<1> HIDE DEF v
<1>6. todo'[r] = {u \in Version : Wanted(r, u) /\ rows[u] = <<>>}'
  BY <1>2, <1>3, <1>4, <1>5
<1> QED
  BY <1>2, <1>4, <1>6 DEF WorkOf, Applying, Reverting

LEMMA WorkReverted ==
  ASSUME TypeOK, Work, NEW r \in Runner, MarkReverted(r)
  PROVE  WorkOf(r)'
<1> DEFINE v == next_down(r)
<1>1. v \in Version
  BY CurrentFile DEF MarkReverted
<1>2. /\ rows' = [rows EXCEPT ![v] = <<>>]
      /\ todo'[r] = todo[r] \ {v} /\ pc'[r] = "revert" /\ UNCHANGED <<result, edited>>
  BY DEF MarkReverted, Goto, TypeOK
<1>3. rows'[v] = <<>> /\ \A u \in Version \ {v} : rows'[u] = rows[u]
  BY <1>1, <1>2 DEF TypeOK, Table
<1>4. /\ todo[r] \subseteq applied_versions /\ result[r] # "Applied"
      /\ \A u \in todo[r], w \in Version \ todo[r] : u < w => rows[w] = <<>>
      /\ \A q \in Runner \ {r} : todo[r] \subseteq edited[q]
  BY DEF Work, WorkOf, Reverting, MarkReverted
<1> HIDE DEF v
<1>5. todo'[r] \subseteq applied_versions'
  BY <1>2, <1>3, <1>4 DEF applied_versions
<1>6. \A u \in todo'[r], w \in Version \ todo'[r] : u < w => rows'[w] = <<>>
  BY <1>2, <1>3, <1>4
<1>7. \A q \in Runner \ {r} : todo'[r] \subseteq edited'[q]
  BY <1>2, <1>4
<1> QED
  BY <1>2, <1>4, <1>5, <1>6, <1>7 DEF WorkOf, Applying, Reverting

LEMMA WorkRollback ==
  ASSUME TypeOK, NEW r \in Runner, NEW t \in Version \cup {0}, Rollback(r, t)
  PROVE  WorkOf(r)'
<1>1. /\ todo'[r] = {v \in Version : v > t} /\ pc'[r] = "list" /\ result'[r] = "running"
      /\ \A q \in Runner \ {r} : edited'[q] = edited[q] \cup {v \in Version : v > t}
  BY DEF Rollback, Goto, TypeOK
<1>2. ASSUME NEW u \in todo'[r], NEW w \in Version \ todo'[r] PROVE ~(u < w)
  <2>1. u \in Version /\ u > t /\ ~(w > t)
    BY <1>1
  <2>2. u \in Nat /\ w \in Nat /\ t \in Nat
    BY <2>1, VersionAssumption
  <2> QED
    BY <2>1, <2>2
<1>3. \A q \in Runner \ {r} : todo'[r] \subseteq edited'[q]
  BY <1>1
<1> QED
  BY <1>1, <1>2, <1>3 DEF WorkOf, Applying, Reverting

LEMMA WorkListed ==
  ASSUME TypeOK, Work, NEW r \in Runner, ListApplied(r)
  PROVE  WorkOf(r)'
<1>1. /\ todo'[r] = todo[r] \cap applied_versions /\ pc[r] = "list" /\ pc'[r] = "revert"
      /\ UNCHANGED <<result, rows, edited>>
  BY DEF ListApplied, Goto, TypeOK, database
<1>2. applied_versions' = applied_versions /\ applied_versions \subseteq Version
  BY <1>1 DEF applied_versions
<1>3. /\ \A u \in todo[r], w \in Version \ todo[r] : ~(u < w)
      /\ \A q \in Runner \ {r} : todo[r] \subseteq edited[q]
      /\ result[r] # "Applied"
  BY <1>1, Zenon DEF Work, WorkOf
<1>4. \A u \in todo'[r], w \in Version \ todo'[r] : u < w => rows'[w] = <<>>
  BY <1>1, <1>3 DEF applied_versions
<1>5. \A q \in Runner \ {r} : todo'[r] \subseteq edited'[q]
  BY <1>1, <1>3
<1> QED
  BY <1>1, <1>2, <1>3, <1>4, <1>5 DEF WorkOf, Applying, Reverting

LEMMA WorkNext ==
  ASSUME TypeOK, Alone, Work, [Next]_vars
  PROVE  Work'
<1>1. ASSUME NEW r \in Runner, CallStep(r) PROVE WorkOf(r)'
  <2>0. WorkOf(r) /\ pc[r] \in Control
    BY Zenon DEF Work, TypeOK
  <2>1. ASSUME NEW d \in BOOLEAN, Run(r, d) PROVE WorkOf(r)'
    <3>1. pc'[r] \in {"idle", "acquire", "scan"} /\ result'[r] # "Applied"
      BY <2>1 DEF Run, Free, FirstStep, Goto, TypeOK
    <3> QED
      BY <3>1 DEF WorkOf, Applying, Reverting
  <2>2. ASSUME Acquire(r) \/ Release(r) \/ Crash(r) PROVE WorkOf(r)'
    <3>1. pc'[r] = "idle" \/ (pc'[r] = "scan" /\ result'[r] # "Applied")
      BY <2>0, <2>2, Zenon DEF Acquire, Release, Crash, Goto, TypeOK, WorkOf
    <3> QED
      BY <3>1 DEF WorkOf, Applying, Reverting
  <2>3. ASSUME ReadApplied(r) PROVE WorkOf(r)'
    <3>1. /\ pc'[r] = "verify" /\ todo'[r] = applied_versions /\ applied'[r] = applied_versions
          /\ result'[r] # "Applied" /\ applied_versions' = applied_versions
      BY <2>0, <2>3 DEF ReadApplied, Goto, TypeOK, WorkOf, database, applied_versions
    <3> QED
      BY <3>1 DEF WorkOf, Applying, Reverting
  <2>4. ASSUME Verify(r) PROVE WorkOf(r)'
    <3>1. \/ pc'[r] \in {"idle", "release"}
          \/ /\ pc'[r] = "verify" /\ todo'[r] \subseteq todo[r] /\ applied' = applied
             /\ result'[r] # "Applied" /\ applied_versions' = applied_versions
      <4>1. applied_versions' = applied_versions
        BY <2>4, Zenon DEF Verify, database, applied_versions
      <4>2. pc[r] = "verify" /\ result[r] # "Applied"
        BY <2>0, <2>4 DEF Verify, WorkOf
      <4> QED
        BY <2>4, <4>1, <4>2 DEF Verify, Finish, Goto, TypeOK
    <3>2. todo[r] \subseteq applied[r] /\ applied[r] = applied_versions
      BY <2>0, <2>4 DEF Verify, WorkOf
    <3> QED
      BY <3>1, <3>2 DEF WorkOf, Applying, Reverting
  <2>5. ASSUME Pending(r) PROVE WorkOf(r)'
    <3>1. /\ pc'[r] = "apply" /\ todo'[r] = {v \in Version \ applied[r] : Wanted(r, v)}
          /\ result'[r] # "Applied" /\ applied[r] = applied_versions
          /\ rows' = rows /\ mode' = mode
      BY <2>0, <2>5 DEF Pending, Goto, TypeOK, WorkOf, database
    <3>2. \A v \in Version : Wanted(r, v)' <=> Wanted(r, v)
      BY <3>1, Zenon DEF Wanted
    <3>3. todo'[r] = {v \in Version : Wanted(r, v) /\ rows[v] = <<>>}'
      BY <3>1, <3>2 DEF applied_versions
    <3> QED
      BY <3>1, <3>3 DEF WorkOf, Applying, Reverting
  <2>6. ASSUME ReadFile(r) \/ Execute(r) PROVE WorkOf(r)'
    <3>1. \/ pc'[r] \in {"idle", "release"}
          \/ /\ pc'[r] \in {"exec", "track"} /\ todo' = todo /\ rows' = rows /\ mode' = mode
             /\ result'[r] # "Applied" /\ todo[r] # {}
      BY <2>0, <2>6, Zenon DEF ReadFile, Execute, Finish, Goto, TypeOK, WorkOf, database
    <3>2. todo[r] = {v \in Version : Wanted(r, v) /\ rows[v] = <<>>}
      BY <2>0, <2>6, Zenon DEF ReadFile, Execute, WorkOf, Applying
    <3>3. mode' = mode => \A v \in Version : Wanted(r, v)' <=> Wanted(r, v)
      BY Zenon DEF Wanted
    <3>4. rows' = rows /\ mode' = mode =>
            todo[r] = {v \in Version : Wanted(r, v) /\ rows[v] = <<>>}'
      BY <3>2, <3>3
    <3> QED
      BY <3>1, <3>4, Zenon DEF WorkOf, Applying, Reverting
  <2>7. ASSUME LockTimeout(r) \/ Applied(r) \/ ReadFails(r) \/ ExecuteFails(r) \/ TrackFails(r)
        PROVE WorkOf(r)'
    <3>1. pc'[r] \in {"idle", "release"}
      BY <2>7, Zenon DEF LockTimeout, Applied, ReadFails, ExecuteFails, TrackFails, Finish, Goto, TypeOK
    <3> QED
      BY <3>1 DEF WorkOf, Applying, Reverting
  <2>8. ASSUME ReadDown(r) \/ ExecuteDown(r) PROVE WorkOf(r)'
    <3>1. \/ pc'[r] \in {"idle", "release"}
          \/ /\ pc'[r] \in {"down", "untrack"} /\ todo' = todo /\ rows' = rows /\ edited' = edited
             /\ result'[r] # "Applied" /\ todo[r] # {}
      BY <2>0, <2>8, Zenon DEF ReadDown, ExecuteDown, Finish, Goto, TypeOK, WorkOf, database
    <3>2. /\ todo[r] \subseteq applied_versions
          /\ \A u \in todo[r], w \in Version \ todo[r] : u < w => rows[w] = <<>>
          /\ \A q \in Runner \ {r} : todo[r] \subseteq edited[q]
      BY <2>0, <2>8, Zenon DEF ReadDown, ExecuteDown, WorkOf, Reverting
    <3>3. rows' = rows => applied_versions' = applied_versions
      BY Zenon DEF applied_versions
    <3> QED
      BY <3>1, <3>2, <3>3 DEF WorkOf, Applying, Reverting
  <2> HIDE DEF WorkOf, Work
  <2> QED
    BY <1>1, <2>1, <2>2, <2>3, <2>4, <2>5, <2>6, <2>7, <2>8, WorkApplied, WorkReverted,
       WorkRollback, WorkListed, ZenonT(30) DEF CallStep, Step
<1>2. ASSUME NEW r \in Runner, CallStep(r), NEW q \in Runner, q # r PROVE WorkOf(q)'
  <2>1. \/ Inside(r)
        \/ rows' = rows /\ edited' = edited
        \/ \E d \in BOOLEAN : Run(r, d)
        \/ \E t \in Version \cup {0} : Rollback(r, t)
    <3>1. Inside(r) \/ Acquire(r) \/ LockTimeout(r) \/ ReadFails(r) \/ Crash(r)
           \/ (\E d \in BOOLEAN : Run(r, d)) \/ (\E t \in Version \cup {0} : Rollback(r, t))
      BY <1>2, Zenon DEF CallStep, Step, Inside, ReadApplied, Verify, Pending, ReadFile, Applied,
         Execute, ExecuteFails, MarkApplied, TrackFails, Release, ListApplied, ReadDown, ExecuteDown,
         MarkReverted
    <3> QED
      BY <3>1, Zenon DEF Acquire, LockTimeout, ReadFails, Crash, database
  <2>2. ASSUME NEW d \in BOOLEAN, Run(r, d), Rolling(q) PROVE FALSE
    BY <2>2 DEF Run, Free, Alone, Rolling, Reverting
  <2>3. ASSUME NEW d \in BOOLEAN, Run(r, d) PROVE rows' = rows
    BY <2>3, Zenon DEF Run, database
  <2>4. ASSUME NEW t \in Version \cup {0}, Rollback(r, t), Rolling(q) PROVE FALSE
    BY <2>4 DEF Rollback, Free, Alone, Rolling, Reverting
  <2>5. ASSUME NEW t \in Version \cup {0}, Rollback(r, t) PROVE rows' = rows
    BY <2>5, Zenon DEF Rollback, database
  <2>6. \/ Inside(r)
        \/ rows' = rows /\ (Rolling(q) => \A p \in Runner : edited[p] \subseteq edited'[p])
    BY <2>1, <2>2, <2>3, <2>4, <2>5, Zenon
  <2>7. WorkOf(q)
    BY Zenon DEF Work
  <2> HIDE DEF WorkOf
  <2> QED
    BY <1>2, <2>6, <2>7, WorkOthers
<1>3. ASSUME NEW v \in Version, Edit(v) PROVE Work'
  <2>1. UNCHANGED <<pc, todo, applied, result, rows, mode>>
    BY <1>3, Zenon DEF Edit, database, own
  <2>2. \A r \in Runner : edited[r] \subseteq edited'[r]
    BY <1>3 DEF Edit, TypeOK
  <2>3. applied_versions' = applied_versions
    BY <2>1, Zenon DEF applied_versions
  <2>4. ASSUME NEW r \in Runner PROVE WorkOf(r)'
    <3>1. {u \in Version : Wanted(r, u) /\ rows[u] = <<>>}'
            = {u \in Version : Wanted(r, u) /\ rows[u] = <<>>}
      BY <2>1 DEF Wanted
    <3>2. WorkOf(r)
      BY Zenon DEF Work
    <3> QED
      BY <2>1, <2>2, <2>3, <3>1, <3>2, Zenon DEF WorkOf, Applying, Reverting
  <2> QED
    BY <2>4, Zenon DEF Work
<1>4. CASE UNCHANGED vars
  BY <1>4, Zenon DEF vars, own, database, Work, WorkOf, Applying, Reverting, applied_versions, Wanted
<1>5. ASSUME NEW r \in Runner, CallStep(r) PROVE Work'
  BY <1>1, <1>2, <1>5, Zenon DEF Work
<1> QED
  BY <1>3, <1>4, <1>5, NextIs, Zenon

-----------------------------------------------------------------------------
(* What a call has verified                                                *)

\* While r is alone, the only version half way is its own.
LEMMA BusyAlone ==
  ASSUME TypeOK, Alone, NEW r \in Runner, Inside(r)
  PROVE  Busy = IF Halfway(r) THEN {Current(r)} ELSE {}
<1>1. \A q \in Runner : q # r => ~Halfway(q)
  BY AloneInside DEF Halfway, Inside
<1> QED
  BY <1>1, Zenon DEF Busy

\* A step of r when r has yet to look at the database.
LEMMA OutsideStep ==
  ASSUME TypeOK, NEW r \in Runner, CallStep(r), ~Inside(r)
  PROVE  /\ UNCHANGED <<rows, effect, content, lost, undone>>
         /\ \A q \in Runner \ {r} : edited[q] \subseteq edited'[q]
         /\ pc'[r] \in {"idle", "acquire", "scan", "list", "release"}
         /\ result'[r] # "Applied" \/ (result'[r] = result[r] /\ edited' = edited)
<1>1. \/ Acquire(r) \/ LockTimeout(r) \/ ReadFails(r) \/ Crash(r)
      \/ (\E d \in BOOLEAN : Run(r, d)) \/ (\E t \in Version \cup {0} : Rollback(r, t))
  BY Zenon DEF CallStep, Step, Inside, ReadApplied, Verify, Pending, ReadFile, Applied, Execute,
     ExecuteFails, MarkApplied, TrackFails, Release, ListApplied, ReadDown, ExecuteDown, MarkReverted
<1>2. CASE Acquire(r) \/ Crash(r)
  BY <1>2, Zenon DEF Acquire, Crash, Loses, Goto, Inside, database, history, TypeOK
<1>3. CASE LockTimeout(r) \/ ReadFails(r)
  BY <1>3 DEF LockTimeout, ReadFails, Finish, Goto, Inside, database, history, TypeOK
<1>4. ASSUME NEW d \in BOOLEAN, Run(r, d)
      PROVE  /\ UNCHANGED <<rows, effect, content, lost, undone>>
             /\ \A q \in Runner \ {r} : edited[q] \subseteq edited'[q]
             /\ pc'[r] \in {"idle", "acquire", "scan"} /\ result'[r] # "Applied"
  BY <1>4 DEF Run, Free, FirstStep, Goto, database, history, TypeOK
<1>5. ASSUME NEW t \in Version \cup {0}, Rollback(r, t)
      PROVE  /\ UNCHANGED <<rows, effect, content, lost, undone>>
             /\ \A q \in Runner \ {r} : edited[q] \subseteq edited'[q]
             /\ pc'[r] = "list" /\ result'[r] # "Applied"
  BY <1>5 DEF Rollback, Goto, database, history, TypeOK
<1> QED
  BY <1>1, <1>2, <1>3, <1>4, <1>5, Zenon

LEMMA VerifiedOthers ==
  ASSUME TypeOK, Alone, NEW r \in Runner, NEW q \in Runner, q # r, VerifiedBy(q), CallStep(r)
  PROVE  VerifiedBy(q)'
<1>1. pc'[q] = pc[q] /\ todo'[q] = todo[q] /\ sql'[q] = sql[q]
  BY OthersStay
<1>2. CASE ~Inside(q)
  BY <1>1, <1>2 DEF VerifiedBy, Inside, Applying
<1>3. CASE Inside(q)
  <2>1. ~Inside(r)
    BY <1>3, AloneInside
  <2>2. UNCHANGED <<rows, content>> /\ edited[q] \subseteq edited'[q]
    BY <2>1, OutsideStep
  <2>3. next_file(q)' = next_file(q)
    BY <1>1, Zenon DEF next_file
  <2> QED
    BY <1>1, <2>2, <2>3 DEF VerifiedBy, Applying
<1> QED
  BY <1>2, <1>3

LEMMA SingleHead == \A c \in Content : Head(<<c>>) = c
OBVIOUS

\* The checksum loop: the one row of a version is compared with the file.
LEMMA VerifiedVerify ==
  ASSUME TypeOK, DbRows, NEW r \in Runner, VerifiedBy(r), Verify(r)
  PROVE  VerifiedBy(r)'
<1>1. UNCHANGED <<rows, content, edited>>
  BY Zenon DEF Verify, database
<1>2. CASE pc'[r] \in {"idle", "release"}
  BY <1>2 DEF VerifiedBy, Applying
<1>3. CASE pc'[r] \notin {"idle", "release"}
  <2> DEFINE u == Min(todo[r])
  <2>1. pc[r] = "verify" /\ pc'[r] = "verify" /\ todo'[r] = todo[r] \ {u} /\ ~Modified(u)
    BY <1>3 DEF Verify, Finish, Goto, TypeOK
  <2> HIDE DEF u
  <2>3. ASSUME NEW v \in Version \ edited[r], rows[v] # <<>>, v \notin todo'[r]
        PROVE  rows[v] = <<content[v]>>
    <3>1. CASE v = u
      <4>1. PICK c \in Content : rows[v] = <<c>>
        BY <2>3, Zenon DEF DbRows
      <4>2. Head(rows[v]) = content[v]
        BY <2>1, <2>3, <3>1, Zenon DEF Modified
      <4> QED
        BY <4>1, <4>2, SingleHead
    <3>2. CASE v # u
      BY <2>1, <2>3, <3>2 DEF VerifiedBy
    <3> QED
      BY <3>1, <3>2
  <2> QED
    BY <1>1, <2>1, <2>3 DEF VerifiedBy, Applying
<1> QED
  BY <1>2, <1>3

LEMMA VerifiedApplied ==
  ASSUME TypeOK, Work, NEW r \in Runner, VerifiedBy(r), MarkApplied(r)
  PROVE  VerifiedBy(r)'
<1> DEFINE v == next_file(r)
<1>1. v \in Version /\ v \in todo[r]
  BY CurrentFile DEF MarkApplied
<1>2. /\ rows' = [rows EXCEPT ![v] = Append(rows[v], sql[r])]
      /\ pc[r] = "track" /\ pc'[r] = "apply" /\ UNCHANGED <<content, edited>>
  BY DEF MarkApplied, Goto, TypeOK, Recorded
<1>3. rows[v] = <<>>
  BY <1>1, <1>2, Zenon DEF Work, WorkOf, Applying
<1>4. Append(<<>>, sql[r]) = <<sql[r]>>
  OBVIOUS
<1>5. rows'[v] = <<sql[r]>> /\ \A u \in Version \ {v} : rows'[u] = rows[u]
  BY <1>1, <1>2, <1>3, <1>4 DEF TypeOK, Table
<1>6. v \notin edited[r] => sql[r] = content[v]
  BY <1>2, Zenon DEF VerifiedBy
<1> HIDE DEF v
<1>7. \A u \in Version \ edited[r] : rows[u] # <<>> => rows[u] = <<content[u]>>
  BY <1>2 DEF VerifiedBy, Applying
<1>8. \A u \in Version \ edited[r] : rows'[u] # <<>> => rows'[u] = <<content[u]>>
  BY <1>5, <1>6, <1>7
<1> QED
  BY <1>2, <1>8 DEF VerifiedBy

LEMMA VerifiedNext ==
  ASSUME TypeOK, Alone, Work, Verified, DbRows, [Next]_vars
  PROVE  Verified'
<1>1. ASSUME NEW r \in Runner, CallStep(r) PROVE VerifiedBy(r)'
  <2>0. VerifiedBy(r)
    BY Zenon DEF Verified
  <2>1. CASE pc'[r] \notin {"verify", "apply", "exec", "track"}
    BY <2>1 DEF VerifiedBy, Applying
  <2>2. CASE ReadApplied(r)
    <3>1. pc'[r] = "verify" /\ todo'[r] = applied_versions /\ rows' = rows
      BY <2>2 DEF ReadApplied, Goto, TypeOK, database
    <3> QED
      BY <3>1 DEF VerifiedBy, Applying, applied_versions
  <2>3. CASE Pending(r)
    <3>1. /\ pc[r] = "verify" /\ pc'[r] = "apply" /\ todo[r] = {}
          /\ UNCHANGED <<rows, content, edited>>
      BY <2>3 DEF Pending, Goto, TypeOK, database
    <3> QED
      BY <2>0, <3>1 DEF VerifiedBy, Applying
  <2>4. CASE ReadFile(r) /\ pc'[r] = "exec"
    <3>1. /\ pc[r] = "apply" /\ sql'[r] = content[next_file(r)]
          /\ UNCHANGED <<rows, content, edited, todo>>
      BY <2>4 DEF ReadFile, Finish, Goto, TypeOK, database
    <3>2. next_file(r)' = next_file(r)
      BY <3>1, Zenon DEF next_file
    <3> QED
      BY <2>0, <2>4, <3>1, <3>2 DEF VerifiedBy, Applying
  <2>5. CASE Execute(r)
    <3>1. /\ pc[r] = "exec" /\ pc'[r] = "track"
          /\ UNCHANGED <<rows, content, edited, todo, sql>>
      BY <2>5 DEF Execute, Goto, TypeOK
    <3>2. next_file(r)' = next_file(r)
      BY <3>1, Zenon DEF next_file
    <3> QED
      BY <2>0, <3>1, <3>2 DEF VerifiedBy, Applying
  <2>6. \/ pc'[r] \notin {"verify", "apply", "exec", "track"}
        \/ ReadApplied(r) \/ Verify(r) \/ Pending(r) \/ (ReadFile(r) /\ pc'[r] = "exec")
        \/ Execute(r) \/ MarkApplied(r)
    <3>1. ASSUME NEW d \in BOOLEAN, Run(r, d) PROVE pc'[r] \in {"idle", "acquire", "scan"}
      BY <3>1 DEF Run, Free, FirstStep, Goto, TypeOK
    <3>2. ASSUME NEW t \in Version \cup {0}, Rollback(r, t) PROVE pc'[r] = "list"
      BY <3>2 DEF Rollback, Goto, TypeOK
    <3>3. ASSUME Acquire(r) \/ Release(r) \/ Crash(r) PROVE pc'[r] \in {"idle", "scan"}
      BY <3>3 DEF Acquire, Release, Crash, Goto, TypeOK
    <3>4. ASSUME LockTimeout(r) \/ Applied(r) \/ ReadFails(r) \/ ExecuteFails(r) \/ TrackFails(r)
          PROVE  pc'[r] \in {"idle", "release"}
      BY <3>4, Zenon DEF LockTimeout, Applied, ReadFails, ExecuteFails, TrackFails, Finish, Goto, TypeOK
    <3>5. ASSUME ListApplied(r) \/ ReadDown(r) \/ ExecuteDown(r) \/ MarkReverted(r)
          PROVE  pc'[r] \in {"idle", "release", "down", "untrack", "revert"}
      BY <3>5, Zenon DEF ListApplied, ReadDown, ExecuteDown, MarkReverted, Finish, Goto, TypeOK
    <3>6. ASSUME ReadFile(r) PROVE pc'[r] \in {"idle", "release", "exec"}
      BY <3>6 DEF ReadFile, Finish, Goto, TypeOK
    <3> QED
      BY <1>1, <3>1, <3>2, <3>3, <3>4, <3>5, <3>6 DEF CallStep, Step
  <2> HIDE DEF VerifiedBy
  <2> QED
    BY <2>0, <2>1, <2>2, <2>3, <2>4, <2>5, <2>6, VerifiedVerify, VerifiedApplied, Zenon
<1>2. ASSUME NEW r \in Runner, CallStep(r), NEW q \in Runner, q # r PROVE VerifiedBy(q)'
  BY <1>2, VerifiedOthers, Zenon DEF Verified
<1>3. ASSUME NEW v \in Version, Edit(v) PROVE Verified'
  <2>1. UNCHANGED <<pc, todo, rows, sql>>
    BY <1>3, Zenon DEF Edit, database, own
  <2>2. /\ \A r \in Runner : edited'[r] = edited[r] \cup {v}
        /\ \A u \in Version \ {v} : content'[u] = content[u]
    BY <1>3 DEF Edit, TypeOK
  <2>3. ASSUME NEW r \in Runner PROVE VerifiedBy(r)'
    <3>1. next_file(r)' = next_file(r)
      BY <2>1, Zenon DEF next_file
    <3>2. VerifiedBy(r)
      BY Zenon DEF Verified
    <3>3. pc[r] \in {"exec", "track"} => next_file(r) \in Version
      BY CurrentFile
    <3> QED
      BY <2>1, <2>2, <3>1, <3>2, <3>3, Zenon DEF VerifiedBy, Applying
  <2> QED
    BY <2>3, Zenon DEF Verified
<1>4. CASE UNCHANGED vars
  BY <1>4, Zenon DEF vars, own, database, Verified, VerifiedBy, Applying, next_file
<1>5. ASSUME NEW r \in Runner, CallStep(r) PROVE Verified'
  BY <1>1, <1>2, <1>5, Zenon DEF Verified
<1> QED
  BY <1>3, <1>4, <1>5, NextIs, Zenon

-----------------------------------------------------------------------------
(* What a step does to the database                                        *)

\* Neither the database nor what is half way.
Quiet == Busy' = Busy /\ UNCHANGED <<rows, effect, lost, undone>>

\* The SQL of a file, up or down, took effect.
Ran(r) ==
  /\ OnFile(r) /\ Busy = {} /\ Busy' = {Current(r)} /\ UNCHANGED <<rows, lost, undone>>
  /\ \/ /\ pc[r] = "exec"
        /\ effect' = [effect EXCEPT ![Current(r)] =
                        Append(effect[Current(r)], [sql |-> sql[r], whole |-> TRUE])]
     \/ pc[r] = "down" /\ effect' = [effect EXCEPT ![Current(r)] = <<>>]

\* So did the statement on the tracker table.
Marked(r) ==
  /\ OnFile(r) /\ Busy = {Current(r)} /\ Busy' = {} /\ UNCHANGED <<effect, lost, undone>>
  /\ \/ pc[r] = "track" /\ rows' = [rows EXCEPT ![Current(r)] = Append(rows[Current(r)], sql[r])]
     \/ pc[r] = "untrack" /\ rows' = [rows EXCEPT ![Current(r)] = <<>>]

\* A failure half way.
Torn(r) ==
  /\ OnFile(r)
  /\ Busy = (IF Halfway(r) THEN {Current(r)} ELSE {}) /\ Busy' = {}
  /\ rows' = rows /\ lost' = lost \cup {Current(r)}
  /\ undone' = IF pc[r] \in {"down", "untrack"} THEN undone \cup {Current(r)} ELSE undone
  /\ effect' = IF Halfway(r) THEN effect
       ELSE [effect EXCEPT ![Current(r)] =
               Append(effect[Current(r)], [sql |-> sql[r], whole |-> FALSE])]

LEMMA BusyNext ==
  ASSUME TypeOK, Alone, NEW r \in Runner, CallStep(r), Inside(r)
  PROVE  Busy' = IF Halfway(r)' THEN {Current(r)'} ELSE {}
<1>1. \A q \in Runner : q # r => ~Halfway(q)'
  BY AloneInside, OthersStay DEF Halfway, Inside
<1> QED
  BY <1>1, Zenon DEF Busy

LEMMA BusyStays ==
  ASSUME TypeOK, NEW r \in Runner, CallStep(r), ~Inside(r)
  PROVE  Busy' = Busy
<1>1. ~Halfway(r) /\ ~Halfway(r)'
  BY OutsideStep DEF Inside, Halfway
<1>2. ASSUME NEW q \in Runner, q # r
      PROVE  Halfway(q)' = Halfway(q) /\ Current(q)' = Current(q)
  <2>1. pc'[q] = pc[q] /\ todo'[q] = todo[q]
    BY <1>2, OthersStay
  <2> QED
    BY <2>1, Zenon DEF Halfway, Current, next_file, next_down
<1> QED
  BY <1>1, <1>2, Zenon DEF Busy

LEMMA FailureKinds ==
  ASSUME TypeOK, Alone, NEW r \in Runner, ExecuteFails(r) \/ TrackFails(r)
  PROVE  Quiet \/ Torn(r)
<1>1. OnFile(r) /\ Inside(r) /\ CallStep(r) /\ pc'[r] \in {"idle", "release"}
  BY Zenon DEF ExecuteFails, TrackFails, OnFile, Inside, CallStep, Step, Finish, Goto, TypeOK
<1>2. /\ Busy' = {}
      /\ Busy = IF Halfway(r) THEN {Current(r)} ELSE {}
  BY <1>1, BusyAlone, BusyNext, Zenon DEF Halfway
<1>3. CASE TrackFails(r)
  <2>1. /\ rows' = rows /\ effect' = effect /\ lost' = lost \cup {Current(r)} /\ Halfway(r)
        /\ undone' = IF pc[r] \in {"down", "untrack"} THEN undone \cup {Current(r)} ELSE undone
    BY <1>3, Zenon DEF TrackFails, Loses, Halfway, database
  <2> QED
    BY <1>1, <1>2, <2>1, Zenon DEF Torn
<1>4. CASE ExecuteFails(r)
  <2>1. ~Halfway(r)
    BY <1>4, Zenon DEF ExecuteFails, Halfway
  <2>2. \/ rows' = rows /\ effect' = effect /\ lost' = lost /\ undone' = undone
        \/ /\ rows' = rows /\ lost' = lost \cup {Current(r)}
           /\ undone' = IF pc[r] \in {"down", "untrack"} THEN undone \cup {Current(r)} ELSE undone
           /\ effect' = [effect EXCEPT ![Current(r)] =
                           Append(effect[Current(r)], [sql |-> sql[r], whole |-> FALSE])]
    BY <1>4, Zenon DEF ExecuteFails, Loses, history
  <2> QED
    BY <1>1, <1>2, <2>1, <2>2, Zenon DEF Torn, Quiet
<1> QED
  BY <1>3, <1>4, Zenon

\* Every step of a call is of one of these kinds.
LEMMA CallKinds ==
  ASSUME TypeOK, Alone, Work, NEW r \in Runner, CallStep(r)
  PROVE  Quiet \/ Ran(r) \/ Marked(r) \/ Torn(r)
<1>1. CASE ~Inside(r)
  BY <1>1, BusyStays, OutsideStep, Zenon DEF Quiet
<1>2. ASSUME Execute(r) \/ ExecuteDown(r) PROVE Ran(r)
  <2>1. /\ todo' = todo /\ UNCHANGED <<rows, lost, undone>> /\ Inside(r) /\ OnFile(r)
        /\ ~Halfway(r) /\ Halfway(r)' /\ (pc[r] = "exec" <=> pc'[r] = "track")
        /\ pc[r] \in {"exec", "down"} /\ pc'[r] \in {"track", "untrack"}
    BY <1>2 DEF Execute, ExecuteDown, Goto, Inside, OnFile, Halfway, TypeOK, history
  <2>2. Current(r)' = Current(r)
    BY <2>1, Zenon DEF Current, next_file, next_down
  <2>3. Busy = {} /\ Busy' = {Current(r)}
    BY <2>1, <2>2, BusyAlone, BusyNext
  <2>4. \/ /\ pc[r] = "exec"
           /\ effect' = [effect EXCEPT ![Current(r)] =
                           Append(effect[Current(r)], [sql |-> sql[r], whole |-> TRUE])]
        \/ pc[r] = "down" /\ effect' = [effect EXCEPT ![Current(r)] = <<>>]
    <3>1. pc[r] = "exec" => Current(r) = next_file(r)
      BY Zenon DEF Current
    <3>2. pc[r] = "down" => Current(r) = next_down(r)
      BY DEF Current
    <3> QED
      BY <1>2, <3>1, <3>2, Zenon DEF Execute, ExecuteDown
  <2> QED
    BY <2>1, <2>3, <2>4, Zenon DEF Ran
<1>3. ASSUME MarkApplied(r) \/ MarkReverted(r) PROVE Marked(r)
  <2>1. UNCHANGED <<effect, lost, undone>> /\ Inside(r) /\ OnFile(r) /\ Halfway(r) /\ ~Halfway(r)'
    BY <1>3 DEF MarkApplied, MarkReverted, Goto, Inside, OnFile, Halfway, TypeOK, history
  <2>2. Busy = {Current(r)} /\ Busy' = {}
    BY <2>1, BusyAlone, BusyNext
  <2>3. \/ pc[r] = "track" /\ rows' = [rows EXCEPT ![Current(r)] = Append(rows[Current(r)], sql[r])]
        \/ pc[r] = "untrack" /\ rows' = [rows EXCEPT ![Current(r)] = <<>>]
    <3>1. pc[r] = "track" => Current(r) = next_file(r)
      BY Zenon DEF Current
    <3>2. pc[r] = "untrack" => Current(r) = next_down(r)
      BY DEF Current
    <3> QED
      BY <1>3, <3>1, <3>2, Zenon DEF MarkApplied, MarkReverted, Recorded
  <2> QED
    BY <2>1, <2>2, <2>3, Zenon DEF Marked
<1>4. ASSUME Crash(r), Inside(r) PROVE Quiet \/ Torn(r)
  <2>1. UNCHANGED <<rows, effect>> /\ ~Halfway(r)'
    BY <1>4 DEF Crash, Goto, Halfway, TypeOK, database
  <2>2. Busy = (IF Halfway(r) THEN {Current(r)} ELSE {}) /\ Busy' = {}
    BY <1>4, <2>1, BusyAlone, BusyNext
  <2>3. /\ Halfway(r) => /\ lost' = lost \cup {Current(r)}
                         /\ undone' = IF pc[r] \in {"down", "untrack"} THEN undone \cup {Current(r)}
                                                                      ELSE undone
        /\ ~Halfway(r) => lost' = lost /\ undone' = undone
    BY <1>4 DEF Crash, Loses, Halfway
  <2>4. Halfway(r) => OnFile(r)
    BY DEF Halfway, OnFile
  <2> QED
    BY <2>1, <2>2, <2>3, <2>4, Zenon DEF Quiet, Torn
<1>5. ASSUME \/ ReadApplied(r) \/ Verify(r) \/ Pending(r) \/ ReadFile(r) \/ Applied(r) \/ Release(r)
             \/ ListApplied(r) \/ ReadDown(r) \/ ReadFails(r), Inside(r)
      PROVE Quiet
  <2>1. UNCHANGED <<rows, effect, lost, undone>> /\ ~Halfway(r)
    BY <1>5, Zenon DEF ReadApplied, Verify, Pending, ReadFile, Applied, Release, ListApplied, ReadDown,
       ReadFails, Halfway, database, history
  <2>2. ~Halfway(r)'
    <3>1. CASE ReadApplied(r) \/ Pending(r) \/ Release(r) \/ ListApplied(r)
      BY <3>1 DEF ReadApplied, Pending, Release, ListApplied, Goto, Halfway, TypeOK
    <3>2. CASE Verify(r) \/ Applied(r) \/ ReadFile(r) \/ ReadDown(r) \/ ReadFails(r)
      BY <3>2, Zenon DEF Verify, Applied, ReadFile, ReadDown, ReadFails, Finish, Goto, Halfway, TypeOK
    <3> QED
      BY <1>5, <3>1, <3>2
  <2> QED
    BY <1>5, <2>1, <2>2, BusyAlone, BusyNext DEF Quiet
<1>6. ASSUME Inside(r) PROVE (\A d \in BOOLEAN : ~Run(r, d)) /\ (\A t : ~Rollback(r, t))
                             /\ ~Acquire(r) /\ ~LockTimeout(r)
  BY <1>6 DEF Inside, Run, Rollback, Free, Acquire, LockTimeout
<1> QED
  BY <1>1, <1>2, <1>3, <1>4, <1>5, <1>6, FailureKinds, ZenonT(30) DEF CallStep, Step

\* Every step of the program is quiet, or of one of the other kinds for some call.
LEMMA Kinds ==
  ASSUME TypeOK, Alone, Work, [Next]_vars
  PROVE  mode' = mode /\ (Quiet \/ \E r \in Runner : Ran(r) \/ Marked(r) \/ Torn(r))
<1>1. ASSUME NEW r \in Runner, CallStep(r)
      PROVE  mode' = mode /\ (Quiet \/ Ran(r) \/ Marked(r) \/ Torn(r))
  <2>1. mode' = mode
    BY <1>1, Zenon DEF CallStep, Step, Run, Rollback, Crash, Acquire, LockTimeout, ReadApplied,
       Verify, Pending, ReadFile, Applied, Execute, ExecuteFails, MarkApplied, TrackFails, Release,
       ListApplied, ReadDown, ExecuteDown, MarkReverted, ReadFails
  <2> QED
    BY <1>1, <2>1, CallKinds, Zenon
<1>2. ASSUME NEW v \in Version, Edit(v) PROVE mode' = mode /\ Quiet
  BY <1>2, Zenon DEF Edit, own, database, history, Quiet, Busy, Halfway, Current, next_file, next_down
<1>3. CASE UNCHANGED vars
  BY <1>3, Zenon DEF vars, own, database, history, Quiet, Busy, Halfway, Current, next_file, next_down
<1> QED
  BY <1>1, <1>2, <1>3, NextIs, Zenon

-----------------------------------------------------------------------------
(* The facts about the database                                            *)

\* Sequences of one element, and of none.
LEMMA Singles ==
  /\ Len(<<>>) <= 1
  /\ \A x : Len(<<x>>) <= 1 /\ <<>> # <<x>>
  /\ \A c : <<[sql |-> c, whole |-> TRUE]>>
            = [i \in DOMAIN <<c>> |-> [sql |-> <<c>>[i], whole |-> TRUE]]
<1>1. Len(<<>>) <= 1
  OBVIOUS
<1>2. \A x : Len(<<x>>) <= 1 /\ <<>> # <<x>>
  OBVIOUS
<1>3. ASSUME NEW c
      PROVE  <<[sql |-> c, whole |-> TRUE]>>
               = [i \in DOMAIN <<c>> |-> [sql |-> <<c>>[i], whole |-> TRUE]]
  <2> DEFINE f == [i \in DOMAIN <<c>> |-> [sql |-> <<c>>[i], whole |-> TRUE]]
  <2>1. DOMAIN <<c>> = 1..1 /\ <<c>>[1] = c
    OBVIOUS
  <2>2. \A i \in 1..1 : i = 1
    OBVIOUS
  <2>3. \A i \in 1..1 : [sql |-> <<c>>[i], whole |-> TRUE] = [sql |-> c, whole |-> TRUE]
    BY <2>1, <2>2, Zenon
  <2>4. f = [i \in 1..1 |-> [sql |-> c, whole |-> TRUE]]
    BY <2>1, <2>3, Zenon
  <2>5. \A x : <<x>> = [i \in 1..1 |-> x]
    OBVIOUS
  <2> HIDE DEF f
  <2>6. f = <<[sql |-> c, whole |-> TRUE]>>
    BY <2>4, <2>5, Zenon
  <2> QED
    BY <2>6 DEF f
<1> QED
  BY <1>1, <1>2, <1>3, Zenon

\* What a call knows of the file it is working on.
LEMMA TheFile ==
  ASSUME TypeOK, Work, NEW r \in Runner, OnFile(r)
  PROVE  /\ Current(r) \in Version
         /\ pc[r] \in {"exec", "track"} =>
              /\ rows[Current(r)] = <<>> /\ Wanted(r, Current(r))
              /\ \A u \in Version : u < Current(r) => rows[u] # <<>>
         /\ pc[r] \in {"down", "untrack"} =>
              /\ rows[Current(r)] # <<>>
              /\ \A w \in Version : Current(r) < w => rows[w] = <<>>
              /\ \A q \in Runner \ {r} : Current(r) \in edited[q]
         /\ result[r] # "Applied"
<1> DEFINE v == Current(r)
<1>1. v \in todo[r] /\ v \in Version
  BY CurrentFile DEF OnFile
<1>2. WorkOf(r)
  BY Zenon DEF Work
<1>3. ASSUME pc[r] \in {"exec", "track"}
      PROVE  /\ rows[v] = <<>> /\ Wanted(r, v)
             /\ \A u \in Version : u < v => rows[u] # <<>>
  <2>1. todo[r] = {u \in Version : Wanted(r, u) /\ rows[u] = <<>>}
    BY <1>2, <1>3 DEF WorkOf, Applying
  <2>2. \A u \in todo[r] : v <= u
    BY <1>3, CurrentFile
  <2> HIDE DEF v
  <2>3. ASSUME NEW u \in Version, u < v PROVE u \notin todo[r] /\ Wanted(r, u)
    BY <1>1, <2>1, <2>2, <2>3, VersionAssumption DEF Wanted
  <2> QED
    BY <1>1, <2>1, <2>3
<1>4. ASSUME pc[r] \in {"down", "untrack"}
      PROVE  /\ rows[v] # <<>>
             /\ \A w \in Version : v < w => rows[w] = <<>>
             /\ \A q \in Runner \ {r} : v \in edited[q]
  <2>1. /\ todo[r] \subseteq applied_versions
        /\ \A u \in todo[r], w \in Version \ todo[r] : u < w => rows[w] = <<>>
        /\ \A q \in Runner \ {r} : todo[r] \subseteq edited[q]
    BY <1>2, <1>4 DEF WorkOf, Reverting
  <2>2. \A u \in todo[r] : u <= v
    BY <1>4, CurrentFile
  <2> HIDE DEF v
  <2>3. ASSUME NEW w \in Version, v < w PROVE w \notin todo[r]
    BY <1>1, <2>2, <2>3, VersionAssumption
  <2> QED
    BY <1>1, <2>1, <2>3 DEF applied_versions
<1>5. result[r] # "Applied"
  BY <1>2, Zenon DEF WorkOf, OnFile
<1> QED
  BY <1>1, <1>3, <1>4, <1>5

\* An execution is at the end of the list it is appended to; the others stay.
LEMMA Appended ==
  ASSUME NEW s \in Seq(Execution), NEW x \in Execution
  PROVE  /\ \E i \in DOMAIN Append(s, x) : Append(s, x)[i] = x
         /\ \A i \in DOMAIN s : i \in DOMAIN Append(s, x) /\ Append(s, x)[i] = s[i]
<1>1. Len(s) \in Nat /\ DOMAIN s = 1..Len(s)
  OBVIOUS
<1>2. Len(Append(s, x)) = Len(s) + 1 /\ DOMAIN Append(s, x) = 1..Len(s) + 1
  OBVIOUS
<1>3. Append(s, x)[Len(s) + 1] = x /\ \A i \in 1..Len(s) : Append(s, x)[i] = s[i]
  OBVIOUS
<1>4. Len(s) + 1 \in 1..Len(s) + 1 /\ \A i \in 1..Len(s) : i \in 1..Len(s) + 1
  BY <1>1
<1> QED
  BY <1>1, <1>2, <1>3, <1>4, Zenon

\* What a step at the file of r leaves of the other versions.
LEMMA Elsewhere ==
  ASSUME TypeOK, NEW r \in Runner, Ran(r) \/ Marked(r) \/ Torn(r)
  PROVE  \A v \in Version \ {Current(r)} : rows'[v] = rows[v] /\ effect'[v] = effect[v]
<1>1. CASE Ran(r)
  BY <1>1 DEF Ran, TypeOK, Effects
<1>2. CASE Marked(r)
  BY <1>2 DEF Marked, TypeOK, Table
<1>3. CASE Torn(r)
  BY <1>3 DEF Torn, TypeOK, Effects
<1> QED
  BY <1>1, <1>2, <1>3

\* The row that mark_applied writes, and the one that mark_reverted removes.
LEMMA TheRow ==
  ASSUME TypeOK, Work, NEW r \in Runner, Marked(r)
  PROVE  /\ Current(r) \in Version /\ pc[r] \in {"track", "untrack"} /\ sql[r] \in Content
         /\ pc[r] = "track" => rows'[Current(r)] = <<sql[r]>>
         /\ pc[r] = "untrack" => rows'[Current(r)] = <<>>
<1>1. Current(r) \in Version /\ (pc[r] = "track" => rows[Current(r)] = <<>>)
  BY TheFile DEF Marked
<1>2. Append(<<>>, sql[r]) = <<sql[r]>>
  OBVIOUS
<1> QED
  BY <1>1, <1>2 DEF Marked, TypeOK, Table

LEMMA AgreesNext ==
  ASSUME TypeOK, Alone, Work, DbAgrees, DbHalfway, [Next]_vars
  PROVE  DbAgrees'
<1>1. CASE Quiet
  BY <1>1, Zenon DEF Quiet, DbAgrees, Once
<1>2. ASSUME NEW r \in Runner, Ran(r) \/ Marked(r) \/ Torn(r),
             NEW v \in Version \ {Current(r)}, v \notin lost'
      PROVE  Once(v)'
  <2>1. Busy \subseteq {Current(r)} /\ lost \subseteq lost'
    BY <1>2 DEF Ran, Marked, Torn
  <2>2. Once(v)
    BY <1>2, <2>1 DEF DbAgrees
  <2>3. rows'[v] = rows[v] /\ effect'[v] = effect[v]
    BY <1>2, Elsewhere
  <2> QED
    BY <2>2, <2>3, Zenon DEF Once
<1>3. ASSUME NEW r \in Runner, Marked(r), NEW v \in Version, v = Current(r), v \notin lost'
      PROVE  Once(v)'
  <2>1. effect' = effect /\ v \notin lost /\ Halfway(r)
    BY <1>3, TheRow DEF Marked, Halfway
  <2>2. effect[v] = IF pc[r] = "track" THEN <<[sql |-> sql[r], whole |-> TRUE]>> ELSE <<>>
    BY <1>3, <2>1, Zenon DEF DbHalfway
  <2>3. CASE pc[r] = "track"
    <3>1. rows'[v] = <<sql[r]>> /\ effect'[v] = <<[sql |-> sql[r], whole |-> TRUE]>> /\ sql[r] \in Content
      BY <1>3, <2>1, <2>2, <2>3, TheRow, Zenon
    <3> QED
      BY <3>1, Zenon DEF Once
  <2>4. CASE pc[r] = "untrack"
    <3>1. rows'[v] = <<>> /\ effect'[v] = <<>>
      BY <1>3, <2>1, <2>2, <2>4, TheRow
    <3> QED
      BY <3>1, Zenon DEF Once
  <2> QED
    BY <1>3, <2>3, <2>4, TheRow
<1>4. ASSUME NEW r \in Runner, Ran(r) \/ Marked(r) \/ Torn(r),
             NEW v \in Version, v \notin lost' \cup Busy'
      PROVE  Once(v)'
  <2>1. CASE v # Current(r)
    BY <1>2, <1>4, <2>1
  <2>2. CASE v = Current(r)
    <3>1. Marked(r)
      BY <1>4, <2>2 DEF Ran, Torn
    <3> QED
      BY <1>3, <1>4, <2>2, <3>1
  <2> QED
    BY <2>1, <2>2
<1> QED
  BY <1>1, <1>4, Kinds, Zenon DEF DbAgrees

\* mark_applied adds the first row that is missing, mark_reverted removes the last one.
LEMMA RowsNext ==
  ASSUME TypeOK, Alone, Work, DbRows, [Next]_vars
  PROVE  DbRows'
<1>1. CASE rows' = rows
  BY <1>1, Zenon DEF DbRows
<1>2. ASSUME NEW r \in Runner, Marked(r) PROVE DbRows'
  <2> DEFINE c == Current(r)
  <2>1. /\ c \in Version /\ pc[r] \in {"track", "untrack"} /\ sql[r] \in Content
        /\ pc[r] = "track" => rows'[c] = <<sql[r]>>
        /\ pc[r] = "untrack" => rows'[c] = <<>>
    BY <1>2, TheRow
  <2>2. \A v \in Version \ {c} : rows'[v] = rows[v]
    BY <1>2, Elsewhere
  <2>3. /\ pc[r] = "track" => \A u \in Version : u < c => rows[u] # <<>>
        /\ pc[r] = "untrack" => \A w \in Version : c < w => rows[w] = <<>>
    BY <1>2, TheFile DEF Marked
  <2> HIDE DEF c
  <2>4. ASSUME NEW v \in Version PROVE rows'[v] = <<>> \/ \E d \in Content : rows'[v] = <<d>>
    BY <2>1, <2>2, Zenon DEF DbRows
  <2>5. ASSUME NEW u \in Version, NEW v \in Version, u < v, rows'[v] # <<>> PROVE rows'[u] # <<>>
    <3>1. ~(c < c) /\ (u = c => ~(v = c))
      BY <2>1, <2>5, VersionAssumption
    <3>2. CASE v = c
      <4>1. pc[r] = "track"
        BY <2>1, <2>5, <3>2
      <4> QED
        BY <2>2, <2>3, <2>5, <3>1, <3>2, <4>1
    <3>3. CASE v # c /\ u # c
      BY <2>2, <2>5, <3>3 DEF DbRows
    <3>4. CASE v # c /\ u = c
      <4>1. pc[r] = "track"
        BY <2>1, <2>2, <2>3, <2>5, <3>4
      <4> QED
        BY <2>1, <3>4, <4>1, Singles, Zenon
    <3> QED
      BY <3>2, <3>3, <3>4
  <2> QED
    BY <2>4, <2>5, Zenon DEF DbRows
<1> QED
  BY <1>1, <1>2, Kinds, Zenon DEF Quiet, Ran, Torn

\* What was executed stays executed, but for a file that is reverted.
LEMMA ExecutedStays ==
  ASSUME TypeOK, Alone, Work, [Next]_vars, NEW v \in Version, NEW c \in Content, Executed(v, c)
  PROVE  Executed(v, c)' \/ \E r \in Runner : Ran(r) /\ pc[r] = "down" /\ v = Current(r)
<1>1. CASE effect'[v] = effect[v]
  BY <1>1, Zenon DEF Executed
<1>2. ASSUME NEW x \in Execution, effect'[v] = Append(effect[v], x) PROVE Executed(v, c)'
  <2>1. effect[v] \in Seq(Execution)
    BY DEF TypeOK, Effects
  <2>2. PICK i \in DOMAIN effect[v] : effect[v][i] = [sql |-> c, whole |-> TRUE]
    BY Zenon DEF Executed
  <2>3. \A j \in DOMAIN effect[v] :
          j \in DOMAIN Append(effect[v], x) /\ Append(effect[v], x)[j] = effect[v][j]
    BY <2>1, Appended
  <2>4. i \in DOMAIN effect'[v] /\ effect'[v][i] = [sql |-> c, whole |-> TRUE]
    BY <1>2, <2>2, <2>3, Zenon
  <2> QED
    BY <2>4, Zenon DEF Executed
<1>3. ASSUME NEW r \in Runner, Ran(r) \/ Torn(r), v = Current(r)
      PROVE  \/ effect'[v] = effect[v]
             \/ \E x \in Execution : effect'[v] = Append(effect[v], x)
             \/ Ran(r) /\ pc[r] = "down"
  <2>1. \A b \in BOOLEAN : [sql |-> sql[r], whole |-> b] \in Execution
    BY Zenon DEF TypeOK, Execution
  <2>2. ASSUME NEW b \in BOOLEAN,
               effect' = [effect EXCEPT ![Current(r)] =
                            Append(effect[Current(r)], [sql |-> sql[r], whole |-> b])]
        PROVE  \E x \in Execution : effect'[v] = Append(effect[v], x)
    <3>1. effect'[v] = Append(effect[v], [sql |-> sql[r], whole |-> b])
      BY <1>3, <2>2 DEF TypeOK, Effects
    <3> QED
      BY <2>1, <3>1, Zenon
  <2>3. CASE Ran(r)
    BY <2>2, <2>3, Zenon DEF Ran
  <2>4. CASE Torn(r)
    BY <2>2, <2>4, Zenon DEF Torn
  <2> QED
    BY <1>3, <2>3, <2>4
<1>4. ASSUME NEW r \in Runner, Ran(r) \/ Marked(r) \/ Torn(r)
      PROVE  \/ effect'[v] = effect[v]
             \/ \E x \in Execution : effect'[v] = Append(effect[v], x)
             \/ Ran(r) /\ pc[r] = "down" /\ v = Current(r)
  <2>1. CASE v # Current(r)
    BY <1>4, <2>1, Elsewhere
  <2>2. CASE Marked(r)
    BY <2>2, Zenon DEF Marked
  <2> QED
    BY <1>3, <1>4, <2>1, <2>2, Zenon
<1> QED
  BY <1>1, <1>2, <1>4, Kinds, Zenon DEF Quiet

LEMMA BackedNext ==
  ASSUME TypeOK, Alone, Work, DbBacked, DbHalfway, [Next]_vars
  PROVE  DbBacked'
<1>1. CASE Quiet
  BY <1>1, Zenon DEF Quiet, DbBacked, Executed
<1>2. ASSUME NEW r \in Runner, Ran(r) \/ Marked(r) \/ Torn(r),
             NEW v \in Version \ {Current(r)}, v \notin undone', NEW c \in Content, rows'[v] = <<c>>
      PROVE  Executed(v, c)'
  <2>1. Busy \subseteq {Current(r)} /\ undone \subseteq undone'
    BY <1>2 DEF Ran, Marked, Torn
  <2>2. rows'[v] = rows[v] /\ effect'[v] = effect[v]
    BY <1>2, Elsewhere
  <2>3. Executed(v, c)
    BY <1>2, <2>1, <2>2, Zenon DEF DbBacked
  <2> QED
    BY <2>2, <2>3, Zenon DEF Executed
<1>3. ASSUME NEW r \in Runner, Marked(r), NEW v \in Version, v = Current(r),
             NEW c \in Content, rows'[v] = <<c>>
      PROVE  Executed(v, c)'
  <2>0. pc[r] # "untrack"
    <3>1. pc[r] = "untrack" => rows'[v] = <<>>
      BY <1>3, TheRow, Zenon
    <3> QED
      BY <1>3, <3>1, Singles, Zenon
  <2>1. pc[r] = "track" /\ rows'[v] = <<sql[r]>>
    BY <1>3, <2>0, TheRow
  <2>2. c = sql[r] /\ Halfway(r)
    BY <1>3, <2>1 DEF Halfway
  <2>3. Executed(v, c) /\ effect' = effect
    BY <1>3, <2>1, <2>2, Zenon DEF DbHalfway, Marked
  <2> QED
    BY <2>3, Zenon DEF Executed
<1>4. ASSUME NEW r \in Runner, Torn(r), NEW v \in Version, v = Current(r), v \notin undone',
             NEW c \in Content
      PROVE  rows'[v] # <<c>>
  <2>1. pc[r] \in {"exec", "track"} /\ rows' = rows
    BY <1>4 DEF Torn, OnFile
  <2>2. rows[v] = <<>>
    BY <1>4, <2>1, TheFile DEF Torn
  <2> QED
    BY <2>1, <2>2, Singles, Zenon
<1>5. ASSUME NEW r \in Runner, Ran(r) \/ Marked(r) \/ Torn(r),
             NEW v \in Version, v \notin undone' \cup Busy', NEW c \in Content, rows'[v] = <<c>>
      PROVE  Executed(v, c)'
  <2>1. CASE v # Current(r)
    BY <1>2, <1>5, <2>1
  <2>2. CASE v = Current(r)
    <3>1. ~Ran(r)
      BY <1>5, <2>2 DEF Ran
    <3> QED
      BY <1>3, <1>4, <1>5, <2>2, <3>1
  <2> QED
    BY <2>1, <2>2
<1>6. ASSUME NEW r \in Runner, Ran(r) \/ Marked(r) \/ Torn(r) PROVE DbBacked'
  BY <1>5, <1>6, Zenon DEF DbBacked
<1> QED
  BY <1>1, <1>6, Kinds, Zenon

LEMMA WithinNext ==
  ASSUME TypeOK, Alone, Work, DbWithin, [Next]_vars
  PROVE  DbWithin'
<1>1. mode' = mode
  BY Kinds
<1>2. CASE Quiet
  BY <1>1, <1>2, Zenon DEF Quiet, DbWithin
<1>3. ASSUME mode = "embedded", NEW r \in Runner, Ran(r) \/ Marked(r) \/ Torn(r)
      PROVE  \A v \in Version : v > Target => rows'[v] = <<>> /\ effect'[v] = <<>>
  <2> DEFINE c == Current(r)
  <2>1. OnFile(r) /\ c \in Version
    BY <1>3, TheFile, Zenon DEF Ran, Marked, Torn
  <2>2. \A v \in Version : v > Target => rows[v] = <<>> /\ effect[v] = <<>>
    BY <1>3, Zenon DEF DbWithin
  <2>3. ~(c > Target)
    <3>1. CASE pc[r] \in {"exec", "track"}
      <4>1. Wanted(r, c)
        BY <2>1, <3>1, TheFile
      <4>2. c <= Target
        BY <1>3, <4>1, Zenon DEF Wanted
      <4> HIDE DEF c
      <4> QED
        BY <2>1, <4>2, VersionAssumption
    <3>2. CASE pc[r] \in {"down", "untrack"}
      BY <2>1, <2>2, <3>2, TheFile
    <3> QED
      BY <2>1, <3>1, <3>2 DEF OnFile
  <2>4. \A v \in Version \ {c} : rows'[v] = rows[v] /\ effect'[v] = effect[v]
    BY <1>3, Elsewhere
  <2> HIDE DEF c
  <2> QED
    BY <2>2, <2>3, <2>4
<1> QED
  BY <1>1, <1>2, <1>3, Kinds, Zenon DEF DbWithin

\* No step but the last of a run makes a promise, or breaks one by other means than SQL.
LEMMA Promises ==
  ASSUME TypeOK, Alone, Work, [Next]_vars,
         NEW q \in Runner, result'[q] = "Applied", ~(Applied(q) /\ pc[q] = "apply")
  PROVE  /\ result[q] = "Applied" /\ edited[q] \subseteq edited'[q]
         /\ \A v \in Version \ edited'[q] : content'[v] = content[v]
<1> DEFINE Goal == /\ result[q] = "Applied" /\ edited[q] \subseteq edited'[q]
                   /\ \A v \in Version \ edited'[q] : content'[v] = content[v]
<1>1. ASSUME NEW r \in Runner, CallStep(r), ~Inside(r) PROVE Goal
  <2>1. content' = content
    BY <1>1, OutsideStep
  <2>2. CASE q = r
    BY <1>1, <2>1, <2>2, OutsideStep
  <2>3. CASE q # r
    BY <1>1, <2>1, <2>3, OutsideStep, OthersStay
  <2> QED
    BY <2>2, <2>3
<1>2. ASSUME NEW r \in Runner, CallStep(r), Inside(r) PROVE Goal
  <2>1. UNCHANGED <<content, edited>>
    <3>1. \A t, d : ~Rollback(r, t) /\ ~Run(r, d)
      BY <1>2 DEF Inside, Run, Rollback, Free
    <3> QED
      BY <1>2, <3>1, Zenon DEF CallStep, Step, Crash, Acquire, LockTimeout, ReadApplied,
         Verify, Pending, ReadFile, Applied, Execute, ExecuteFails, MarkApplied, TrackFails, Release,
         ListApplied, ReadDown, ExecuteDown, MarkReverted, ReadFails
  <2>2. CASE q # r
    BY <1>2, <2>1, <2>2, OthersStay
  <2>3. CASE q = r
    <3>1. ASSUME Applied(r) PROVE FALSE
      BY <2>3, <3>1 DEF Applied, Finish, TypeOK
    <3>2. ASSUME NEW res \in Outcome, res # "Applied", result' = [result EXCEPT ![r] = res] PROVE FALSE
      BY <2>3, <3>2 DEF TypeOK
    <3>3. \A res \in {"LockTimeout", "ChecksumMismatch", "Parse", "Execution", "NoDownMigration",
                      "crashed"} : res \in Outcome /\ res # "Applied"
      BY DEF Outcome
    <3>4. result' = result
      <4>1. \A t, d : ~Rollback(r, t) /\ ~Run(r, d)
        BY <1>2 DEF Inside, Run, Rollback, Free
      <4>2. \/ result' = result
            \/ \E res \in {"LockTimeout", "ChecksumMismatch", "Parse", "Execution",
                            "NoDownMigration", "crashed"} : result' = [result EXCEPT ![r] = res]
        BY <1>2, <3>1, <4>1, Zenon DEF CallStep, Step, Crash, Acquire, LockTimeout, ReadApplied,
           Verify, Pending, ReadFile, Execute, ExecuteFails, MarkApplied, TrackFails, Release,
           ListApplied, ReadDown, ExecuteDown, MarkReverted, ReadFails, Finish
      <4> QED
        BY <3>2, <3>3, <4>2, Zenon
    <3> QED
      BY <2>1, <2>3, <3>4
  <2> QED
    BY <2>2, <2>3
<1>3. ASSUME NEW u \in Version, Edit(u) PROVE Goal
  BY <1>3, Zenon DEF Edit, own, TypeOK
<1>4. ASSUME UNCHANGED vars PROVE Goal
  BY <1>4, Zenon DEF vars, own
<1> HIDE DEF Goal
<1>5. Goal
  BY <1>1, <1>2, <1>3, <1>4, NextIs, Zenon
<1> QED
  BY <1>5 DEF Goal

LEMMA DeliveredNext ==
  ASSUME TypeOK, Alone, Work, Verified, DbBacked, DbDelivered, [Next]_vars
  PROVE  DbDelivered'
<1>0. mode' = mode /\ undone \subseteq undone'
  BY Kinds, Zenon DEF Quiet, Ran, Marked, Torn
<1>1. \A q \in Runner : Covered(q)' = Covered(q) /\ Covered(q) \subseteq Version
  BY <1>0 DEF Covered
\* The promise that the last step of a run makes.
<1>2. ASSUME NEW q \in Runner, Applied(q), pc[q] = "apply",
             NEW v \in Covered(q) \ (edited'[q] \cup undone')
      PROVE  Executed(v, content[v])'
  <2>1. UNCHANGED <<effect, content, edited, undone>> /\ todo[q] = {} /\ v \in Version
    BY <1>1, <1>2, Zenon DEF Applied, database, history
  <2>2. Busy = {}
    BY <1>2, BusyAlone, Zenon DEF Inside, Halfway
  <2>3. rows[v] # <<>>
    <3>1. todo[q] = {u \in Version : Wanted(q, u) /\ rows[u] = <<>>}
      BY <1>2 DEF Work, WorkOf, Applying
    <3>2. Wanted(q, v)
      BY <1>2 DEF Covered, Wanted
    <3> QED
      BY <2>1, <3>1, <3>2, Zenon
  <2>4. rows[v] = <<content[v]>> /\ content[v] \in Content
    BY <1>2, <2>1, <2>3, Zenon DEF Verified, VerifiedBy, Applying, TypeOK
  <2>5. Executed(v, content[v])
    BY <1>2, <2>1, <2>2, <2>4, Zenon DEF DbBacked
  <2> QED
    BY <2>1, <2>5, Zenon DEF Executed
\* The promises that were made before.
<1>3. ASSUME NEW q \in Runner, result'[q] = "Applied", ~(Applied(q) /\ pc[q] = "apply"),
             NEW v \in Covered(q) \ (edited'[q] \cup undone')
      PROVE  Executed(v, content[v])'
  <2>1. /\ result[q] = "Applied" /\ content'[v] = content[v] /\ v \in Version
        /\ v \in Covered(q) \ (edited[q] \cup undone)
    BY <1>0, <1>1, <1>3, Promises
  <2>2. Executed(v, content[v]) /\ content[v] \in Content
    BY <2>1 DEF DbDelivered, TypeOK
  <2>3. ASSUME NEW r \in Runner, Ran(r), pc[r] = "down" PROVE v # Current(r)
    <3>1. result[r] # "Applied" /\ \A p \in Runner \ {r} : Current(r) \in edited[p]
      BY <2>3, TheFile DEF OnFile
    <3> QED
      BY <2>1, <3>1, Zenon
  <2>4. Executed(v, content[v])'
    BY <2>1, <2>2, <2>3, ExecutedStays
  <2> QED
    BY <2>1, <2>4
<1> QED
  BY <1>1, <1>2, <1>3, Zenon DEF DbDelivered

\* A file between its SQL and its tracker row is in the database, or not any more.
LEMMA HalfwayNext ==
  ASSUME TypeOK, Alone, Work, DbAgrees, DbHalfway, [Next]_vars
  PROVE  DbHalfway'
<1>1. ASSUME NEW r \in Runner, CallStep(r), NEW q \in Runner, Halfway(q)'
      PROVE  /\ pc'[q] = "track" => Executed(Current(q), sql[q])'
             /\ Current(q)' \notin lost' => effect'[Current(q)'] =
                  IF pc'[q] = "track" THEN <<[sql |-> sql'[q], whole |-> TRUE]>> ELSE <<>>
  <2>1. CASE q # r
    <3>1. pc'[q] = pc[q] /\ todo'[q] = todo[q] /\ sql'[q] = sql[q]
      BY <1>1, <2>1, OthersStay
    <3>2. Halfway(q) /\ Inside(q)
      BY <1>1, <3>1 DEF Halfway, Inside
    <3>3. UNCHANGED <<effect, lost>>
      BY <1>1, <2>1, <3>2, AloneInside, OutsideStep
    <3>4. Current(q)' = Current(q)
      BY <3>1, Zenon DEF Current, next_file, next_down
    <3> QED
      BY <3>1, <3>2, <3>3, <3>4, Zenon DEF DbHalfway, Executed
  <2>2. CASE q = r
    <3>1. Execute(r) \/ ExecuteDown(r)
      <4>1. ASSUME NEW d \in BOOLEAN, Run(r, d) PROVE ~Halfway(r)'
        BY <4>1 DEF Run, Free, FirstStep, Goto, TypeOK, Halfway
      <4>2. ASSUME NEW t \in Version \cup {0}, Rollback(r, t) PROVE ~Halfway(r)'
        BY <4>2 DEF Rollback, Goto, TypeOK, Halfway
      <4>3. ASSUME \/ Acquire(r) \/ Release(r) \/ Crash(r) \/ ReadApplied(r) \/ ListApplied(r)
                   \/ Pending(r) \/ MarkApplied(r) \/ MarkReverted(r)
            PROVE  ~Halfway(r)'
        BY <4>3, Zenon DEF Acquire, Release, Crash, ReadApplied, ListApplied, Pending, MarkApplied,
           MarkReverted, Goto, TypeOK, Halfway
      <4>4. ASSUME \/ LockTimeout(r) \/ Verify(r) \/ Applied(r) \/ ExecuteFails(r) \/ TrackFails(r)
                   \/ ReadFails(r) \/ ReadFile(r) \/ ReadDown(r)
            PROVE ~Halfway(r)'
        BY <4>4, Zenon DEF LockTimeout, Verify, Applied, ExecuteFails, TrackFails, ReadFails, ReadFile,
           ReadDown, Finish, Goto, TypeOK, Halfway
      <4> QED
        BY <1>1, <2>2, <4>1, <4>2, <4>3, <4>4, Zenon DEF CallStep, Step
    <3>2. /\ UNCHANGED <<todo, lost, sql>> /\ Inside(r) /\ OnFile(r) /\ ~Halfway(r)
          /\ \/ pc[r] = "exec" /\ pc'[r] = "track"
             \/ pc[r] = "down" /\ pc'[r] = "untrack"
      BY <3>1 DEF Execute, ExecuteDown, Goto, Inside, OnFile, Halfway, TypeOK, history
    <3>3. Current(r)' = Current(r)
      BY <3>2 DEF Current, next_file, next_down
    <3>4. Current(r) \in Version /\ Busy = {}
      BY <3>2, TheFile, BusyAlone
    <3>5. CASE pc[r] = "down"
      <4>1. effect'[Current(r)] = <<>>
        <5>1. Current(r) = next_down(r)
          BY <3>5 DEF Current
        <5> QED
          BY <3>1, <3>4, <3>5, <5>1, Zenon DEF Execute, ExecuteDown, TypeOK, Effects
      <4>2. pc'[r] # "track"
        BY <3>2, <3>5
      <4> QED
        BY <2>2, <3>3, <4>1, <4>2, Zenon
    <3>6. CASE pc[r] = "exec"
      <4> DEFINE x == [sql |-> sql[r], whole |-> TRUE]
      <4>1. effect'[Current(r)] = Append(effect[Current(r)], x)
        <5>1. Current(r) = next_file(r)
          BY <3>6, Zenon DEF Current
        <5> QED
          BY <3>1, <3>4, <3>6, <5>1 DEF Execute, ExecuteDown, TypeOK, Effects
      <4>2. x \in Execution /\ effect[Current(r)] \in Seq(Execution)
        BY <3>4, Zenon DEF TypeOK, Effects, Execution
      <4>3. pc'[r] = "track" /\ sql'[r] = sql[r]
        BY <3>2, <3>6
      <4>4. Executed(Current(r), sql[r])'
        <5>0. \E i \in DOMAIN Append(effect[Current(r)], x) : Append(effect[Current(r)], x)[i] = x
          BY <4>2, Appended
        <5>1. \E i \in DOMAIN effect'[Current(r)] : effect'[Current(r)][i] = x
          BY <4>1, <5>0, Zenon
        <5> QED
          BY <3>3, <4>3, <5>1, Zenon DEF Executed
      <4>5. ASSUME Current(r) \notin lost PROVE effect[Current(r)] = <<>>
        <5>1. rows[Current(r)] = <<>>
          BY <3>2, <3>6, TheFile
        <5>2. Once(Current(r))
          BY <3>4, <4>5 DEF DbAgrees
        <5>3. \A c \in Content : rows[Current(r)] # <<c>>
          BY <5>1, Singles, Zenon
        <5> QED
          BY <5>2, <5>3, Zenon DEF Once
      <4>6. Append(<<>>, x) = <<x>>
        OBVIOUS
      <4> QED
        BY <2>2, <3>2, <3>3, <4>1, <4>3, <4>4, <4>5, <4>6, Zenon
    <3> QED
      BY <3>2, <3>5, <3>6, Zenon
  <2> QED
    BY <2>1, <2>2
<1>2. ASSUME NEW v \in Version, Edit(v) PROVE DbHalfway'
  BY <1>2, Zenon DEF Edit, own, database, history, DbHalfway, Halfway, Current, next_file, next_down,
     Executed
<1>3. CASE UNCHANGED vars
  BY <1>3, Zenon DEF vars, own, database, history, DbHalfway, Halfway, Current, next_file, next_down,
     Executed
<1>4. ASSUME NEW r \in Runner, CallStep(r) PROVE DbHalfway'
  BY <1>1, <1>4, Zenon DEF DbHalfway
<1> QED
  BY <1>2, <1>3, <1>4, NextIs, Zenon

-----------------------------------------------------------------------------
(* The theorems                                                            *)

LEMMA InvInit ==
  ASSUME Init PROVE IInv
<1>0. Pristine \in Table /\ Pristine \in Effects
  BY DEF Pristine, Table, Effects
<1>1. TypeOK
  <2>1. 0 \in Content
    BY OptionsAssumption DEF Content
  <2> QED
    BY <1>0, <2>1 DEF Init, TypeOK, Control, Outcome
<1>2. Alone /\ Work /\ Verified
  BY Zenon DEF Init, Alone, Inside, Rolling, Reverting, Work, WorkOf, Applying, Verified, VerifiedBy
<1>3. /\ Busy = {} /\ \A r \in Runner : result[r] # "Applied" /\ ~Halfway(r)
      /\ \A v \in Version : rows[v] = <<>> /\ effect[v] = <<>>
  BY DEF Init, Busy, Halfway, Pristine
<1>4. DbBacked
  BY <1>3, Singles, Zenon DEF DbBacked
<1>5. Database
  BY <1>3, <1>4, Zenon DEF Database, DbAgrees, Once, DbRows, DbWithin, DbDelivered, DbHalfway
<1> QED
  BY <1>1, <1>2, <1>5, Zenon DEF IInv

LEMMA InvNext ==
  ASSUME OneAtATime, IInv, [Next]_vars PROVE IInv'
<1>1. TypeOK' /\ Alone' /\ Work' /\ Verified'
  BY TypeNext, AloneNext, WorkNext, VerifiedNext, Zenon DEF IInv, Database
<1>2. DbAgrees' /\ DbRows' /\ DbBacked'
  BY AgreesNext, RowsNext, BackedNext, Zenon DEF IInv, Database
<1>3. DbWithin' /\ DbDelivered' /\ DbHalfway'
  BY WithinNext, DeliveredNext, HalfwayNext, Zenon DEF IInv, Database
<1> QED
  BY <1>1, <1>2, <1>3, Zenon DEF IInv, Database

LEMMA Invariant ==
  ASSUME OneAtATime PROVE Spec => []IInv
BY InvInit, InvNext, PTL DEF Spec

\* What the invariant says of a version that is half way.
LEMMA AtHalfway ==
  ASSUME IInv, NEW v \in Busy
  PROVE  \E r \in Runner :
           /\ Halfway(r) /\ OnFile(r) /\ v = Current(r) /\ Busy = {v}
           /\ v \notin lost => effect[v] =
                IF pc[r] = "track" THEN <<[sql |-> sql[r], whole |-> TRUE]>> ELSE <<>>
<1>1. PICK r \in Runner : Halfway(r) /\ v = Current(r)
  BY Zenon DEF Busy
<1>2. OnFile(r) /\ Inside(r)
  BY <1>1 DEF Halfway, OnFile, Inside
<1>3. Busy = {v}
  BY <1>1, <1>2, BusyAlone, Zenon DEF IInv
<1> QED
  BY <1>1, <1>2, <1>3, Zenon DEF IInv, Database, DbHalfway

\* No file's SQL is in the database twice (run_with_conn, run_embedded, rollback), for
\* any number of processes of which each may die at any await, unless a fault came
\* between the file and its row.
THEOREM NothingTwice ==
  ASSUME OneAtATime PROVE Spec => []NoDoubleApply
<1>1. IInv => NoDoubleApply
  <2> SUFFICES ASSUME IInv, NEW v \in Version \ lost PROVE Len(effect[v]) <= 1
    BY Zenon DEF NoDoubleApply
  <2>1. CASE v \in Busy
    <3>1. effect[v] = <<>> \/ \E c : effect[v] = <<[sql |-> c, whole |-> TRUE]>>
      BY <2>1, AtHalfway, Zenon
    <3> QED
      BY <3>1, Singles, Zenon
  <2>2. CASE v \notin Busy
    <3>1. Once(v)
      BY <2>2 DEF IInv, Database, DbAgrees
    <3>2. effect[v] = <<>> \/ \E c \in Content : effect[v] = <<[sql |-> c, whole |-> TRUE]>>
      BY <3>1, Zenon DEF Once
    <3> QED
      BY <3>2, Singles, Zenon
  <2> QED
    BY <2>1, <2>2
<1> QED
  BY <1>1, Invariant, PTL

\* Away from the version half way, a version that no fault touched is in the database
\* if and only if it is tracked.
LEMMA Tracked ==
  ASSUME IInv, NEW v \in Version \ (lost \cup Busy)
  PROVE  effect[v] # <<>> <=> rows[v] # <<>>
<1>1. Once(v)
  BY DEF IInv, Database, DbAgrees
<1> QED
  BY <1>1, Singles, Zenon DEF Once

\* The rows of _oxisql_migrations are a prefix of the versions at every step of the
\* loops of run_with_conn, run_embedded and rollback, whatever failed in them, and so is
\* what the database has of the migrations, but for those that a fault left half way.
THEOREM OneAfterTheOther ==
  ASSUME OneAtATime PROVE Spec => []InOrder
<1>1. IInv => InOrder
  <2> SUFFICES ASSUME IInv PROVE InOrder
    OBVIOUS
  <2>1. \A u, v \in Version : u < v /\ rows[v] # <<>> => rows[u] # <<>>
    BY Zenon DEF IInv, Database, DbRows
  <2>2. ASSUME NEW u \in Version \ lost, NEW v \in Version \ lost, u < v, effect[v] # <<>>
        PROVE  effect[u] # <<>>
    <3>0. u # v
      BY <2>2, VersionAssumption
    <3>1. CASE u \notin Busy /\ v \notin Busy
      BY <2>1, <2>2, <3>1, Tracked
    \* v was just executed: the versions before it are tracked.
    <3>2. CASE v \in Busy
      <4>1. PICK r \in Runner :
              /\ Halfway(r) /\ OnFile(r) /\ v = Current(r) /\ Busy = {v}
              /\ v \notin lost => effect[v] =
                   IF pc[r] = "track" THEN <<[sql |-> sql[r], whole |-> TRUE]>> ELSE <<>>
        BY <3>2, AtHalfway
      <4>2. pc[r] = "track"
        BY <2>2, <4>1
      <4>3. rows[u] # <<>>
        BY <2>2, <4>1, <4>2, TheFile, Zenon DEF IInv
      <4> QED
        BY <2>2, <3>0, <4>1, <4>3, Tracked
    \* u is half way: were it reverted, no version after it would be tracked.
    <3>3. CASE u \in Busy
      <4>1. PICK r \in Runner :
              /\ Halfway(r) /\ OnFile(r) /\ u = Current(r) /\ Busy = {u}
              /\ u \notin lost => effect[u] =
                   IF pc[r] = "track" THEN <<[sql |-> sql[r], whole |-> TRUE]>> ELSE <<>>
        BY <3>3, AtHalfway
      <4>2. rows[v] # <<>>
        BY <2>2, <3>0, <4>1, Tracked
      <4>3. pc[r] = "track"
        BY <2>2, <4>1, <4>2, TheFile DEF IInv, Halfway
      <4> QED
        BY <2>2, <4>1, <4>3, Singles, Zenon
    <3> QED
      BY <3>1, <3>2, <3>3
  <2> QED
    BY <2>1, <2>2, Zenon DEF InOrder
<1> QED
  BY <1>1, Invariant, PTL

\* A file and its row in _oxisql_migrations agree once no call is between the two, where
\* no fault came between them; and a row is backed by an execution of its file to the
\* end, whatever failed, unless the way down did (mark_applied comes after the SQL, and
\* mark_reverted after the down file).
THEOREM FileAndRow ==
  ASSUME OneAtATime PROVE Spec => []Consistent
<1>1. IInv => Consistent
  <2> SUFFICES ASSUME IInv, \A r \in Runner : pc[r] \notin {"track", "untrack"}
               PROVE  /\ \A v \in Version \ lost :
                           effect[v] = [i \in DOMAIN rows[v] |-> [sql |-> rows[v][i], whole |-> TRUE]]
                      /\ \A v \in Version \ undone : rows[v] # <<>> => Executed(v, Head(rows[v]))
    BY Zenon DEF Consistent
  <2>1. Busy = {}
    BY DEF Busy, Halfway
  <2>2. ASSUME NEW v \in Version \ lost
        PROVE  effect[v] = [i \in DOMAIN rows[v] |-> [sql |-> rows[v][i], whole |-> TRUE]]
    <3>1. Once(v)
      BY <2>1, <2>2 DEF IInv, Database, DbAgrees
    <3>2. CASE rows[v] = <<>> /\ effect[v] = <<>>
      <4>1. <<>> = [i \in DOMAIN <<>> |-> [sql |-> <<>>[i], whole |-> TRUE]]
        OBVIOUS
      <4> QED
        BY <3>2, <4>1, Zenon
    <3>3. ASSUME NEW c \in Content, rows[v] = <<c>>, effect[v] = <<[sql |-> c, whole |-> TRUE]>>
          PROVE  effect[v] = [i \in DOMAIN rows[v] |-> [sql |-> rows[v][i], whole |-> TRUE]]
      BY <3>3, Singles, Zenon
    <3> QED
      BY <3>1, <3>2, <3>3, Zenon DEF Once
  <2>3. ASSUME NEW v \in Version \ undone, rows[v] # <<>> PROVE Executed(v, Head(rows[v]))
    <3>1. PICK c \in Content : rows[v] = <<c>>
      BY <2>3, Zenon DEF IInv, Database, DbRows
    <3>2. Executed(v, c)
      BY <2>1, <2>3, <3>1 DEF IInv, Database, DbBacked
    <3> QED
      BY <3>1, <3>2, SingleHead, Zenon
  <2> QED
    BY <2>2, <2>3
<1> QED
  BY <1>1, Invariant, PTL

LEMMA SeqDomain ==
  ASSUME NEW S, NEW s \in Seq(S) PROVE DOMAIN s = 1..Len(s) /\ Len(s) \in Nat
  OBVIOUS

LEMMA OneInRange ==
  ASSUME NEW n \in Nat, n <= 1, 1..n # {} PROVE n = 1
<1>1. PICK i \in 1..n : TRUE
  BY Zenon
<1>2. i \in Int /\ 1 <= i /\ i <= n
  BY SMT
<1> QED
  BY <1>2

\* A run that returned Ok has brought the database to what is on disk: every file it
\* covers was executed to its end with the text of the file (run_embedded,
\* run_with_conn), and is there once where no fault came between it and its row; nothing
\* above target_version is.
THEOREM SuccessIsTrue ==
  ASSUME OneAtATime PROVE Spec => []SuccessMeansCurrent
<1>1. IInv /\ NoDoubleApply => SuccessMeansCurrent
  <2> SUFFICES ASSUME IInv, NoDoubleApply, NEW r \in Runner, result[r] = "Applied"
               PROVE  /\ \A v \in Covered(r) \ (edited[r] \cup undone) : Executed(v, content[v])
                      /\ \A v \in Covered(r) \ (edited[r] \cup lost) : Len(effect[v]) = 1
                      /\ \A v \in Version \ Covered(r) : effect[v] = <<>>
    BY Zenon DEF SuccessMeansCurrent
  <2>1. \A v \in Covered(r) \ (edited[r] \cup undone) : Executed(v, content[v])
    BY Zenon DEF IInv, Database, DbDelivered
  <2>2. ASSUME NEW v \in Covered(r) \ (edited[r] \cup lost) PROVE Len(effect[v]) = 1
    <3>1. v \in Version /\ v \notin undone
      BY <2>2 DEF Covered, IInv, TypeOK
    <3>2. effect[v] \in Seq(Execution) /\ Len(effect[v]) <= 1
      BY <2>2, <3>1 DEF IInv, TypeOK, Effects, NoDoubleApply
    <3>3. DOMAIN effect[v] # {}
      BY <2>1, <2>2, <3>1, Zenon DEF Executed
    <3>4. DOMAIN effect[v] = 1..Len(effect[v]) /\ Len(effect[v]) \in Nat
      BY <3>2, SeqDomain, Zenon
    <3>5. 1..Len(effect[v]) # {}
      BY <3>3, <3>4, Zenon
    <3> QED
      BY <3>2, <3>4, <3>5, OneInRange, Zenon
  <2>3. ASSUME NEW v \in Version \ Covered(r) PROVE effect[v] = <<>>
    <3>1. mode = "embedded" /\ v > Target
      BY VersionAssumption DEF Covered
    <3> QED
      BY <3>1, Zenon DEF IInv, Database, DbWithin
  <2> QED
    BY <2>1, <2>2, <2>3
<1> QED
  BY <1>1, NothingTwice, Invariant, PTL
=============================================================================
