----------------------------- MODULE LimboRwLock -----------------------------
(***************************************************************************)
(* LimboRwLock of storage/wal.rs, one step per atomic operation: the lock  *)
(* under write_lock and under every entry of read_locks.  In between two   *)
(* of its own operations a thread may be overtaken by any other.           *)
(***************************************************************************)
EXTENDS Integers

CONSTANTS
  Reader,   \* threads that call read() and then unlock()
  Writer,   \* threads that call write() and then unlock()
  U32       \* the modulus of AtomicU32, 2^32 in the code

ASSUME U32Assumption == U32 \in Nat /\ U32 > 1

Thread == Reader \cup Writer

LockState == {"NO_LOCK", "SHARED_LOCK", "WRITE_LOCK"}

VARIABLES
  lock,     \* AtomicU32
  nreads,   \* AtomicU32
  pc,       \* [Thread -> the operation it is about to do]
  seen,     \* [Thread -> lock_after_load]
  holds,    \* [Thread -> what the last call gave it]
  overlap   \* history: two threads have been reading at the same time

vars == <<lock, nreads, pc, seen, holds, overlap>>

Control == {"idle", "read_cas", "read_add", "read_inc", "read_check", "read_retry",
            "read_undo", "write_cas", "unlock_sub", "unlock_shared", "unlock_write", "panic"}

Goto(t, label) == pc' = [pc EXCEPT ![t] = label]

\* The call returns; what is held afterwards.
Return(t, held) == Goto(t, "idle") /\ holds' = [holds EXCEPT ![t] = held]

Idle(t) == pc[t] = "idle" /\ holds[t] = "none"

\* Inside read(), from its first load on, or holding what read() gave.
Reading(t) ==
  \/ holds[t] = "read"
  \/ pc[t] \in {"read_cas", "read_add", "read_inc", "read_check", "read_retry", "read_undo"}

-----------------------------------------------------------------------------
(* read                                                                    *)

ReadLoad(t) ==
  /\ t \in Reader /\ Idle(t)
  /\ \/ lock = "NO_LOCK" /\ Goto(t, "read_cas")
     \/ lock = "SHARED_LOCK" /\ Goto(t, "read_inc")
     \/ lock = "WRITE_LOCK" /\ UNCHANGED pc
  /\ overlap' = (overlap \/ \E u \in Thread : Reading(u))
  /\ UNCHANGED <<lock, nreads, seen, holds>>

ReadCas(t) ==
  /\ pc[t] = "read_cas"
  /\ \/ lock = "NO_LOCK" /\ lock' = "SHARED_LOCK" /\ Goto(t, "read_add")
     \/ lock # "NO_LOCK" /\ UNCHANGED lock /\ Goto(t, "idle")
  /\ UNCHANGED <<nreads, seen, holds, overlap>>

\* Mutant: the first reader is not counted.
ReadAdd_missing(t) ==
  /\ pc[t] = "read_add"
  /\ Return(t, "read")
  /\ UNCHANGED <<lock, nreads, seen, overlap>>

ReadAdd(t) ==
  /\ pc[t] = "read_add"
  /\ nreads' = (nreads + 1) % U32
  /\ Return(t, "read")
  /\ UNCHANGED <<lock, seen, overlap>>

ReadInc(t) ==
  /\ pc[t] = "read_inc"
  /\ nreads' = (nreads + 1) % U32
  /\ Goto(t, "read_check")
  /\ UNCHANGED <<lock, seen, holds, overlap>>

ReadCheck(t) ==
  /\ pc[t] = "read_check"
  /\ \/ lock = "SHARED_LOCK" /\ Return(t, "read") /\ UNCHANGED seen
     \/ /\ lock # "SHARED_LOCK"
        /\ seen' = [seen EXCEPT ![t] = lock]
        /\ Goto(t, "read_retry") /\ UNCHANGED holds
  /\ UNCHANGED <<lock, nreads, overlap>>

ReadRetry(t) ==
  /\ pc[t] = "read_retry"
  /\ \/ lock = seen[t] /\ lock' = "SHARED_LOCK" /\ Return(t, "read")
     \/ lock # seen[t] /\ Goto(t, "read_undo") /\ UNCHANGED <<lock, holds>>
  /\ UNCHANGED <<nreads, seen, overlap>>

ReadUndo(t) ==
  /\ pc[t] = "read_undo"
  /\ nreads' = (nreads - 1) % U32
  /\ Goto(t, "idle")
  /\ UNCHANGED <<lock, seen, holds, overlap>>

-----------------------------------------------------------------------------
(* write                                                                   *)

WriteLoad(t) ==
  /\ t \in Writer /\ Idle(t)
  /\ \/ lock = "NO_LOCK" /\ Goto(t, "write_cas")
     \/ lock # "NO_LOCK" /\ UNCHANGED pc
  /\ UNCHANGED <<lock, nreads, seen, holds, overlap>>

\* Mutant: a plain store instead of the compare_exchange.
WriteCas_store(t) ==
  /\ pc[t] = "write_cas"
  /\ lock' = "WRITE_LOCK" /\ Return(t, "write")
  /\ UNCHANGED <<nreads, seen, overlap>>

WriteCas(t) ==
  /\ pc[t] = "write_cas"
  /\ \/ lock = "NO_LOCK" /\ lock' = "WRITE_LOCK" /\ Return(t, "write")
     \/ lock # "NO_LOCK" /\ Goto(t, "idle") /\ UNCHANGED <<lock, holds>>
  /\ UNCHANGED <<nreads, seen, overlap>>

-----------------------------------------------------------------------------
(* unlock, by a thread whose lock call succeeded                           *)

UnlockLoad(t) ==
  /\ pc[t] = "idle" /\ holds[t] # "none"
  /\ \/ lock = "NO_LOCK" /\ Return(t, "none")
     \/ lock = "SHARED_LOCK" /\ Goto(t, "unlock_sub") /\ UNCHANGED holds
     \/ lock = "WRITE_LOCK" /\ Goto(t, "unlock_write") /\ UNCHANGED holds
  /\ UNCHANGED <<lock, nreads, seen, overlap>>

UnlockSub(t) ==
  /\ pc[t] = "unlock_sub"
  /\ nreads' = (nreads - 1) % U32
  /\ \/ nreads = 1 /\ Goto(t, "unlock_shared") /\ UNCHANGED holds
     \/ nreads # 1 /\ Return(t, "none")
  /\ UNCHANGED <<lock, seen, overlap>>

\* compare_exchange(expected, NO_LOCK) and the assert on its result.
Release(t, expected) ==
  /\ \/ lock = expected /\ lock' = "NO_LOCK" /\ Return(t, "none")
     \/ lock # expected /\ Goto(t, "panic") /\ UNCHANGED <<lock, holds>>
  /\ UNCHANGED <<nreads, seen, overlap>>

UnlockShared(t) == pc[t] = "unlock_shared" /\ Release(t, "SHARED_LOCK")

\* Mutant: the shared branch's compare_exchange is used for a writer.
UnlockWrite_shared(t) == pc[t] = "unlock_write" /\ Release(t, "SHARED_LOCK")

UnlockWrite(t) == pc[t] = "unlock_write" /\ Release(t, "WRITE_LOCK")

-----------------------------------------------------------------------------
Init ==
  /\ lock = "NO_LOCK" /\ nreads = 0
  /\ pc = [t \in Thread |-> "idle"]
  /\ seen = [t \in Thread |-> "NO_LOCK"]
  /\ holds = [t \in Thread |-> "none"]
  /\ overlap = FALSE

Step(t) ==
  \/ ReadLoad(t) \/ ReadCas(t) \/ ReadAdd(t) \/ ReadInc(t) \/ ReadCheck(t)
  \/ ReadRetry(t) \/ ReadUndo(t)
  \/ WriteLoad(t) \/ WriteCas(t)
  \/ UnlockLoad(t) \/ UnlockSub(t) \/ UnlockShared(t) \/ UnlockWrite(t)

Next == \E t \in Thread : Step(t)

Spec == Init /\ [][Next]_vars

-----------------------------------------------------------------------------
(* Properties                                                              *)

\* Every variable has its type; nreads stays in its 32 bits.
TypeOK ==
  /\ lock \in LockState /\ nreads \in 0..(U32 - 1)
  /\ pc \in [Thread -> Control] /\ seen \in [Thread -> LockState]
  /\ holds \in [Thread -> {"none", "read", "write"}] /\ overlap \in BOOLEAN

\* "Locks exclusively": as long as no two threads have been reading at once, a
\* thread that write() gave the lock to is the only one that has been given it.
Exclusive ==
  ~overlap => \A t, u \in Thread : holds[t] = "write" /\ holds[u] # "none" => t = u

\* The asserts in unlock(): as long as no two threads have been reading at once,
\* the lock is still what it was when it was loaded.
UnlockSucceeds == ~overlap => \A t \in Thread : pc[t] # "panic"

\* Once no call is under way, the lock word says who holds the lock, so nobody
\* is shut out by a lock that everyone has given back.
Settled ==
  ~overlap /\ (\A t \in Thread : pc[t] = "idle") =>
    /\ lock = "WRITE_LOCK" <=> \E t \in Thread : holds[t] = "write"
    /\ lock = "SHARED_LOCK" <=> \E t \in Thread : holds[t] = "read"

=============================================================================
