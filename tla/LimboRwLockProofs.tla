------------------------- MODULE LimboRwLockProofs --------------------------
(***************************************************************************)
(* A LimboRwLock excludes, for any number of readers and writers, as long  *)
(* as no two of them have been reading at once.  That is how write_lock is *)
(* used (by writers only) and an entry of read_locks with one reader; two  *)
(* readers that overlap break it.                                          *)
(***************************************************************************)
EXTENDS LimboRwLock, TLAPS

\* One thread at a time reads.
Alone == \A t, u \in Thread : Reading(t) /\ Reading(u) => t = u

\* The thread whose compare_exchange made the lock SHARED_LOCK, until it is free.
SharedOwner(t) == pc[t] = "read_add" \/ holds[t] = "read"

\* What a thread holds while it is at each operation.
CallShape(t) ==
  /\ pc[t] \in {"idle", "read_cas", "read_add", "write_cas", "unlock_sub", "unlock_shared",
                "unlock_write"}
  /\ pc[t] \in {"read_cas", "read_add", "write_cas"} => holds[t] = "none"
  /\ pc[t] \in {"unlock_sub", "unlock_shared"} => holds[t] = "read"
  /\ pc[t] = "unlock_write" => holds[t] = "write"
  /\ pc[t] = "read_cas" => t \in Reader

\* The lock word and the thread that owns it agree.
WordMatches ==
  /\ \A t \in Thread : SharedOwner(t) => t \in Reader /\ lock = "SHARED_LOCK"
  /\ \A t \in Thread : holds[t] = "write" => lock = "WRITE_LOCK"
  /\ lock = "SHARED_LOCK" => \E t \in Thread : SharedOwner(t)
  /\ lock = "WRITE_LOCK" => \E t \in Thread : holds[t] = "write"
  /\ \A t, u \in Thread : holds[t] = "write" /\ holds[u] = "write" => t = u

\* The reader is counted from its fetch_add to its fetch_sub.
Counted ==
  /\ \A t \in Thread : holds[t] = "read" /\ pc[t] # "unlock_shared" => nreads = 1
  /\ (\A t \in Thread : holds[t] = "read" => pc[t] = "unlock_shared") => nreads = 0

\* The inductive invariant.  Exclusive alone does not survive ReadRetry, which
\* may turn a WRITE_LOCK into a SHARED_LOCK: it takes CallShape, that nobody
\* gets there, and for that WordMatches, that a reader never meets SHARED_LOCK.
Sound == Alone /\ (\A t \in Thread : CallShape(t)) /\ WordMatches /\ Counted

IInv == TypeOK /\ (~overlap => Sound)

LEMMA InitIInv == Init => IInv
<1> SUFFICES ASSUME Init PROVE IInv
  OBVIOUS
<1>1. TypeOK
  <2>1. overlap \in BOOLEAN
    BY Zenon DEF Init
  <2> QED
    BY <2>1, U32Assumption DEF Init, TypeOK, LockState, Control
<1>2. Sound
  BY DEF Init, Sound, Alone, Reading, CallShape, WordMatches, Counted, SharedOwner
<1> QED
  BY <1>1, <1>2 DEF IInv

LEMMA KeepsReadLoad ==
  ASSUME IInv, NEW t \in Thread, ReadLoad(t) PROVE IInv'
<1> USE DEF ReadLoad, Goto, Return, Idle
<1>1. TypeOK'
  BY U32Assumption DEF IInv, TypeOK, LockState, Control
<1> SUFFICES ASSUME ~overlap' PROVE Sound'
  BY <1>1 DEF IInv
<1>2. ~overlap /\ Sound /\ TypeOK
  BY DEF IInv
<1>3. \A u \in Thread : ~Reading(u)
  BY Zenon
<1>4. Alone'
  BY <1>2, <1>3 DEF TypeOK, Sound, Alone, Reading, CallShape, WordMatches, SharedOwner
<1>5. (\A u \in Thread : CallShape(u))'
  BY <1>2, <1>3 DEF TypeOK, Sound, Alone, Reading, CallShape, WordMatches, SharedOwner
<1>6. WordMatches'
  BY <1>2 DEF TypeOK, Sound, Alone, Reading, CallShape, WordMatches, Counted, SharedOwner
<1>7. Counted'
  BY <1>2, U32Assumption DEF TypeOK, Sound, Alone, Reading, CallShape, WordMatches, Counted, SharedOwner
<1> QED
  BY <1>4, <1>5, <1>6, <1>7 DEF Sound

LEMMA KeepsReadCas ==
  ASSUME IInv, NEW t \in Thread, ReadCas(t) PROVE IInv'
<1> USE DEF ReadCas, Goto, Return, Idle
<1>1. TypeOK'
  BY U32Assumption DEF IInv, TypeOK, LockState, Control
<1> SUFFICES ASSUME ~overlap' PROVE Sound'
  BY <1>1 DEF IInv
<1>2. ~overlap /\ Sound /\ TypeOK
  BY DEF IInv
<1>3. Alone'
  BY <1>2 DEF TypeOK, Sound, Alone, Reading, CallShape, WordMatches, SharedOwner
<1>4. (\A u \in Thread : CallShape(u))'
  BY <1>2 DEF TypeOK, Sound, Alone, Reading, CallShape, WordMatches, SharedOwner
<1>5. WordMatches'
  BY <1>2 DEF TypeOK, Sound, Alone, Reading, CallShape, WordMatches, Counted, SharedOwner
<1>6. Counted'
  BY <1>2, U32Assumption DEF TypeOK, Sound, Alone, Reading, CallShape, WordMatches, Counted, SharedOwner
<1> QED
  BY <1>3, <1>4, <1>5, <1>6 DEF Sound

LEMMA KeepsReadAdd ==
  ASSUME IInv, NEW t \in Thread, ReadAdd(t) PROVE IInv'
<1> USE DEF ReadAdd, Goto, Return, Idle
<1>1. TypeOK'
  BY U32Assumption DEF IInv, TypeOK, LockState, Control
<1> SUFFICES ASSUME ~overlap' PROVE Sound'
  BY <1>1 DEF IInv
<1>2. ~overlap /\ Sound /\ TypeOK
  BY DEF IInv
<1>3. Alone'
  BY <1>2 DEF TypeOK, Sound, Alone, Reading, CallShape, WordMatches, SharedOwner
<1>4. (\A u \in Thread : CallShape(u))'
  BY <1>2 DEF TypeOK, Sound, Alone, Reading, CallShape, WordMatches, SharedOwner
<1>5. WordMatches'
  BY <1>2 DEF TypeOK, Sound, Alone, Reading, CallShape, WordMatches, Counted, SharedOwner
<1>6. Counted'
  BY <1>2, U32Assumption DEF TypeOK, Sound, Alone, Reading, CallShape, WordMatches, Counted, SharedOwner
<1> QED
  BY <1>3, <1>4, <1>5, <1>6 DEF Sound

LEMMA KeepsReadInc ==
  ASSUME IInv, NEW t \in Thread, ReadInc(t) PROVE IInv'
<1> USE DEF ReadInc, Goto, Return, Idle
<1>1. TypeOK'
  BY U32Assumption DEF IInv, TypeOK, LockState, Control
<1> SUFFICES ASSUME ~overlap' PROVE Sound'
  BY <1>1 DEF IInv
<1>2. ~overlap /\ Sound /\ TypeOK
  BY DEF IInv
<1>3. Alone'
  BY <1>2 DEF TypeOK, Sound, Alone, Reading, CallShape, WordMatches, SharedOwner
<1>4. (\A u \in Thread : CallShape(u))'
  BY <1>2 DEF TypeOK, Sound, Alone, Reading, CallShape, WordMatches, SharedOwner
<1>5. WordMatches'
  BY <1>2 DEF TypeOK, Sound, Alone, Reading, CallShape, WordMatches, Counted, SharedOwner
<1>6. Counted'
  BY <1>2, U32Assumption DEF TypeOK, Sound, Alone, Reading, CallShape, WordMatches, Counted, SharedOwner
<1> QED
  BY <1>3, <1>4, <1>5, <1>6 DEF Sound

LEMMA KeepsReadCheck ==
  ASSUME IInv, NEW t \in Thread, ReadCheck(t) PROVE IInv'
<1> USE DEF ReadCheck, Goto, Return, Idle
<1>1. TypeOK'
  BY U32Assumption DEF IInv, TypeOK, LockState, Control
<1> SUFFICES ASSUME ~overlap' PROVE Sound'
  BY <1>1 DEF IInv
<1>2. ~overlap /\ Sound /\ TypeOK
  BY DEF IInv
<1>3. Alone'
  BY <1>2 DEF TypeOK, Sound, Alone, Reading, CallShape, WordMatches, SharedOwner
<1>4. (\A u \in Thread : CallShape(u))'
  BY <1>2 DEF TypeOK, Sound, Alone, Reading, CallShape, WordMatches, SharedOwner
<1>5. WordMatches'
  BY <1>2 DEF TypeOK, Sound, Alone, Reading, CallShape, WordMatches, Counted, SharedOwner
<1>6. Counted'
  BY <1>2, U32Assumption DEF TypeOK, Sound, Alone, Reading, CallShape, WordMatches, Counted, SharedOwner
<1> QED
  BY <1>3, <1>4, <1>5, <1>6 DEF Sound

LEMMA KeepsReadRetry ==
  ASSUME IInv, NEW t \in Thread, ReadRetry(t) PROVE IInv'
<1> USE DEF ReadRetry, Goto, Return, Idle
<1>1. TypeOK'
  BY U32Assumption DEF IInv, TypeOK, LockState, Control
<1> SUFFICES ASSUME ~overlap' PROVE Sound'
  BY <1>1 DEF IInv
<1>2. ~overlap /\ Sound /\ TypeOK
  BY DEF IInv
<1>3. Alone'
  BY <1>2 DEF TypeOK, Sound, Alone, Reading, CallShape, WordMatches, SharedOwner
<1>4. (\A u \in Thread : CallShape(u))'
  BY <1>2 DEF TypeOK, Sound, Alone, Reading, CallShape, WordMatches, SharedOwner
<1>5. WordMatches'
  BY <1>2 DEF TypeOK, Sound, Alone, Reading, CallShape, WordMatches, Counted, SharedOwner
<1>6. Counted'
  BY <1>2, U32Assumption DEF TypeOK, Sound, Alone, Reading, CallShape, WordMatches, Counted, SharedOwner
<1> QED
  BY <1>3, <1>4, <1>5, <1>6 DEF Sound

LEMMA KeepsReadUndo ==
  ASSUME IInv, NEW t \in Thread, ReadUndo(t) PROVE IInv'
<1> USE DEF ReadUndo, Goto, Return, Idle
<1>1. TypeOK'
  BY U32Assumption DEF IInv, TypeOK, LockState, Control
<1> SUFFICES ASSUME ~overlap' PROVE Sound'
  BY <1>1 DEF IInv
<1>2. ~overlap /\ Sound /\ TypeOK
  BY DEF IInv
<1>3. Alone'
  BY <1>2 DEF TypeOK, Sound, Alone, Reading, CallShape, WordMatches, SharedOwner
<1>4. (\A u \in Thread : CallShape(u))'
  BY <1>2 DEF TypeOK, Sound, Alone, Reading, CallShape, WordMatches, SharedOwner
<1>5. WordMatches'
  BY <1>2 DEF TypeOK, Sound, Alone, Reading, CallShape, WordMatches, Counted, SharedOwner
<1>6. Counted'
  BY <1>2, U32Assumption DEF TypeOK, Sound, Alone, Reading, CallShape, WordMatches, Counted, SharedOwner
<1> QED
  BY <1>3, <1>4, <1>5, <1>6 DEF Sound

LEMMA KeepsWriteLoad ==
  ASSUME IInv, NEW t \in Thread, WriteLoad(t) PROVE IInv'
<1> USE DEF WriteLoad, Goto, Return, Idle
<1>1. TypeOK'
  BY U32Assumption DEF IInv, TypeOK, LockState, Control
<1> SUFFICES ASSUME ~overlap' PROVE Sound'
  BY <1>1 DEF IInv
<1>2. ~overlap /\ Sound /\ TypeOK
  BY DEF IInv
<1>3. Alone'
  BY <1>2 DEF TypeOK, Sound, Alone, Reading, CallShape, WordMatches, SharedOwner
<1>4. (\A u \in Thread : CallShape(u))'
  BY <1>2 DEF TypeOK, Sound, Alone, Reading, CallShape, WordMatches, SharedOwner
<1>5. WordMatches'
  BY <1>2 DEF TypeOK, Sound, Alone, Reading, CallShape, WordMatches, Counted, SharedOwner
<1>6. Counted'
  BY <1>2, U32Assumption DEF TypeOK, Sound, Alone, Reading, CallShape, WordMatches, Counted, SharedOwner
<1> QED
  BY <1>3, <1>4, <1>5, <1>6 DEF Sound

LEMMA KeepsWriteCas ==
  ASSUME IInv, NEW t \in Thread, WriteCas(t) PROVE IInv'
<1> USE DEF WriteCas, Goto, Return, Idle
<1>1. TypeOK'
  BY U32Assumption DEF IInv, TypeOK, LockState, Control
<1> SUFFICES ASSUME ~overlap' PROVE Sound'
  BY <1>1 DEF IInv
<1>2. ~overlap /\ Sound /\ TypeOK
  BY DEF IInv
<1>3. Alone'
  BY <1>2 DEF TypeOK, Sound, Alone, Reading, CallShape, WordMatches, SharedOwner
<1>4. (\A u \in Thread : CallShape(u))'
  BY <1>2 DEF TypeOK, Sound, Alone, Reading, CallShape, WordMatches, SharedOwner
<1>5. WordMatches'
  BY <1>2 DEF TypeOK, Sound, Alone, Reading, CallShape, WordMatches, Counted, SharedOwner
<1>6. Counted'
  BY <1>2, U32Assumption DEF TypeOK, Sound, Alone, Reading, CallShape, WordMatches, Counted, SharedOwner
<1> QED
  BY <1>3, <1>4, <1>5, <1>6 DEF Sound

LEMMA KeepsUnlockLoad ==
  ASSUME IInv, NEW t \in Thread, UnlockLoad(t) PROVE IInv'
<1> USE DEF UnlockLoad, Goto, Return, Idle
<1>1. TypeOK'
  BY U32Assumption DEF IInv, TypeOK, LockState, Control
<1> SUFFICES ASSUME ~overlap' PROVE Sound'
  BY <1>1 DEF IInv
<1>2. ~overlap /\ Sound /\ TypeOK
  BY DEF IInv
<1>3. Alone'
  BY <1>2 DEF TypeOK, Sound, Alone, Reading, CallShape, WordMatches, SharedOwner
<1>4. (\A u \in Thread : CallShape(u))'
  BY <1>2 DEF TypeOK, Sound, Alone, Reading, CallShape, WordMatches, SharedOwner
<1>5. WordMatches'
  BY <1>2 DEF TypeOK, Sound, Alone, Reading, CallShape, WordMatches, Counted, SharedOwner
<1>6. Counted'
  BY <1>2, U32Assumption DEF TypeOK, Sound, Alone, Reading, CallShape, WordMatches, Counted, SharedOwner
<1> QED
  BY <1>3, <1>4, <1>5, <1>6 DEF Sound

LEMMA KeepsUnlockSub ==
  ASSUME IInv, NEW t \in Thread, UnlockSub(t) PROVE IInv'
<1> USE DEF UnlockSub, Goto, Return, Idle
<1>1. TypeOK'
  BY U32Assumption DEF IInv, TypeOK, LockState, Control
<1> SUFFICES ASSUME ~overlap' PROVE Sound'
  BY <1>1 DEF IInv
<1>2. ~overlap /\ Sound /\ TypeOK
  BY DEF IInv
<1>3. Alone'
  BY <1>2 DEF TypeOK, Sound, Alone, Reading, CallShape, WordMatches, SharedOwner
<1>4. (\A u \in Thread : CallShape(u))'
  BY <1>2 DEF TypeOK, Sound, Alone, Reading, CallShape, WordMatches, SharedOwner
<1>5. WordMatches'
  BY <1>2 DEF TypeOK, Sound, Alone, Reading, CallShape, WordMatches, Counted, SharedOwner
<1>6. Counted'
  BY <1>2, U32Assumption DEF TypeOK, Sound, Alone, Reading, CallShape, WordMatches, Counted, SharedOwner
<1> QED
  BY <1>3, <1>4, <1>5, <1>6 DEF Sound

LEMMA KeepsUnlockShared ==
  ASSUME IInv, NEW t \in Thread, UnlockShared(t) PROVE IInv'
<1> USE DEF UnlockShared, Goto, Return, Idle, Release
<1>1. TypeOK'
  BY U32Assumption DEF IInv, TypeOK, LockState, Control
<1> SUFFICES ASSUME ~overlap' PROVE Sound'
  BY <1>1 DEF IInv
<1>2. ~overlap /\ Sound /\ TypeOK
  BY DEF IInv
<1>3. Alone'
  BY <1>2 DEF TypeOK, Sound, Alone, Reading, CallShape, WordMatches, SharedOwner
<1>4. (\A u \in Thread : CallShape(u))'
  BY <1>2 DEF TypeOK, Sound, Alone, Reading, CallShape, WordMatches, SharedOwner
<1>5. WordMatches'
  BY <1>2 DEF TypeOK, Sound, Alone, Reading, CallShape, WordMatches, Counted, SharedOwner
<1>6. Counted'
  BY <1>2, U32Assumption DEF TypeOK, Sound, Alone, Reading, CallShape, WordMatches, Counted, SharedOwner
<1> QED
  BY <1>3, <1>4, <1>5, <1>6 DEF Sound

LEMMA KeepsUnlockWrite ==
  ASSUME IInv, NEW t \in Thread, UnlockWrite(t) PROVE IInv'
<1> USE DEF UnlockWrite, Goto, Return, Idle, Release
<1>1. TypeOK'
  BY U32Assumption DEF IInv, TypeOK, LockState, Control
<1> SUFFICES ASSUME ~overlap' PROVE Sound'
  BY <1>1 DEF IInv
<1>2. ~overlap /\ Sound /\ TypeOK
  BY DEF IInv
<1>3. Alone'
  BY <1>2 DEF TypeOK, Sound, Alone, Reading, CallShape, WordMatches, SharedOwner
<1>4. (\A u \in Thread : CallShape(u))'
  BY <1>2 DEF TypeOK, Sound, Alone, Reading, CallShape, WordMatches, SharedOwner
<1>5. WordMatches'
  BY <1>2 DEF TypeOK, Sound, Alone, Reading, CallShape, WordMatches, Counted, SharedOwner
<1>6. Counted'
  BY <1>2, U32Assumption DEF TypeOK, Sound, Alone, Reading, CallShape, WordMatches, Counted, SharedOwner
<1> QED
  BY <1>3, <1>4, <1>5, <1>6 DEF Sound

LEMMA NextIInv == ASSUME IInv, [Next]_vars PROVE IInv'
<1>1. ASSUME NEW t \in Thread, Step(t) PROVE IInv'
  BY <1>1, KeepsReadLoad, KeepsReadCas, KeepsReadAdd, KeepsReadInc, KeepsReadCheck, KeepsReadRetry, KeepsReadUndo, KeepsWriteLoad, KeepsWriteCas, KeepsUnlockLoad, KeepsUnlockSub, KeepsUnlockShared, KeepsUnlockWrite DEF Step
<1>2. CASE UNCHANGED vars
  BY <1>2 DEF vars, IInv, Sound, Alone, Reading, TypeOK, CallShape, WordMatches, Counted, SharedOwner
<1> QED
  BY <1>1, <1>2 DEF Next

LEMMA AlwaysIInv == Spec => []IInv
<1>1. IInv /\ [Next]_vars => IInv'
  BY NextIInv
<1> QED
  BY InitIInv, <1>1, PTL DEF Spec

\* write() excludes: while it has given a thread the lock, no other thread has
\* been given it, for any number of threads that do not read at once.
THEOREM WriteExcludes == Spec => []Exclusive
<1>1. IInv => Exclusive
  BY DEF IInv, Sound, TypeOK, WordMatches, SharedOwner, Exclusive
<1> QED
  BY <1>1, AlwaysIInv, PTL

\* The asserts in unlock() never fail.
THEOREM UnlockNeverPanics == Spec => []UnlockSucceeds
<1>1. IInv => UnlockSucceeds
  BY DEF IInv, Sound, CallShape, UnlockSucceeds
<1> QED
  BY <1>1, AlwaysIInv, PTL

\* A lock that everyone has given back is free, and one that is held says so.
THEOREM LockSettles == Spec => []Settled
<1>1. IInv => Settled
  BY DEF IInv, Sound, TypeOK, WordMatches, SharedOwner, Settled
<1> QED
  BY <1>1, AlwaysIInv, PTL

=============================================================================
