--------------------------- MODULE WalMarkProofs ---------------------------
(***************************************************************************)
(* The read mark a reader counts on stays in its lock: for every set of    *)
(* connections that share one thread and do not roll back to savepoints,   *)
(* whatever else they do, checkpoints, ROLLBACK and failing statements     *)
(* included.                                                               *)
(***************************************************************************)
EXTENDS WalProofs, FiniteSetTheorems

-----------------------------------------------------------------------------
(* Read marks                                                              *)

\* c counts as a reader in the lock it remembers.
Holding(c) == transaction_state[c] # "None" \/ pc[c] = "begin_write"

\* c is bounded by the mark in that lock: it reads, or is about to.
Bounded(c) ==
  \/ transaction_state[c] = "Read"
  \/ transaction_state[c] = "None" /\ pc[c] \in {"lock_read", "begin_write"}

Holders(i) == {c \in Conn : Holding(c) /\ wf[c].slot = i}

\* A lock counts all its readers.  It may count more: a write statement that is
\* refused, and ROLLBACK, leave theirs behind.
Counted == \A i \in Slot : Cardinality(Holders(i)) <= read_locks[i].nreads

Marked == \A c \in Conn : Bounded(c) => read_locks[wf[c].slot].value = wf[c].max_frame

Copying == {"ReadFrame", "WaitReadFrame", "WaitWritePage", "Done"}

\* Only a writer flushes, it has flushed everything when the commit goes on, and
\* close() is called outside transactions.
InPlace(c) ==
  /\ dirty_pages[c] # {} => transaction_state[c] = "Write"
  /\ pc[c] = "append" => transaction_state[c] = "Write"
  /\ pc[c] \in Copying /\ arg[c] = "close" => transaction_state[c] = "None"
  /\ pc[c] \in {"sync_wal", "sync_db", "end_tx"} => dirty_pages[c] = {}
  /\ pc[c] \in Copying /\ arg[c] = "commit" => dirty_pages[c] = {}
  /\ pc[c] = "sync_wal" => arg[c] # "close"

LockTypes ==
  /\ read_locks \in [Slot -> [nreads : Nat, value : Nat]]
  /\ \A c \in Conn : wf[c].slot \in Slot
  /\ DOMAIN dirty_pages = Conn

MarkInv == LockTypes /\ Counted /\ Marked /\ \A c \in Conn : InPlace(c)

\* A step of c leaves the other connections where they are.
Apart(c) ==
  /\ Runs(c)
  /\ \A d \in Conn \ {c} :
       /\ pc'[d] = pc[d] /\ arg'[d] = arg[d] /\ transaction_state'[d] = transaction_state[d]
       /\ wf'[d] = wf[d] /\ dirty_pages'[d] = dirty_pages[d]
  /\ DOMAIN dirty_pages' = Conn

\* c stays at its lock, or leaves it without a word.
Stays(c) ==
  /\ wf'[c].slot \in Slot
  /\ Holding(c)' => Holding(c) /\ wf'[c].slot = wf[c].slot
  /\ Bounded(c)' => Bounded(c) /\ wf'[c].slot = wf[c].slot /\ wf'[c].max_frame = wf[c].max_frame

\* The five things a step may do to the read locks.
Kept(c) == Stays(c) /\ UNCHANGED read_locks

Cleared(c) ==
  /\ Stays(c)
  /\ read_locks' \in [Slot -> [nreads : Nat, value : Nat]]
  /\ \A i \in Slot : /\ read_locks'[i].nreads = read_locks[i].nreads
                     /\ read_locks[i].nreads # 0 => read_locks'[i] = read_locks[i]

Adopted(c) ==
  \E slot \in Slot, mark \in Nat :
    /\ read_locks[slot].nreads = 0 \/ read_locks[slot].value = mark
    /\ read_locks' = [read_locks EXCEPT ![slot].value = mark]
    /\ wf'[c].slot = slot /\ wf'[c].max_frame = mark
    /\ ~Holding(c)'

Locked(c) ==
  /\ ~Holding(c) /\ Bounded(c)
  /\ read_locks' = [read_locks EXCEPT ![wf[c].slot].nreads = @ + 1]
  /\ wf'[c].slot = wf[c].slot /\ wf'[c].max_frame = wf[c].max_frame

Freed(c) ==
  /\ Holding(c) /\ ~Holding(c)' /\ ~Bounded(c)'
  /\ read_locks' = Unlocked(c) /\ UNCHANGED wf

\* The readers of a lock after a step of c, but for c itself.
LEMMA OtherHolders ==
  ASSUME NEW c \in Conn, Apart(c), NEW i
  PROVE  /\ Holders(i)' \subseteq Holders(i) \cup {c}
         /\ c \notin Holders(i)' => Holders(i)' \subseteq Holders(i) \ {c}
  BY DEF Apart, Holders, Holding

LEMMA FewerHolders ==
  ASSUME IsFiniteSet(Conn), NEW c \in Conn, Apart(c), NEW i \in Slot,
         Cardinality(Holders(i)) <= read_locks[i].nreads,
         read_locks[i].nreads \in Nat, read_locks'[i].nreads = read_locks[i].nreads,
         c \in Holders(i)' => c \in Holders(i)
  PROVE  Cardinality(Holders(i)') <= read_locks'[i].nreads
<1>1. Holders(i)' \in SUBSET Holders(i) /\ Holders(i) \in SUBSET Conn
  <2>1. Holders(i)' \subseteq Holders(i) \cup {c}
    BY OtherHolders
  <2>2. Holders(i) \subseteq Conn
    BY DEF Holders
  <2> QED
    BY <2>1, <2>2
<1>2. IsFiniteSet(Holders(i))
  BY <1>1, FS_Subset
<1>3. IsFiniteSet(Holders(i)') /\ Cardinality(Holders(i)') <= Cardinality(Holders(i))
  BY <1>1, <1>2, FS_Subset
<1>4. Cardinality(Holders(i)') \in Nat /\ Cardinality(Holders(i)) \in Nat
  BY <1>2, <1>3, FS_CardinalityType
<1> QED
  BY <1>3, <1>4

\* The others keep their marks where the locks they hold keep theirs.
LEMMA OthersMarked ==
  ASSUME Marked, Types, NEW c \in Conn, NEW d \in Conn \ {c}, Apart(c), Bounded(d)',
         pc[d] # "lock_read" => read_locks'[wf[d].slot].value = read_locks[wf[d].slot].value
  PROVE  read_locks'[wf'[d].slot].value = wf'[d].max_frame
<1>1. pc[d] # "lock_read"
  BY DEF Apart, Runs, MidCall
<1>2. Bounded(d) /\ wf'[d] = wf[d]
  BY DEF Apart, Bounded
<1> QED
  BY <1>1, <1>2 DEF Marked

\* A lock with a reader has a count.
LEMMA HeldIsCounted ==
  ASSUME IsFiniteSet(Conn), LockTypes, Counted, NEW d \in Conn, Holding(d)
  PROVE  read_locks[wf[d].slot].nreads > 0 /\ read_locks[wf[d].slot].nreads # 0
<1> DEFINE i == wf[d].slot
<1>1. i \in Slot /\ d \in Holders(i) /\ Holders(i) \in SUBSET Conn
  BY DEF LockTypes, Holders
<1>2. IsFiniteSet(Holders(i)) /\ Holders(i) # {}
  BY <1>1, FS_Subset
<1>3. Cardinality(Holders(i)) \in Nat /\ Cardinality(Holders(i)) # 0
  BY <1>2, FS_CardinalityType, FS_EmptySet
<1>4. Cardinality(Holders(i)) <= read_locks[i].nreads /\ read_locks[i].nreads \in Nat
  BY <1>1 DEF Counted, LockTypes
<1> QED
  BY <1>3, <1>4

LEMMA BoundedHolds ==
  ASSUME NEW d \in Conn, Bounded(d), pc[d] # "lock_read" PROVE Holding(d)
  BY DEF Bounded, Holding

\* Each of the five keeps the counts and the marks.
LEMMA StaysCounted ==
  ASSUME IsFiniteSet(Conn), MarkInv, NEW c \in Conn, Apart(c), NEW i \in Slot,
         Holding(c)' => Holding(c) /\ wf'[c].slot = wf[c].slot,
         read_locks'[i].nreads = read_locks[i].nreads
  PROVE  Cardinality(Holders(i)') <= read_locks'[i].nreads
<1>1. c \in Holders(i)' => c \in Holders(i)
  BY DEF Holders
<1>2. Cardinality(Holders(i)) <= read_locks[i].nreads /\ read_locks[i].nreads \in Nat
  BY DEF MarkInv, Counted, LockTypes
<1> QED
  BY <1>1, <1>2, FewerHolders

LEMMA KeptOrCleared ==
  ASSUME IsFiniteSet(Conn), Types, MarkInv, NEW c \in Conn, Apart(c),
         Kept(c) \/ Cleared(c), Bounded(c) => pc[c] # "lock_read" \/ UNCHANGED read_locks
  PROVE  LockTypes' /\ Counted' /\ Marked'
<1>1. Stays(c) /\ read_locks' \in [Slot -> [nreads : Nat, value : Nat]]
  BY DEF Kept, Cleared, MarkInv, LockTypes
<1>2. \A i \in Slot : /\ read_locks'[i].nreads = read_locks[i].nreads
                      /\ read_locks[i].nreads # 0 => read_locks'[i] = read_locks[i]
  BY DEF Kept, Cleared
<1>3. LockTypes'
  BY <1>1 DEF LockTypes, MarkInv, Apart, Stays
<1>4. Counted'
  <2>1. Holding(c)' => Holding(c) /\ wf'[c].slot = wf[c].slot
    BY <1>1 DEF Stays
  <2>2. \A i \in Slot : Cardinality(Holders(i)') <= read_locks'[i].nreads
    BY <1>2, <2>1, StaysCounted, Zenon
  <2> QED
    BY <2>2 DEF Counted
<1>5. ASSUME NEW d \in Conn, Holding(d) PROVE read_locks'[wf[d].slot] = read_locks[wf[d].slot]
  <2>1. read_locks[wf[d].slot].nreads # 0 /\ wf[d].slot \in Slot
    BY <1>5, HeldIsCounted DEF MarkInv, LockTypes
  <2> QED
    BY <1>2, <2>1, Zenon
<1>6. ASSUME NEW d \in Conn, Bounded(d)'
      PROVE  read_locks'[wf'[d].slot].value = wf'[d].max_frame
  <2>1. CASE d = c
    <3>1. Bounded(c) /\ wf'[c].slot = wf[c].slot /\ wf'[c].max_frame = wf[c].max_frame
      BY <1>1, <1>6, <2>1 DEF Stays
    <3>2. read_locks'[wf[c].slot] = read_locks[wf[c].slot]
      BY <1>5, <3>1, BoundedHolds
    <3> QED
      BY <2>1, <3>1, <3>2 DEF MarkInv, Marked
  <2>2. CASE d # c
    <3>1. Bounded(d)
      BY <1>6, <2>2 DEF Apart, Bounded
    <3>2. pc[d] # "lock_read" => read_locks'[wf[d].slot] = read_locks[wf[d].slot]
      BY <1>5, <3>1, BoundedHolds
    <3> QED
      BY <1>6, <2>2, <3>2, OthersMarked DEF MarkInv
  <2> QED
    BY <2>1, <2>2
<1> QED
  BY <1>3, <1>4, <1>6 DEF Marked

LEMMA AdoptedMarks ==
  ASSUME IsFiniteSet(Conn), Types, MarkInv, NEW c \in Conn, Apart(c), Adopted(c)
  PROVE  LockTypes' /\ Counted' /\ Marked'
<1>1. PICK slot \in Slot, mark \in Nat :
        /\ read_locks[slot].nreads = 0 \/ read_locks[slot].value = mark
        /\ read_locks' = [read_locks EXCEPT ![slot].value = mark]
        /\ wf'[c].slot = slot /\ wf'[c].max_frame = mark
        /\ ~Holding(c)'
  BY Zenon DEF Adopted
<1>2. /\ read_locks' \in [Slot -> [nreads : Nat, value : Nat]]
      /\ read_locks'[slot].value = mark
      /\ \A i \in Slot : /\ read_locks'[i].nreads = read_locks[i].nreads
                         /\ i # slot => read_locks'[i] = read_locks[i]
  BY <1>1 DEF MarkInv, LockTypes
<1>3. LockTypes'
  BY <1>1, <1>2 DEF LockTypes, MarkInv, Apart
<1>4. Counted'
  BY <1>1, <1>2, StaysCounted DEF Counted
<1>5. ASSUME NEW d \in Conn, Bounded(d)'
      PROVE  read_locks'[wf'[d].slot].value = wf'[d].max_frame
  <2>1. CASE d = c
    BY <1>1, <1>2, <2>1
  <2>2. CASE d # c
    <3>1. Bounded(d)
      BY <1>5, <2>2 DEF Apart, Bounded
    <3>2. ASSUME pc[d] # "lock_read"
          PROVE  read_locks'[wf[d].slot].value = read_locks[wf[d].slot].value
      <4>1. read_locks[wf[d].slot].nreads > 0 /\ wf[d].slot \in Slot
        BY <3>1, <3>2, BoundedHolds, HeldIsCounted DEF MarkInv, LockTypes
      <4> QED
        BY <1>1, <1>2, <4>1
    <3> QED
      BY <1>5, <2>2, <3>2, OthersMarked DEF MarkInv
  <2> QED
    BY <2>1, <2>2
<1> QED
  BY <1>3, <1>4, <1>5 DEF Marked

\* Every lock keeps its mark and its slot, c's lock changes its count.
LEMMA SameMarks ==
  ASSUME Types, MarkInv, NEW c \in Conn, Apart(c),
         \A i \in Slot : read_locks'[i].value = read_locks[i].value,
         Bounded(c)' => Bounded(c) /\ wf'[c].slot = wf[c].slot /\ wf'[c].max_frame = wf[c].max_frame
  PROVE  Marked'
<1>1. ASSUME NEW d \in Conn, Bounded(d)'
      PROVE  read_locks'[wf'[d].slot].value = wf'[d].max_frame
  <2>1. wf[d].slot \in Slot
    BY DEF MarkInv, LockTypes
  <2>2. CASE d = c
    BY <1>1, <2>1, <2>2 DEF MarkInv, Marked
  <2>3. CASE d # c
    BY <1>1, <2>1, <2>3, OthersMarked DEF MarkInv
  <2> QED
    BY <2>2, <2>3
<1> QED
  BY <1>1 DEF Marked

LEMMA LockedMarks ==
  ASSUME IsFiniteSet(Conn), Types, MarkInv, NEW c \in Conn, Apart(c), Locked(c)
  PROVE  LockTypes' /\ Counted' /\ Marked'
<1> DEFINE s == wf[c].slot
<1>1. s \in Slot /\ read_locks \in [Slot -> [nreads : Nat, value : Nat]]
  BY DEF MarkInv, LockTypes
<1>2. /\ read_locks' \in [Slot -> [nreads : Nat, value : Nat]]
      /\ read_locks'[s].nreads = read_locks[s].nreads + 1
      /\ \A i \in Slot : /\ read_locks'[i].value = read_locks[i].value
                         /\ i # s => read_locks'[i].nreads = read_locks[i].nreads
  BY <1>1 DEF Locked
<1>3. LockTypes'
  BY <1>1, <1>2 DEF LockTypes, MarkInv, Apart, Locked
<1>4. ASSUME NEW i \in Slot PROVE Cardinality(Holders(i)') <= read_locks'[i].nreads
  <2>1. Cardinality(Holders(i)) <= read_locks[i].nreads /\ read_locks[i].nreads \in Nat
    BY <1>1 DEF MarkInv, Counted
  <2>2. CASE i # s
    <3>1. c \notin Holders(i)'
      BY <2>2 DEF Holders, Locked
    <3> QED
      BY <1>2, <2>1, <2>2, <3>1, FewerHolders
  <2>3. CASE i = s
    <3>1. Holders(i)' \subseteq Holders(i) \cup {c} /\ Holders(i) \in SUBSET Conn
      <4>1. Holders(i)' \subseteq Holders(i) \cup {c}
        BY OtherHolders
      <4>2. Holders(i) \subseteq Conn
        BY DEF Holders
      <4> QED
        BY <4>1, <4>2
    <3>2. IsFiniteSet(Holders(i))
      BY <3>1, FS_Subset
    <3>3. /\ IsFiniteSet(Holders(i) \cup {c}) /\ Cardinality(Holders(i)) \in Nat
          /\ Cardinality(Holders(i) \cup {c}) <= Cardinality(Holders(i)) + 1
      <4>1. IsFiniteSet(Holders(i) \cup {c}) /\ Cardinality(Holders(i)) \in Nat
        BY <3>2, FS_AddElement, FS_CardinalityType
      <4>2. \/ Cardinality(Holders(i) \cup {c}) = Cardinality(Holders(i))
            \/ Cardinality(Holders(i) \cup {c}) = Cardinality(Holders(i)) + 1
        BY <3>2, FS_AddElement, Zenon
      <4> QED
        BY <4>1, <4>2
    <3>4. /\ Cardinality(Holders(i)') <= Cardinality(Holders(i) \cup {c})
          /\ IsFiniteSet(Holders(i)')
      BY <3>1, <3>3, FS_Subset
    <3>5. Cardinality(Holders(i)') \in Nat /\ Cardinality(Holders(i) \cup {c}) \in Nat
      BY <3>3, <3>4, FS_CardinalityType
    <3> QED
      BY <1>2, <2>1, <2>3, <3>3, <3>4, <3>5
  <2> QED
    BY <2>2, <2>3
<1>5. Marked'
  BY <1>2, SameMarks DEF Locked
<1> QED
  BY <1>3, <1>4, <1>5 DEF Counted

LEMMA FreedMarks ==
  ASSUME IsFiniteSet(Conn), Types, MarkInv, NEW c \in Conn, Apart(c), Freed(c)
  PROVE  LockTypes' /\ Counted' /\ Marked'
<1> DEFINE s == wf[c].slot
<1>1. s \in Slot /\ read_locks \in [Slot -> [nreads : Nat, value : Nat]]
  BY DEF MarkInv, LockTypes
<1>2. read_locks[s].nreads > 0
  BY HeldIsCounted DEF MarkInv, Freed
<1>3. /\ read_locks' \in [Slot -> [nreads : Nat, value : Nat]]
      /\ read_locks'[s].nreads = read_locks[s].nreads - 1
      /\ \A i \in Slot : /\ read_locks'[i].value = read_locks[i].value
                         /\ i # s => read_locks'[i].nreads = read_locks[i].nreads
  BY <1>1, <1>2 DEF Freed, Unlocked
<1>4. LockTypes'
  BY <1>1, <1>3 DEF LockTypes, MarkInv, Apart, Freed
<1>5. ASSUME NEW i \in Slot PROVE Cardinality(Holders(i)') <= read_locks'[i].nreads
  <2>1. Cardinality(Holders(i)) <= read_locks[i].nreads /\ read_locks[i].nreads \in Nat
    BY <1>1 DEF MarkInv, Counted
  <2>2. c \notin Holders(i)'
    BY DEF Holders, Freed
  <2>3. CASE i # s
    BY <1>3, <2>1, <2>2, <2>3, FewerHolders
  <2>4. CASE i = s
    <3>1. Holders(i)' \subseteq Holders(i) \ {c}
      BY <2>2, OtherHolders
    <3>2. c \in Holders(i) /\ Holders(i) \in SUBSET Conn
      BY <2>4 DEF Holders, Freed
    <3>3. IsFiniteSet(Holders(i))
      BY <3>2, FS_Subset
    <3>4. /\ IsFiniteSet(Holders(i) \ {c}) /\ Cardinality(Holders(i)) \in Nat
          /\ Cardinality(Holders(i) \ {c}) = Cardinality(Holders(i)) - 1
      BY <3>2, <3>3, FS_RemoveElement, FS_CardinalityType
    <3>5. IsFiniteSet(Holders(i)') /\ Cardinality(Holders(i)') <= Cardinality(Holders(i) \ {c})
      BY <3>1, <3>4, FS_Subset
    <3>6. Cardinality(Holders(i)') \in Nat /\ Cardinality(Holders(i) \ {c}) \in Nat
      BY <3>4, <3>5, FS_CardinalityType
    <3> QED
      BY <1>3, <2>1, <2>4, <3>4, <3>5, <3>6
  <2> QED
    BY <2>3, <2>4
<1>6. Marked'
  BY <1>3, SameMarks DEF Freed
<1> QED
  BY <1>4, <1>5, <1>6 DEF Counted

\* What a step of c does, for the locks and for itself.
Marking(c) ==
  /\ Apart(c) /\ InPlace(c)'
  /\ \/ Kept(c) \/ Adopted(c) \/ Locked(c) \/ Freed(c)
     \/ Cleared(c) /\ pc[c] # "lock_read"

LEMMA MovesOnly ==
  ASSUME Types, Targets, MarkInv, NEW c \in Conn, Runs(c), InPlace(c)',
         UNCHANGED pc \/ \E l : pc' = [pc EXCEPT ![c] = l],
         UNCHANGED arg \/ \E l : arg' = [arg EXCEPT ![c] = l],
         UNCHANGED dirty_pages \/ \E D : dirty_pages' = [dirty_pages EXCEPT ![c] = D],
         UNCHANGED <<transaction_state, wf, read_locks>>,
         transaction_state[c] = "None" /\ pc'[c] \in {"lock_read", "begin_write"}
           => pc'[c] = pc[c]
  PROVE  Marking(c)
<1>1. Apart(c)
  BY DEF Apart, Types, MarkInv, LockTypes
<1>2. Stays(c)
  BY DEF Stays, Holding, Bounded, MarkInv, LockTypes, Types
<1> QED
  BY <1>1, <1>2, Zenon DEF Marking, Kept

LEMMA MarkingQuiet ==
  ASSUME IInv, MarkInv, NEW c \in Conn, NEW p,
         Begin(c) \/ Fail(c) \/ FailInTx(c) \/ ReadPage(c, p) \/ WritePage(c, p) \/ FlushPage(c, p)
  PROVE  Marking(c)
<1>1. /\ Runs(c) /\ UNCHANGED <<pc, arg, transaction_state, wf, read_locks>>
      /\ \/ UNCHANGED dirty_pages
         \/ \E D : /\ dirty_pages' = [dirty_pages EXCEPT ![c] = D]
                   /\ \/ D = {} \/ pc[c] = "append"
                      \/ transaction_state[c] = "Write" /\ pc[c] = "idle"
  <2>1. CASE Begin(c) \/ Fail(c) \/ FailInTx(c)
    BY <2>1, Zenon DEF Begin, Fail, FailInTx, Idle, clear_page_cache, locks, pager, txn, ctl
  <2>2. CASE ReadPage(c, p)
    BY <2>2 DEF ReadPage, Idle, locks, txn, ctl
  <2>3. CASE WritePage(c, p)
    BY <2>3, Zenon DEF WritePage, Idle, locks, txn, ctl
  <2>4. CASE FlushPage(c, p)
    BY <2>4, Zenon DEF FlushPage, locks, txn, ctl
  <2> QED
    BY <2>1, <2>2, <2>3, <2>4, Zenon
<1>2. InPlace(c)'
  <2>1. InPlace(c) /\ DOMAIN dirty_pages = Conn
    BY Zenon DEF MarkInv, LockTypes
  <2>2. CASE UNCHANGED dirty_pages
    BY <1>1, <2>1, <2>2 DEF InPlace
  <2>3. CASE ~UNCHANGED dirty_pages
    <3>1. PICK D : /\ dirty_pages' = [dirty_pages EXCEPT ![c] = D]
                   /\ \/ D = {} \/ pc[c] = "append"
                      \/ transaction_state[c] = "Write" /\ pc[c] = "idle"
      BY <1>1, <2>3, Zenon
    <3>2. dirty_pages'[c] = D
      BY <2>1, <3>1
    <3> QED
      BY <1>1, <2>1, <3>1, <3>2, Zenon DEF InPlace, Copying
  <2> QED
    BY <2>2, <2>3
<1>3. UNCHANGED dirty_pages \/ \E D : dirty_pages' = [dirty_pages EXCEPT ![c] = D]
  BY <1>1
<1>4. pc'[c] = pc[c] /\ UNCHANGED pc /\ UNCHANGED arg /\ UNCHANGED <<transaction_state, wf, read_locks>>
  BY <1>1
<1> QED
  BY <1>1, <1>2, <1>3, <1>4, MovesOnly, Zenon DEF IInv

\* The steps that only move c along, and leave it in its transaction.
LEMMA MarkingMoves ==
  ASSUME IInv, MarkInv, NEW c \in Conn, NEW i,
         \/ OpenSavepoint(c) \/ Release(c, i) \/ Flushed(c) \/ SyncDb(c)
         \/ ReadFrame(c) \/ FrameRead(c) \/ PageWritten(c)
  PROVE  Marking(c)
<1>1. /\ Runs(c) /\ UNCHANGED <<transaction_state, wf, read_locks, dirty_pages>>
      /\ UNCHANGED pc \/ \E l : pc' = [pc EXCEPT ![c] = l]
      /\ UNCHANGED arg \/ \E l : arg' = [arg EXCEPT ![c] = l]
      /\ pc'[c] \notin {"lock_read", "begin_write"}
      /\ InPlace(c)'
  <2>1. CASE OpenSavepoint(c)
    BY <2>1, Zenon DEF OpenSavepoint, Idle, Goto, Call, locks, ctl, IInv, Types, MarkInv, InPlace, Copying
  <2>2. CASE Release(c, i)
    <3>1. Idle(c) /\ UNCHANGED <<transaction_state, wf, read_locks, dirty_pages>>
      BY <2>2, Zenon DEF Release, locks
    <3>2. \/ UNCHANGED ctl
          \/ Goto(c, "append") /\ Call(c, "commit") /\ transaction_state[c] = "Write"
      <4>1. CASE savepoints[c][i].owner
        <5>1. i \in 1..Len(savepoints[c]) /\ savepoints[c] \in Seq(Range(savepoints[c]))
          BY <2>2, Zenon DEF Release, IInv, Targets
        <5>2. savepoints[c][i] \in Range(savepoints[c])
          BY <5>1, OwnElements DEF Range
        <5>3. transaction_state[c] = "Write"
          BY <4>1, <5>2, Zenon DEF IInv, CommitterWrites
        <5> QED
          BY <2>2, <4>1, <5>3, Zenon DEF Release
      <4> QED
        BY <2>2, <4>1, Zenon DEF Release
    <3>3. /\ UNCHANGED pc \/ \E l : pc' = [pc EXCEPT ![c] = l]
          /\ UNCHANGED arg \/ \E l : arg' = [arg EXCEPT ![c] = l]
          /\ \/ pc'[c] = "idle"
             \/ pc'[c] = "append" /\ transaction_state[c] = "Write"
      BY <3>1, <3>2 DEF Idle, Goto, Call, ctl, IInv, Types
    <3>4. InPlace(c)'
      BY <3>1, <3>3, Zenon DEF MarkInv, InPlace, Copying
    <3>5. Runs(c) /\ pc'[c] \notin {"lock_read", "begin_write"}
      BY <3>1, <3>3 DEF Idle
    <3> QED
      BY <3>1, <3>3, <3>4, <3>5
  <2>3. CASE Flushed(c)
    BY <2>3, Zenon DEF Flushed, Goto, locks, txn, IInv, Types, MarkInv, InPlace, Copying
  <2>4. CASE SyncDb(c)
    BY <2>4, Zenon DEF SyncDb, Goto, locks, pager, txn, IInv, Types, MarkInv, InPlace, Copying
  <2>5. CASE ReadFrame(c)
    <3>1. /\ pc[c] = "ReadFrame" /\ Runs(c)
          /\ UNCHANGED pc \/ Goto(c, "Done") \/ Goto(c, "WaitReadFrame")
          /\ UNCHANGED <<transaction_state, wf, read_locks, dirty_pages, arg>>
      BY <2>5 DEF ReadFrame, locks, pager, txn
    <3> QED
      BY <3>1, Zenon DEF Goto, IInv, Types, MarkInv, InPlace, Copying
  <2>6. CASE FrameRead(c)
    BY <2>6, Zenon DEF FrameRead, Goto, locks, pager, txn, IInv, Types, MarkInv, InPlace, Copying
  <2>7. CASE PageWritten(c)
    BY <2>7 DEF PageWritten, Goto, locks, pager, txn, IInv, Types, MarkInv, InPlace, Copying
  <2> QED
    BY <2>1, <2>2, <2>3, <2>4, <2>5, <2>6, <2>7
<1>2. UNCHANGED dirty_pages \/ \E D : dirty_pages' = [dirty_pages EXCEPT ![c] = D]
  BY <1>1
<1>3. UNCHANGED <<transaction_state, wf, read_locks>>
  BY <1>1
<1> QED
  BY <1>1, <1>2, <1>3, MovesOnly, Zenon DEF IInv

\* A step that leaves the dirty pages, and at most itself elsewhere.
LEMMA MovesApart ==
  ASSUME Types, Targets, MarkInv, NEW c \in Conn, Runs(c),
         UNCHANGED pc \/ \E l : pc' = [pc EXCEPT ![c] = l],
         UNCHANGED arg \/ \E l : arg' = [arg EXCEPT ![c] = l],
         UNCHANGED transaction_state
           \/ \E l : transaction_state' = [transaction_state EXCEPT ![c] = l],
         UNCHANGED wf \/ \E w : wf' = [wf EXCEPT ![c] = w],
         UNCHANGED dirty_pages \/ \E D : dirty_pages' = [dirty_pages EXCEPT ![c] = D]
  PROVE  Apart(c)
<1>1. /\ DOMAIN pc = Conn /\ DOMAIN arg = Conn /\ DOMAIN transaction_state = Conn
      /\ DOMAIN wf = Conn /\ DOMAIN dirty_pages = Conn
  BY DEF Types, Targets, MarkInv, LockTypes
<1> QED
  BY <1>1 DEF Apart

LEMMA MarkingStartRead ==
  ASSUME IInv, MarkInv, NEW c \in Conn, NEW what, Idle(c), transaction_state[c] = "None",
         StartRead(c, what)
  PROVE  Marking(c)
<1>1. UNCHANGED <<transaction_state, dirty_pages>> /\ Runs(c)
  BY Zenon DEF StartRead, Idle, pager, txn
<1>2. CASE UNCHANGED <<read_locks, wf, view, ctl>>
  <2>1. UNCHANGED pc /\ UNCHANGED arg /\ pc'[c] = pc[c] /\ UNCHANGED dirty_pages
        /\ UNCHANGED <<transaction_state, wf, read_locks>>
    BY <1>1, <1>2 DEF ctl
  <2>2. InPlace(c)'
    BY <2>1 DEF InPlace, MarkInv
  <2> QED
    BY <1>1, <2>1, <2>2, MovesOnly, Zenon DEF IInv
<1>3. CASE \E slot \in Slot, mark \in 0..max_frame :
              /\ Adopt(c, what, slot, mark)
              /\ \/ mark = max_frame /\ read_locks[slot].nreads = 0
                 \/ mark = read_locks[slot].value
  <2>1. PICK slot \in Slot, mark \in 0..max_frame :
              /\ Adopt(c, what, slot, mark)
              /\ \/ mark = max_frame /\ read_locks[slot].nreads = 0
                 \/ mark = read_locks[slot].value
    BY <1>3
  <2>2. /\ read_locks' = [read_locks EXCEPT ![slot].value = mark]
        /\ wf' = [wf EXCEPT ![c].slot = slot, ![c].max_frame = mark]
        /\ pc' = [pc EXCEPT ![c] = "lock_read"] /\ arg' = [arg EXCEPT ![c] = what]
    BY <2>1 DEF Adopt, Goto, Call
  <2>3. /\ pc'[c] = "lock_read"
        /\ wf'[c].slot = slot /\ wf'[c].max_frame = mark
    BY <2>2 DEF IInv, Types, Targets, WalFileFields
  <2>4. Apart(c)
    <3>1. \E w : wf' = [wf EXCEPT ![c] = w]
      BY <2>2, Zenon
    <3> QED
      BY <1>1, <2>2, <3>1, MovesApart, Zenon DEF IInv
  <2>5. InPlace(c)'
    BY <1>1, <2>3, Zenon DEF MarkInv, InPlace, Copying
  <2>6. mark \in Nat
    BY DEF IInv, Types
  <2>7. read_locks[slot].nreads = 0 \/ read_locks[slot].value = mark
    BY <2>1
  <2>8. ~Holding(c)'
    BY <1>1, <2>3 DEF Holding
  <2>9. Adopted(c)
    BY <2>2, <2>3, <2>6, <2>7, <2>8, Zenon DEF Adopted
  <2> QED
    BY <2>4, <2>5, <2>9 DEF Marking
<1>4. max_frame \in Nat /\ read_locks \in [Slot -> [nreads : Nat, value : Nat]]
  <2>1. max_frame \in 0..MaxFrame /\ MaxFrame \in Nat
    BY BoundsAssumption DEF IInv, Types
  <2> QED
    BY <2>1 DEF MarkInv, LockTypes
<1> QED
  BY <1>2, <1>3, <1>4, ChosenMark, Zenon

LEMMA MarkingTransaction ==
  ASSUME IInv, MarkInv, NEW c \in Conn, NEW what, TransactionRead(c) \/ TransactionWrite(c, what)
  PROVE  Marking(c)
<1>1. CASE transaction_state[c] = "None"
  BY <1>1, MarkingStartRead DEF TransactionRead, TransactionWrite
<1>2. CASE transaction_state[c] # "None"
  <2>1. /\ Idle(c) /\ transaction_state[c] = "Read"
        /\ Goto(c, "begin_write") /\ Call(c, what)
        /\ UNCHANGED <<transaction_state, wf, read_locks>> /\ UNCHANGED dirty_pages
    BY <1>2, Zenon DEF TransactionRead, TransactionWrite, locks, pager, txn
  <2>2. InPlace(c)'
    BY <2>1, Zenon DEF Goto, IInv, Types, MarkInv, InPlace, Copying
  <2> QED
    BY <2>1, <2>2, MovesOnly, Zenon DEF Idle, Goto, Call, IInv
<1> QED
  BY <1>1, <1>2

LEMMA MarkingCommit ==
  ASSUME IInv, MarkInv, NEW c \in Conn, Commit(c)
  PROVE  Marking(c)
<1>1. Idle(c) /\ UNCHANGED <<wf, dirty_pages>>
  BY DEF Commit, pager
<1>2. CASE transaction_state[c] = "Write"
  <2>1. /\ Goto(c, "append") /\ Call(c, "commit")
        /\ UNCHANGED <<transaction_state, wf, read_locks>> /\ UNCHANGED dirty_pages
    BY <1>1, <1>2 DEF Commit
  <2>2. InPlace(c)'
    BY <1>2, <2>1 DEF Goto, IInv, Types, MarkInv, InPlace, Copying
  <2> QED
    BY <1>1, <1>2, <2>1, <2>2, MovesOnly, Zenon DEF Idle, Goto, Call, IInv
<1>3. CASE transaction_state[c] # "Write"
  <2>1. /\ UNCHANGED pc /\ UNCHANGED arg /\ Runs(c) /\ pc[c] = "idle"
        /\ transaction_state' = [transaction_state EXCEPT ![c] = "None"]
        /\ UNCHANGED wf /\ UNCHANGED dirty_pages
    BY <1>1, <1>3 DEF Commit, ctl, Idle
  <2>2. transaction_state'[c] = "None"
    BY <2>1 DEF IInv, Types
  <2>3. Apart(c)
    BY <2>1, MovesApart, Zenon DEF IInv
  <2>4. InPlace(c)'
    BY <1>3, <2>1, <2>2 DEF MarkInv, InPlace, Copying
  <2>5. ~Holding(c)' /\ ~Bounded(c)'
    BY <2>1, <2>2 DEF Holding, Bounded
  <2>6. CASE transaction_state[c] = "Read"
    <3>1. read_locks' = Unlocked(c)
      BY <1>3, <2>6 DEF Commit
    <3> QED
      BY <2>1, <2>3, <2>4, <2>5, <2>6, <3>1 DEF Marking, Freed, Holding
  <2>7. CASE transaction_state[c] = "None"
    <3>1. UNCHANGED read_locks
      BY <1>3, <2>7 DEF Commit
    <3>2. Stays(c)
      BY <2>1, <2>5, Zenon DEF Stays, MarkInv, LockTypes
    <3> QED
      BY <2>3, <2>4, <3>1, <3>2 DEF Marking, Kept
  <2> QED
    BY <1>3, <2>6, <2>7 DEF IInv, Types
<1> QED
  BY <1>2, <1>3

LEMMA MarkingRollback ==
  ASSUME IInv, MarkInv, NEW c \in Conn, Rollback(c)
  PROVE  Marking(c)
<1>1. /\ UNCHANGED pc /\ UNCHANGED arg /\ Runs(c) /\ pc[c] = "idle"
      /\ transaction_state' = [transaction_state EXCEPT ![c] = "None"]
      /\ UNCHANGED wf /\ dirty_pages' = [dirty_pages EXCEPT ![c] = {}]
      /\ UNCHANGED read_locks
  BY DEF Rollback, clear_page_cache, ctl, Idle, locks
<1>2. transaction_state'[c] = "None" /\ dirty_pages'[c] = {}
  BY <1>1, Zenon DEF IInv, Types, MarkInv, LockTypes
<1>3. Apart(c)
  BY <1>1, MovesApart, Zenon DEF IInv
<1>4. InPlace(c)'
  BY <1>1, <1>2 DEF InPlace, Copying
<1>5. Stays(c)
  BY <1>1, <1>2 DEF Stays, Holding, Bounded, MarkInv, LockTypes
<1> QED
  BY <1>1, <1>3, <1>4, <1>5 DEF Marking, Kept

LEMMA MarkingLockRead ==
  ASSUME IInv, MarkInv, NEW c \in Conn, LockRead(c)
  PROVE  Marking(c)
<1>1. /\ pc[c] = "lock_read" /\ Runs(c) /\ transaction_state[c] = "None"
      /\ read_locks' = [read_locks EXCEPT ![wf[c].slot].nreads = @ + 1]
      /\ wf' = [wf EXCEPT ![c].min_frame = nbackfills + 1]
      /\ UNCHANGED dirty_pages
  BY DEF LockRead, pager, IInv, CommitterWrites
<1>2. /\ wf'[c].slot = wf[c].slot /\ wf'[c].max_frame = wf[c].max_frame
      /\ \E w : wf' = [wf EXCEPT ![c] = w]
  BY <1>1, Zenon DEF IInv, Targets, WalFileFields
<1>3. /\ \/ /\ transaction_state' = [transaction_state EXCEPT ![c] = "Read"]
            /\ pc' = [pc EXCEPT ![c] = "idle"] /\ arg' = [arg EXCEPT ![c] = "none"]
         \/ pc' = [pc EXCEPT ![c] = "begin_write"] /\ UNCHANGED <<transaction_state, arg>>
  BY DEF LockRead, Return, Goto, Call
<1>4. Apart(c)
  BY <1>1, <1>2, <1>3, MovesApart, Zenon DEF IInv
<1>5. pc'[c] \in {"idle", "begin_write"} /\ dirty_pages'[c] = dirty_pages[c]
  BY <1>1, <1>3 DEF IInv, Types
<1>6. InPlace(c)'
  BY <1>1, <1>5 DEF MarkInv, InPlace, Copying
<1>7. Locked(c)
  BY <1>1, <1>2 DEF Locked, Holding, Bounded
<1> QED
  BY <1>4, <1>6, <1>7 DEF Marking

LEMMA MarkingBeginWrite ==
  ASSUME IInv, MarkInv, NEW c \in Conn, begin_write_tx(c)
  PROVE  Marking(c)
<1>1. /\ pc[c] = "begin_write" /\ Runs(c) /\ UNCHANGED read_locks /\ UNCHANGED dirty_pages
      /\ pc' = [pc EXCEPT ![c] = "idle"] /\ arg' = [arg EXCEPT ![c] = "none"]
  BY DEF begin_write_tx, Return, Goto, Call
<1>2. pc'[c] = "idle" /\ wf[c].slot \in Slot
  BY <1>1 DEF IInv, Types, MarkInv, LockTypes
<1>3. CASE write_busy
  <2>1. UNCHANGED <<transaction_state, wf, read_locks>>
    BY <1>1, <1>3 DEF begin_write_tx, txn
  <2>2. InPlace(c)'
    BY <1>1, <1>2, <2>1, Zenon DEF MarkInv, InPlace, Copying
  <2> QED
    BY <1>1, <1>2, <2>1, <2>2, MovesOnly, Zenon DEF IInv
<1>4. CASE ~write_busy
  <2>1. /\ wf' = [wf EXCEPT ![c].start = max_frame, ![c].start_checksum = last_checksum]
        /\ transaction_state' = [transaction_state EXCEPT ![c] = "Write"]
    BY <1>4 DEF begin_write_tx
  <2>2. /\ wf'[c].slot = wf[c].slot /\ \E w : wf' = [wf EXCEPT ![c] = w]
        /\ transaction_state'[c] = "Write"
    BY <2>1, Zenon DEF IInv, Types, Targets, WalFileFields
  <2>3. Apart(c)
    BY <1>1, <2>1, <2>2, MovesApart, Zenon DEF IInv
  <2>4. InPlace(c)'
    BY <1>2, <2>2 DEF InPlace, Copying
  <2>5. Stays(c)
    BY <1>1, <1>2, <2>2 DEF Stays, Holding, Bounded
  <2> QED
    BY <1>1, <2>3, <2>4, <2>5 DEF Marking, Kept
<1> QED
  BY <1>3, <1>4

LEMMA MarkingSavepointFlushed ==
  ASSUME IInv, MarkInv, NEW c \in Conn, SavepointFlushed(c)
  PROVE  Marking(c)
<1>1. /\ Runs(c) /\ UNCHANGED read_locks /\ UNCHANGED dirty_pages /\ UNCHANGED transaction_state
      /\ pc' = [pc EXCEPT ![c] = "idle"] /\ arg' = [arg EXCEPT ![c] = "none"]
      /\ wf' = [wf EXCEPT ![c].max_frame = max_frame]
      /\ transaction_state[c] = "Write"
  BY DEF SavepointFlushed, set_reader_max_frame, Return, Goto, Call, locks, txn, MarkInv, InPlace
<1>2. /\ pc'[c] = "idle" /\ wf[c].slot \in Slot /\ wf'[c].slot = wf[c].slot
      /\ \E w : wf' = [wf EXCEPT ![c] = w]
  BY <1>1, Zenon DEF IInv, Types, Targets, WalFileFields, MarkInv, LockTypes
<1>3. Apart(c)
  BY <1>1, <1>2, MovesApart, Zenon DEF IInv
<1>4. InPlace(c)'
  BY <1>1, <1>2 DEF InPlace, Copying
<1>5. Stays(c)
  BY <1>1, <1>2 DEF Stays, Holding, Bounded
<1> QED
  BY <1>1, <1>3, <1>4, <1>5 DEF Marking, Kept

LEMMA MarkingEndTx ==
  ASSUME IInv, MarkInv, NEW c \in Conn, end_tx(c)
  PROVE  Marking(c)
<1>1. /\ Runs(c) /\ read_locks' = Unlocked(c) /\ UNCHANGED wf /\ UNCHANGED dirty_pages
      /\ transaction_state' = [transaction_state EXCEPT ![c] = "None"]
      /\ pc' = [pc EXCEPT ![c] = "idle"] /\ arg' = [arg EXCEPT ![c] = "none"]
      /\ transaction_state[c] = "Write" /\ pc[c] = "end_tx"
  BY DEF end_tx, Return, Goto, Call, IInv, CommitterWrites
<1>2. pc'[c] = "idle" /\ transaction_state'[c] = "None"
  BY <1>1 DEF IInv, Types
<1>3. Apart(c)
  BY <1>1, MovesApart, Zenon DEF IInv
<1>4. Holding(c) /\ ~Holding(c)' /\ ~Bounded(c)'
  BY <1>1, <1>2 DEF Holding, Bounded
<1>5. dirty_pages[c] = {}
  BY <1>1 DEF MarkInv, InPlace
<1>6. InPlace(c)'
  BY <1>1, <1>2, <1>5 DEF InPlace, Copying
<1> QED
  BY <1>1, <1>3, <1>4, <1>6 DEF Marking, Freed

LEMMA MarkingCheckpoint ==
  ASSUME IInv, MarkInv, NEW c \in Conn, NEW what, StartCheckpoint(c, what) \/ SyncWal(c)
  PROVE  Marking(c)
<1>1. /\ Runs(c) /\ pc[c] \in {"idle", "sync_wal"}
      /\ UNCHANGED wf /\ UNCHANGED dirty_pages /\ UNCHANGED transaction_state
      /\ UNCHANGED arg \/ Call(c, what)
      /\ StartCheckpoint(c, what) /\ arg'[c] = "close" => transaction_state[c] = "None"
  BY DEF StartCheckpoint, SyncWal, Idle, Call, pager, txn, IInv, Types
<1>2. CASE pc' = [pc EXCEPT ![c] = "end_tx"] /\ UNCHANGED <<read_locks, arg>> /\ SyncWal(c)
  <2>1. pc'[c] = "end_tx" /\ UNCHANGED <<transaction_state, wf, read_locks>> /\ UNCHANGED arg
    BY <1>1, <1>2 DEF IInv, Types
  <2>2. InPlace(c)'
    BY <1>1, <1>2, <2>1, Zenon DEF SyncWal, MarkInv, InPlace, Copying
  <2> QED
    BY <1>1, <1>2, <2>1, <2>2, MovesOnly, Zenon DEF IInv
<1>3. CASE CheckpointStart(c)
  <2>1. pc' = [pc EXCEPT ![c] = "ReadFrame"] /\ pc'[c] = "ReadFrame"
    BY <1>3 DEF CheckpointStart, Goto, IInv, Types
  <2>2. Apart(c)
    BY <1>1, <2>1, MovesApart, Zenon DEF IInv, Call
  <2>3. InPlace(c)'
    <3>1. arg'[c] = "close" => transaction_state[c] = "None"
      BY <1>1, Zenon DEF StartCheckpoint, SyncWal, MarkInv, InPlace
    <3>2. arg'[c] = "commit" => dirty_pages[c] = {}
      <4>1. CASE StartCheckpoint(c, what)
        BY <4>1, Zenon DEF StartCheckpoint, Call, IInv, Types
      <4>2. CASE SyncWal(c)
        BY <4>2, Zenon DEF SyncWal, MarkInv, InPlace
      <4> QED
        BY <4>1, <4>2
    <3> QED
      BY <1>1, <2>1, <3>1, <3>2 DEF MarkInv, InPlace, Copying
  <2>4. Stays(c)
    BY <1>1, <2>1, Zenon DEF Stays, Holding, Bounded, MarkInv, LockTypes
  <2>5. Cleared(c)
    <3> DEFINE safe(i) == Min({max_frame} \cup
                     {read_locks[j].value : j \in {k \in Slot : k < i /\ read_locks[k].nreads > 0}})
    <3>1. read_locks' = [i \in Slot |->
           IF read_locks[i].nreads = 0 /\ read_locks[i].value < safe(i)
             THEN [read_locks[i] EXCEPT !.value = IF i = 0 THEN max_frame ELSE NotUsed]
             ELSE read_locks[i]]
      BY <1>3, Zenon DEF CheckpointStart
    <3>2. max_frame \in Nat /\ NotUsed \in Nat
      BY BoundsAssumption DEF IInv, Types, NotUsed
    <3>3. read_locks \in [Slot -> [nreads : Nat, value : Nat]]
      BY DEF MarkInv, LockTypes
    <3> HIDE DEF safe
    <3> QED
      BY <2>4, <3>1, <3>2, <3>3 DEF Cleared
  <2>6. pc[c] # "lock_read"
    BY <1>1
  <2> QED
    BY <2>2, <2>3, <2>5, <2>6 DEF Marking
<1> QED
  BY <1>2, <1>3, Zenon DEF StartCheckpoint, SyncWal, Goto

LEMMA MarkingDone ==
  ASSUME IInv, MarkInv, NEW c \in Conn, Done(c)
  PROVE  Marking(c)
<1>1. /\ Runs(c) /\ pc[c] = "Done" /\ UNCHANGED read_locks /\ UNCHANGED dirty_pages
      /\ UNCHANGED transaction_state
  BY Zenon DEF Done, locks
<1>2. /\ \/ pc' = [pc EXCEPT ![c] = "sync_db"] /\ UNCHANGED arg /\ arg[c] = "commit"
         \/ pc' = [pc EXCEPT ![c] = "idle"] /\ arg' = [arg EXCEPT ![c] = "none"]
      /\ \/ UNCHANGED wf
         \/ wf' = [wf EXCEPT ![c] = NewWalFile] /\ arg[c] = "close"
  <2>1. CASE arg[c] = "commit"
    BY <2>1 DEF Done, Goto
  <2>2. CASE arg[c] # "commit"
    BY <2>2, Zenon DEF Done, Goto, Return, Call
  <2> QED
    BY <2>1, <2>2
<1>3. \/ pc'[c] = "sync_db" /\ arg[c] = "commit"
      \/ pc'[c] = "idle"
  BY <1>2 DEF IInv, Types
<1>4. Apart(c)
  BY <1>1, <1>2, MovesApart DEF IInv
<1>5. InPlace(c)'
  BY <1>1, <1>3 DEF MarkInv, InPlace, Copying
<1>6. Stays(c)
  <2>1. CASE UNCHANGED wf
    BY <1>1, <1>3, <2>1, Zenon DEF Stays, Holding, Bounded, MarkInv, LockTypes
  <2>2. CASE wf' = [wf EXCEPT ![c] = NewWalFile] /\ arg[c] = "close"
    <3>1. wf'[c].slot = 0 /\ transaction_state[c] = "None"
      BY <1>1, <2>2 DEF IInv, Targets, NewWalFile, MarkInv, InPlace, Copying
    <3>2. 0 \in Slot
      BY SlotsAssumption DEF Slot
    <3> QED
      BY <1>1, <1>3, <2>2, <3>1, <3>2 DEF Stays, Holding, Bounded
  <2> QED
    BY <1>2, <2>1, <2>2
<1> QED
  BY <1>1, <1>4, <1>5, <1>6 DEF Marking, Kept

LEMMA MarkingNext ==
  ASSUME IInv, MarkInv, \A d \in Conn : "rollback_to" \notin Ops[d],
         NEW c \in Conn, Client(c) \/ Step(c)
  PROVE  Marking(c)
<1>1. CASE Step(c)
  BY <1>1, MarkingLockRead, MarkingBeginWrite, MarkingSavepointFlushed, MarkingQuiet, MarkingMoves,
     MarkingEndTx, MarkingCheckpoint, MarkingDone, Zenon DEF Step
<1>2. CASE Client(c)
  <2>1. \A i : ~RollbackTo(c, i)
    BY Zenon DEF RollbackTo
  <2> QED
    BY <1>2, <2>1, MarkingQuiet, MarkingTransaction, MarkingCommit, MarkingRollback, MarkingMoves,
       MarkingCheckpoint, Zenon DEF Client
<1> QED
  BY <1>1, <1>2

LEMMA NextMarkInv ==
  IsFiniteSet(Conn) /\ (\A d \in Conn : "rollback_to" \notin Ops[d])
    => (IInv /\ MarkInv /\ [Next]_vars => MarkInv')
<1> SUFFICES ASSUME IsFiniteSet(Conn), \A d \in Conn : "rollback_to" \notin Ops[d],
                    IInv, MarkInv, [Next]_vars
             PROVE  MarkInv'
  OBVIOUS
<1>1. CASE UNCHANGED vars
  <2>1. UNCHANGED <<read_locks, wf, pc, arg, dirty_pages, transaction_state>>
    BY <1>1, Zenon DEF vars, locks, pager, txn, ctl
  <2>2. LockTypes' /\ Marked' /\ \A c \in Conn : InPlace(c)'
    BY <2>1, Zenon DEF MarkInv, LockTypes, Marked, Bounded, InPlace
  <2>3. Counted'
    <3>1. \A i : Holders(i)' = Holders(i)
      BY <2>1, Zenon DEF Holders, Holding
    <3> QED
      BY <2>1, <3>1, Zenon DEF MarkInv, Counted
  <2> QED
    BY <2>2, <2>3 DEF MarkInv
<1>2. ASSUME NEW c \in Conn, Client(c) \/ Step(c) PROVE MarkInv'
  <2>1. Marking(c)
    BY <1>2, MarkingNext, Zenon
  <2>2. LockTypes' /\ Counted' /\ Marked'
    BY <2>1, KeptOrCleared, AdoptedMarks, LockedMarks, FreedMarks, Zenon DEF Marking, Kept, IInv
  <2>3. ASSUME NEW d \in Conn PROVE InPlace(d)'
    <3>1. CASE d = c
      BY <2>1, <3>1 DEF Marking
    <3>2. CASE d # c
      <4>1. InPlace(d)
        BY DEF MarkInv
      <4>2. /\ pc'[d] = pc[d] /\ arg'[d] = arg[d] /\ transaction_state'[d] = transaction_state[d]
            /\ dirty_pages'[d] = dirty_pages[d]
        BY <2>1, <3>2, Zenon DEF Marking, Apart
      <4> QED
        BY <4>1, <4>2, Zenon DEF InPlace
    <3> QED
      BY <3>1, <3>2, Zenon
  <2> QED
    BY <2>2, <2>3, Zenon DEF MarkInv
<1> QED
  BY <1>1, <1>2 DEF Next

LEMMA InitMarkInv == IsFiniteSet(Conn) /\ Init => MarkInv
<1> SUFFICES ASSUME IsFiniteSet(Conn), Init PROVE MarkInv
  OBVIOUS
<1>1. /\ read_locks = [i \in Slot |-> [nreads |-> 0, value |-> NotUsed]]
      /\ \A c \in Conn : /\ wf[c] = NewWalFile /\ transaction_state[c] = "None"
                         /\ pc[c] = "idle" /\ dirty_pages[c] = {}
      /\ DOMAIN dirty_pages = Conn
  BY DEF Init
<1>2. 0 \in Slot /\ NotUsed \in Nat
  BY SlotsAssumption, BoundsAssumption DEF Slot, NotUsed
<1>3. LockTypes
  <2>1. read_locks \in [Slot -> [nreads : Nat, value : Nat]]
    BY <1>1, <1>2
  <2>2. \A c \in Conn : wf[c].slot = 0
    BY <1>1 DEF NewWalFile
  <2> QED
    BY <1>1, <1>2, <2>1, <2>2, Zenon DEF LockTypes
<1>4. Marked /\ \A c \in Conn : InPlace(c)
  BY <1>1 DEF Marked, Bounded, InPlace, Copying
<1>5. ASSUME NEW i \in Slot PROVE Cardinality(Holders(i)) <= read_locks[i].nreads
  <2>1. Holders(i) = {} /\ read_locks[i].nreads = 0
    BY <1>1 DEF Holders, Holding
  <2> QED
    BY <2>1, FS_EmptySet
<1> QED
  BY <1>3, <1>4, <1>5 DEF MarkInv, Counted

\* A reader's mark stays in the lock it holds and the lock keeps counting it,
\* whatever the connections of a thread do but ROLLBACK TO: that one moves the
\* reader's frame without the mark.
THEOREM MarksStay ==
  IsFiniteSet(Conn) /\ (\A d \in Conn : "rollback_to" \notin Ops[d])
    => (Spec => []MarkPinned)
<1> SUFFICES ASSUME IsFiniteSet(Conn), \A d \in Conn : "rollback_to" \notin Ops[d]
             PROVE  Spec => []MarkPinned
  OBVIOUS
<1>1. IInv /\ MarkInv /\ [Next]_vars => MarkInv'
  BY NextMarkInv
<1>2. Init => MarkInv
  BY InitMarkInv
<1>3. MarkInv => MarkPinned
  <2> SUFFICES ASSUME MarkInv, NEW c \in Conn, transaction_state[c] = "Read" PROVE
                 /\ read_locks[wf[c].slot].nreads > 0
                 /\ read_locks[wf[c].slot].value = wf[c].max_frame
    BY DEF MarkPinned
  <2>1. Holding(c) /\ Bounded(c)
    BY DEF Holding, Bounded
  <2> QED
    BY <2>1, HeldIsCounted, Zenon DEF MarkInv, Marked
<1> QED
  BY <1>1, <1>2, <1>3, InitIInv, NextIInv, PTL DEF Spec

=============================================================================
