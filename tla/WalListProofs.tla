--------------------------- MODULE WalListProofs ---------------------------
(***************************************************************************)
(* The checkpoint's work list: what retain() leaves of a list, that        *)
(* pages_in_frames is exactly the set of pages with frames, each once, and *)
(* that a checkpoint's position stays within it.                           *)
(***************************************************************************)
EXTENDS WalProofs, FiniteSetTheorems

-----------------------------------------------------------------------------
(* The list that retain() leaves                                           *)

\* How many of the first i elements of s are in S.
Upto(s, S, i) == Cardinality({j \in 1..i : s[j] \in S})

LEMMA UptoGrows ==
  ASSUME NEW s, NEW S, NEW i \in Nat
  PROVE  /\ Upto(s, S, i) \in Nat
         /\ Upto(s, S, i + 1) = IF s[i + 1] \in S THEN Upto(s, S, i) + 1 ELSE Upto(s, S, i)
         /\ \A k \in 0..i : Upto(s, S, k) \in Nat /\ Upto(s, S, k) <= Upto(s, S, i)
<1> DEFINE Idx(k) == {j \in 1..k : s[j] \in S}
<1>1. \A k \in Nat : IsFiniteSet(Idx(k)) /\ Cardinality(Idx(k)) \in Nat
  <2> TAKE k \in Nat
  <2>1. IsFiniteSet(1..k) /\ Idx(k) \in SUBSET (1..k)
    BY FS_Interval
  <2>2. IsFiniteSet(Idx(k))
    <3> HIDE DEF Idx
    <3> QED
      BY <2>1, FS_Subset
  <2> HIDE DEF Idx
  <2> QED
    BY <2>2, FS_CardinalityType
<1>2. Cardinality(Idx(i + 1)) = IF s[i + 1] \in S THEN Cardinality(Idx(i)) + 1 ELSE Cardinality(Idx(i))
  <2>1. CASE s[i + 1] \in S
    <3>1. Idx(i + 1) = Idx(i) \cup {i + 1} /\ i + 1 \notin Idx(i)
      BY <2>1
    <3> HIDE DEF Idx
    <3> QED
      BY <1>1, <2>1, <3>1, FS_AddElement
  <2>2. CASE s[i + 1] \notin S
    <3>1. Idx(i + 1) = Idx(i)
      <4>1. \A j : j \in 1..(i + 1) <=> j \in 1..i \/ j = i + 1
        OBVIOUS
      <4> QED
        BY <2>2, <4>1
    <3> HIDE DEF Idx
    <3> QED
      BY <2>2, <3>1
  <2> QED
    BY <2>1, <2>2
<1>3. \A k \in 0..i : Cardinality(Idx(k)) <= Cardinality(Idx(i))
  <2> TAKE k \in 0..i
  <2>1. Idx(k) \in SUBSET Idx(i)
    OBVIOUS
  <2> HIDE DEF Idx
  <2> QED
    BY <1>1, <2>1, FS_Subset
<1>4. \A k : Upto(s, S, k) = Cardinality(Idx(k))
  BY DEF Upto
<1> HIDE DEF Idx
<1> QED
  BY <1>1, <1>2, <1>3, <1>4

\* Every place of the list that is left comes from a place of the old one.
LEMMA UptoReaches ==
  ASSUME NEW s, NEW S, NEW n \in Nat, NEW k \in 1..Upto(s, S, n)
  PROVE  \E i \in 1..n : s[i] \in S /\ Upto(s, S, i) = k
<1> DEFINE Less == {i \in 0..n : Upto(s, S, i) < k}
<1>1. Upto(s, S, n) \in Nat /\ k \in Nat /\ k >= 1 /\ \A i \in 0..n : Upto(s, S, i) \in Nat
  BY UptoGrows
<1>2. Upto(s, S, 0) = 0
  <2>1. {j \in 1..0 : s[j] \in S} = {}
    OBVIOUS
  <2> QED
    BY <2>1, FS_EmptySet DEF Upto
<1>3. 0 \in Less /\ n \notin Less
  BY <1>1, <1>2
<1>4. PICK i \in Less : \A y \in Less : i >= y
  BY <1>3, LargestExists, Zenon
<1>5. i \in Nat /\ i + 1 \in 1..n /\ i + 1 \notin Less
  BY <1>3, <1>4
<1>6. Upto(s, S, i) < k /\ ~(Upto(s, S, i + 1) < k)
  BY <1>4, <1>5
<1>7. Upto(s, S, i + 1) = IF s[i + 1] \in S THEN Upto(s, S, i) + 1 ELSE Upto(s, S, i)
  BY <1>5, UptoGrows
<1>8. s[i + 1] \in S /\ Upto(s, S, i + 1) = k
  BY <1>1, <1>5, <1>6, <1>7
<1> QED
  BY <1>5, <1>8

\* retain() keeps what it is told to keep, and makes no duplicates.
LEMMA RetainedList ==
  ASSUME NEW T, NEW s \in Seq(T), NEW S
  PROVE  /\ Retained(s, S) \in Seq(T)
         /\ Range(Retained(s, S)) = Range(s) \cap S
         /\ (\A i, j \in DOMAIN s : s[i] = s[j] => i = j)
            => \A i, j \in DOMAIN Retained(s, S) : Retained(s, S)[i] = Retained(s, S)[j] => i = j
<1> DEFINE t == Retained(s, S)
           n == Len(s)
           from(k) == CHOOSE i \in 1..n : s[i] \in S /\ Upto(s, S, i) = k
<1>1. n \in Nat /\ DOMAIN s = 1..n /\ \A i \in 1..n : s[i] \in T
  BY LenProperties, ElementOfSeq
<1>2. t = [k \in 1..Upto(s, S, n) |-> s[from(k)]]
  BY DEF Retained, Upto
<1>3. \A k \in 1..Upto(s, S, n) : from(k) \in 1..n /\ s[from(k)] \in S /\ Upto(s, S, from(k)) = k
  <2> TAKE k \in 1..Upto(s, S, n)
  <2>1. \E i \in 1..n : s[i] \in S /\ Upto(s, S, i) = k
    BY <1>1, UptoReaches
  <2> QED
    BY <2>1
<1> HIDE DEF n, from, t
<1>4. Upto(s, S, n) \in Nat
  BY <1>1, UptoGrows
<1>5. t \in Seq(T) /\ DOMAIN t = 1..Upto(s, S, n)
  BY <1>1, <1>2, <1>3, <1>4
<1>6. Range(t) \subseteq Range(s) \cap S
  BY <1>1, <1>2, <1>3, <1>5 DEF Range
<1>7. Range(s) \cap S \subseteq Range(t)
  <2> SUFFICES ASSUME NEW i \in 1..n, s[i] \in S PROVE s[i] \in Range(t)
    BY <1>1 DEF Range
  <2>1. \A a, b \in 1..n : a < b /\ s[b] \in S => Upto(s, S, a) < Upto(s, S, b)
    <3> SUFFICES ASSUME NEW a \in 1..n, NEW b \in 1..n, a < b, s[b] \in S
                 PROVE  Upto(s, S, a) < Upto(s, S, b)
      OBVIOUS
    <3>1. PICK m \in Nat : a \in 0..m /\ m + 1 = b
      <4>1. b - 1 \in Nat /\ a \in 0..(b - 1) /\ (b - 1) + 1 = b
        BY <1>1
      <4> QED
        BY <4>1
    <3>2. Upto(s, S, m) \in Nat /\ Upto(s, S, b) = Upto(s, S, m) + 1
      BY <3>1, UptoGrows, Zenon
    <3>3. Upto(s, S, a) \in Nat /\ Upto(s, S, a) <= Upto(s, S, m)
      BY <3>1, UptoGrows
    <3> QED
      BY <3>2, <3>3
  <2>2. i \in Nat /\ Upto(s, S, i) \in Nat /\ Upto(s, S, i) <= Upto(s, S, n)
    BY <1>1, UptoGrows
  <2>3. Upto(s, S, i) # 0
    <3>1. PICK m \in Nat : m + 1 = i
      <4>1. i - 1 \in Nat /\ (i - 1) + 1 = i
        BY <1>1
      <4> QED
        BY <4>1
    <3>2. Upto(s, S, m) \in Nat /\ Upto(s, S, i) = Upto(s, S, m) + 1
      BY <3>1, UptoGrows, Zenon
    <3> QED
      BY <3>2
  <2> DEFINE k == Upto(s, S, i)
  <2>4. k \in 1..Upto(s, S, n)
    BY <1>4, <2>2, <2>3
  <2>5. from(k) \in 1..n /\ s[from(k)] \in S /\ Upto(s, S, from(k)) = k
    BY <1>3, <2>4, Zenon
  <2>6. ~(from(k) < i) /\ ~(i < from(k))
    BY <2>1, <2>2, <2>5
  <2>7. from(k) = i
    BY <1>1, <2>5, <2>6
  <2>8. t[k] = s[i]
    BY <1>2, <2>4, <2>7
  <2> QED
    BY <1>5, <2>4, <2>8 DEF Range
<1>8. ASSUME \A i, j \in DOMAIN s : s[i] = s[j] => i = j, NEW i \in DOMAIN t, NEW j \in DOMAIN t, t[i] = t[j]
      PROVE  i = j
  <2>1. s[from(i)] = s[from(j)]
    BY <1>2, <1>5, <1>8
  <2>2. from(i) \in 1..n /\ from(j) \in 1..n /\ Upto(s, S, from(i)) = i /\ Upto(s, S, from(j)) = j
    BY <1>3, <1>5, Zenon
  <2>3. from(i) = from(j)
    BY <1>1, <1>8, <2>1, <2>2, Zenon
  <2> QED
    BY <2>2, <2>3
<1>9. t \in Seq(T) /\ Range(t) = Range(s) \cap S
  BY <1>5, <1>6, <1>7
<1> QED
  BY <1>8, <1>9, Zenon DEF t

-----------------------------------------------------------------------------
(* The work list of the checkpoint                                         *)

\* The edits of the index and of the list: one frame more, retain() of both, or
\* both emptied.
Edited ==
  \/ UNCHANGED <<frame_cache, pages_in_frames>>
  \/ \E c \in Conn, p \in Page : append_frame(c, p)
  \/ \E keep : Retain(keep)
  \/ frame_cache' = Empty /\ pages_in_frames' = <<>>

LEMMA StepEdits == ASSUME NEW c \in Conn, Step(c) PROVE Edited
<1>1. CASE \E p \in Page : FlushPage(c, p)
  BY <1>1, Zenon DEF FlushPage, Edited
<1>2. CASE Done(c)
  BY <1>2, Zenon DEF Done, Backfilled, Edited
<1>3. CASE LockRead(c) \/ begin_write_tx(c) \/ SavepointFlushed(c) \/ Flushed(c)
  BY <1>3 DEF LockRead, begin_write_tx, SavepointFlushed, Flushed, shared, Edited
<1>4. CASE SyncWal(c) \/ SyncDb(c) \/ end_tx(c)
  BY <1>4 DEF SyncWal, SyncDb, end_tx, shared, Edited
<1>5. CASE ReadFrame(c) \/ FrameRead(c) \/ PageWritten(c)
  BY <1>5 DEF ReadFrame, FrameRead, PageWritten, shared, Edited
<1> QED
  BY <1>1, <1>2, <1>3, <1>4, <1>5, Zenon DEF Step

LEMMA ClientEdits == ASSUME NEW c \in Conn, Client(c) PROVE Edited
<1>1. CASE Begin(c) \/ Commit(c) \/ Fail(c) \/ FailInTx(c) \/ OpenSavepoint(c)
  BY <1>1 DEF Begin, Commit, Fail, FailInTx, OpenSavepoint, shared, Edited
<1>2. CASE TransactionRead(c) \/ \E what \in {"write", "savepoint"} : TransactionWrite(c, what)
  <2>1. UNCHANGED shared
    BY <1>2, Zenon DEF TransactionRead, TransactionWrite, StartRead
  <2> QED
    BY <2>1 DEF shared, Edited
<1>3. CASE \E what \in {"checkpoint", "checkpoint_in_tx", "close"} : StartCheckpoint(c, what)
  BY <1>3 DEF StartCheckpoint, shared, Edited
<1>4. CASE \E p \in Page : ReadPage(c, p) \/ WritePage(c, p)
  BY <1>4 DEF ReadPage, WritePage, shared, Edited
<1>5. CASE Rollback(c)
  BY <1>5, Zenon DEF Rollback, rollback_to_frame, Edited
<1>6. CASE \E i \in 1..MaxDepth : RollbackTo(c, i)
  BY <1>6, Zenon DEF RollbackTo, rollback_to_frame, Edited
<1>7. CASE \E i \in 1..MaxDepth : Release(c, i)
  BY <1>7 DEF Release, shared, Edited
<1> QED
  BY <1>1, <1>2, <1>3, <1>4, <1>5, <1>6, <1>7, Zenon DEF Client

ListInv == pages_in_frames \in Seq(Page) /\ PageListMatches

LEMMA InitListInv == Init => ListInv
<1> SUFFICES ASSUME Init PROVE ListInv
  OBVIOUS
<1>1. pages_in_frames = <<>> /\ \A p \in Page : frame_cache[p] = {}
  BY DEF Init, Empty
<1> QED
  BY <1>1 DEF ListInv, PageListMatches

\* The list in the words of the lemmas on sequences.
LEMMA ListRange ==
  ASSUME pages_in_frames \in Seq(Page)
  PROVE  PageListMatches <=>
           /\ Range(pages_in_frames) = {p \in Page : frame_cache[p] # {}}
           /\ \A i, j \in DOMAIN pages_in_frames : pages_in_frames[i] = pages_in_frames[j] => i = j
  BY Zenon DEF PageListMatches, Range

LEMMA NewList ==
  ASSUME NEW t \in Seq(Page), pages_in_frames' = t,
         Range(t) = {p \in Page : frame_cache'[p] # {}},
         \A i, j \in DOMAIN t : t[i] = t[j] => i = j
  PROVE  ListInv'
<1>1. {t[i] : i \in DOMAIN t} = {p \in Page : frame_cache'[p] # {}}
  BY DEF Range
<1>2. {pages_in_frames'[i] : i \in DOMAIN pages_in_frames'} = {p \in Page : frame_cache'[p] # {}}
  BY <1>1
<1>3. \A i, j \in DOMAIN pages_in_frames' : pages_in_frames'[i] = pages_in_frames'[j] => i = j
  OBVIOUS
<1> QED
  BY <1>2, <1>3 DEF ListInv, PageListMatches

LEMMA AppendKeepsList ==
  ASSUME Types, ListInv, NEW c \in Conn, NEW p \in Page, append_frame(c, p) PROVE ListInv'
<1>1. /\ frame_cache' = [frame_cache EXCEPT ![p] = @ \cup {max_frame + 1}]
      /\ pages_in_frames' = IF frame_cache[p] = {} THEN Append(pages_in_frames, p)
                                                  ELSE pages_in_frames
  BY DEF append_frame
<1>2. {q \in Page : frame_cache'[q] # {}} = {q \in Page : frame_cache[q] # {}} \cup {p}
  BY <1>1, Zenon DEF Types
<1> DEFINE l == pages_in_frames
<1>3. /\ l \in Seq(Page) /\ Range(l) = {q \in Page : frame_cache[q] # {}}
      /\ \A i, j \in DOMAIN l : l[i] = l[j] => i = j
  BY ListRange DEF ListInv
<1>4. CASE frame_cache[p] # {}
  <2>1. UNCHANGED pages_in_frames
    BY <1>1, <1>4
  <2>2. {q \in Page : frame_cache'[q] # {}} = {q \in Page : frame_cache[q] # {}}
    BY <1>2, <1>4
  <2>3. Range(l) = {q \in Page : frame_cache'[q] # {}} /\ pages_in_frames' = l
    BY <1>3, <2>1, <2>2, Zenon
  <2> HIDE DEF l
  <2> QED
    BY <1>3, <2>3, NewList, Zenon
<1>5. CASE frame_cache[p] = {}
  <2>1. pages_in_frames' = Append(l, p) /\ p \notin Range(l)
    BY <1>1, <1>3, <1>5
  <2> HIDE DEF l
  <2>2. /\ Append(l, p) \in Seq(Page) /\ Len(Append(l, p)) = Len(l) + 1 /\ Len(l) \in Nat
        /\ DOMAIN l = 1..Len(l) /\ DOMAIN Append(l, p) = 1..(Len(l) + 1)
        /\ Append(l, p)[Len(l) + 1] = p /\ \A i \in 1..Len(l) : Append(l, p)[i] = l[i]
    BY <1>3, AppendProperties, LenProperties
  <2>3. {Append(l, p)[i] : i \in DOMAIN Append(l, p)} = Range(l) \cup {p}
    BY <2>2 DEF Range
  <2>4. \A i \in DOMAIN l : l[i] \in Range(l)
    BY DEF Range
  <2>5. \A i, j \in DOMAIN Append(l, p) : Append(l, p)[i] = Append(l, p)[j] => i = j
    <3> SUFFICES ASSUME NEW i \in 1..(Len(l) + 1), NEW j \in 1..(Len(l) + 1),
                        Append(l, p)[i] = Append(l, p)[j]
                 PROVE  i = j
      BY <2>2
    <3>1. (i \in 1..Len(l) \/ i = Len(l) + 1) /\ (j \in 1..Len(l) \/ j = Len(l) + 1)
      BY <2>2
    <3>2. CASE i \in 1..Len(l) /\ j \in 1..Len(l)
      BY <1>3, <2>2, <3>2, Zenon
    <3>3. CASE i = Len(l) + 1 /\ j \in 1..Len(l)
      BY <2>1, <2>2, <2>4, <3>3, Zenon
    <3>4. CASE i \in 1..Len(l) /\ j = Len(l) + 1
      BY <2>1, <2>2, <2>4, <3>4, Zenon
    <3> QED
      BY <3>1, <3>2, <3>3, <3>4
  <2> QED
    <3>1. Range(Append(l, p)) = {q \in Page : frame_cache'[q] # {}}
      BY <1>2, <1>3, <2>3, Zenon DEF Range, l
    <3> QED
      BY <2>1, <2>2, <2>5, <3>1, NewList, Zenon
<1> QED
  BY <1>4, <1>5

LEMMA RetainKeepsList ==
  ASSUME Types, ListInv, NEW keep, Retain(keep) PROVE ListInv'
<1> DEFINE kept == [p \in Page |-> frame_cache[p] \cap keep]
           S == {p \in Page : kept[p] # {}}
           l == pages_in_frames
<1>1. frame_cache' = kept /\ pages_in_frames' = Retained(l, S)
  BY DEF Retain
<1>2. l \in Seq(Page) /\ Range(l) = {q \in Page : frame_cache[q] # {}}
      /\ \A i, j \in DOMAIN l : l[i] = l[j] => i = j
  BY ListRange DEF ListInv
<1>3. Range(l) \cap S = S
  BY <1>2, Zenon
<1>4. {p \in Page : frame_cache'[p] # {}} = S
  BY <1>1
<1> HIDE DEF kept, S, l
<1> DEFINE t == Retained(l, S)
<1>5. t \in Seq(Page) /\ Range(t) = S /\ \A i, j \in DOMAIN t : t[i] = t[j] => i = j
  BY <1>2, <1>3, RetainedList, Zenon
<1>6. pages_in_frames' = t
  BY <1>1
<1> HIDE DEF t
<1> QED
  BY <1>4, <1>5, <1>6, NewList, Zenon

LEMMA NextListInv == Types /\ ListInv /\ [Next]_vars => ListInv'
<1> SUFFICES ASSUME Types, ListInv, [Next]_vars PROVE ListInv'
  OBVIOUS
<1>1. Edited
  <2>1. CASE Next
    BY <2>1, StepEdits, ClientEdits, Zenon DEF Next
  <2>2. CASE UNCHANGED vars
    BY <2>2 DEF vars, shared, Edited
  <2> QED
    BY <2>1, <2>2
<1>2. CASE UNCHANGED <<frame_cache, pages_in_frames>>
  BY <1>2 DEF ListInv, PageListMatches
<1>3. CASE \E c \in Conn, p \in Page : append_frame(c, p)
  BY <1>3, AppendKeepsList, Zenon
<1>4. CASE \E keep : Retain(keep)
  BY <1>4, RetainKeepsList, Zenon
<1>5. CASE frame_cache' = Empty /\ pages_in_frames' = <<>>
  <2>1. \A p \in Page : frame_cache'[p] = {}
    BY <1>5 DEF Empty
  <2> QED
    BY <1>5, <2>1 DEF ListInv, PageListMatches
<1> QED
  BY <1>1, <1>2, <1>3, <1>4, <1>5, Zenon DEF Edited

\* A page is in the checkpoint's work list exactly once if it has frames, and not
\* otherwise, whatever interleaving of appends, rollbacks, ROLLBACK TO, trims and
\* resets edits the list and the index.
THEOREM WorkListComplete == Spec => []PageListMatches
<1>1. IInv => Types
  BY DEF IInv
<1>2. ListInv => PageListMatches
  BY DEF ListInv
<1> QED
  BY <1>1, <1>2, InitIInv, NextIInv, InitListInv, NextListInv, PTL DEF Spec

-----------------------------------------------------------------------------
(* The position of a checkpoint in the list                                *)

CkFields == {"min_frame", "max_frame", "current_page", "page", "frame", "touched"}

PositionInv ==
  /\ DOMAIN ck = Conn
  /\ \A c \in Conn : DOMAIN ck[c] = CkFields /\ ck[c].current_page \in Nat
  /\ CheckpointInBounds

LEMMA NewCheckpoint == DOMAIN NoCheckpoint = CkFields /\ NoCheckpoint.current_page = 0
<1>1. DOMAIN NoCheckpoint = CkFields
  BY Zenon DEF NoCheckpoint, CkFields
<1>2. NoCheckpoint.current_page = 0
  BY DEF NoCheckpoint
<1> QED
  BY <1>1, <1>2

\* Only c moves, and only while nobody else is inside a call.
Moved(c) ==
  /\ Runs(c)
  /\ UNCHANGED pc \/ \E l : pc' = [pc EXCEPT ![c] = l]
  /\ UNCHANGED ck \/ \E r : ck' = [ck EXCEPT ![c] = r]

\* What a step of c does to its place in the list.
Placed(c) ==
  \/ pc'[c] # "ReadFrame" /\ (ck'[c] = ck[c] \/ ck'[c] = NoCheckpoint)
  \/ \E a, b : ck'[c] = [NoCheckpoint EXCEPT !.min_frame = a, !.max_frame = b]
               /\ UNCHANGED pages_in_frames
  \/ /\ ck[c].current_page < Len(pages_in_frames) /\ UNCHANGED pages_in_frames
     /\ \/ ck'[c] = [ck[c] EXCEPT !.current_page = @ + 1]
        \/ \E a, b, d : ck'[c] = [ck[c] EXCEPT !.frame = a, !.page = b, !.touched = d]

\* Steps that have nothing to do with a checkpoint.
LEMMA MovesElsewhere ==
  ASSUME NEW c \in Conn, pc \in [Conn -> Labels], Runs(c), UNCHANGED ck, pc[c] # "ReadFrame",
         NEW l, l # "ReadFrame", UNCHANGED pc \/ pc' = [pc EXCEPT ![c] = l]
  PROVE  Moved(c) /\ Placed(c)
<1>1. pc'[c] # "ReadFrame"
  OBVIOUS
<1> QED
  BY <1>1, Zenon DEF Moved, Placed

LEMMA ClientMoves ==
  ASSUME Types, NEW c \in Conn, Client(c),
         ~\E what \in {"checkpoint", "checkpoint_in_tx", "close"} : StartCheckpoint(c, what)
  PROVE  Moved(c) /\ Placed(c)
<1>1. pc[c] = "idle" /\ Runs(c)
  <2>1. Idle(c)
    BY Zenon DEF Client, Begin, TransactionRead, Commit, Rollback, Fail, FailInTx, OpenSavepoint,
                 TransactionWrite, ReadPage, WritePage, RollbackTo, Release
  <2> QED
    BY <2>1 DEF Idle
<1>2. UNCHANGED ck
  <2>1. CASE Begin(c) \/ TransactionRead(c) \/ Commit(c) \/ Rollback(c) \/ Fail(c) \/ FailInTx(c) \/ OpenSavepoint(c)
    BY <2>1, Zenon DEF Begin, TransactionRead, StartRead, Commit, Rollback, Fail, FailInTx, OpenSavepoint
  <2>2. CASE \E what \in {"write", "savepoint"} : TransactionWrite(c, what)
    BY <2>2, Zenon DEF TransactionWrite, StartRead
  <2>3. CASE \E p \in Page : ReadPage(c, p) \/ WritePage(c, p)
    BY <2>3, Zenon DEF ReadPage, WritePage
  <2>4. CASE \E i \in 1..MaxDepth : RollbackTo(c, i) \/ Release(c, i)
    BY <2>4, Zenon DEF RollbackTo, Release
  <2> QED
    BY <2>1, <2>2, <2>3, <2>4, Zenon DEF Client
<1>3. UNCHANGED pc \/ \E l \in {"lock_read", "begin_write", "append"} : pc' = [pc EXCEPT ![c] = l]
  <2> USE DEF Goto, ctl
  <2>1. CASE TransactionRead(c) \/ \E what \in {"write", "savepoint"} : TransactionWrite(c, what)
    <3>1. \/ \E what : StartRead(c, what)
          \/ pc' = [pc EXCEPT ![c] = "begin_write"]
      BY <2>1, Zenon DEF TransactionRead, TransactionWrite
    <3>2. ASSUME NEW what, StartRead(c, what)
          PROVE  UNCHANGED ctl \/ pc' = [pc EXCEPT ![c] = "lock_read"]
      BY <3>2, Zenon DEF StartRead, Adopt
    <3> QED
      BY <3>1, <3>2
  <2>2. CASE Commit(c) \/ OpenSavepoint(c)
    BY <2>2 DEF Commit, OpenSavepoint
  <2>3. CASE Begin(c) \/ Rollback(c) \/ Fail(c) \/ FailInTx(c)
    BY <2>3, Zenon DEF Begin, Rollback, Fail, FailInTx
  <2>4. CASE \E p \in Page : ReadPage(c, p) \/ WritePage(c, p)
    BY <2>4 DEF ReadPage, WritePage
  <2>5. CASE \E i \in 1..MaxDepth : RollbackTo(c, i) \/ Release(c, i)
    BY <2>5, Zenon DEF RollbackTo, Release
  <2> QED
    BY <2>1, <2>2, <2>3, <2>4, <2>5, Zenon DEF Client
<1>4. PICK l : l # "ReadFrame" /\ (UNCHANGED pc \/ pc' = [pc EXCEPT ![c] = l])
  BY <1>3
<1> QED
  BY <1>1, <1>2, <1>4, MovesElsewhere DEF Types

LEMMA StepMoves ==
  ASSUME Types, ListInv, PositionInv, NEW c \in Conn,
         \/ Step(c)
         \/ \E what \in {"checkpoint", "checkpoint_in_tx", "close"} : StartCheckpoint(c, what)
  PROVE  Moved(c) /\ Placed(c)
<1> USE DEF Goto
<1>1. CASE \/ LockRead(c) \/ begin_write_tx(c) \/ SavepointFlushed(c) \/ Flushed(c)
           \/ SyncDb(c) \/ end_tx(c) \/ FrameRead(c) \/ \E p \in Page : FlushPage(c, p)
  <2>1. Runs(c) /\ UNCHANGED ck /\ pc[c] # "ReadFrame"
    BY <1>1, Zenon DEF LockRead, begin_write_tx, SavepointFlushed, Flushed, SyncDb, end_tx, FrameRead,
                FlushPage
  <2>2. UNCHANGED pc \/ \E l \in {"idle", "begin_write", "sync_wal", "end_tx", "WaitWritePage"} :
                          pc' = [pc EXCEPT ![c] = l]
    BY <1>1, Zenon DEF LockRead, begin_write_tx, SavepointFlushed, Flushed, SyncDb, end_tx, FrameRead,
                FlushPage, Return, ctl
  <2>3. PICK l : l # "ReadFrame" /\ (UNCHANGED pc \/ pc' = [pc EXCEPT ![c] = l])
    BY <2>2
  <2> QED
    BY <2>1, <2>3, MovesElsewhere DEF Types
<1>2. CASE SyncWal(c) /\ ~(max_frame >= Threshold)
  <2>1. Runs(c) /\ UNCHANGED ck /\ pc[c] # "ReadFrame" /\ pc' = [pc EXCEPT ![c] = "end_tx"]
    BY <1>2 DEF SyncWal
  <2>2. "end_tx" # "ReadFrame"
    OBVIOUS
  <2> QED
    BY <2>1, <2>2, MovesElsewhere, Zenon DEF Types
<1>3. CASE \/ SyncWal(c) /\ max_frame >= Threshold
           \/ \E what \in {"checkpoint", "checkpoint_in_tx", "close"} : StartCheckpoint(c, what)
  <2>1. Runs(c) /\ UNCHANGED pages_in_frames /\ CheckpointStart(c)
    BY <1>3, Zenon DEF SyncWal, StartCheckpoint, Idle, shared
  <2>2. PICK a, b : ck' = [ck EXCEPT ![c] = [NoCheckpoint EXCEPT !.min_frame = a, !.max_frame = b]]
    BY <2>1, Zenon DEF CheckpointStart
  <2>3. pc' = [pc EXCEPT ![c] = "ReadFrame"]
    BY <2>1, Zenon DEF CheckpointStart
  <2>4. ck'[c] = [NoCheckpoint EXCEPT !.min_frame = a, !.max_frame = b]
    BY <2>2 DEF PositionInv
  <2> QED
    BY <2>1, <2>2, <2>3, <2>4, Zenon DEF Moved, Placed
<1>4. CASE ReadFrame(c)
  <2>1. /\ Runs(c) /\ UNCHANGED pages_in_frames
        /\ ck[c].current_page <= Len(pages_in_frames)
    BY <1>4 DEF ReadFrame, shared
  <2>2. CASE ck[c].current_page = Len(pages_in_frames)
    <3>1. pc' = [pc EXCEPT ![c] = "Done"] /\ UNCHANGED ck
      BY <1>4, <2>2 DEF ReadFrame
    <3>2. pc'[c] # "ReadFrame"
      BY <3>1 DEF Types
    <3> QED
      BY <2>1, <3>1, <3>2, Zenon DEF Moved, Placed
  <2>3. CASE ck[c].current_page # Len(pages_in_frames)
    <3>1. ck[c].current_page < Len(pages_in_frames)
      BY <2>1, <2>3, LenProperties DEF PositionInv, ListInv
    <3>2. \/ ck' = [ck EXCEPT ![c].current_page = @ + 1] /\ UNCHANGED pc
          \/ \E a, b, d : /\ ck' = [ck EXCEPT ![c].frame = a, ![c].page = b, ![c].touched = d]
                          /\ pc' = [pc EXCEPT ![c] = "WaitReadFrame"]
      <4>1. CASE Candidates(c) = {}
        BY <1>4, <2>3, <4>1, Zenon DEF ReadFrame
      <4>2. CASE Candidates(c) # {}
        <5> DEFINE page == pages_in_frames[ck[c].current_page + 1]
                   frame == Max(Candidates(c))
        <5>1. /\ ck' = [ck EXCEPT ![c].frame = frame, ![c].page = page,
                                  ![c].touched = @ \cup {page}]
              /\ pc' = [pc EXCEPT ![c] = "WaitReadFrame"]
          BY <1>4, <2>3, <4>2, Zenon DEF ReadFrame
        <5> HIDE DEF page, frame
        <5>2. ck' = [ck EXCEPT ![c].frame = frame, ![c].page = page,
                               ![c].touched = ck[c].touched \cup {page}]
          BY <5>1 DEF PositionInv, CkFields
        <5> QED
          BY <5>1, <5>2, Zenon
      <4> QED
        BY <4>1, <4>2, Zenon
    <3>3. CASE ck' = [ck EXCEPT ![c].current_page = @ + 1] /\ UNCHANGED pc
      BY <2>1, <3>1, <3>3, Zenon DEF Moved, Placed, PositionInv
    <3>4. CASE \E a, b, d : /\ ck' = [ck EXCEPT ![c].frame = a, ![c].page = b, ![c].touched = d]
                            /\ pc' = [pc EXCEPT ![c] = "WaitReadFrame"]
      <4>1. PICK a, b, d : /\ ck' = [ck EXCEPT ![c].frame = a, ![c].page = b, ![c].touched = d]
                           /\ pc' = [pc EXCEPT ![c] = "WaitReadFrame"]
        BY <3>4, Zenon
      <4> DEFINE r == [ck[c] EXCEPT !.frame = a, !.page = b, !.touched = d]
      <4>2. ck' = [ck EXCEPT ![c] = r]
        BY <4>1, Zenon DEF PositionInv
      <4>3. ck'[c] = r
        BY <4>2 DEF PositionInv
      <4>4. Placed(c)
        BY <2>1, <3>1, <4>3, Zenon DEF Placed
      <4> HIDE DEF r
      <4> QED
        BY <2>1, <4>1, <4>2, <4>4, Zenon DEF Moved
    <3> QED
      BY <3>2, <3>3, <3>4, Zenon
  <2> QED
    BY <2>2, <2>3
<1>5. CASE PageWritten(c)
  <2>1. Runs(c) /\ UNCHANGED pages_in_frames
    BY <1>5 DEF PageWritten, shared
  <2>2. CASE ck[c].current_page < Len(pages_in_frames)
    <3>1. ck' = [ck EXCEPT ![c].current_page = @ + 1] /\ pc' = [pc EXCEPT ![c] = "ReadFrame"]
      BY <1>5, <2>2 DEF PageWritten
    <3> QED
      BY <2>1, <2>2, <3>1, Zenon DEF Moved, Placed, PositionInv
  <2>3. CASE ~(ck[c].current_page < Len(pages_in_frames))
    <3>1. pc' = [pc EXCEPT ![c] = "Done"] /\ UNCHANGED ck
      BY <1>5, <2>3 DEF PageWritten
    <3>2. pc'[c] # "ReadFrame"
      BY <3>1 DEF Types
    <3> QED
      BY <2>1, <3>1, <3>2, Zenon DEF Moved, Placed
  <2> QED
    BY <2>2, <2>3
<1>6. CASE Done(c)
  <2>1. /\ Runs(c) /\ ck' = [ck EXCEPT ![c] = NoCheckpoint]
        /\ \E l \in {"sync_db", "idle"} : pc' = [pc EXCEPT ![c] = l]
    BY <1>6, Zenon DEF Done, Return
  <2>2. pc'[c] # "ReadFrame" /\ ck'[c] = NoCheckpoint
    BY <2>1 DEF Types, PositionInv
  <2> QED
    BY <2>1, <2>2, Zenon DEF Moved, Placed
<1> QED
  BY <1>1, <1>2, <1>3, <1>4, <1>5, <1>6, Zenon DEF Step

LEMMA InitPositionInv == Init => PositionInv
<1> SUFFICES ASSUME Init PROVE PositionInv
  OBVIOUS
<1>1. ck = [c \in Conn |-> NoCheckpoint] /\ \A c \in Conn : pc[c] # "ReadFrame"
  BY DEF Init
<1> QED
  BY <1>1, NewCheckpoint DEF PositionInv, CheckpointInBounds

LEMMA NextPositionInv ==
  Types /\ ListInv /\ PositionInv /\ [Next]_vars => PositionInv'
<1> SUFFICES ASSUME Types, ListInv, PositionInv, [Next]_vars PROVE PositionInv'
  OBVIOUS
<1>1. CASE UNCHANGED vars
  BY <1>1 DEF vars, shared, ctl, PositionInv, CheckpointInBounds
<1>2. CASE Next
  <2>1. PICK c \in Conn : Moved(c) /\ Placed(c)
    BY <1>2, ClientMoves, StepMoves, Zenon DEF Next
  <2>2. \A d \in Conn \ {c} : pc[d] # "ReadFrame" /\ pc'[d] = pc[d] /\ ck'[d] = ck[d]
    BY <2>1 DEF Moved, Runs, MidCall, Types, PositionInv
  <2>3. DOMAIN ck' = Conn
    BY <2>1 DEF Moved, PositionInv
  <2>4. /\ DOMAIN ck'[c] = CkFields /\ ck'[c].current_page \in Nat
        /\ pc'[c] = "ReadFrame" => ck'[c].current_page <= Len(pages_in_frames')
    <3>1. Len(pages_in_frames) \in Nat
      BY LenProperties DEF ListInv
    <3>2. CASE pc'[c] # "ReadFrame" /\ (ck'[c] = ck[c] \/ ck'[c] = NoCheckpoint)
      BY <3>2, NewCheckpoint DEF PositionInv
    <3>3. CASE /\ \E a, b : ck'[c] = [NoCheckpoint EXCEPT !.min_frame = a, !.max_frame = b]
               /\ UNCHANGED pages_in_frames
      <4>1. DOMAIN ck'[c] = CkFields /\ ck'[c].current_page = 0
        BY <3>3, NewCheckpoint DEF CkFields
      <4> QED
        BY <3>1, <3>3, <4>1
    <3>4. CASE /\ ck[c].current_page < Len(pages_in_frames) /\ UNCHANGED pages_in_frames
               /\ ck'[c] = [ck[c] EXCEPT !.current_page = @ + 1]
      BY <3>1, <3>4 DEF PositionInv, CkFields
    <3>5. CASE /\ ck[c].current_page < Len(pages_in_frames) /\ UNCHANGED pages_in_frames
               /\ \E a, b, d : ck'[c] = [ck[c] EXCEPT !.frame = a, !.page = b, !.touched = d]
      BY <3>1, <3>5 DEF PositionInv, CkFields
    <3> QED
      BY <2>1, <3>2, <3>3, <3>4, <3>5, Zenon DEF Placed
  <2> QED
    BY <2>2, <2>3, <2>4 DEF PositionInv, CheckpointInBounds
<1> QED
  BY <1>1, <1>2

\* The assert of CheckpointState::ReadFrame holds for any number of connections that
\* share a thread, though the list may shrink while a commit's checkpoint waits for
\* its I/O.
THEOREM CheckpointStaysInList == Spec => []CheckpointInBounds
<1>1. IInv => Types
  BY DEF IInv
<1>2. PositionInv => CheckpointInBounds
  BY DEF PositionInv
<1>3. Types /\ ListInv /\ PositionInv /\ [Next]_vars => PositionInv'
  BY NextPositionInv
<1> QED
  BY <1>1, <1>2, <1>3, InitIInv, NextIInv, InitListInv, NextListInv, InitPositionInv, PTL DEF Spec

=============================================================================
