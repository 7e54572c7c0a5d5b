--------------------------- MODULE WalViewProofs ---------------------------
(***************************************************************************)
(* Snapshot isolation over the log: any number of connections that read    *)
(* and write in explicit and in autocommit transactions see their own      *)
(* snapshots, and no commit is lost.                                       *)
(***************************************************************************)
EXTENDS WalProofs

-----------------------------------------------------------------------------
(* Snapshots                                                               *)

\* Readers and writers in explicit and in autocommit transactions, and a log
\* that stays below the size at which a commit starts a checkpoint.
Plain ==
  /\ Threshold > MaxFrame
  /\ \A c \in Conn : Ops[c] \subseteq {"begin", "read", "fetch", "write"}

\* The log bounded by frame m shows what was committed when m was its end.
Good(m) == \A p \in Page : Lookup(m, p) = snapshot[m][p]

\* Every mark in a read lock is such a frame.
Marks ==
  \A i \in Slot : \/ read_locks[i].value = NotUsed
                  \/ \E m \in 0..max_frame : read_locks[i].value = m /\ Good(m)

\* While nobody appends, the whole log shows what is committed.
Last ==
  (\A c \in Conn : pc[c] # "append") =>
    \A p \in Page : Lookup(max_frame, p) = committed[p] /\ snapshot[max_frame][p] = committed[p]

\* c has chosen its snapshot.
Views(c) == transaction_state[c] # "None" \/ pc[c] \in {"lock_read", "begin_write"}

\* What c has not written it finds in the log as its snapshot has it.
Sees(c) ==
  Views(c) => \E m \in 0..max_frame :
                wf[c].max_frame = m /\ \A p \in Page \ wrote[c] : Lookup(m, p) = view[c][p]

\* In the middle of its commit: what is flushed is in the log already.
Half(c) ==
  pc[c] = "append" =>
    \A p \in Page : Lookup(max_frame, p) = IF p \in wrote[c] \ dirty_pages[c] THEN view[c][p]
                                                                         ELSE committed[p]

\* What c has written is in its cache until it is flushed.
Calm(c) ==
  /\ pc[c] \in {"idle", "lock_read", "begin_write", "append", "sync_wal", "end_tx"}
  /\ pc[c] = "append" => arg[c] = "commit"
  /\ pc[c] = "begin_write" => transaction_state[c] # "Write"
  /\ pc[c] \in {"sync_wal", "end_tx"} => dirty_pages[c] = {}
  /\ pc[c] \in {"idle", "lock_read", "begin_write"} => dirty_pages[c] = wrote[c]
  /\ dirty_pages[c] \subseteq wrote[c]
  /\ transaction_state[c] # "Write" => wrote[c] = {}
  /\ \A p \in dirty_pages[c] : cache[c][p] = view[c][p] /\ cache[c][p] # NotCached

ViewTypes ==
  /\ read_locks \in [Slot -> [nreads : Nat, value : Nat]]
  /\ writes \in Nat /\ DOMAIN committed = Page
  /\ DOMAIN snapshot = 0..MaxFrame /\ \A m \in 0..MaxFrame : DOMAIN snapshot[m] = Page
  /\ DOMAIN cache = Conn /\ DOMAIN view = Conn
  /\ \A c \in Conn : DOMAIN cache[c] = Page /\ DOMAIN view[c] = Page
  /\ dirty_pages \in [Conn -> SUBSET Page] /\ wrote \in [Conn -> SUBSET Page]

ViewInv ==
  /\ ViewTypes /\ Marks /\ Last
  /\ \A c \in Conn : Calm(c) /\ Sees(c) /\ Half(c)

\* A step of c leaves the other connections where they are.
Own(c) ==
  /\ Runs(c)
  /\ \A d \in Conn \ {c} :
       /\ pc'[d] = pc[d] /\ arg'[d] = arg[d] /\ transaction_state'[d] = transaction_state[d]
       /\ wf'[d] = wf[d] /\ dirty_pages'[d] = dirty_pages[d] /\ cache'[d] = cache[d]
       /\ view'[d] = view[d] /\ wrote'[d] = wrote[d]

\* The log and the history of commits stay as they are.
SameLog == UNCHANGED <<max_frame, frame_cache, log, db, committed, snapshot>>

LEMMA SameGood ==
  ASSUME SameLog, NEW m, Good(m) PROVE Good(m)'
<1>1. UNCHANGED <<frame_cache, log, db>> /\ UNCHANGED snapshot
  BY DEF SameLog
<1>2. \A p \in Page : Lookup(m, p)' = Lookup(m, p)
  BY <1>1, SameLookup
<1> QED
  BY <1>1, <1>2 DEF Good

\* A step that leaves the log, by one who is not appending, keeps the others'.
LEMMA OthersSee ==
  ASSUME ViewInv, NEW c \in Conn, NEW d \in Conn \ {c}, Own(c), SameLog
  PROVE  Calm(d)' /\ Sees(d)' /\ Half(d)'
<1>1. /\ pc'[d] = pc[d] /\ arg'[d] = arg[d] /\ transaction_state'[d] = transaction_state[d]
      /\ wf'[d] = wf[d] /\ dirty_pages'[d] = dirty_pages[d] /\ cache'[d] = cache[d]
      /\ view'[d] = view[d] /\ wrote'[d] = wrote[d]
  BY DEF Own
<1>2. /\ UNCHANGED <<frame_cache, log, db>>
      /\ max_frame' = max_frame /\ committed' = committed
  BY DEF SameLog
<1>3. \A m : \A p \in Page : Lookup(m, p)' = Lookup(m, p)
  BY <1>2, SameLookup
<1>4. Calm(d) /\ Sees(d) /\ Half(d)
  BY DEF ViewInv
<1>5. Calm(d)'
  BY <1>1, <1>4 DEF Calm, NotCached
<1>6. Sees(d)'
  <2> SUFFICES ASSUME Views(d)' PROVE Sees(d)'
    BY DEF Sees
  <2>1. Views(d)
    BY <1>1 DEF Views
  <2>2. PICK m \in 0..max_frame :
          wf[d].max_frame = m /\ \A p \in Page \ wrote[d] : Lookup(m, p) = view[d][p]
    BY <1>4, <2>1 DEF Sees
  <2>3. wf'[d].max_frame = m /\ \A p \in Page \ wrote'[d] : Lookup(m, p)' = view'[d][p]
    BY <1>1, <1>3, <2>2
  <2> QED
    BY <1>2, <2>3 DEF Sees
<1>7. Half(d)'
  <2>1. \A p \in Page : Lookup(max_frame, p)' = Lookup(max_frame, p)
    BY <1>2 DEF Lookup, find_frame
  <2> QED
    BY <1>1, <1>2, <1>4, <2>1 DEF Half
<1> QED
  BY <1>5, <1>6, <1>7

LEMMA Steady ==
  ASSUME ViewInv, NEW c \in Conn, Own(c), SameLog, pc[c] # "append",
         ViewTypes', Marks', Calm(c)', Sees(c)', Half(c)'
  PROVE  ViewInv'
<1>1. Last'
  <2> SUFFICES ASSUME \A d \in Conn : pc'[d] # "append", NEW p \in Page
               PROVE  Lookup(max_frame, p)' = committed'[p] /\ snapshot'[max_frame'][p] = committed'[p]
    BY DEF Last
  <2>1. \A d \in Conn : pc[d] # "append"
    BY DEF Own
  <2>2. Lookup(max_frame, p) = committed[p] /\ snapshot[max_frame][p] = committed[p]
    BY <2>1 DEF ViewInv, Last
  <2>3. Lookup(max_frame, p)' = Lookup(max_frame, p)
    BY DEF SameLog, Lookup, find_frame
  <2> QED
    BY <2>2, <2>3 DEF SameLog
<1>2. \A d \in Conn : Calm(d)' /\ Sees(d)' /\ Half(d)'
  BY OthersSee
<1> QED
  BY <1>1, <1>2 DEF ViewInv

\* The marks stay with the values of the locks.
LEMMA SameValues ==
  ASSUME Marks, SameLog, \A i \in Slot : read_locks'[i].value = read_locks[i].value
  PROVE  Marks'
<1> SUFFICES ASSUME NEW i \in Slot
             PROVE  \/ read_locks'[i].value = NotUsed
                    \/ \E m \in 0..max_frame' : read_locks'[i].value = m /\ Good(m)'
  BY DEF Marks, NotUsed
<1>1. CASE read_locks[i].value = NotUsed
  BY <1>1
<1>2. ASSUME NEW m \in 0..max_frame, read_locks[i].value = m /\ Good(m)
      PROVE  \E n \in 0..max_frame' : read_locks'[i].value = n /\ Good(n)'
  <2>1. Good(m)'
    BY <1>2, SameGood
  <2>2. m \in 0..max_frame' /\ read_locks'[i].value = m
    BY <1>2 DEF SameLog
  <2> QED
    BY <2>1, <2>2
<1> QED
  BY <1>1, <1>2 DEF Marks

\* A step that leaves the log, c's frame and what c has written and sees.
LEMMA StillSees ==
  ASSUME ViewInv, NEW c \in Conn, SameLog, Views(c)' => Views(c),
         wf'[c].max_frame = wf[c].max_frame, view'[c] = view[c], wrote'[c] = wrote[c]
  PROVE  Sees(c)'
<1> SUFFICES ASSUME Views(c)' PROVE Sees(c)'
  BY DEF Sees
<1>1. PICK m \in 0..max_frame :
        wf[c].max_frame = m /\ \A p \in Page \ wrote[c] : Lookup(m, p) = view[c][p]
  BY DEF ViewInv, Sees
<1>2. \A p \in Page : Lookup(m, p)' = Lookup(m, p)
  BY SameLookup DEF SameLog
<1>3. wf'[c].max_frame = m /\ \A p \in Page \ wrote'[c] : Lookup(m, p)' = view'[c][p]
  BY <1>1, <1>2
<1>4. max_frame' = max_frame
  BY DEF SameLog
<1> QED
  BY <1>3, <1>4 DEF Sees

\* A step by c that changes neither its place nor its transaction's pages.
LEMMA SeesQuiet ==
  ASSUME Plain, IInv, ViewInv, NEW c \in Conn, NEW p, Begin(c) \/ ReadPage(c, p)
  PROVE  ViewInv'
<1>1. /\ Idle(c) /\ SameLog /\ UNCHANGED read_locks
      /\ UNCHANGED <<pc, arg, transaction_state, wf, dirty_pages, view, wrote, writes>>
      /\ \/ UNCHANGED cache
         \/ \E x : cache[c][p] = NotCached /\ cache' = [cache EXCEPT ![c][p] = x]
  <2>1. CASE Begin(c)
    BY <2>1 DEF Begin, SameLog, shared, files, locks, pager, ctl, hist
  <2>2. CASE ReadPage(c, p)
    BY <2>2, Zenon DEF ReadPage, SameLog, shared, files, locks, txn, ctl, hist
  <2> QED
    BY <2>1, <2>2
<1>2. Own(c)
  BY <1>1 DEF Own, Idle, ViewInv, ViewTypes
<1>3. ViewTypes'
  BY <1>1 DEF ViewInv, ViewTypes, SameLog
<1>4. Marks'
  BY <1>1, SameValues DEF ViewInv
<1>5. Calm(c)'
  <2>1. \A q \in Page : cache[c][q] # NotCached => cache'[c][q] = cache[c][q]
    BY <1>1 DEF ViewInv, ViewTypes
  <2>2. \A q \in dirty_pages[c] : cache[c][q] # NotCached /\ q \in Page /\ cache[c][q] = view[c][q]
    BY DEF ViewInv, ViewTypes, Calm
  <2> QED
    BY <1>1, <2>1, <2>2 DEF ViewInv, Calm, NotCached
<1>6. Sees(c)'
  BY <1>1, StillSees DEF Views
<1>7. pc[c] # "append" /\ Half(c)'
  BY <1>1 DEF Idle, Half
<1> QED
  BY <1>1, <1>2, <1>3, <1>4, <1>5, <1>6, <1>7, Steady

LEMMA SeesWritePage ==
  ASSUME Plain, IInv, ViewInv, NEW c \in Conn, NEW p \in Page, WritePage(c, p)
  PROVE  ViewInv'
<1>1. /\ Idle(c) /\ SameLog /\ UNCHANGED read_locks
      /\ UNCHANGED <<pc, arg, transaction_state, wf>>
      /\ transaction_state[c] = "Write" /\ writes < MaxWrite
      /\ writes' = writes + 1
      /\ cache' = [cache EXCEPT ![c][p] = writes + 1]
      /\ dirty_pages' = [dirty_pages EXCEPT ![c] = dirty_pages[c] \cup {p}]
      /\ view' = [view EXCEPT ![c][p] = writes + 1]
      /\ wrote' = [wrote EXCEPT ![c] = wrote[c] \cup {p}]
  BY DEF WritePage, SameLog, shared, files, locks, txn, ctl
<1>2. Own(c)
  BY <1>1 DEF Own, Idle, ViewInv, ViewTypes
<1>3. ViewTypes'
  BY <1>1 DEF ViewInv, ViewTypes, SameLog
<1>4. Marks'
  BY <1>1, SameValues DEF ViewInv
<1>5. /\ dirty_pages'[c] = dirty_pages[c] \cup {p} /\ wrote'[c] = wrote[c] \cup {p}
      /\ cache'[c][p] = writes + 1 /\ view'[c][p] = writes + 1
      /\ \A q \in Page \ {p} : cache'[c][q] = cache[c][q] /\ view'[c][q] = view[c][q]
      /\ dirty_pages[c] \subseteq Page /\ writes + 1 # NotCached
  BY <1>1, BoundsAssumption DEF ViewInv, ViewTypes, NotCached
<1>6. Calm(c)'
  <2>1. /\ dirty_pages[c] = wrote[c] /\ pc'[c] = "idle" /\ transaction_state'[c] = "Write"
        /\ \A q \in dirty_pages[c] : cache[c][q] = view[c][q] /\ cache[c][q] # NotCached
    BY <1>1 DEF ViewInv, Calm, Idle
  <2>2. ASSUME NEW q \in dirty_pages'[c] PROVE cache'[c][q] = view'[c][q] /\ cache'[c][q] # NotCached
    BY <1>5, <2>1
  <2> QED
    BY <1>5, <2>1, <2>2 DEF Calm, NotCached
<1>7. Sees(c)'
  <2>1. Views(c)
    BY <1>1 DEF Views
  <2>2. PICK m \in 0..max_frame :
          wf[c].max_frame = m /\ \A q \in Page \ wrote[c] : Lookup(m, q) = view[c][q]
    BY <2>1 DEF ViewInv, Sees
  <2>3. \A q \in Page : Lookup(m, q)' = Lookup(m, q)
    BY <1>1, SameLookup DEF SameLog
  <2>4. wf'[c].max_frame = m /\ \A q \in Page \ wrote'[c] : Lookup(m, q)' = view'[c][q]
    BY <1>1, <1>5, <2>2, <2>3
  <2>5. max_frame' = max_frame
    BY <1>1 DEF SameLog
  <2> QED
    BY <2>4, <2>5 DEF Sees
<1>8. pc[c] # "append" /\ Half(c)'
  BY <1>1 DEF Idle, Half
<1> QED
  BY <1>1, <1>2, <1>3, <1>4, <1>6, <1>7, <1>8, Steady

LEMMA SeesStartRead ==
  ASSUME Plain, IInv, ViewInv, NEW c \in Conn, NEW what, Idle(c), transaction_state[c] = "None",
         StartRead(c, what)
  PROVE  ViewInv'
<1>1. /\ SameLog /\ UNCHANGED <<transaction_state, dirty_pages, cache, wrote, writes>>
      /\ dirty_pages[c] = {} /\ wrote[c] = {} /\ pc[c] = "idle"
  BY Zenon DEF StartRead, SameLog, shared, files, pager, txn, ViewInv, Calm, Idle
<1>2. CASE UNCHANGED <<read_locks, wf, view, ctl>>
  <2>1. UNCHANGED <<read_locks, wf, view, pc, arg>>
    BY <1>2 DEF ctl
  <2>2. Own(c)
    BY <1>1, <2>1 DEF Own, Idle
  <2>3. ViewTypes'
    BY <1>1, <2>1 DEF ViewInv, ViewTypes, SameLog
  <2>4. Marks'
    BY <1>1, <2>1, SameValues DEF ViewInv
  <2>5. Calm(c)'
    BY <1>1, <2>1 DEF ViewInv, Calm, NotCached
  <2>6. Sees(c)'
    BY <1>1, <2>1, StillSees DEF Views
  <2>7. pc[c] # "append" /\ Half(c)'
    BY <1>1, <2>1 DEF Half
  <2> QED
    BY <1>1, <2>2, <2>3, <2>4, <2>5, <2>6, <2>7, Steady
<1>3. ASSUME NEW slot \in Slot, NEW mark \in 0..max_frame,
             Adopt(c, what, slot, mark),
             \/ mark = max_frame /\ read_locks[slot].nreads = 0
             \/ mark = read_locks[slot].value
      PROVE  ViewInv'
  <2> DEFINE seen == IF mark = max_frame THEN committed ELSE snapshot[mark]
  <2>1. /\ read_locks' = [read_locks EXCEPT ![slot].value = mark]
        /\ wf' = [wf EXCEPT ![c].slot = slot, ![c].max_frame = mark]
        /\ view' = [view EXCEPT ![c] = seen]
        /\ pc' = [pc EXCEPT ![c] = "lock_read"] /\ arg' = [arg EXCEPT ![c] = what]
    BY <1>3 DEF Adopt, Goto, Call
  <2>2. wf'[c].max_frame = mark /\ pc'[c] = "lock_read" /\ view'[c] = seen
    BY <2>1 DEF IInv, Types, Targets, WalFileFields, ViewInv, ViewTypes
  <2>3. Own(c)
    BY <1>1, <2>1 DEF Own, Idle, IInv, Types, Targets, ViewInv, ViewTypes
  <2>4. max_frame \in 0..MaxFrame /\ 0..max_frame \subseteq Nat /\ mark \in 0..MaxFrame
    BY BoundsAssumption DEF IInv, Types
  <2>5. \A p \in Page : Lookup(max_frame, p) = committed[p] /\ snapshot[max_frame][p] = committed[p]
    <3>1. \A d \in Conn : pc[d] # "append"
      BY <1>1 DEF Plain, Idle, Runs, MidCall
    <3> QED
      BY <3>1 DEF ViewInv, Last
  <2>6. Good(mark)
    <3>1. CASE mark = max_frame
      BY <2>5, <3>1 DEF Good
    <3>2. CASE mark = read_locks[slot].value
      <4>1. mark # NotUsed
        BY <2>4, BoundsAssumption DEF NotUsed
      <4> QED
        BY <3>2, <4>1 DEF ViewInv, Marks
    <3> QED
      BY <1>3, <3>1, <3>2
  <2>7. Good(mark)'
    BY <1>1, <2>6, SameGood
  <2>8. ViewTypes'
    <3>1. DOMAIN seen = Page
      BY <2>4 DEF ViewInv, ViewTypes
    <3>2. DOMAIN view' = Conn /\ \A d \in Conn : DOMAIN view'[d] = Page
      BY <2>1, <3>1 DEF ViewInv, ViewTypes
    <3>3. read_locks' \in [Slot -> [nreads : Nat, value : Nat]]
      BY <2>1, <2>4, Zenon DEF ViewInv, ViewTypes
    <3> QED
      BY <1>1, <3>2, <3>3 DEF ViewInv, ViewTypes, SameLog
  <2>9. Marks'
    <3> SUFFICES ASSUME NEW i \in Slot
                 PROVE  \/ read_locks'[i].value = NotUsed
                        \/ \E m \in 0..max_frame' : read_locks'[i].value = m /\ Good(m)'
      BY DEF Marks, NotUsed
    <3>1. max_frame' = max_frame
      BY <1>1 DEF SameLog
    <3>2. CASE i = slot
      <4>1. read_locks'[i].value = mark
        BY <2>1, <3>2 DEF ViewInv, ViewTypes
      <4> QED
        BY <2>7, <3>1, <4>1
    <3>3. CASE i # slot
      <4>1. read_locks'[i].value = read_locks[i].value
        BY <2>1, <3>3 DEF ViewInv, ViewTypes
      <4>2. ASSUME NEW m \in 0..max_frame, read_locks[i].value = m /\ Good(m)
            PROVE  \E n \in 0..max_frame' : read_locks'[i].value = n /\ Good(n)'
        <5>1. Good(m)'
          BY <1>1, <4>2, SameGood
        <5> QED
          BY <3>1, <4>1, <4>2, <5>1
      <4> QED
        BY <4>1, <4>2 DEF ViewInv, Marks
    <3> QED
      BY <3>2, <3>3
  <2>10. Calm(c)'
    BY <1>1, <2>2 DEF Calm, NotCached
  <2>11. Sees(c)'
    <3>1. \A p \in Page : Lookup(mark, p)' = view'[c][p]
      <4>1. \A p \in Page : Lookup(mark, p)' = Lookup(mark, p)
        BY <1>1, SameLookup DEF SameLog
      <4>2. \A p \in Page : Lookup(mark, p) = seen[p]
        BY <2>5, <2>6 DEF Good
      <4> QED
        BY <2>2, <4>1, <4>2
    <3>2. max_frame' = max_frame
      BY <1>1 DEF SameLog
    <3> QED
      BY <2>2, <3>1, <3>2 DEF Sees
  <2>12. pc[c] # "append" /\ Half(c)'
    BY <1>1, <2>2 DEF Half
  <2> QED
    BY <1>1, <2>3, <2>8, <2>9, <2>10, <2>11, <2>12, Steady
<1>4. max_frame \in Nat /\ read_locks \in [Slot -> [nreads : Nat, value : Nat]]
  BY BoundsAssumption DEF IInv, Types, ViewInv, ViewTypes
<1> QED
  BY <1>2, <1>3, <1>4, ChosenMark


LEMMA SeesTransaction ==
  ASSUME Plain, IInv, ViewInv, NEW c \in Conn, NEW what, TransactionRead(c) \/ TransactionWrite(c, what)
  PROVE  ViewInv'
<1>1. CASE transaction_state[c] = "None"
  BY <1>1, SeesStartRead DEF TransactionRead, TransactionWrite
<1>2. CASE transaction_state[c] # "None"
  <2>1. /\ Idle(c) /\ transaction_state[c] = "Read" /\ SameLog
        /\ pc' = [pc EXCEPT ![c] = "begin_write"] /\ arg' = [arg EXCEPT ![c] = what]
        /\ UNCHANGED <<transaction_state, wf, read_locks, dirty_pages, cache, wrote, view, writes>>
    BY <1>2 DEF TransactionRead, TransactionWrite, SameLog, shared, files, locks, pager, txn, hist,
                Goto, Call
  <2>2. pc'[c] = "begin_write" /\ pc[c] = "idle"
    BY <2>1 DEF IInv, Types, Idle
  <2>3. Own(c)
    BY <2>1 DEF Own, Idle, IInv, Types
  <2>4. ViewTypes'
    BY <2>1 DEF ViewInv, ViewTypes, SameLog
  <2>5. Marks'
    BY <2>1, SameValues DEF ViewInv
  <2>6. Calm(c)'
    BY <2>1, <2>2 DEF ViewInv, Calm, NotCached
  <2>7. Sees(c)'
    BY <2>1, StillSees DEF Views
  <2>8. pc[c] # "append" /\ Half(c)'
    BY <2>2 DEF Half
  <2> QED
    BY <2>1, <2>3, <2>4, <2>5, <2>6, <2>7, <2>8, Steady
<1> QED
  BY <1>1, <1>2

\* The locks keep their marks and their types.
LEMMA UnlockedTypes ==
  ASSUME read_locks \in [Slot -> [nreads : Nat, value : Nat]], NEW c
  PROVE  /\ Unlocked(c) \in [Slot -> [nreads : Nat, value : Nat]]
         /\ \A i \in Slot : Unlocked(c)[i].value = read_locks[i].value
<1> DEFINE n == read_locks[wf[c].slot].nreads
<1>1. CASE wf[c].slot \in Slot
  <2>1. (IF n > 0 THEN n - 1 ELSE 0) \in Nat
    BY <1>1
  <2>2. Unlocked(c) = [read_locks EXCEPT ![wf[c].slot].nreads = IF n > 0 THEN n - 1 ELSE 0]
    BY <1>1 DEF Unlocked
  <2> HIDE DEF n
  <2> QED
    BY <1>1, <2>1, <2>2
<1>2. CASE wf[c].slot \notin Slot
  <2>1. Unlocked(c) = read_locks
    BY <1>2 DEF Unlocked
  <2> QED
    BY <2>1
<1> QED
  BY <1>1, <1>2

LEMMA SeesCommit ==
  ASSUME Plain, IInv, ViewInv, NEW c \in Conn, Commit(c)
  PROVE  ViewInv'
<1>1. /\ Idle(c) /\ SameLog /\ UNCHANGED <<wf, dirty_pages, cache, wrote, writes>>
      /\ pc[c] = "idle" /\ dirty_pages[c] = wrote[c]
  BY DEF Commit, SameLog, shared, files, pager, Idle, ViewInv, Calm
<1>2. CASE transaction_state[c] = "Write"
  <2>1. /\ pc' = [pc EXCEPT ![c] = "append"] /\ arg' = [arg EXCEPT ![c] = "commit"]
        /\ UNCHANGED <<read_locks, transaction_state, view>>
    BY <1>2 DEF Commit, Goto, Call
  <2>2. pc'[c] = "append" /\ arg'[c] = "commit"
    BY <2>1 DEF IInv, Types
  <2>3. Own(c)
    BY <1>1, <2>1 DEF Own, Idle, IInv, Types
  <2>4. ViewTypes'
    BY <1>1, <2>1, Zenon DEF ViewInv, ViewTypes, SameLog
  <2>5. Marks'
    BY <1>1, <2>1, SameValues, Zenon DEF ViewInv
  <2>6. Calm(c)'
    BY <1>1, <1>2, <2>1, <2>2 DEF ViewInv, Calm, NotCached
  <2>7. Sees(c)'
    BY <1>1, <1>2, <2>1, StillSees DEF Views
  <2>8. Half(c)'
    <3>1. \A p \in Page : Lookup(max_frame, p) = committed[p]
      <4>1. \A d \in Conn : pc[d] # "append"
        BY <1>1 DEF Plain, Idle, Runs, MidCall
      <4> QED
        BY <4>1 DEF ViewInv, Last
    <3>2. \A p \in Page : Lookup(max_frame, p)' = Lookup(max_frame, p)
      BY <1>1 DEF SameLog, Lookup, find_frame
    <3>3. wrote'[c] \ dirty_pages'[c] = {} /\ committed' = committed
      BY <1>1 DEF SameLog
    <3> QED
      BY <3>1, <3>2, <3>3 DEF Half
  <2>9. pc[c] # "append"
    BY <1>1
  <2> QED
    BY <1>1, <2>3, <2>4, <2>5, <2>6, <2>7, <2>8, <2>9, Steady
<1>3. CASE transaction_state[c] # "Write"
  <2>1. /\ view' = [view EXCEPT ![c] = Initially]
        /\ read_locks' = IF transaction_state[c] = "Read" THEN Unlocked(c) ELSE read_locks
        /\ transaction_state' = [transaction_state EXCEPT ![c] = "None"]
        /\ UNCHANGED <<pc, arg>>
    BY <1>3 DEF Commit, ctl
  <2>2. /\ transaction_state'[c] = "None" /\ pc'[c] = "idle"
        /\ dirty_pages'[c] = {} /\ wrote'[c] = {}
    BY <1>1, <1>3, <2>1, Zenon DEF IInv, Types, ViewInv, Calm
  <2>3. Own(c)
    BY <1>1, <2>1, Zenon DEF Own, Idle, IInv, Types, ViewInv, ViewTypes
  <2>4. /\ read_locks' \in [Slot -> [nreads : Nat, value : Nat]]
        /\ \A i \in Slot : read_locks'[i].value = read_locks[i].value
    BY <2>1, UnlockedTypes, Zenon DEF ViewInv, ViewTypes
  <2>5. ViewTypes'
    <3>1. DOMAIN view' = Conn /\ \A d \in Conn : DOMAIN view'[d] = Page
      BY <2>1, Zenon DEF ViewInv, ViewTypes, Initially
    <3> QED
      BY <1>1, <2>4, <3>1, Zenon DEF ViewInv, ViewTypes, SameLog
  <2>6. Marks'
    BY <1>1, <2>4, SameValues, Zenon DEF ViewInv
  <2>7. Calm(c)'
    BY <2>2 DEF Calm
  <2>8. Sees(c)' /\ Half(c)' /\ pc[c] # "append"
    BY <1>1, <2>2 DEF Sees, Views, Half
  <2> QED
    BY <1>1, <2>3, <2>5, <2>6, <2>7, <2>8, Steady
<1> QED
  BY <1>2, <1>3

LEMMA SeesLockRead ==
  ASSUME Plain, IInv, ViewInv, NEW c \in Conn, LockRead(c)
  PROVE  ViewInv'
<1>1. /\ pc[c] = "lock_read" /\ Runs(c) /\ transaction_state[c] = "None" /\ SameLog
      /\ read_locks' = [read_locks EXCEPT ![wf[c].slot].nreads = @ + 1]
      /\ wf' = [wf EXCEPT ![c].min_frame = nbackfills + 1]
      /\ UNCHANGED <<dirty_pages, cache, view, wrote, writes>>
  BY DEF LockRead, pager, IInv, CommitterWrites, SameLog, shared, files, hist
<1>2. \/ /\ transaction_state' = [transaction_state EXCEPT ![c] = "Read"]
         /\ pc' = [pc EXCEPT ![c] = "idle"] /\ arg' = [arg EXCEPT ![c] = "none"]
      \/ pc' = [pc EXCEPT ![c] = "begin_write"] /\ UNCHANGED <<transaction_state, arg>>
  BY DEF LockRead, Return, Goto, Call
<1>3. /\ wf'[c].max_frame = wf[c].max_frame
      /\ pc'[c] \in {"idle", "begin_write"} /\ transaction_state'[c] # "Write"
      /\ dirty_pages[c] = {} /\ wrote[c] = {}
  BY <1>1, <1>2 DEF IInv, Types, Targets, WalFileFields, ViewInv, Calm
<1>4. Own(c)
  BY <1>1, <1>2 DEF Own, IInv, Types, Targets
<1>5. /\ read_locks' \in [Slot -> [nreads : Nat, value : Nat]]
      /\ \A i \in Slot : read_locks'[i].value = read_locks[i].value
  <2>1. read_locks \in [Slot -> [nreads : Nat, value : Nat]]
    BY DEF ViewInv, ViewTypes
  <2>2. CASE wf[c].slot \in Slot
    BY <1>1, <2>1, <2>2
  <2>3. CASE wf[c].slot \notin Slot
    <3>1. read_locks' = read_locks
      BY <1>1, <2>1, <2>3
    <3> QED
      BY <2>1, <3>1
  <2> QED
    BY <2>2, <2>3
<1>6. ViewTypes'
  BY <1>1, <1>5 DEF ViewInv, ViewTypes, SameLog
<1>7. Marks'
  BY <1>1, <1>5, SameValues DEF ViewInv
<1>8. Calm(c)'
  BY <1>1, <1>3 DEF Calm
<1>9. Sees(c)'
  BY <1>1, <1>3, StillSees DEF Views
<1>10. Half(c)' /\ pc[c] # "append"
  BY <1>1, <1>3 DEF Half
<1> QED
  BY <1>1, <1>4, <1>6, <1>7, <1>8, <1>9, <1>10, Steady

LEMMA SeesBeginWrite ==
  ASSUME Plain, IInv, ViewInv, NEW c \in Conn, begin_write_tx(c)
  PROVE  ViewInv'
<1>1. /\ pc[c] = "begin_write" /\ Runs(c) /\ SameLog
      /\ UNCHANGED <<read_locks, dirty_pages, cache, view, writes>>
      /\ pc' = [pc EXCEPT ![c] = "idle"] /\ arg' = [arg EXCEPT ![c] = "none"]
  BY DEF begin_write_tx, Return, Goto, Call, SameLog, shared, files
<1>2. \/ UNCHANGED <<transaction_state, wf, wrote>>
      \/ /\ wf' = [wf EXCEPT ![c].start = max_frame, ![c].start_checksum = last_checksum]
         /\ transaction_state' = [transaction_state EXCEPT ![c] = "Write"]
         /\ wrote' = [wrote EXCEPT ![c] = {}]
  BY DEF begin_write_tx, txn
<1>3. /\ wf'[c].max_frame = wf[c].max_frame /\ pc'[c] = "idle"
      /\ dirty_pages[c] = {} /\ wrote[c] = {} /\ wrote'[c] = {}
  BY <1>1, <1>2 DEF IInv, Types, Targets, WalFileFields, ViewInv, ViewTypes, Calm
<1>4. Own(c)
  BY <1>1, <1>2 DEF Own, IInv, Types, Targets, ViewInv, ViewTypes
<1>5. ViewTypes'
  BY <1>1, <1>2, Zenon DEF ViewInv, ViewTypes, SameLog
<1>6. Marks'
  BY <1>1, SameValues DEF ViewInv
<1>7. Calm(c)'
  BY <1>1, <1>3 DEF Calm
<1>8. Sees(c)'
  BY <1>1, <1>3, StillSees, Zenon DEF Views
<1>9. Half(c)' /\ pc[c] # "append"
  BY <1>1, <1>3 DEF Half
<1> QED
  BY <1>1, <1>4, <1>5, <1>6, <1>7, <1>8, <1>9, Steady

\* Synchronizing the log and the end of the transaction.
LEMMA SeesEnd ==
  ASSUME Plain, IInv, ViewInv, NEW c \in Conn, SyncWal(c) \/ end_tx(c)
  PROVE  ViewInv'
<1>1. CASE SyncWal(c)
  <2>1. max_frame < Threshold
    BY BoundsAssumption DEF Plain, IInv, Types
  <2>2. /\ pc[c] = "sync_wal" /\ Runs(c) /\ SameLog /\ pc' = [pc EXCEPT ![c] = "end_tx"]
        /\ UNCHANGED <<read_locks, arg, transaction_state, wf, dirty_pages, cache, view, wrote, writes>>
    <3>1. ~(max_frame >= Threshold)
      BY <2>1, BoundsAssumption DEF IInv, Types
    <3> QED
      BY <1>1, <3>1 DEF SyncWal, Goto, SameLog, shared, files, pager, txn, hist
  <2>3. pc'[c] = "end_tx"
    BY <2>2 DEF IInv, Types
  <2>4. Own(c)
    BY <2>2, Zenon DEF Own, IInv, Types
  <2>5. ViewTypes'
    BY <2>2, Zenon DEF ViewInv, ViewTypes, SameLog
  <2>6. Marks'
    BY <2>2, SameValues DEF ViewInv
  <2>7. Calm(c)'
    BY <2>2, <2>3, Zenon DEF ViewInv, Calm
  <2>8. Sees(c)'
    BY <2>2, <2>3, StillSees, Zenon DEF Views
  <2>9. Half(c)' /\ pc[c] # "append"
    BY <2>2, <2>3, Zenon DEF Half
  <2> QED
    BY <2>2, <2>4, <2>5, <2>6, <2>7, <2>8, <2>9, Steady
<1>2. CASE end_tx(c)
  <2>1. /\ pc[c] = "end_tx" /\ Runs(c) /\ SameLog /\ read_locks' = Unlocked(c)
        /\ pc' = [pc EXCEPT ![c] = "idle"] /\ arg' = [arg EXCEPT ![c] = "none"]
        /\ transaction_state' = [transaction_state EXCEPT ![c] = "None"]
        /\ wrote' = [wrote EXCEPT ![c] = {}] /\ view' = [view EXCEPT ![c] = Initially]
        /\ UNCHANGED <<wf, dirty_pages, cache, writes>>
    BY <1>2 DEF end_tx, Return, Goto, Call, SameLog, shared, files
  <2>2. /\ transaction_state'[c] = "None" /\ pc'[c] = "idle"
        /\ dirty_pages'[c] = {} /\ wrote'[c] = {}
    BY <2>1, Zenon DEF IInv, Types, ViewInv, ViewTypes, Calm
  <2>3. Own(c)
    BY <2>1, Zenon DEF Own, IInv, Types, ViewInv, ViewTypes
  <2>4. /\ read_locks' \in [Slot -> [nreads : Nat, value : Nat]]
        /\ \A i \in Slot : read_locks'[i].value = read_locks[i].value
    BY <2>1, UnlockedTypes, Zenon DEF ViewInv, ViewTypes
  <2>5. ViewTypes'
    <3>1. DOMAIN view' = Conn /\ \A d \in Conn : DOMAIN view'[d] = Page
      BY <2>1, Zenon DEF ViewInv, ViewTypes, Initially
    <3> QED
      BY <2>1, <2>4, <3>1, Zenon DEF ViewInv, ViewTypes, SameLog
  <2>6. Marks'
    BY <2>1, <2>4, SameValues, Zenon DEF ViewInv
  <2>7. Calm(c)'
    BY <2>2 DEF Calm
  <2>8. Sees(c)' /\ Half(c)' /\ pc[c] # "append"
    BY <2>1, <2>2 DEF Sees, Views, Half
  <2> QED
    BY <2>1, <2>3, <2>5, <2>6, <2>7, <2>8, Steady
<1> QED
  BY <1>1, <1>2

-----------------------------------------------------------------------------
(* Appending                                                               *)

\* Only the writer appends.
LEMMA OneAppends ==
  ASSUME IInv, ViewInv, NEW c \in Conn, pc[c] = "append", NEW d \in Conn \ {c}
  PROVE  pc[d] # "append"
<1>1. \A e \in Conn : pc[e] = "append" => transaction_state[e] = "Write"
  BY Zenon DEF IInv, CommitterWrites, ViewInv, Calm
<1> QED
  BY <1>1 DEF IInv, OneWriter

LEMMA SeesFlushPage ==
  ASSUME Plain, IInv, ViewInv, NEW c \in Conn, NEW p \in Page, FlushPage(c, p)
  PROVE  ViewInv'
<1> DEFINE x == [page |-> p, content |-> cache[c][p], prev |-> last_checksum, current |-> TRUE]
<1>1. /\ pc[c] = "append" /\ p \in dirty_pages[c] /\ Runs(c) /\ max_frame < MaxFrame
      /\ dirty_pages' = [dirty_pages EXCEPT ![c] = dirty_pages[c] \ {p}]
      /\ snapshot' = [snapshot EXCEPT ![max_frame + 1] = committed]
      /\ UNCHANGED <<pc, arg, transaction_state, wf, read_locks, cache, view, wrote, writes, committed>>
  BY DEF FlushPage, append_frame, locks, txn, ctl
<1>2. max_frame \in Nat /\ max_frame + 1 \in Frame /\ max_frame + 1 \in 0..MaxFrame
  BY <1>1, BoundsAssumption DEF IInv, Types, Frame
<1>3. Added(p, x)
  BY <1>2 DEF FlushPage, append_frame, Added
<1> HIDE DEF x
<1>4. x.content = cache[c][p]
  BY DEF x
<1>5. Types /\ FrameCacheSound
  BY DEF IInv
<1>6. Own(c)
  BY <1>1, Zenon DEF Own, ViewInv, ViewTypes
<1>7. \A m \in 0..max_frame : \A q \in Page : Lookup(m, q)' = Lookup(m, q)
  BY <1>3, <1>5, OldLookup
<1>8. \A m \in 0..max_frame : Good(m) => Good(m)'
  <2>1. \A m \in 0..max_frame : m # max_frame + 1
    BY <1>2
  <2>2. \A m \in 0..max_frame : snapshot'[m] = snapshot[m]
    BY <1>1, <2>1
  <2> QED
    BY <1>7, <2>2, Zenon DEF Good
<1>9. max_frame' = max_frame + 1 /\ 0..max_frame \subseteq 0..max_frame'
  BY <1>2, <1>3 DEF Added
<1>10. ViewTypes'
  <2>1. DOMAIN snapshot' = 0..MaxFrame /\ \A m \in 0..MaxFrame : DOMAIN snapshot'[m] = Page
    BY <1>1, <1>2, Zenon DEF ViewInv, ViewTypes
  <2> QED
    BY <1>1, <2>1, Zenon DEF ViewInv, ViewTypes
<1>11. Marks'
  <2> SUFFICES ASSUME NEW i \in Slot
               PROVE  \/ read_locks'[i].value = NotUsed
                      \/ \E m \in 0..max_frame' : read_locks'[i].value = m /\ Good(m)'
    BY DEF Marks, NotUsed
  <2>1. \/ read_locks[i].value = NotUsed
        \/ \E m \in 0..max_frame : read_locks[i].value = m /\ Good(m)
    BY DEF ViewInv, Marks
  <2> QED
    BY <1>1, <1>8, <1>9, <2>1
<1>12. Last'
  BY <1>1 DEF Last
<1>13. ASSUME NEW d \in Conn PROVE Sees(d)'
  <2> SUFFICES ASSUME Views(d)' PROVE Sees(d)'
    BY DEF Sees
  <2>1. Views(d)
    BY <1>1 DEF Views
  <2>2. PICK m \in 0..max_frame :
          wf[d].max_frame = m /\ \A q \in Page \ wrote[d] : Lookup(m, q) = view[d][q]
    BY <2>1 DEF ViewInv, Sees
  <2>3. m \in 0..max_frame' /\ wf'[d].max_frame = m
    BY <1>1, <1>9, <2>2, Zenon
  <2>4. \A q \in Page \ wrote'[d] : Lookup(m, q)' = view'[d][q]
    BY <1>1, <1>7, <2>2
  <2> QED
    BY <2>3, <2>4 DEF Sees
<1>14. /\ dirty_pages'[c] = dirty_pages[c] \ {p} /\ dirty_pages[c] \subseteq wrote[c]
       /\ cache[c][p] = view[c][p]
  BY <1>1, Zenon DEF ViewInv, ViewTypes, Calm
<1>15. ASSUME NEW d \in Conn PROVE Calm(d)'
  <2>1. dirty_pages'[d] \subseteq dirty_pages[d] /\ (d # c => dirty_pages'[d] = dirty_pages[d])
    BY <1>1, <1>14, Zenon DEF ViewInv, ViewTypes
  <2> QED
    BY <1>1, <2>1, Zenon DEF ViewInv, Calm, NotCached
<1>16. ASSUME NEW d \in Conn PROVE Half(d)'
  <2>1. CASE d # c
    <3>1. pc'[d] # "append"
      BY <1>1, <2>1, OneAppends
    <3> QED
      BY <3>1 DEF Half
  <2>2. CASE d = c
    <3>1. ASSUME NEW q \in Page
          PROVE  Lookup(max_frame, q)' = IF q \in wrote'[c] \ dirty_pages'[c] THEN view'[c][q]
                                                                     ELSE committed'[q]
      <4>1. Lookup(max_frame, q)' = IF q = p THEN x.content ELSE Lookup(max_frame, q)
        BY <1>3, <1>5, NewLookup
      <4>2. Lookup(max_frame, q) = IF q \in wrote[c] \ dirty_pages[c] THEN view[c][q] ELSE committed[q]
        BY <1>1 DEF ViewInv, Half
      <4>3. CASE q = p
        BY <1>1, <1>4, <1>14, <4>1, <4>3, Zenon
      <4>4. CASE q # p
        BY <1>1, <1>14, <4>1, <4>2, <4>4, Zenon
      <4> QED
        BY <4>3, <4>4
    <3> QED
      BY <2>2, <3>1, Zenon DEF Half
  <2> QED
    BY <2>1, <2>2
<1> QED
  BY <1>10, <1>11, <1>12, <1>13, <1>15, <1>16 DEF ViewInv

LEMMA SeesFlushed ==
  ASSUME Plain, IInv, ViewInv, NEW c \in Conn, Flushed(c)
  PROVE  ViewInv'
<1> DEFINE now == [p \in Page |-> IF p \in wrote[c] THEN view[c][p] ELSE committed[p]]
<1>1. /\ pc[c] = "append" /\ dirty_pages[c] = {} /\ Runs(c)
      /\ cache' = [cache EXCEPT ![c] = NoCache]
      /\ committed' = now /\ snapshot' = [snapshot EXCEPT ![max_frame] = now]
      /\ pc' = [pc EXCEPT ![c] = "sync_wal"]
      /\ UNCHANGED <<arg, transaction_state, wf, read_locks, dirty_pages, view, wrote, writes,
                     max_frame>>
      /\ UNCHANGED <<frame_cache, log, db>>
  BY Zenon DEF Flushed, Goto, locks, txn, shared, files
<1>2. \A m : \A q \in Page : Lookup(m, q)' = Lookup(m, q)
  BY <1>1, SameLookup, Zenon
<1>3. \A q \in Page : Lookup(max_frame, q) = now[q]
  BY <1>1, Zenon DEF ViewInv, Half
<1>4. \A q \in Page : Lookup(max_frame, q)' = now[q]
  <2>1. \A q \in Page : Lookup(max_frame, q)' = Lookup(max_frame, q)
    BY <1>1, Zenon DEF Lookup, find_frame
  <2> QED
    BY <1>3, <2>1, Zenon
<1>5. DOMAIN now = Page /\ max_frame \in 0..MaxFrame /\ pc'[c] = "sync_wal"
  BY <1>1, Zenon DEF IInv, Types
<1> HIDE DEF now
<1>6. snapshot'[max_frame] = now /\ \A m \in 0..MaxFrame : m # max_frame => snapshot'[m] = snapshot[m]
  BY <1>1, <1>5, Zenon DEF ViewInv, ViewTypes
<1>7. \A m \in 0..max_frame : Good(m) => Good(m)'
  <2>1. \A m \in 0..max_frame : m \in 0..MaxFrame
    BY <1>5, BoundsAssumption
  <2> SUFFICES ASSUME NEW m \in 0..max_frame, Good(m), NEW q \in Page
               PROVE  Lookup(m, q)' = snapshot'[m][q]
    BY DEF Good
  <2>2. CASE m = max_frame
    BY <1>2, <1>3, <1>6, <2>2
  <2>3. CASE m # max_frame
    BY <1>2, <1>6, <2>1, <2>3 DEF Good
  <2> QED
    BY <2>2, <2>3
<1>8. ViewTypes'
  <2>1. DOMAIN snapshot' = 0..MaxFrame /\ \A m \in 0..MaxFrame : DOMAIN snapshot'[m] = Page
    BY <1>1, <1>5, Zenon DEF ViewInv, ViewTypes
  <2>2. DOMAIN cache' = Conn /\ \A d \in Conn : DOMAIN cache'[d] = Page
    BY <1>1, Zenon DEF ViewInv, ViewTypes, NoCache
  <2> QED
    BY <1>1, <1>5, <2>1, <2>2, Zenon DEF ViewInv, ViewTypes
<1>9. Marks'
  <2> SUFFICES ASSUME NEW i \in Slot
               PROVE  \/ read_locks'[i].value = NotUsed
                      \/ \E m \in 0..max_frame' : read_locks'[i].value = m /\ Good(m)'
    BY DEF Marks, NotUsed
  <2>1. \/ read_locks[i].value = NotUsed
        \/ \E m \in 0..max_frame : read_locks[i].value = m /\ Good(m)
    BY DEF ViewInv, Marks
  <2> QED
    BY <1>1, <1>7, <2>1, Zenon
<1>10. Last'
  BY <1>1, <1>4, <1>6, Zenon DEF Last
<1>11. ASSUME NEW d \in Conn PROVE Sees(d)'
  <2> SUFFICES ASSUME Views(d)' PROVE Sees(d)'
    BY DEF Sees
  <2>1. Views(d)
    BY <1>1, <1>5 DEF Views, IInv, Types
  <2>2. PICK m \in 0..max_frame :
          wf[d].max_frame = m /\ \A q \in Page \ wrote[d] : Lookup(m, q) = view[d][q]
    BY <2>1, Zenon DEF ViewInv, Sees
  <2>3. m \in 0..max_frame' /\ wf'[d].max_frame = m
    BY <1>1, <2>2
  <2>4. \A q \in Page \ wrote'[d] : Lookup(m, q)' = view'[d][q]
    BY <1>1, <1>2, <2>2, Zenon
  <2> QED
    BY <2>3, <2>4, Zenon DEF Sees
<1>12. ASSUME NEW d \in Conn PROVE Calm(d)' /\ Half(d)'
  <2>1. CASE d = c
    BY <1>1, <1>5, <2>1, Zenon DEF ViewInv, Calm, Half
  <2>2. CASE d # c
    <3>1. pc[d] # "append" /\ pc'[d] = pc[d] /\ cache'[d] = cache[d]
      BY <1>1, <2>2, OneAppends, Zenon DEF IInv, Types, ViewInv, ViewTypes
    <3>2. Calm(d)
      BY DEF ViewInv
    <3>3. Calm(d)'
      BY <1>1, <3>1, <3>2, Zenon DEF Calm, NotCached
    <3> QED
      BY <3>1, <3>3 DEF Half
  <2> QED
    BY <2>1, <2>2
<1> QED
  BY <1>8, <1>9, <1>10, <1>11, <1>12 DEF ViewInv

LEMMA NextViewInv == Plain => (IInv /\ ViewInv /\ [Next]_vars => ViewInv')
<1> SUFFICES ASSUME Plain, IInv, ViewInv, [Next]_vars PROVE ViewInv'
  OBVIOUS
<1>1. CASE UNCHANGED vars
  <2>1. /\ UNCHANGED <<read_locks, wf, pc, arg, dirty_pages, transaction_state, cache, view, wrote, writes>>
        /\ SameLog
    BY <1>1, Zenon DEF vars, shared, locks, files, pager, txn, ctl, hist, SameLog
  <2>2. ViewTypes'
    BY <2>1, Zenon DEF ViewInv, ViewTypes, SameLog
  <2>3. Marks'
    BY <2>1, SameValues DEF ViewInv
  <2>4. \A m, p : Lookup(m, p)' = Lookup(m, p)
    BY <2>1, SameLookup DEF SameLog
  <2>5. \A p \in Page : Lookup(max_frame, p)' = Lookup(max_frame, p)
    BY <2>1, Zenon DEF SameLog, Lookup, find_frame
  <2>6. Last'
    BY <2>1, <2>5 DEF ViewInv, Last, SameLog
  <2>7. ASSUME NEW d \in Conn PROVE Calm(d)' /\ Sees(d)' /\ Half(d)'
    <3>1. Calm(d)'
      BY <2>1, Zenon DEF ViewInv, Calm, NotCached
    <3>2. Half(d)'
      BY <2>1, <2>5, Zenon DEF ViewInv, Half, SameLog
    <3>3. Sees(d)'
      BY <2>1, StillSees, Zenon DEF Views
    <3> QED
      BY <3>1, <3>2, <3>3
  <2> QED
    BY <2>2, <2>3, <2>6, <2>7 DEF ViewInv
<1>2. ASSUME NEW c \in Conn, Step(c) PROVE ViewInv'
  <2>1. /\ ~SavepointFlushed(c) /\ ~SyncDb(c) /\ ~ReadFrame(c) /\ ~FrameRead(c)
        /\ ~PageWritten(c) /\ ~Done(c)
    BY DEF ViewInv, Calm, SavepointFlushed, SyncDb, ReadFrame, FrameRead, PageWritten, Done
  <2> QED
    BY <1>2, <2>1, SeesLockRead, SeesBeginWrite, SeesFlushPage, SeesFlushed, SeesEnd, Zenon DEF Step
<1>3. ASSUME NEW c \in Conn, Client(c) PROVE ViewInv'
  <2>1. Ops[c] \subseteq {"begin", "read", "fetch", "write"}
    BY DEF Plain
  <2>2. /\ ~Rollback(c) /\ ~Fail(c) /\ ~FailInTx(c) /\ ~OpenSavepoint(c)
        /\ \A what : ~StartCheckpoint(c, what)
        /\ \A i : ~RollbackTo(c, i) /\ ~Release(c, i)
    BY <2>1, Zenon DEF Rollback, Fail, FailInTx, OpenSavepoint, StartCheckpoint, RollbackTo, Release
  <2> QED
    BY <1>3, <2>2, SeesQuiet, SeesTransaction, SeesCommit, SeesWritePage, Zenon DEF Client
<1> QED
  BY <1>1, <1>2, <1>3 DEF Next

LEMMA InitViewInv == Init => ViewInv
<1> SUFFICES ASSUME Init PROVE ViewInv
  OBVIOUS
<1>1. /\ read_locks = [i \in Slot |-> [nreads |-> 0, value |-> NotUsed]]
      /\ \A c \in Conn : /\ transaction_state[c] = "None" /\ pc[c] = "idle"
                         /\ dirty_pages[c] = {} /\ wrote[c] = {}
      /\ max_frame = 0 /\ frame_cache = Empty /\ db = Initially
      /\ committed = Initially /\ snapshot = [f \in 0..MaxFrame |-> Initially]
  BY DEF Init
<1>2. NotUsed \in Nat /\ 0 \in 0..MaxFrame
  BY BoundsAssumption DEF NotUsed
<1>3. ViewTypes
  BY <1>2 DEF Init, ViewTypes, Initially, NoCache
<1>4. Marks
  BY <1>1 DEF Marks
<1>5. Last
  <2>1. \A p \in Page : Lookup(max_frame, p) = 0
    BY <1>1 DEF Lookup, find_frame, Empty, Initially
  <2> QED
    BY <1>1, <1>2, <2>1 DEF Last, Initially
<1>6. \A c \in Conn : Calm(c) /\ Sees(c) /\ Half(c)
  BY <1>1, Zenon DEF Calm, Sees, Half, Views
<1> QED
  BY <1>3, <1>4, <1>5, <1>6 DEF ViewInv

\* Every transaction reads its snapshot, whatever the other connections commit
\* meanwhile, as long as nobody checkpoints or uses savepoints.
THEOREM SnapshotReads == Plain => (Spec => []ReadsView)
<1> SUFFICES ASSUME Plain PROVE Spec => []ReadsView
  OBVIOUS
<1>1. ViewInv => ReadsView
  <2> SUFFICES ASSUME ViewInv, NEW c \in Conn, Reading(c), NEW p \in Page \ dirty_pages[c]
               PROVE  Lookup(wf[c].max_frame, p) = view[c][p]
    BY DEF ReadsView
  <2>1. Views(c) /\ dirty_pages[c] = wrote[c]
    BY Zenon DEF Reading, Views, ViewInv, Calm
  <2> QED
    BY <2>1 DEF ViewInv, Sees
<1>2. IInv /\ ViewInv /\ [Next]_vars => ViewInv'
  BY NextViewInv
<1> QED
  BY <1>1, <1>2, InitViewInv, InitIInv, NextIInv, PTL DEF Spec

\* Only the flush of a commit touches the log, and its frames go on from the last.
LEMMA NextChained == Plain => (IInv /\ ViewInv /\ Chained /\ [Next]_vars => Chained')
<1> SUFFICES ASSUME Plain, IInv, ViewInv, Chained, [Next]_vars PROVE Chained'
  OBVIOUS
<1>1. ASSUME UNCHANGED <<max_frame, last_checksum, log>> PROVE Chained'
  BY <1>1, Zenon DEF Chained, ChecksumAfter
<1>2. ASSUME NEW c \in Conn, NEW p \in Page, append_frame(c, p) PROVE Chained'
  <2>1. max_frame \in 0..MaxFrame /\ MaxFrame \in Nat /\ DOMAIN log = Frame
    BY BoundsAssumption DEF IInv, Types
  <2>2. max_frame < MaxFrame /\ max_frame' = max_frame + 1
    BY <1>2 DEF append_frame
  <2>3. PICK x : /\ last_checksum' = x
                 /\ log' = [log EXCEPT ![max_frame + 1] =
                             [page |-> p, content |-> x, prev |-> last_checksum, current |-> TRUE]]
    BY <1>2, Zenon DEF append_frame
  <2>4. \A f \in 1..max_frame : log'[f] = log[f]
    BY <2>1, <2>2, <2>3
  <2>5. /\ log'[max_frame'].content = x /\ log'[max_frame'].prev = last_checksum
        /\ log'[max_frame'].current
    BY <2>1, <2>2, <2>3 DEF Frame
  <2>6. \A f \in 0..max_frame : ChecksumAfter(f)' = ChecksumAfter(f)
    BY <2>1, <2>4 DEF ChecksumAfter
  <2>7. last_checksum' = ChecksumAfter(max_frame)'
    BY <2>1, <2>2, <2>3, <2>5 DEF ChecksumAfter
  <2>8. ASSUME NEW f \in 1..max_frame' PROVE log'[f].current /\ log'[f].prev = ChecksumAfter(f - 1)'
    <3>1. CASE f \in 1..max_frame
      <4>1. f - 1 \in 0..max_frame
        BY <2>1, <3>1
      <4> QED
        BY <2>4, <2>6, <3>1, <4>1 DEF Chained
    <3>2. CASE f = max_frame'
      <4>1. f - 1 = max_frame /\ max_frame \in 0..max_frame
        BY <2>1, <2>2, <3>2
      <4> QED
        BY <2>5, <2>6, <3>2, <4>1 DEF Chained
    <3> QED
      BY <2>1, <2>2, <3>1, <3>2
  <2> QED
    BY <2>7, <2>8 DEF Chained
<1>3. CASE UNCHANGED vars
  BY <1>1, <1>3, Zenon DEF vars, shared, files
<1>4. ASSUME NEW c \in Conn, Step(c) PROVE Chained'
  <2>1. ~Done(c)
    BY DEF ViewInv, Calm, Done
  <2>2. CASE \E p \in Page : FlushPage(c, p)
    BY <1>2, <2>2, Zenon DEF FlushPage
  <2>3. CASE /\ ~Done(c) /\ ~\E p \in Page : FlushPage(c, p)
    <3>1. UNCHANGED shared /\ UNCHANGED log
      BY <1>4, <2>3, Zenon DEF Step, LockRead, begin_write_tx, SavepointFlushed, Flushed, SyncWal,
           SyncDb, end_tx, ReadFrame, FrameRead, PageWritten, files
    <3> QED
      BY <1>1, <3>1 DEF shared
  <2> QED
    BY <2>1, <2>2, <2>3
<1>5. ASSUME NEW c \in Conn, Client(c) PROVE Chained'
  <2>1. Ops[c] \subseteq {"begin", "read", "fetch", "write"}
    BY DEF Plain
  <2>2. /\ ~Rollback(c) /\ ~Fail(c) /\ ~FailInTx(c) /\ ~OpenSavepoint(c)
        /\ \A what : ~StartCheckpoint(c, what)
        /\ \A i : ~RollbackTo(c, i) /\ ~Release(c, i)
    BY <2>1, Zenon DEF Rollback, Fail, FailInTx, OpenSavepoint, StartCheckpoint, RollbackTo, Release
  <2>3. UNCHANGED <<shared, files>>
    BY <1>5, <2>2, Zenon DEF Client, Begin, TransactionRead, TransactionWrite, StartRead, Commit,
         ReadPage, WritePage
  <2> QED
    BY <1>1, <2>3 DEF shared, files
<1> QED
  BY <1>3, <1>4, <1>5 DEF Next

\* No commit is lost: between write transactions the log over the database file is
\* what was committed last, and whoever reads the log back from its first frame finds
\* every frame in its place in the chain of checksums.
THEOREM CommitsStay == Plain => (Spec => []Durable)
<1> SUFFICES ASSUME Plain PROVE Spec => []Durable
  OBVIOUS
<1>1. IInv /\ ViewInv => CommittedReachable
  <2> SUFFICES ASSUME IInv, ViewInv, \A c \in Conn : transaction_state[c] # "Write"
               PROVE  \A p \in Page : Lookup(max_frame, p) = committed[p]
    BY DEF CommittedReachable
  <2>1. \A c \in Conn : pc[c] # "append"
    BY Zenon DEF IInv, CommitterWrites, ViewInv, Calm
  <2> QED
    BY <2>1 DEF ViewInv, Last
<1>2. Init => Chained
  <2> SUFFICES ASSUME Init PROVE Chained
    OBVIOUS
  <2>1. max_frame = 0 /\ last_checksum = Seed
    BY Zenon DEF Init
  <2>2. 1..0 = {}
    OBVIOUS
  <2> QED
    BY <2>1, <2>2, Zenon DEF Chained, ChecksumAfter
<1>3. IInv /\ ViewInv /\ [Next]_vars => ViewInv'
  BY NextViewInv
<1>4. IInv /\ ViewInv /\ Chained /\ [Next]_vars => Chained'
  BY NextChained
<1> QED
  BY <1>1, <1>2, <1>3, <1>4, InitViewInv, InitIInv, NextIInv, PTL DEF Spec, Durable

=============================================================================
