------------------------------- MODULE Pager -------------------------------
(***************************************************************************)
(* The pager of one connection: its private LRU page cache                 *)
(* (storage/page_cache.rs), the set of dirty page numbers, the flush at    *)
(* commit and at SAVEPOINT, the clearing of the cache at ROLLBACK,         *)
(* ROLLBACK TO and a failing statement, the allocation of pages and the    *)
(* free list (storage/pager/pager_caching.rs and pager_caching_2.rs),      *)
(* driven by cursors that keep references to pages across steps.           *)
(*                                                                         *)
(* A Page of the code is an object with an identity: a cursor can hold one *)
(* that the cache has dropped.  Reads and the writes of log frames finish  *)
(* in steps of their own, in any order, as the completions of an           *)
(* asynchronous I/O backend do.  The log itself is module Wal: here it is  *)
(* `store', what a read of a page that is not cached returns.              *)
(***************************************************************************)
EXTENDS Integers, Sequences, SequencesExt, FiniteSets, FiniteSetsExt

CONSTANTS
    Objs,         \* identities of page objects, a set of naturals (a bound)
    Slots,        \* references to pages that cursors keep
    MaxPage,      \* largest page number explored (a bound)
    FirstSize,    \* pages of the database at the start
    Capacities,   \* values of PRAGMA cache_size explored
    PtrmapPages,  \* pages is_ptrmap_page answers true for under auto_vacuum
                  \* Full; empty when it is off
    MaxLeaves,    \* entries of a free-list trunk page: usable_size / 4 - 2
    Word,         \* the modulus of the usize in_flight_writes
    Works         \* workloads explored: the calls a client makes, how many of
                  \* them at most and of which pages (bounds), the first
                  \* cache size

Ops == {"read", "fail", "write", "delete", "renumber", "allocate", "free", "commit",
        "savepoint", "rollback_to", "rollback", "halt", "checkpoint", "resize"}

ASSUME PagerAssumption ==
    /\ Objs \subseteq Nat /\ IsFiniteSet(Objs)
    /\ FirstSize \in 1..MaxPage /\ MaxPage \in Nat
    /\ Capacities \subseteq Nat \ {0} /\ Capacities # {}
    /\ PtrmapPages \subseteq 2..MaxPage
    /\ MaxLeaves \in Nat /\ Word \in Nat \ {0}
    /\ Works \subseteq [ops : SUBSET Ops, calls : Nat, pages : SUBSET (1..MaxPage), capacity : Capacities]

VARIABLES
    list,         \* the LRU list, head first: [key, obj, live]; live: the
                  \* hash map points at this entry
    page,         \* the page objects: id, flags, contents
    capacity,     \* DumbLruPageCache.capacity
    dirty_pages,  \* Pager.dirty_pages
    hdr,          \* the database header in memory: size, trunk, nfree
    held,         \* the page objects the cursors refer to
    pending,      \* writes of log frames not finished yet, per page object
    in_flight,    \* FlushInfo.in_flight_writes, which should count them
    flush,        \* FlushInfo.state: "Start" or "WaitAppendFrames"
    store,        \* what a read of each page from the log or file returns
    base,         \* the same, as committed
    saved,        \* the same, as of the open savepoint (or NoSave)
    truth,        \* history: the pages as this transaction last wrote them
    marks,        \* history: the failures met, see Clean
    fault,        \* "none", or why the process stopped
    work          \* the workload, with the calls left

cacheVars == <<list, page>>
vars == <<list, page, capacity, dirty_pages, hdr, held, pending, in_flight, flush,
          store, base, saved, truth, marks, fault, work>>

Ids  == 1..MaxPage
None == 0

\* The contents of a page: a node of a tree (v stands for its cells), a trunk of
\* the free list, the header page (v the size, next the trunk, leaves the count).
Contents(kind, v, next, leaves) ==
    [kind |-> kind, v |-> v, next |-> next, leaves |-> leaves]
Nothing    == Contents("nothing", 0, 0, <<>>)
Tree(v)    == Contents("tree", v, 0, <<>>)
Unused     == Contents("unused", 0, 0, <<>>)
Garbage    == Contents("garbage", 0, 0, <<>>)
HeaderPage(h) == Contents("head", h.size, h.trunk, <<h.nfree>>)
NoSave     == [i \in Ids |-> Unused]
Header     == [size |-> FirstSize, trunk |-> 0, nfree |-> 0]

Blank == [id |-> None, dirty |-> FALSE, locked |-> FALSE, loaded |-> FALSE,
          contents |-> Nothing]

-----------------------------------------------------------------------------
(* The cache.  An operation takes and returns [list, page, ok, freed]: ok is  *)
(* its Ok or Err, freed that it followed the pointer of a freed entry.        *)

Cache == [list |-> list, page |-> page, ok |-> TRUE, freed |-> FALSE]

LiveAt(l, k) == {j \in 1..Len(l) : l[j].live /\ l[j].key = k}
Keys(l)      == {l[j].key : j \in {n \in 1..Len(l) : l[n].live}}
Entries(l)   == {l[j].obj : j \in 1..Len(l)}
\* The page object cached under a key.
At(l, k)     == l[CHOOSE j \in LiveAt(l, k) : TRUE].obj

\* Mutant: dirty pages are not pinned.
Refused_locked(p) ==
    p.locked

Refused(p) == p.locked \/ p.dirty
Cleaned(p) == [p EXCEPT !.loaded = FALSE, !.contents = Nothing]

\* _delete: a key that is not there is Ok; detach refuses locked and dirty pages
\* and takes the contents of the others.
Delete(c, k) ==
    LET J == LiveAt(c.list, k)
        j == CHOOSE x \in J : TRUE
        o == c.list[j].obj
    IN  IF J = {} THEN [c EXCEPT !.ok = TRUE]
        ELSE IF Refused(c.page[o]) THEN [c EXCEPT !.ok = FALSE]
        ELSE [c EXCEPT !.ok = TRUE, !.list = RemoveAt(@, j), !.page[o] = Cleaned(@)]

\* The loop of make_room_for: from position i towards the head, delete by the key
\* of each entry.  The deleted entry is the one the map has for that key: another
\* entry, when the map has been made to point at a newer one.  If that one is the
\* next of the walk, the walk goes on in freed memory.
RECURSIVE Evict(_, _, _)
Evict(c, i, need) ==
    IF need = 0 \/ i = 0 THEN [c EXCEPT !.ok = (need = 0)]
    ELSE LET J == LiveAt(c.list, c.list[i].key)
             d == Delete(c, c.list[i].key)
             gone == Len(d.list) < Len(c.list)
         IN  IF ~d.ok THEN Evict(d, i - 1, need)
             ELSE IF gone /\ (i - 1) \in J /\ need > 1
                  THEN [d EXCEPT !.freed = TRUE]
             ELSE IF gone /\ \E j \in J : j < i THEN Evict(d, i - 2, need - 1)
             ELSE Evict(d, i - 1, need - 1)

\* Mutant: evicts one page too few.
MakeRoomFor_late(c, n) ==
    LET len == Cardinality(Keys(c.list))
    IN  IF n > capacity THEN [c EXCEPT !.ok = FALSE]
        ELSE Evict(c, Len(c.list), Max({0, len - capacity}))

MakeRoomFor(c, n) ==
    LET len == Cardinality(Keys(c.list))
    IN  IF n > capacity THEN [c EXCEPT !.ok = FALSE]
        ELSE Evict(c, Len(c.list), Max({0, len + n - capacity}))

\* get: the entry moves to the head.
Touch(c, k) ==
    LET j == CHOOSE x \in LiveAt(c.list, k) : TRUE
    IN  [c EXCEPT !.list = <<@[j]>> \o RemoveAt(@, j)]

\* _insert.  With ignore, an entry of the same key stays in the list, and the map
\* forgets it.
Insert(c, k, o, ignore) ==
    IF ~ignore /\ k \in Keys(c.list) THEN [Touch(c, k) EXCEPT !.ok = FALSE]
    ELSE LET AtHead(r) ==
               IF ~r.ok \/ r.freed THEN r
               ELSE [r EXCEPT !.list =
                       <<[key |-> k, obj |-> o, live |-> TRUE]>>
                       \o [j \in 1..Len(@) |-> [@[j] EXCEPT !.live = @ /\ r.list[j].key # k]]]
         IN  AtHead(MakeRoomFor(c, 1))

\* clear: from the head, the key leaves the map before detach can refuse.
Clear(c) ==
    LET stop == {j \in 1..Len(c.list) : Refused(c.page[c.list[j].obj])}
        n    == IF stop = {} THEN Len(c.list) + 1 ELSE Min(stop)
        dropped == {c.list[j].key : j \in {m \in 1..Len(c.list) : m <= n}}
        rest == SubSeq(c.list, n, Len(c.list))
    IN  [c EXCEPT
           !.ok   = (stop = {}),
           !.list = [j \in 1..Len(rest) |-> [rest[j] EXCEPT !.live = @ /\ rest[j].key \notin dropped]],
           !.page = [o \in Objs |-> IF \E m \in 1..(n - 1) : c.list[m].obj = o
                                    THEN Cleaned(@[o]) ELSE @[o]]]

-----------------------------------------------------------------------------
(* Pager operations used by the actions.                                      *)

\* Page::new takes an object nobody refers to.
Spare(c) == {o \in Objs : o \notin Entries(c.list) /\ pending[o] = 0
                          /\ \A s \in Slots : held[s] # o}
Fresh(c) == Min(Spare(c))

\* read_page, up to the start of the read: the cached page, or a locked new one in
\* a reserved slot.  obj is None when the cache is full.
ReadPage(c, i) ==
    IF i \in Keys(c.list)
    THEN [cache |-> [Touch(c, i) EXCEPT !.ok = TRUE], obj |-> At(c.list, i)]
    ELSE LET o == Fresh(c)
             Reserved(r) == [cache |-> r, obj |-> IF r.ok /\ ~r.freed THEN o ELSE None]
         IN  Reserved(Insert([c EXCEPT !.page[o] = [Blank EXCEPT !.id = i, !.locked = TRUE]],
                             i, o, FALSE))

\* Mutant: the newer frame of the log is not looked up.
FinishRead_file(p) ==
    [p EXCEPT !.locked = FALSE, !.loaded = TRUE, !.contents = base[p.id]]

\* finish_read_page, the completion of a read of the newest frame or of the file.
FinishRead(p) == [p EXCEPT !.locked = FALSE, !.loaded = TRUE, !.contents = store[p.id]]

\* The new cache; page objects that nothing refers to any more are gone.
Settle(c, h, w) ==
    /\ list' = c.list
    /\ held' = h
    /\ pending' = w
    /\ page' = [o \in Objs |->
          IF o \in Entries(c.list) \/ w[o] > 0 \/ \E s \in Slots : h[s] = o
          THEN c.page[o] ELSE Blank]

Stop(c) == fault' = IF c.freed THEN "freed" ELSE "none"

\* The failures after which the cache and the pages need not agree:
\*  early - a frame was read before its own write had finished;
\*  raced - a finished frame write cleared the dirty flag of a page that had been
\*          written again;
\*  torn  - clear, a flush or a renumbering failed part-way;
\*  unwound - ROLLBACK left the trunk of the free list in memory as it was;
\*  short - free_page or allocate_page failed after changing the header;
\*  reset - ROLLBACK zeroed in_flight_writes with writes in flight.
Marked(m, on) == marks' = IF on THEN marks \cup {m} ELSE marks
Clean(ms)     == marks \cap ms = {}

Running == fault = "none"

\* A client's next call.  None starts while a flush waits: COMMIT has set
\* auto_commit back by then, so that ROLLBACK is refused as well.
Call(op) ==
    /\ Running /\ flush = "Start"
    /\ op \in work.ops /\ work.calls > 0
    /\ work' = [work EXCEPT !.calls = @ - 1]

-----------------------------------------------------------------------------
(* The cursors.                                                               *)

\* A cursor reads a page of a tree and keeps the reference.
Fetch(s, i) ==
    /\ Call("read") /\ Spare(Cache) # {}
    /\ i \in work.pages \/ i > FirstSize
    /\ truth[i].kind \in {"tree", "head"}
    /\ \E r \in {ReadPage(Cache, i)} :
           Settle(r.cache, [held EXCEPT ![s] = IF r.obj = None THEN @ ELSE r.obj], pending) /\ Stop(r.cache)
    /\ UNCHANGED <<capacity, dirty_pages, hdr, in_flight, flush, store, base, saved,
                   truth, marks>>

\* The read cannot be started: unreserve_cache_slot gives the slot back.
FetchFails(i) ==
    /\ Call("fail") /\ Spare(Cache) # {}
    /\ i \in work.pages /\ truth[i].kind = "tree" /\ i \notin Keys(list)
    /\ \E r \in {ReadPage(Cache, i)} :
           /\ r.obj # None
           /\ \E d \in {Delete([r.cache EXCEPT !.page[r.obj].locked = FALSE], i)} :
                 Settle(d, held, pending) /\ Stop(d)
    /\ UNCHANGED <<capacity, dirty_pages, hdr, in_flight, flush, store, base, saved,
                   truth, marks>>

\* The completion of a read.
ReadDone(o) ==
    /\ Running /\ page[o].locked
    /\ page' = [page EXCEPT ![o] = FinishRead(@)]
    /\ UNCHANGED <<list, capacity, dirty_pages, hdr, held, pending, in_flight, flush,
                   store, base, saved, truth, marks, fault, work>>

\* The index has the frame from the moment it is appended: a read can overtake
\* the write, and returns what the log held there before.
ReadEarly(o) ==
    /\ Running /\ page[o].locked
    /\ store[page[o].id] # base[page[o].id]
    /\ \E w \in Objs : pending[w] > 0 /\ page[w].id = page[o].id
    /\ page' = [page EXCEPT ![o] = [FinishRead(@) EXCEPT !.contents = Garbage]]
    /\ Marked("early", TRUE)
    /\ UNCHANGED <<list, capacity, dirty_pages, hdr, held, pending, in_flight, flush,
                   store, base, saved, truth, fault, work>>

\* return_if_locked_maybe_load: a page that lost its contents is read again.
Reload(s) ==
    /\ Running /\ held[s] # None /\ Spare(Cache) # {}
    /\ ~page[held[s]].locked /\ ~page[held[s]].loaded
    /\ \E r \in {ReadPage(Cache, page[held[s]].id)} :
           /\ Settle(r.cache, IF r.obj = None THEN held ELSE [held EXCEPT ![s] = r.obj], pending)
           /\ Stop(r.cache)
    /\ UNCHANGED <<capacity, dirty_pages, hdr, in_flight, flush, store, base, saved,
                   truth, marks, work>>

\* set_dirty, add_dirty and new cells.
Changed(o, v) ==
    /\ page' = [page EXCEPT ![o].dirty = TRUE, ![o].contents = Tree(v)]
    /\ dirty_pages' = dirty_pages \cup {page[o].id}
    /\ truth' = [truth EXCEPT ![page[o].id] = Tree(v)]

\* An insert writes the page it has checked to be there.
Write(s) ==
    /\ Call("write") /\ held[s] # None
    /\ LET p == page[held[s]]
       IN  /\ ~p.locked /\ p.loaded /\ truth[p.id].kind = "tree"
           /\ Changed(held[s], 1 - truth[p.id].v)
    /\ UNCHANGED <<list, capacity, hdr, held, pending, in_flight, flush, store, base,
                   saved, marks, fault>>

\* A delete does not check: it panics when the contents are gone.
DeleteRow(s) ==
    /\ Call("delete") /\ held[s] # None
    /\ LET p == page[held[s]]
       IN  /\ ~p.locked /\ truth[p.id].kind = "tree"
           /\ IF p.contents = Nothing
              THEN fault' = "no contents" /\ UNCHANGED <<page, dirty_pages, truth>>
              ELSE fault' = fault /\ Changed(held[s], 1 - truth[p.id].v)
    /\ UNCHANGED <<list, capacity, hdr, held, pending, in_flight, flush, store, base,
                   saved, marks>>

\* balance_non_root gives the pages it wrote ascending numbers: two pages in the
\* wrong order swap theirs, the last first, through
\* update_dirty_loaded_page_in_cache.
Renumber(s, t) ==
    /\ Call("renumber")
    /\ held[s] # None /\ held[t] # None
    /\ LET a == held[s]
           b == held[t]
           i == page[a].id
           j == page[b].id
           First   == Insert([Cache EXCEPT !.page[b].id = i], i, b, TRUE)
           Both(c) == IF c.ok /\ ~c.freed THEN Insert([c EXCEPT !.page[a].id = j], j, a, TRUE)
                      ELSE c
       IN  /\ i > j
           /\ \A o \in {a, b} :
                 /\ page[o].dirty /\ ~page[o].locked /\ page[o].loaded
                 /\ page[o].id \in dirty_pages
                 /\ truth[page[o].id].kind = "tree"
           /\ \E r \in {Both(First)} :
                  /\ Settle(r, held, pending) /\ Stop(r)
                  /\ Marked("torn", ~r.ok)
                  /\ truth' = IF r.ok THEN [truth EXCEPT ![i] = page[b].contents,
                                                         ![j] = page[a].contents]
                              ELSE truth
    /\ UNCHANGED <<capacity, dirty_pages, hdr, in_flight, flush, store, base, saved>>

-----------------------------------------------------------------------------
(* Allocation and the free list.                                              *)

\* write_database_header: read page 1, wait for it, write the header into it.
\* ok is FALSE when page 1 is not cached and there is no room for it.
WriteHeader(c, h) ==
    LET Written(p)   == [IF p.locked THEN FinishRead(p) ELSE p EXCEPT
                           !.dirty = TRUE, !.contents = HeaderPage(h)]
        WriteInto(r) == IF r.obj = None THEN r.cache
                        ELSE [r.cache EXCEPT !.page[r.obj] = Written(@)]
    IN  WriteInto(ReadPage(c, 1))

NewPage(i, kind) == [Blank EXCEPT !.id = i, !.loaded = TRUE, !.contents = Contents(kind, 0, 0, <<>>)]
\* insert of a new page, which is then dirty.
InsertNew(c, i, kind) ==
    LET o == Fresh(c)
        Dirtied(r) == IF r.ok /\ ~r.freed THEN [r EXCEPT !.page[o].dirty = TRUE] ELSE r
    IN  Dirtied(Insert([c EXCEPT !.page[o] = NewPage(i, kind)], i, o, FALSE))

\* allocate_page.  The pages it needs are inserted before the size changes; the
\* reservation of a pointer-map page is undone when the second insert fails; the
\* header is written last, and can fail with the size changed.
AllocatePage(s) ==
    /\ Call("allocate")
    /\ Cardinality(Spare(Cache)) > 2
    /\ LET ptr == (hdr.size + 1) \in PtrmapPages
           id  == IF ptr THEN hdr.size + 2 ELSE hdr.size + 1
           new == (hdr.size + 1)..id
           h   == [hdr EXCEPT !.size = id]
           Undo(c) == IF ptr THEN Delete([c EXCEPT !.page[At(c.list, hdr.size + 1)].dirty = FALSE],
                                         hdr.size + 1)
                      ELSE c
           Fail(c) == /\ Settle(c, held, pending) /\ Stop(c)
                      /\ UNCHANGED <<dirty_pages, hdr, truth, marks>>
           Grow(c, d) ==      \* c with the new pages, d with the header written too
             /\ hdr' = h
             /\ Settle(d, IF d.ok THEN [held EXCEPT ![s] = At(c.list, id)] ELSE held, pending)
             /\ Stop(d)
             /\ dirty_pages' = dirty_pages \cup new \cup (IF d.ok THEN {1} ELSE {})
             /\ truth' = [i \in Ids |->
                   IF i = 1 /\ d.ok THEN HeaderPage(h)
                   ELSE IF i \in new THEN c.page[At(c.list, i)].contents
                   ELSE truth[i]]
             /\ Marked("short", ~d.ok)
       IN  /\ id <= MaxPage
           /\ \E b \in {IF ptr THEN InsertNew(Cache, hdr.size + 1, "ptrmap") ELSE Cache} :
                IF b.freed \/ ~b.ok THEN Fail(b)
                ELSE \E c \in {InsertNew(b, id, "tree")} :
                       IF c.freed THEN Fail(c)
                       ELSE IF ~c.ok THEN \E u \in {Undo(c)} : Fail(u)
                       ELSE \E d \in {WriteHeader(c, h)} : Grow(c, d)
    /\ UNCHANGED <<capacity, in_flight, flush, store, base, saved>>

\* Mutant: a new trunk does not point to the old one.
NewTrunk_unlinked == Contents("trunk", 0, 0, <<>>)

\* A trunk without entries, before the first one of the list.
NewTrunk == Contents("trunk", 0, hdr.trunk, <<>>)

\* free_page of a page the caller holds (every caller passes it): an entry of the first trunk, or a new
\* trunk.  freelist_pages is counted before the trunk is read; a trunk whose read
\* has not finished is reported as corruption.  Only the header in memory changes.
FreePage(s) ==
    /\ Call("free") /\ held[s] # None
    /\ Spare(Cache) # {}
    /\ LET o == held[s]
           i == page[o].id
           \* Page n, in object t, takes contents k; page i is in the free list.
           Link(c, t, n, k, h) ==
              /\ Settle([c EXCEPT !.page[t].dirty = TRUE, !.page[t].contents = k,
                                  !.page[o].loaded = FALSE], held, pending)
              /\ Stop(c)
              /\ dirty_pages' = dirty_pages \cup {n}
              /\ truth' = [truth EXCEPT ![i] = Unused, ![n] = k]
              /\ hdr' = [h EXCEPT !.nfree = @ + 1]
              /\ UNCHANGED marks
           Fail(c) ==
              /\ Settle(c, held, pending) /\ Stop(c)
              /\ hdr' = [hdr EXCEPT !.nfree = @ + 1]
              /\ Marked("short", TRUE)
              /\ UNCHANGED <<dirty_pages, truth>>
       IN  /\ page[o].loaded /\ ~page[o].locked /\ truth[i].kind = "tree"
           /\ IF hdr.trunk = 0 THEN Link(Cache, o, i, NewTrunk, [hdr EXCEPT !.trunk = i])
              ELSE \E r \in {ReadPage(Cache, hdr.trunk)} :
                     LET k == r.cache.page[r.obj].contents
                     IN  IF r.obj = None THEN Fail(r.cache)
                         ELSE IF k = Nothing THEN Fail(r.cache)
                         ELSE IF Len(k.leaves) < MaxLeaves
                              THEN Link(r.cache, r.obj, hdr.trunk, [k EXCEPT !.leaves = Append(@, i)], hdr)
                         ELSE Link(r.cache, o, i, NewTrunk, [hdr EXCEPT !.trunk = i])
    /\ UNCHANGED <<capacity, in_flight, flush, store, base, saved>>

-----------------------------------------------------------------------------
(* Flushing and clearing.                                                     *)

\* append_frame of every page of ids: the log holds them, their writes are in
\* flight.
Appended(ids) == [i \in Ids |-> IF i \in ids THEN page[At(list, i)].contents ELSE store[i]]
InFlight(ids) == [o \in Objs |-> pending[o] + Cardinality({i \in ids : At(list, i) = o})]
Flushable(i)  == i \in Keys(list) /\ page[At(list, i)].contents # Nothing

\* cacheflush in state Start, when every page can be written: the dirty flags go,
\* then the cache is cleared, then the dirty set.  Clearing fails on a locked page
\* or on one that is flagged dirty without being in the dirty set.
FlushStart ==
    /\ Call("commit") /\ \A i \in dirty_pages : Flushable(i)
    /\ LET written == {At(list, i) : i \in dirty_pages}
           clean   == [o \in Objs |-> [page[o] EXCEPT !.dirty = @ /\ o \notin written]]
       IN \E c \in {Clear([Cache EXCEPT !.page = clean])} :
           /\ Settle(c, held, InFlight(dirty_pages))
           /\ IF c.ok THEN /\ dirty_pages' = {} /\ flush' = "WaitAppendFrames"
                           /\ store' = Appended(dirty_pages)
                           /\ UNCHANGED marks
              ELSE /\ Marked("torn", TRUE)
                   /\ UNCHANGED <<dirty_pages, flush, store>>
    /\ in_flight' = (in_flight + Cardinality(dirty_pages)) % Word
    /\ UNCHANGED <<capacity, hdr, base, saved, truth, fault>>

\* cacheflush meets a page it cannot write (or append_frame fails) after some.
FlushFails ==
    /\ Call("fail")
    /\ \E done \in SUBSET {i \in dirty_pages : Flushable(i)} :
          /\ done # dirty_pages
          /\ page' = [o \in Objs |-> [page[o] EXCEPT
                         !.dirty = @ /\ ~\E i \in done : At(list, i) = o]]
          /\ pending' = InFlight(done)
          /\ in_flight' = (in_flight + Cardinality(done)) % Word
          /\ Marked("torn", TRUE)
    /\ UNCHANGED <<list, capacity, dirty_pages, hdr, held, flush, store, base, saved,
                   truth, fault>>

\* The completion of the write of a frame: it clears the page's dirty flag.
WriteDone(o) ==
    /\ Running /\ pending[o] > 0
    /\ in_flight' = (in_flight - 1) % Word
    /\ Settle([Cache EXCEPT !.page[o].dirty = FALSE], held, [pending EXCEPT ![o] = @ - 1])
    /\ Marked("raced", page[o].id \in dirty_pages /\ o \in Entries(list))
    /\ UNCHANGED <<capacity, dirty_pages, hdr, flush, store, base, saved, truth, fault, work>>

\* Mutant: the sync does not wait for the writes.
FlushDone_nowait ==
    /\ Running /\ flush = "WaitAppendFrames"
    /\ flush' = "Start"
    /\ base' = store
    /\ saved' = NoSave
    /\ UNCHANGED <<list, page, capacity, dirty_pages, hdr, held, pending, in_flight, store,
                   truth, marks, fault, work>>

\* cacheflush in state WaitAppendFrames and after: the sync, and the end of the
\* transaction with its savepoints.
FlushDone ==
    /\ Running /\ flush = "WaitAppendFrames" /\ in_flight = 0
    /\ flush' = "Start"
    /\ base' = store
    /\ saved' = NoSave
    /\ UNCHANGED <<list, page, capacity, dirty_pages, hdr, held, pending, in_flight, store,
                   truth, marks, fault, work>>

\* get of every page of ids, in any order: a HashSet is gone through.
Touched(ids) ==
    {FoldLeft(Touch, Cache, order) : order \in SetToSeqs(ids)}

\* SAVEPOINT: flush_dirty_pages_to_wal writes the dirty pages that are cached and
\* forgets that they are dirty; their flags stay until the writes finish.
OpenSavepoint ==
    /\ Call("savepoint") /\ saved = NoSave
    /\ LET ids == dirty_pages \cap Keys(list)
       IN  /\ pending' = InFlight(ids)
           /\ in_flight' = (in_flight + Cardinality(ids)) % Word
           /\ store' = Appended(ids)
           /\ saved' = store'
           /\ \E c \in Touched(ids) : list' = c.list
    /\ dirty_pages' = {}
    /\ UNCHANGED <<page, capacity, hdr, held, flush, base, truth, marks, fault>>

\* RELEASE.
ReleaseSavepoint ==
    /\ Running /\ saved # NoSave /\ flush = "Start"
    /\ saved' = NoSave
    /\ UNCHANGED <<list, page, capacity, dirty_pages, hdr, held, pending, in_flight, flush,
                   store, base, truth, marks, fault, work>>

\* The entries of the trunks among these pages.
Leaves(now) == UNION {ToSet(now[t].leaves) : t \in {i \in Ids : now[i].kind = "trunk"}}

\* Mutant: only the pages of the dirty set are undirtied.
ClearPageCache_set(now) ==
    /\ LET undirty == {At(list, i) : i \in dirty_pages \cap Keys(list)}
           clean   == [o \in Objs |-> [page[o] EXCEPT !.dirty = @ /\ o \notin undirty]]
       IN \E c \in {Clear([Cache EXCEPT !.page = clean])} :
           Settle(c, held, pending) /\ fault' = IF c.ok THEN "none" ELSE "clear"
    /\ dirty_pages' = {}
    /\ store' = now
    /\ truth' = [i \in Ids |-> IF i \in Leaves(now) THEN Unused ELSE now[i]]

\* clear_page_cache, after which reads return the pages of `now'.  The panic of a
\* failing clear stops the process.
ClearPageCache(now) ==
    /\ LET undirty == {list[j].obj : j \in {n \in 1..Len(list) : list[n].live}}
           clean   == [o \in Objs |-> [page[o] EXCEPT !.dirty = @ /\ o \notin undirty]]
       IN \E c \in {Clear([Cache EXCEPT !.page = clean])} :
           Settle(c, held, pending) /\ fault' = IF c.ok THEN "none" ELSE "clear"
    /\ dirty_pages' = {}
    /\ store' = now
    /\ truth' = [i \in Ids |-> IF i \in Leaves(now) THEN Unused ELSE now[i]]

\* The header in memory describes a free list that is not the one of `now'.
Unwound(now) ==
    IF \E i \in Ids : "trunk" \in {truth[i].kind, now[i].kind} /\ now[i] # truth[i]
    THEN {"unwound"} ELSE {}

\* ROLLBACK: the header in memory stays as it is, and in_flight_writes is zeroed.
Rollback ==
    /\ Call("rollback")
    /\ ClearPageCache(base)
    /\ in_flight' = 0
    /\ saved' = NoSave
    /\ marks' = marks \cup Unwound(base) \cup (IF in_flight # 0 THEN {"reset"} ELSE {})
    /\ UNCHANGED <<capacity, hdr, flush, base>>

\* ROLLBACK TO.
RollbackTo ==
    /\ Call("rollback_to") /\ saved # NoSave
    /\ ClearPageCache(saved)
    /\ marks' = marks \cup Unwound(saved)
    /\ UNCHANGED <<capacity, hdr, in_flight, flush, base, saved>>

\* A failing statement (Halt with an error) drops everything not yet flushed.
Halt ==
    /\ Call("halt")
    /\ ClearPageCache(store)
    /\ marks' = marks \cup Unwound(store)
    /\ UNCHANGED <<capacity, hdr, in_flight, flush, base, saved>>

\* evict_checkpointed_pages, for one page: locked and dirty ones stay.
EvictCheckpointed(i) ==
    /\ Call("checkpoint") /\ i \in Keys(list)
    /\ Settle(Delete(Cache, i), held, pending)
    /\ UNCHANGED <<capacity, dirty_pages, hdr, in_flight, flush, store, base, saved, truth,
                   marks, fault>>

\* change_page_cache_size.
Resize(n) ==
    /\ Call("resize") /\ n # capacity
    /\ capacity' = n
    /\ \E c \in {Evict(Cache, Len(list), Max({0, Cardinality(Keys(list)) - n}))} :
           Settle(c, held, pending) /\ Stop(c)
    /\ UNCHANGED <<dirty_pages, hdr, in_flight, flush, store, base, saved, truth, marks>>

-----------------------------------------------------------------------------
FirstPages == [i \in Ids |-> IF i = 1 THEN HeaderPage(Header)
                             ELSE IF i <= FirstSize THEN Tree(0) ELSE Unused]

Init ==
    /\ list = <<>> /\ page = [o \in Objs |-> Blank]
    /\ dirty_pages = {} /\ hdr = Header
    /\ held = [s \in Slots |-> None]
    /\ pending = [o \in Objs |-> 0] /\ in_flight = 0 /\ flush = "Start"
    /\ store = FirstPages /\ base = FirstPages /\ saved = NoSave /\ truth = FirstPages
    /\ marks = {} /\ fault = "none" /\ work \in Works /\ capacity = work.capacity

Next ==
    \/ \E s \in Slots : \E i \in Ids : Fetch(s, i)
    \/ \E i \in Ids : FetchFails(i) \/ EvictCheckpointed(i)
    \/ \E o \in Objs : ReadDone(o) \/ ReadEarly(o) \/ WriteDone(o)
    \/ \E s \in Slots : Reload(s) \/ Write(s) \/ DeleteRow(s)
                        \/ AllocatePage(s) \/ FreePage(s)
    \/ \E s, t \in Slots : Renumber(s, t)
    \/ FlushStart \/ FlushFails \/ FlushDone
    \/ OpenSavepoint \/ ReleaseSavepoint \/ RollbackTo \/ Rollback \/ Halt
    \/ \E n \in Capacities : Resize(n)

Spec == Init /\ [][Next]_vars
-----------------------------------------------------------------------------
(* Properties.                                                                *)

\* What read_page gives for page i, once the read is finished.
Visible(i) ==
    IF i \in Keys(list) /\ ~page[At(list, i)].locked
    THEN page[At(list, i)].contents ELSE store[i]

\* Every page reads as the transaction last wrote it, through evictions, reloads
\* of pages a cursor held, failed reads, savepoints, flushes and rollbacks, unless
\* a read has overtaken the write of its frame.
Coherent ==
    Running /\ Clean({"early", "raced", "torn", "unwound"}) =>
        \A i \in Ids : truth[i] # Unused => Visible(i) = truth[i]

\* cacheflush finds every page of the dirty set: it is cached under its own
\* number, flagged dirty so that it cannot be evicted, and has its contents ("dirty
\* pages are pinned against eviction").
DirtyPinned ==
    Running /\ Clean({"raced", "torn"}) =>
        \A i \in dirty_pages :
            /\ i \in Keys(list)
            /\ LET p == page[At(list, i)]
               IN  p.dirty /\ p.id = i /\ p.contents # Nothing

\* The trunks of the free list in order, and the pages on it.
Trunks ==
    LET chain[n \in 0..MaxPage] ==
          IF n = 0 THEN <<>>
          ELSE LET before == chain[n - 1]
                   t == IF n = 1 THEN hdr.trunk
                        ELSE IF before = <<>> THEN 0 ELSE truth[Last(before)].next
               IN  IF t = 0 \/ Len(before) < n - 1 THEN before ELSE Append(before, t)
    IN  chain[MaxPage]
FreeList == Trunks \o FoldLeft(LAMBDA acc, t : acc \o truth[t].leaves, <<>>, Trunks)

\* The free list holds every page that was freed once, as many as the header in
\* memory counts, and no page of a tree.  The header page that is committed covers
\* every page committed with it: allocate_page makes page 1 part of the transaction.
HeaderSound ==
    /\ Clean({"unwound", "short"}) =>
        /\ IsInjective(FreeList) /\ Len(FreeList) = hdr.nfree
        /\ \A i \in ToSet(FreeList) : i \in 2..hdr.size /\ truth[i].kind # "tree"
    /\ Clean({"short", "torn"}) => \A i \in Ids : base[i] # Unused => i <= base[1].v

\* The cache never grows past its capacity, as long as every entry of the list is
\* the one the map has for its key.
Bounded ==
    [][(\A j \in 1..Len(list) : list[j].live) =>
          Cardinality(Keys(list')) <= Max({capacity', Cardinality(Keys(list))})]_vars

\* A commit reaches its sync when no frame it appended is still being written.
FsyncAfterWrites ==
    [][flush = "WaitAppendFrames" /\ flush' = "Start" /\ Clean({"reset"}) =>
          \A o \in Objs : pending[o] = 0]_vars

\* clear_page_cache panics only when a read is in flight: renumbered pages, and
\* pages that a SAVEPOINT flushed and that are still flagged dirty, do not stop it.
ClearsUnlessReading ==
    [][fault' = "clear" /\ Clean({"torn"}) =>
          \E j \in 1..Len(list) : page[list[j].obj].locked]_vars

=============================================================================
