----------------------------- MODULE BTreePage -----------------------------
(***************************************************************************)
(* The bytes of one B-tree page (storage/btree/page_ops.rs): where its     *)
(* cells lie, the list of free blocks between them, the fragments too      *)
(* small to be a block, and the cells that did not fit and wait beside the *)
(* page (overflow_cells) until it is balanced.                             *)
(*                                                                         *)
(* Instead of a payload a cell carries its number: the position the calls  *)
(* meant it to have, counted anew when cells come or go before it.  The    *)
(* chain of free blocks, whose links lie in the blocks themselves, is a    *)
(* sequence: Layout says that no cell lies over a block, so no payload     *)
(* overwrites a link.                                                      *)
(***************************************************************************)
EXTENDS Integers, Sequences, SequencesExt, FiniteSetsExt

CONSTANTS
  Usable,    \* usable_space, the page size less the reserved bytes
  Header,    \* bytes before the cell pointers: 8 on a leaf, 12 on an interior page
  Lens,      \* lengths of cells; fill_cell_payload makes none below 4
  MaxFrag,   \* 57 in the code: above it no more fragments are made
  Buffered,  \* 10 in the code: ranges page_free_array collects before it frees them
  MaxCells,  \* bound: cells on the page and beside it
  Dividers,  \* bound: cells inserted one after the other (4 dividers in the code)
  Foreign    \* bound: cells that come in on each side in a balance

\* A page of 65536 bytes, whose sizes do not fit the u16 the code keeps them in (a
\* content area of 0 is read as 65535), is not among the pages modelled.
ASSUME UsableAssumption == Usable \in 1..65535
ASSUME LensAssumption == Lens \subseteq 4..(Usable - Header - 2)

VARIABLES
  page,      \* cells, blocks, area, frag, overflow; corrupt: an error was returned
  want,      \* history: how many cells the page should hold
  mixed      \* history: a cell was put on the page while others waited beside it

vars == <<page, want, mixed>>

Cell(nr, len) == [nr |-> nr, len |-> len]
Fail(p) == [p EXCEPT !.corrupt = TRUE]

\* op(x), with x evaluated once.
With(x, op(_)) == CHOOSE y \in {op(v) : v \in {x}} : TRUE

Sum(s, f(_)) ==
  LET sum[i \in 0..Len(s)] == IF i = 0 THEN 0 ELSE sum[i - 1] + f(s[i]) IN sum[Len(s)]

Size(cells) == Sum(cells, LAMBDA c : c.len + 2)

\* btree_init_page
EmptyPage == [cells |-> <<>>, blocks |-> <<>>, area |-> Usable, frag |-> 0,
              overflow |-> <<>>, corrupt |-> FALSE]

\* unallocated_region_start
first_cell(p) == Header + 2 * Len(p.cells)

-----------------------------------------------------------------------------
(* Free space                                                              *)

free_bytes(p) == p.area + p.frag + Sum(p.blocks, LAMBDA b : b.size)

\* Mutant: the fragments are left out.
compute_free_space_blocks(p) == free_bytes(p) - p.frag - first_cell(p)

compute_free_space(p) == free_bytes(p) - first_cell(p)

\* The errors and asserts of compute_free_space; find_free_cell, which walks the
\* same chain afterwards, asks for no more.
chain_ok(p) ==
  /\ p.blocks # <<>> => p.blocks[1].at >= p.area /\ Last(p.blocks).at + Last(p.blocks).size <= Usable
  /\ \A i \in 1..Len(p.blocks) - 1 : p.blocks[i + 1].at > p.blocks[i].at + p.blocks[i].size + 3
  /\ free_bytes(p) <= Usable

\* The range becomes a block, joined with the blocks at most 3 bytes away, or
\* part of the unallocated space when it borders on it.
free_cell_range(p, at, len) ==
  LET k == Cardinality({i \in DOMAIN p.blocks : p.blocks[i].at < at})
      prev == p.blocks[k]
      next == p.blocks[k + 1]
      join_prev == k > 0 /\ prev.at + prev.size + 3 >= at
      join_next == k < Len(p.blocks) /\ at + len + 3 >= next.at
      start == IF join_prev THEN prev.at ELSE at
      end == IF join_next THEN next.at + next.size ELSE at + len
      removed == (IF join_next THEN next.at - (at + len) ELSE 0)
                   + (IF join_prev THEN at - (prev.at + prev.size) ELSE 0)
      before == SubSeq(p.blocks, 1, IF join_prev THEN k - 1 ELSE k)
      after == SubSeq(p.blocks, IF join_next THEN k + 2 ELSE k + 1, Len(p.blocks))
      q == [p EXCEPT !.frag = @ - removed]
  IN  IF \/ len < 4 \/ at > Usable - 4
         \/ \E i, j \in DOMAIN p.blocks : i < j /\ p.blocks[i].at >= p.blocks[j].at
         \/ k < Len(p.blocks) /\ next.at > Usable - 4
         \/ join_next /\ (at + len > next.at \/ end > Usable)
         \/ join_prev /\ prev.at + prev.size > at
         \/ removed > p.frag
         \/ start < p.area
         \/ start = p.area /\ k > 0
        THEN Fail(p)
      ELSE IF start = p.area
        THEN [q EXCEPT !.blocks = after, !.area = end]
        ELSE [q EXCEPT !.blocks = before \o <<[at |-> start, size |-> end - start]>> \o after]

\* The cells are packed at the end of the page, in the order of their pointers.
defragment_page(p) ==
  LET end(i) == Sum(SubSeq(p.cells, 1, i), LAMBDA c : c.len)
      cbrk == Usable - end(Len(p.cells))
  IN  IF \/ \E i \in DOMAIN p.cells : p.cells[i].at > Usable - 4 \/ p.cells[i].at + p.cells[i].len > Usable
         \/ cbrk < first_cell(p)
        THEN Fail(p)
        ELSE [p EXCEPT !.cells = [i \in DOMAIN @ |-> [@[i] EXCEPT !.at = Usable - end(i)]],
                       !.area = cbrk, !.blocks = <<>>, !.frag = 0]

-----------------------------------------------------------------------------
(* Allocation                                                              *)

\* Mutant: the cell is put at the head of the block, which keeps its head too.
find_free_cell_head(p, amount) ==
  LET fits == {i \in DOMAIN p.blocks : p.blocks[i].at <= Usable - amount /\ p.blocks[i].size >= amount}
      i == Min(fits)
      b == p.blocks[i]
      new_size == b.size - amount
  IN  IF fits = {} \/ (new_size < 4 /\ p.frag > MaxFrag) THEN [at |-> 0, p |-> p]
      ELSE IF new_size < 4 THEN [at |-> b.at, p |-> [p EXCEPT !.blocks = RemoveAt(@, i), !.frag = @ + new_size]]
      ELSE [at |-> b.at, p |-> [p EXCEPT !.blocks[i].size = new_size]]

\* The first block that is large enough, and what find_free_cell makes of it:
\* where the cell goes (0: nowhere) and the page without those bytes.
find_free_cell(p, amount) ==
  LET fits == {i \in DOMAIN p.blocks : p.blocks[i].at <= Usable - amount /\ p.blocks[i].size >= amount}
      i == Min(fits)
      b == p.blocks[i]
      new_size == b.size - amount
  IN  CASE fits = {} -> [at |-> 0, p |-> p]
        [] fits # {} /\ new_size < 4 /\ p.frag > MaxFrag -> [at |-> 0, p |-> p]
        [] fits # {} /\ new_size < 4 /\ p.frag <= MaxFrag ->
             [at |-> b.at, p |-> [p EXCEPT !.blocks = RemoveAt(@, i), !.frag = @ + new_size]]
        [] fits # {} /\ new_size >= 4 ->
             [at |-> b.at + new_size, p |-> [p EXCEPT !.blocks[i].size = new_size]]

allocate_cell_space(p, amount) ==
  LET found == IF p.blocks # <<>> /\ first_cell(p) + 2 <= p.area
                 THEN find_free_cell(p, amount) ELSE [at |-> 0, p |-> p]
      q == IF first_cell(p) + 2 + amount > p.area THEN defragment_page(p) ELSE p
  IN  IF found.at # 0 THEN found
      ELSE [at |-> q.area - amount, p |-> [q EXCEPT !.area = @ - amount]]

\* A cell goes on the page if there is room and the page has that position;
\* otherwise it waits beside the page.
insert_into_cell(p, c, idx) ==
  LET enough_space == idx <= Len(p.cells) /\ c.len + 2 <= compute_free_space(p)
  IN  IF p.corrupt \/ ~chain_ok(p) \/ idx > Len(p.cells) + Len(p.overflow)
        THEN Fail(p)
      ELSE IF ~enough_space
        THEN [p EXCEPT !.overflow = Append(@, [index |-> idx, nr |-> c.nr, len |-> c.len])]
      ELSE With(allocate_cell_space(p, c.len), LAMBDA new :
             IF new.at + c.len > Usable THEN Fail(p)
             ELSE [new.p EXCEPT !.cells =
                     InsertAt(@, idx + 1, [nr |-> c.nr, len |-> c.len, at |-> new.at])])

drop_cell(p, idx) ==
  LET c == p.cells[idx + 1]
      q == free_cell_range(p, c.at, c.len)
      reset == [q EXCEPT !.area = Usable, !.blocks = <<>>, !.frag = 0]
  IN  IF q.corrupt THEN q
      ELSE [(IF Len(p.cells) > 1 THEN q ELSE reset) EXCEPT !.cells = RemoveAt(@, idx + 1)]

-----------------------------------------------------------------------------
(* edit_page: a balance gives the page a slice of the siblings' cells      *)

\* Mutant: the cells beside the page are taken to come after its own.
cell_array_append(left, p, right) ==
  LET foreign(c) == [nr |-> c.nr, len |-> c.len, origin |-> 0]
      own == [i \in DOMAIN p.cells |->
                [nr |-> p.cells[i].nr, len |-> p.cells[i].len, origin |-> p.cells[i].at]]
      beside == [i \in DOMAIN p.overflow |-> foreign(p.overflow[i])]
  IN  [i \in DOMAIN left |-> foreign(left[i])] \o own \o beside \o [i \in DOMAIN right |-> foreign(right[i])]

\* The siblings' cells in order; origin is where the cell lies on this page, or 0.
cell_array(left, p, right) ==
  LET foreign(c) == [nr |-> c.nr, len |-> c.len, origin |-> 0]
      own == [i \in DOMAIN p.cells |->
                [nr |-> p.cells[i].nr, len |-> p.cells[i].len, origin |-> p.cells[i].at]]
      merged == FoldLeft(LAMBDA s, o : InsertAt(s, o.index + 1, foreign(o)), own, p.overflow)
  IN  [i \in DOMAIN left |-> foreign(left[i])] \o merged \o [i \in DOMAIN right |-> foreign(right[i])]

FreeAll(p, ranges) ==
  LET after[i \in 0..Len(ranges)] ==
        IF i = 0 THEN p
        ELSE LET q == after[i - 1]
                 r == ranges[i]
             IN  With(q, LAMBDA v : IF v.corrupt THEN v ELSE free_cell_range(v, r.at, r.end - r.at))
  IN  after[Len(ranges)]

\* Bordering ranges are joined before they are freed, at most Buffered at a time.
page_free_array(p, removed) ==
  LET add(s, c) ==
        LET r == [at |-> c.origin, end |-> c.origin + c.len]
            borders == {j \in DOMAIN s.buf : s.buf[j].at = r.end \/ s.buf[j].end = r.at}
            j == Min(borders)
        IN  IF borders # {}
              THEN [s EXCEPT !.buf[j] = IF @.at = r.end THEN [@ EXCEPT !.at = r.at]
                                                        ELSE [@ EXCEPT !.end = r.end]]
            ELSE IF Len(s.buf) >= Buffered THEN [p |-> FreeAll(s.p, s.buf), buf |-> <<r>>]
            ELSE [s EXCEPT !.buf = Append(@, r)]
      done == FoldLeft(add, [p |-> p, buf |-> <<>>], removed)
  IN  FreeAll(done.p, done.buf)

page_insert_array(p, array, first, count, start_insert) ==
  LET after[i \in 0..count] ==
        IF i = 0 THEN p
        ELSE With(after[i - 1], LAMBDA q :
               insert_into_cell(q, Cell(array[first + i].nr, array[first + i].len), start_insert + i - 1))
  IN  after[count]

\* What leaves the page, at its head and at its tail.
FreeMoved(p, array, start_old, start_new, number_new) ==
  LET own(first, last) == SelectSeq(SubSeq(array, first + 1, last), LAMBDA c : c.origin # 0)
      end_old == start_old + Len(p.cells) + Len(p.overflow)
      head == own(start_old, start_new)
      tail == own(start_new + number_new, end_old)
      q == [page_free_array(p, head) EXCEPT !.cells = SubSeq(@, Len(head) + 1, Len(@))]
      r == With(q, LAMBDA v : page_free_array(v, tail))
  IN  [r EXCEPT !.cells = SubSeq(@, 1, Len(@) - Len(tail))]

\* What comes in: from the left sibling, from beside the page, from the right.
\* What still waits beside the page after that would be dropped.
edit_page(p, array, start_old, start_new, number_new) ==
  LET from_left == IF start_new < start_old THEN Min({number_new, start_old - start_new}) ELSE 0
      idx(o) == start_old + o.index - start_new
      back == SelectSeq(p.overflow, LAMBDA o : idx(o) \in 0..(number_new - 1))
      insert_left(q) == page_insert_array(q, array, start_new, from_left, 0)
      insert_back(q) ==
        LET after[i \in 0..Len(back)] ==
              IF i = 0 THEN q
              ELSE With(after[i - 1], LAMBDA v : page_insert_array(v, array, start_new + idx(back[i]), 1, idx(back[i])))
        IN  after[Len(back)]
      insert_right(q, count) == page_insert_array(q, array, start_new + count, number_new - count, count)
      refill(freed) ==
        With(With(With(defragment_page(freed), insert_left), insert_back),
             LAMBDA q : insert_right(q, Len(freed.cells) + from_left + Len(back)))
      new == With(FreeMoved(p, array, start_old, start_new, number_new),
                  LAMBDA freed : IF freed.corrupt THEN freed ELSE refill(freed))
  IN  With(new, LAMBDA q : IF Len(q.cells) # number_new THEN Fail(q) ELSE [q EXCEPT !.overflow = <<>>])

-----------------------------------------------------------------------------
(* Steps                                                                   *)

Init == page = EmptyPage /\ want = 0 /\ mixed = FALSE

\* The numbers of the page's cells, mapped.
Renumber(p, new(_)) ==
  [p EXCEPT !.cells = [i \in DOMAIN @ |-> [@[i] EXCEPT !.nr = new(@)]],
            !.overflow = [i \in DOMAIN @ |-> [@[i] EXCEPT !.nr = new(@)]]]

\* insert_into_page with one cell, or the loop of balance_non_root that puts the
\* new dividers into the parent.
Insert(idx, lens) ==
  LET shifted == Renumber(page, LAMBDA k : IF k > idx THEN k + Len(lens) ELSE k)
      after[m \in 0..Len(lens)] ==
        IF m = 0 THEN shifted
        ELSE With(after[m - 1], LAMBDA q : insert_into_cell(q, Cell(idx + m, lens[m]), idx + m - 1))
  IN  /\ page.overflow = <<>> /\ ~page.corrupt
      /\ idx <= Len(page.cells)
      /\ want + Len(lens) <= MaxCells
      /\ page' = after[Len(lens)]
      /\ want' = want + Len(lens)
      /\ mixed' = \E m \in DOMAIN lens : /\ after[m - 1].overflow # <<>>
                                          /\ Len(after[m].cells) > Len(after[m - 1].cells)

\* DeleteState::FindCell, or a divider that is taken out of the parent.
Drop(idx) ==
  /\ page.overflow = <<>> /\ ~page.corrupt
  /\ idx < Len(page.cells)
  /\ page' = Renumber(drop_cell(page, idx), LAMBDA k : IF k > idx + 1 THEN k - 1 ELSE k)
  /\ want' = want - 1
  /\ UNCHANGED mixed

\* Same length: the bytes are replaced.  Otherwise drop and insert.
overwrite_cell(idx, len) ==
  /\ page.overflow = <<>> /\ ~page.corrupt
  /\ idx < Len(page.cells)
  /\ len # page.cells[idx + 1].len
  /\ page' = insert_into_cell(drop_cell(page, idx), Cell(idx + 1, len), idx)
  /\ UNCHANGED <<want, mixed>>

\* The page keeps what lies between two cuts of the siblings' cells.  (Cells of
\* a sibling that do not come here are not enumerated: they are passed over.)
Edit(left, right, start_new, number_new) ==
  /\ ~page.corrupt
  /\ number_new <= MaxCells
  /\ \E array \in {cell_array(left, page, right)} :
       LET at(k) == CHOOSE i \in DOMAIN array : array[i].nr = k
           renumbered == [i \in DOMAIN array |-> [array[i] EXCEPT !.nr = i - start_new]]
       IN  /\ Size(SubSeq(array, start_new + 1, start_new + number_new)) <= Usable - Header
           /\ \E p \in {Renumber(page, LAMBDA k : at(k) - start_new)}, cells \in {renumbered} :
                page' = edit_page(p, cells, Len(left), start_new, number_new)
  /\ want' = number_new
  /\ mixed' = FALSE

SeqsUpTo(S, n) == UNION {[1..k -> S] : k \in 0..n}

Next ==
  \/ \E idx \in 0..Len(page.cells), lens \in SeqsUpTo(Lens, Dividers) \ {<<>>} : Insert(idx, lens)
  \/ \E idx \in 0..Len(page.cells) : Drop(idx)
  \/ \E idx \in 0..Len(page.cells), len \in Lens : overwrite_cell(idx, len)
  \/ \E l, r \in SeqsUpTo({Cell(0, len) : len \in Lens}, Foreign) :
       LET all == Len(l) + want + Len(r) IN
       \E start \in IF l = <<>> THEN 0..want ELSE {0} :
         \E n \in IF r = <<>> THEN 1..(all - start) ELSE {all - start} : Edit(l, r, start, n)

Spec == Init /\ [][Next]_vars

-----------------------------------------------------------------------------
(* Properties                                                              *)

\* The header fields and cells have their ranges; in particular the fragment count
\* stays within what find_free_cell lets it reach.
TypeOK ==
  /\ page.area \in first_cell(page)..Usable
  /\ page.frag \in 0..(MaxFrag + 3)
  /\ \A i \in DOMAIN page.blocks : page.blocks[i].at \in 0..Usable /\ page.blocks[i].size \in 4..Usable
  /\ \A i \in DOMAIN page.cells : page.cells[i].len \in Lens /\ page.cells[i].nr \in 1..MaxCells
  /\ want \in 0..MaxCells /\ mixed \in BOOLEAN

Ranges(p) == {<<p.cells[i].at, p.cells[i].at + p.cells[i].len>> : i \in DOMAIN p.cells}
               \cup {<<p.blocks[i].at, p.blocks[i].at + p.blocks[i].size>> : i \in DOMAIN p.blocks}

\* integrity_check finds nothing: cells and free blocks lie between the content
\* area and the end of the page, no two of them overlap, and the bytes that
\* belong to neither are exactly the fragmented bytes the header counts.  No page
\* operation returned Corrupt or failed an assert on the page they all wrote.
Layout ==
  LET covered == UNION {r[1]..(r[2] - 1) : r \in Ranges(page)}
  IN  /\ TypeOK /\ ~page.corrupt
      /\ Cardinality(Ranges(page)) = Len(page.cells) + Len(page.blocks)
      /\ covered \subseteq page.area..(Usable - 1)
      /\ Cardinality(covered) = Sum(page.cells, LAMBDA c : c.len)
                                 + Sum(page.blocks, LAMBDA b : b.size)
      /\ page.frag = Usable - page.area - Cardinality(covered)

\* What compute_free_space answers, by adding up blocks and fragments, is what
\* the cells leave of the page: insert_into_cell spills a cell only when it does
\* not fit, and balance() and the balance algorithm work with true sizes.
FreeSpaceExact == compute_free_space(page) = Usable - Header - Size(page.cells)

\* The page with the cells beside it, merged the way a balance merges them.
InOrder(p) ==
  LET merged == cell_array(<<>>, p, <<>>) IN
  Len(merged) = want /\ \A i \in DOMAIN merged : merged[i].nr = i

\* Cells keep their order and none is lost: the page and the cells beside it are
\* what the calls put there.  Excepted is a page on which a cell found room while
\* the one before it had to wait.
Contents == ~mixed => InOrder(page)
=============================================================================
