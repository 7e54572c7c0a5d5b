------------------------------- MODULE BTree -------------------------------
(***************************************************************************)
(* A B-tree and the cursor that reads and changes it (storage/btree), as   *)
(* the instructions of one statement after another call it                 *)
(* (vdbe/execute): seeks, scans, insert, overwrite, delete, the balancing  *)
(* of up to three siblings into up to five, the growth and the collapse of *)
(* the root.                                                               *)
(*                                                                         *)
(* A page is its cells in order, with their lengths; where their bytes lie *)
(* is the matter of BTreePage.  A row is a key and the length of its cell. *)
(* The root has no file header on it (it is not page 1), a record no       *)
(* overflow pages, and no page is shared with another cursor.              *)
(***************************************************************************)
EXTENDS Integers, Sequences, SequencesExt, FiniteSetsExt, TLC

CONSTANTS
  Usable,    \* usable_space
  RowidLen,  \* bytes of a rowid in a divider (a varint: 1..9)
  Lens,      \* [kind -> lengths of leaf cells]
  Work       \* records: kind, "table" or "index"; rows, a sequence of <<key, len>>
             \* inserted first; then, for each statement after them the names of
             \* those to choose from; keys, those the statements name

Root == 1
I32_MAX == 2147483647

VARIABLES
  work,      \* the work to do, a member of Work
  pages,     \* pages[id]: leaf, cells, right, over; every page ever allocated
  freed,     \* pages given back to the pager
  cursor,    \* stack of [page, idx], going_upwards (up), has_record (has)
  pc,        \* the state of the cursor's state machine, with its local data (rounds:
             \* history, how often siblings were balanced)
  todo,      \* the instructions of the statement still to come
  ops,       \* statements executed
  rows,      \* history: [key -> len] the tree should hold
  scan,      \* history: the key a scan delivered last, and the keys it missed
  sought,    \* history: the last seek and what it found
  taint      \* history: what the code does not provide for and has happened

vars == <<work, pages, freed, cursor, pc, todo, ops, rows, scan, sought, taint>>

kind == work.kind

Idle == [at |-> "idle"]
NoSeek == [op |-> "none", key |-> 0, found |-> FALSE, got |-> 0]

Cell(key, len, child) == [key |-> key, len |-> len, child |-> child]

\* op(x), with x evaluated once.
With(x, op(_)) == CHOOSE y \in {op(v) : v \in {x}} : TRUE

-----------------------------------------------------------------------------
(* Pages                                                                   *)

Size(cells) == FoldLeft(LAMBDA sum, c : sum + 2 + c.len, 0, cells)

Room(leaf) == Usable - (IF leaf THEN 8 ELSE 12)

compute_free_space(p) == Room(p.leaf) - Size(p.cells)

NewPage(leaf) == [leaf |-> leaf, cells |-> <<>>, right |-> 0, over |-> <<>>]

\* A cell that does not fit waits beside the page.
insert_into_cell(p, cell, idx) ==
  IF idx <= Len(p.cells) /\ cell.len + 2 <= compute_free_space(p)
    THEN [p EXCEPT !.cells = InsertAt(@, idx + 1, cell)]
    ELSE [p EXCEPT !.over = Append(@, [index |-> idx, cell |-> cell])]

drop_cell(p, idx) == [p EXCEPT !.cells = RemoveAt(@, idx + 1)]

\* The child before cell i (from 0), or after the last one.
Child(p, i) == IF i < Len(p.cells) THEN p.cells[i + 1].child ELSE p.right

-----------------------------------------------------------------------------
(* The stack                                                               *)

Push(st, page, idx) == Append(st, [page |-> page, idx |-> idx])
SetIdx(st, idx) == [st EXCEPT ![Len(st)].idx = idx]
TopIdx(st) == Last(st).idx
TopPage(st) == pages[Last(st).page]
HasParent(st) == Len(st) > 1

\* Where a move ends: the stack, going_upwards, and whether there is a record.
Pos(st, up, has) == [stack |-> st, up |-> up, has |-> has]

KeyAt(pos) == IF pos.has THEN TopPage(pos.stack).cells[TopIdx(pos.stack) + 1].key ELSE 0

-----------------------------------------------------------------------------
(* Moving                                                                  *)

RECURSIVE get_next_record(_, _)
get_next_record(st, up) ==
  LET p == TopPage(st)
      n == Len(p.cells)
      i == TopIdx(st) + 1
  IN  IF kind = "index" /\ up /\ TopIdx(st) \in 0..n - 1
        THEN Pos(st, FALSE, TRUE)
      ELSE IF i = n /\ ~p.leaf
        THEN get_next_record(Push(SetIdx(st, n + 1), p.right, -1), up)
      ELSE IF i \notin 0..n - 1
        THEN IF HasParent(st) THEN get_next_record(Front(st), TRUE)
                              ELSE Pos(SetIdx(st, i), up, FALSE)
      ELSE IF p.leaf
        THEN Pos(SetIdx(st, i), up, TRUE)
      ELSE IF kind = "index" /\ up
        THEN Pos(SetIdx(st, i), FALSE, TRUE)
        ELSE get_next_record(Push(SetIdx(st, i), p.cells[i + 1].child, -1), up)

RECURSIVE get_prev_record(_, _)
get_prev_record(st, up) ==
  LET p == TopPage(st)
      n == Len(p.cells)
      i == TopIdx(st)
      j == IF i >= n THEN n - 1
           ELSE IF i >= 0 /\ (p.leaf \/ kind = "table") THEN i - 1 ELSE i
      above == {d \in 1..Len(st) - 1 : st[d].idx >= 0}
  IN  IF i = I32_MAX /\ ~up /\ ~p.leaf
        THEN get_prev_record(Push(st, p.right, I32_MAX), up)
      ELSE IF kind = "index" /\ up /\ i \in 0..n - 1
        THEN Pos(st, FALSE, TRUE)
      ELSE IF j < 0
        THEN IF above = {} THEN Pos(IF HasParent(st) THEN SubSeq(st, 1, 1) ELSE SetIdx(st, j),
                                    up \/ HasParent(st), FALSE)
                           ELSE get_prev_record(SubSeq(st, 1, Max(above)), TRUE)
      ELSE IF p.leaf
        THEN Pos(SetIdx(st, j), up, TRUE)
      ELSE IF kind = "table"
        THEN get_prev_record(Push(SetIdx(st, j), p.cells[j + 1].child, I32_MAX), up)
      ELSE IF up
        THEN Pos(SetIdx(st, j), FALSE, TRUE)
        ELSE get_prev_record(Push(SetIdx(st, j - 1), p.cells[j + 1].child, I32_MAX), up)

RootStack == <<[page |-> Root, idx |-> -1]>>

rewind == get_next_record(RootStack, FALSE)

RECURSIVE rightmost(_)
rightmost(st) ==
  LET p == TopPage(st)
      n == Len(p.cells)
  IN  IF p.leaf THEN Pos(IF n > 0 THEN SetIdx(st, n - 1) ELSE st, FALSE, n > 0)
                ELSE rightmost(Push(SetIdx(st, n + 1), p.right, -1))

move_to_rightmost == rightmost(RootStack)

-----------------------------------------------------------------------------
(* Seeking                                                                 *)

\* GE and LE come with eq_only or without it.
SeekOps == {"GT", "GE", "GE_eq", "LE", "LE_eq", "LT"}
Backwards(op) == op \in {"LE", "LE_eq", "LT"}

Matches(op, key, k) ==
  CASE op = "GT" -> key > k
    [] op = "GE" -> key >= k
    [] op \in {"GE_eq", "LE_eq"} -> key = k
    [] op = "LE" -> key <= k
    [] op = "LT" -> key < k

\* Whether the search goes on in the child left of a divider: in a table, ...
table_on_left(op, key, k) ==
  CASE op = "GT" -> key > k
    [] op = "LT" -> key + 1 >= k
    [] OTHER -> key >= k

\* Mutant: an equal divider of an index is passed over by GE too.
index_on_left_strict(op, key, k) == IF op = "LT" THEN key >= k ELSE key > k

\* ... and in an index, whose dividers are rows.
index_on_left(op, key, k) == IF op \in {"GE", "GE_eq", "LT"} THEN key >= k ELSE key > k

\* The child of an interior page a search goes on in: the one left of the first
\* divider that asks for it, the rightmost when none does.
Chosen(left, n) == IF left = {} THEN n ELSE Min(left)

RECURSIVE tablebtree_move_to(_, _, _)
tablebtree_move_to(st, op, k) ==
  LET p == TopPage(st)
      n == Len(p.cells)
      i == Chosen({j \in 0..n - 1 : table_on_left(op, p.cells[j + 1].key, k)}, n)
  IN  IF p.leaf THEN [stack |-> st, eq |-> FALSE]
      ELSE tablebtree_move_to(Push(SetIdx(st, IF i = n THEN n + 1 ELSE i), Child(p, i), -1), op, k)

\* eq: a divider equal to the key was met on the way.
RECURSIVE indexbtree_move_to(_, _, _, _)
indexbtree_move_to(st, op, k, eq) ==
  LET p == TopPage(st)
      n == Len(p.cells)
      i == Chosen({j \in 0..n - 1 : index_on_left(op, p.cells[j + 1].key, k)}, n)
      idx == IF i = n THEN n + 1 ELSE IF Backwards(op) THEN i - 1 ELSE i
  IN  IF p.leaf THEN [stack |-> st, eq |-> eq]
      ELSE indexbtree_move_to(Push(SetIdx(st, idx), Child(p, i), -1), op, k,
                              eq \/ \E c \in Range(p.cells) : c.key = k)

move_to(op, k) ==
  IF kind = "table" THEN tablebtree_move_to(RootStack, op, k)
                    ELSE indexbtree_move_to(RootStack, op, k, FALSE)

\* The cells of a leaf that answer a seek, and the one of them that is taken.
Hits(p, op, k) == {i \in 0..Len(p.cells) - 1 : Matches(op, p.cells[i + 1].key, k)}
Nearest(op, hits) == IF Backwards(op) THEN Max(hits) ELSE Min(hits)

\* A table's search moves the index when it has found a cell, or on an empty leaf.
tablebtree_seek(op, k) ==
  With(move_to(op, k).stack, LAMBDA st :
    LET hits == Hits(TopPage(st), op, k)
    IN  IF hits # {} THEN Pos(SetIdx(st, Nearest(op, hits)), FALSE, TRUE)
        ELSE Pos(IF TopPage(st).cells = <<>> THEN SetIdx(st, 0) ELSE st, FALSE, FALSE))

\* The cell that an index's binary search for a key that is not on the leaf looks
\* at last: the index is left there.
RECURSIVE LastProbed(_, _, _, _)
LastProbed(cells, k, min, max) ==
  LET mid == (min + max) \div 2
      below == IF cells[mid + 1].key > k THEN min ELSE mid + 1
      above == IF cells[mid + 1].key > k THEN mid - 1 ELSE max
  IN  IF below > above THEN mid ELSE LastProbed(cells, k, below, above)

Step(op, st) == IF Backwards(op) THEN get_prev_record(st, FALSE) ELSE get_next_record(st, FALSE)

\* When the leaf has no match, the cursor goes on to the record beside the leaf and
\* looks at that; beside an empty leaf it takes the record as it comes.
indexbtree_seek(op, k) ==
  With(move_to(op, k), LAMBDA m :
    LET n == Len(TopPage(m.stack).cells)
        hits == Hits(TopPage(m.stack), op, k)
        beside == Step(op, SetIdx(m.stack, IF Backwards(op) THEN -1 ELSE n))
    IN  IF hits # {} THEN Pos(SetIdx(m.stack, Nearest(op, hits)), FALSE, TRUE)
        ELSE IF n = 0 THEN Step(op, SetIdx(m.stack, 0))
        ELSE IF op \in {"GE_eq", "LE_eq"} /\ ~m.eq
          THEN Pos(SetIdx(m.stack, LastProbed(TopPage(m.stack).cells, k, 0, n - 1)), FALSE, FALSE)
        ELSE [beside EXCEPT !.has = beside.has /\ Matches(op, KeyAt(beside), k)])

seek(op, k) == IF kind = "table" THEN tablebtree_seek(op, k) ELSE indexbtree_seek(op, k)

-----------------------------------------------------------------------------
(* Balancing: how the cells of the siblings are shared out                 *)

\* Mutant: a cell that waits beside a page comes after the page's own.
collect_last(ids, dividers, data) ==
  LET add(acc, i) ==
        LET p == pages[ids[i]]
            merged == FoldLeft(LAMBDA a, o : Append(a, o.cell),
                               acc.cells \o p.cells, p.over)
            d == dividers[i]
            divider == IF p.leaf THEN Cell(d.key, d.len - 4, 0) ELSE Cell(d.key, d.len, p.right)
        IN  [cells |-> IF i < Len(ids) /\ ~data THEN Append(merged, divider) ELSE merged,
             count |-> Append(acc.count, Len(merged))]
  IN  FoldLeft(add, [cells |-> <<>>, count |-> <<>>], [i \in 1..Len(ids) |-> i])

\* The cells of the siblings in one sequence, with the dividers between them but
\* for table leaves (data), and how many cells there are up to each sibling's end.
\* A cell that waits beside a page is put in at its index.
collect(ids, dividers, data) ==
  LET add(acc, i) ==
        LET p == pages[ids[i]]
            merged == FoldLeft(LAMBDA a, o : InsertAt(a, Len(acc.cells) + o.index + 1, o.cell),
                               acc.cells \o p.cells, p.over)
            d == dividers[i]
            divider == IF p.leaf THEN Cell(d.key, d.len - 4, 0) ELSE Cell(d.key, d.len, p.right)
        IN  [cells |-> IF i < Len(ids) /\ ~data THEN Append(merged, divider) ELSE merged,
             count |-> Append(acc.count, Len(merged))]
  IN  FoldLeft(add, [cells |-> <<>>, count |-> <<>>], [i \in 1..Len(ids) |-> i])

\* number_of_cells_per_page (n), new_page_sizes (s) and sibling_count_new (k) as
\* the pages stand; pages are counted from 0.
old_shares(ids, arr) ==
  LET cnt == Len(ids)
      p(i) == pages[ids[i + 1]]
      extra(i) == IF p(i).leaf \/ i = cnt - 1 THEN 0 ELSE arr.cells[arr.count[i + 1] + 1].len
  IN  [n |-> [i \in 0..5 |-> IF i < cnt THEN arr.count[i + 1] ELSE 0],
       s |-> [i \in 0..5 |-> IF i < cnt
                THEN Room(p(i).leaf) - compute_free_space(p(i))
                       + FoldLeft(LAMBDA sum, o : sum + 2 + o.cell.len, 0, p(i).over) + extra(i)
                ELSE 0],
       k |-> cnt, i |-> 0, ok |-> TRUE]

\* Page i gives cells to the next one until it is not too full.
RECURSIVE shrink(_, _, _, _)
shrink(cells, data, room, d) ==
  LET i == d.i
      e == IF i + 1 >= d.k
             THEN [d EXCEPT !.k = i + 2, !.s[i + 1] = 0, !.n[i + 1] = Len(cells), !.ok = i + 2 <= 5]
             ELSE d
      left == 2 + cells[e.n[i]].len
      moved == IF data THEN left
               ELSE IF e.n[i] < Len(cells) THEN 2 + cells[e.n[i] + 1].len ELSE 0
  IN  IF d.s[i] <= room THEN d
      ELSE IF ~e.ok THEN e
      ELSE With([e EXCEPT !.s[i] = @ - left, !.s[i + 1] = @ + moved, !.n[i] = @ - 1],
                LAMBDA f : shrink(cells, data, room, f))

\* Page i takes cells of the next one while it has room.
RECURSIVE fill(_, _, _, _)
fill(cells, data, room, d) ==
  LET i == d.i
      taken == 2 + cells[d.n[i] + 1].len
      lost == IF data THEN taken
              ELSE IF d.n[i] + 1 < Len(cells) THEN 2 + cells[d.n[i] + 2].len ELSE 0
  IN  IF d.n[i] >= Len(cells) THEN d
      ELSE IF d.s[i] + taken > room THEN d
      ELSE With([d EXCEPT !.s[i] = @ + taken, !.s[i + 1] = @ - lost, !.n[i] = @ + 1],
                LAMBDA f : fill(cells, data, room, f))

\* The pass from left to right.
RECURSIVE pack_left(_, _, _, _)
pack_left(cells, data, room, d) ==
  With(shrink(cells, data, room, d), LAMBDA a :
    IF ~a.ok THEN a
    ELSE With(fill(cells, data, room, a), LAMBDA b :
      IF b.n[b.i] >= Len(cells) THEN [b EXCEPT !.k = b.i + 1]
      ELSE IF b.i + 1 >= b.k THEN b
      ELSE pack_left(cells, data, room, [b EXCEPT !.i = @ + 1])))

\* Page i - 1 gives cells to page i while that evens them out; l and r are the
\* cells that would leave the one and enter the other.
RECURSIVE even_pair(_, _, _, _, _)
even_pair(cells, d, i, l, r) ==
  LET cl == cells[l + 1].len
      cr == cells[r + 1].len
      pointer == IF i = d.k - 1 THEN 0 ELSE 2
      moved == [d EXCEPT !.s[i - 1] = @ - (cl + 2), !.s[i] = @ + cr + 2, !.n[i - 1] = l]
  IN  IF d.s[i] # 0 /\ d.s[i] + cr + 2 > d.s[i - 1] - (cl + pointer) THEN d
      ELSE IF l = 0 THEN moved
      ELSE With(moved, LAMBDA m : even_pair(cells, m, i, l - 1, r - 1))

\* The pass from right to left; it ends in an assert that no page is empty.
RECURSIVE even_right(_, _, _, _)
even_right(cells, data, d, i) ==
  IF i = 0 \/ ~d.ok THEN d
  ELSE LET l == d.n[i - 1] - 1
       IN  With(even_pair(cells, d, i, l, IF data THEN l ELSE l + 1), LAMBDA e :
             even_right(cells, data,
                        [e EXCEPT !.ok = e.n[i - 1] > (IF i > 1 THEN e.n[i - 2] ELSE 0)], i - 1))

shares(ids, arr, data, room) ==
  With(pack_left(arr.cells, data, room, old_shares(ids, arr)), LAMBDA d :
    IF d.ok THEN even_right(arr.cells, data, d, d.k - 1) ELSE d)

-----------------------------------------------------------------------------
(* Instructions and statements                                             *)

\* Seek: the rest of the statement is left out unless the row is as wanted.
SeekI(op, k, want) == [i |-> "seek", op |-> op, key |-> k, want |-> want]
InsertI(k, len, moved_before) == [i |-> "insert", key |-> k, len |-> len, moved |-> moved_before]
I(name) == [i |-> name]

\* IdxInsert searches for its place, on a unique index after it has looked for the
\* key; IdxDelete searches for the row and then deletes it.
IdxInsert(k, len) == <<InsertI(k, len, FALSE)>>
IdxInsertUnique(k, len) == <<SeekI("GE_eq", k, "absent"), InsertI(k, len, TRUE)>>
IdxDelete(k) == <<SeekI("GE_eq", k, "found"), I("delete")>>

\* The instructions emitted for INSERT, UPDATE, DELETE, for an index's share of
\* them, for ALTER TABLE's rewriting of a row, and for reading.
Programs(names) ==
  LET K == work.keys
      Held == K \intersect DOMAIN rows
      Absent == K \ DOMAIN rows
      L == Lens[kind]
      table ==
        [insert |-> {<<SeekI("GE_eq", k, "absent"), InsertI(k, len, TRUE)>> : k \in Absent, len \in L},
         insert_new |-> {<<I("new_rowid"), InsertI(0, len, TRUE)>> : len \in L},
         delete |-> {<<SeekI("GE_eq", k, "found"), I("delete")>> : k \in Held},
         update |-> {<<SeekI("GE_eq", k, "found"), I("delete"), InsertI(k, len, TRUE)>> : k \in Held, len \in L},
         update_rowid |-> {<<SeekI("GE_eq", j, "absent"), SeekI("GE_eq", k, "found"), I("delete"),
                             InsertI(j, len, TRUE)>> : k \in Held, j \in Absent, len \in L},
         rewrite |-> {<<SeekI("GE_eq", k, "found"), InsertI(k, len, TRUE)>> : k \in Held, len \in L}]
      index ==
        [insert |-> {IdxInsert(k, len) : k \in Absent, len \in L},
         insert_unique |-> {IdxInsertUnique(k, len) : k \in Absent, len \in L},
         delete |-> {IdxDelete(k) : k \in Held}]
      read ==
        [seek |-> {<<SeekI(op, k, "any")>> : op \in SeekOps, k \in K},
         rewind |-> {<<I("rewind")>>},
         last |-> {<<I("last")>>}]
      goon ==
        [next |-> {<<I("next")>>},
         delete_at |-> {<<I("delete")>> : k \in {scan.at} \intersect DOMAIN rows},
         update_at |-> {<<I("delete"), InsertI(k, len, TRUE)>> :
                          k \in {scan.at} \intersect DOMAIN rows, len \in L}]
      back == [prev |-> {<<I("prev")>>}]
      all == (IF kind = "table" THEN table ELSE index) @@ read
               @@ (CASE scan.way = "next" /\ kind = "table" -> goon
                     [] scan.way = "next" /\ kind = "index" -> [next |-> goon.next]
                     [] scan.way = "prev" -> back
                     [] OTHER -> <<>>)
  IN  UNION {all[s] : s \in names \intersect DOMAIN all}

-----------------------------------------------------------------------------

Init ==
  /\ work \in Work
  /\ pages = <<NewPage(TRUE)>>
  /\ freed = {}
  /\ cursor = Pos(RootStack, FALSE, FALSE)
  /\ pc = Idle
  /\ todo = <<>>
  /\ ops = 0
  /\ rows = <<>>
  /\ scan = [way |-> "none", at |-> 0, missed |-> {}]
  /\ sought = NoSeek
  /\ taint = {}

Tree == <<pages, freed>>
History == <<rows, scan, sought, taint>>

\* An assertion fails, an index is out of bounds or the tree is called corrupt.
Fault(what) == pc' = [at |-> "fault", what |-> what] /\ UNCHANGED <<Tree, cursor, taint>>

Instr == Head(todo)
Executes(name) == pc = Idle /\ todo # <<>> /\ Instr.i = name

\* The next statement: first those of work.rows, then any other.
Statement ==
  /\ pc = Idle /\ todo = <<>> /\ taint = {}
  /\ LET n == Len(work.rows)
         r == work.rows[ops + 1]
     IN  \/ /\ ops < n
            /\ todo' = <<SeekI("GE_eq", r[1], "absent"), InsertI(r[1], r[2], TRUE)>>
         \/ /\ ops \in n..n + Len(work.then) - 1
            /\ \E p \in Programs(work.then[ops - n + 1]) : todo' = p
  /\ ops' = ops + 1
  /\ UNCHANGED <<work, Tree, cursor, pc, History>>

\* What a scan that goes from one key to another passes over.
Between(from, to) ==
  {k \in DOMAIN rows : IF scan.way = "next" THEN from < k /\ (to = 0 \/ k < to)
                                            ELSE k < from /\ k > to}

Seek ==
  /\ Executes("seek")
  /\ \E pos \in {seek(Instr.op, Instr.key)} :
       /\ cursor' = pos
       /\ sought' = [op |-> Instr.op, key |-> Instr.key, found |-> pos.has, got |-> KeyAt(pos)]
       /\ scan' = [scan EXCEPT !.way = CASE ~pos.has \/ Instr.want # "any" -> "none"
                                         [] Backwards(Instr.op) -> "prev"
                                         [] OTHER -> "next",
                               !.at = KeyAt(pos)]
       /\ todo' = IF Instr.want \in {"any", IF pos.has THEN "found" ELSE "absent"} THEN Tail(todo) ELSE <<>>
  /\ UNCHANGED <<work, Tree, pc, ops, rows, taint>>

\* get_new_rowid: one more than the last rowid.
NewRowid ==
  /\ Executes("new_rowid")
  /\ cursor' = move_to_rightmost
  /\ todo' = <<[todo[2] EXCEPT !.key = 1 + KeyAt(move_to_rightmost)]>>
  /\ scan' = [scan EXCEPT !.way = "none"]
  /\ UNCHANGED <<work, Tree, pc, ops, rows, sought, taint>>

Rewind ==
  /\ Executes("rewind")
  /\ \E pos \in {rewind} :
       /\ cursor' = pos
       /\ scan' = [way |-> IF pos.has THEN "next" ELSE "none", at |-> KeyAt(pos),
                   missed |-> {k \in DOMAIN rows : ~pos.has \/ k < KeyAt(pos)}]
  /\ todo' = Tail(todo)
  /\ UNCHANGED <<work, Tree, pc, ops, rows, sought, taint>>

LastI ==
  /\ Executes("last")
  /\ \E pos \in {move_to_rightmost} :
       /\ cursor' = pos
       /\ scan' = [way |-> IF pos.has THEN "prev" ELSE "none", at |-> KeyAt(pos),
                   missed |-> {k \in DOMAIN rows : k > KeyAt(pos)}]
  /\ todo' = Tail(todo)
  /\ UNCHANGED <<work, Tree, pc, ops, rows, sought, taint>>

Move(pos) ==
  /\ cursor' = pos
  /\ scan' = [way |-> IF pos.has THEN scan.way ELSE "none", at |-> KeyAt(pos),
              missed |-> scan.missed \union Between(scan.at, KeyAt(pos))]
  /\ taint' = taint \union (IF /\ kind = "table" /\ scan.way = "prev" /\ pos.has
                                 /\ \E d \in 2..Len(pos.stack) - 1 : pos.stack[d].page # cursor.stack[d].page
                              THEN {"climbed"} ELSE {})
  /\ todo' = Tail(todo)
  /\ UNCHANGED <<work, Tree, pc, ops, rows, sought>>

NextI == Executes("next") /\ \E pos \in {get_next_record(cursor.stack, cursor.up)} : Move(pos)
PrevI == Executes("prev") /\ \E pos \in {get_prev_record(cursor.stack, cursor.up)} : Move(pos)

-----------------------------------------------------------------------------
(* Insert                                                                  *)

\* The first cell not below the key.
find_cell(p, k) == Cardinality({i \in DOMAIN p.cells : p.cells[i].key < k})

\* The cell was dropped and another inserted; nothing balances the page.
overwrite_cell(p, idx, cell) ==
  IF p.cells[idx + 1].len = cell.len THEN [p EXCEPT !.cells[idx + 1] = cell]
                                     ELSE insert_into_cell(drop_cell(p, idx), cell, idx)

\* insert and the Start of insert_into_page.  With moved_before the cursor is
\* taken to be on the leaf already.
InsertStart ==
  /\ Executes("insert")
  /\ \E there \in {move_to("GE_eq", Instr.key).stack} :
     \E st \in {IF Instr.moved THEN cursor.stack ELSE there} :
       LET id == Last(st).page
           p == pages[id]
           idx == find_cell(p, Instr.key)
           found == idx < Len(p.cells) /\ p.cells[idx + 1].key = Instr.key
           cell == Cell(Instr.key, Instr.len, 0)
           q == IF found THEN overwrite_cell(p, idx, cell) ELSE insert_into_cell(p, cell, idx)
           astray == IF id # Last(there).page THEN {"astray"} ELSE {}
           spilled == IF found /\ q.over # <<>> THEN {"spilled"} ELSE {}
       IN  IF ~p.leaf THEN Fault("the page is not a leaf")
           ELSE /\ pages' = [pages EXCEPT ![id] = q]
                /\ cursor' = Pos(SetIdx(st, idx), Instr.moved /\ cursor.up,
                                 cursor.has \/ kind = "table" \/ found)
                /\ taint' = taint \union astray \union spilled
                /\ pc' = IF q.over # <<>> /\ ~found
                           THEN [at |-> "balance_start", for |-> "insert", key |-> Instr.key, rounds |-> 0]
                           ELSE Idle
                /\ UNCHANGED freed
  /\ rows' = Instr.key :> Instr.len @@ rows
  /\ todo' = Tail(todo)
  /\ sought' = NoSeek
  /\ UNCHANGED <<work, ops, scan>>

-----------------------------------------------------------------------------
(* Balance                                                                 *)

InBalance == UNCHANGED <<work, todo, ops, rows, scan, sought>>

\* Whether the page on top needs no balancing: no cell waits beside it and, unless
\* it is the root, no more than two thirds of it are free.
in_order(st) ==
  /\ TopPage(st).over = <<>>
  /\ ~HasParent(st) \/ 3 * compute_free_space(TopPage(st)) <= 2 * Usable

\* A new child takes over what the root holds.
balance_root ==
  Append([pages EXCEPT ![Root] = [NewPage(FALSE) EXCEPT !.right = Len(pages) + 1]], pages[Root])

\* balance and the start of balance_non_root: up to the parent.
BalanceStart ==
  /\ pc.at = "balance_start"
  /\ LET st == cursor.stack
     IN  IF in_order(st)
           THEN /\ pc' = [pc EXCEPT !.at = "balanced"]
                /\ UNCHANGED <<pages, cursor>>
           ELSE /\ pc' = [pc EXCEPT !.at = "balance_non_root"]
                /\ IF HasParent(st)
                     THEN cursor' = [cursor EXCEPT !.stack = Front(st)] /\ UNCHANGED pages
                     ELSE cursor' = [cursor EXCEPT !.stack = SetIdx(st, 0)] /\ pages' = balance_root
  /\ UNCHANGED <<freed, taint>>
  /\ InBalance

\* Which child of a parent of n cells is to be balanced.
page_to_balance_idx(idx, n) == CASE idx = n + 1 -> n [] idx = -1 -> 0 [] OTHER -> idx

\* The siblings: up to three children of the parent on top, around the page
\* to be balanced.
BalanceNonRoot ==
  /\ pc.at = "balance_non_root"
  /\ LET st == cursor.stack
         p == TopPage(st)
         n == Len(p.cells)
         idx == page_to_balance_idx(TopIdx(st), n)
         first == CASE n <= 2 -> 0
                    [] n > 2 /\ idx = 0 -> 0
                    [] n > 2 /\ idx = n -> n - 2
                    [] OTHER -> idx - 1
     IN  IF p.leaf THEN Fault("parent is not interior")
         ELSE IF p.over # <<>> THEN Fault("parent holds overflow cells")
         ELSE IF idx \notin 0..n THEN Fault("page_to_balance_idx is out of bounds")
         ELSE /\ pc' = [at |-> "balance_wait"] @@ pc @@ [first |-> first, count |-> IF n < 2 THEN n + 1 ELSE 3]
              /\ cursor' = [cursor EXCEPT !.stack = SetIdx(st, idx)]
              /\ UNCHANGED <<Tree, taint>>
  /\ InBalance

\* Mutant: the divider of a table is the first rowid after it.
rebuilt_first(ids, arr, d, data) ==
  LET leaf == pages[ids[1]].leaf
      start(i) == IF i = 0 THEN 0 ELSE d.n[i - 1] + (IF data THEN 0 ELSE 1)
      right(i) == IF leaf THEN 0
                  ELSE IF i = d.k - 1 THEN pages[Last(ids)].right ELSE arr.cells[d.n[i] + 1].child
      kept == SubSeq(ids, 1, Min({d.k, Len(ids)}))
      new == SetToSortSeq(Range(kept) \union Len(pages) + 1 .. Len(pages) + d.k - Len(ids), <)
      divider(i) == LET c == arr.cells[d.n[i] + 1]
                    IN  Cell(c.key, IF ~leaf THEN c.len ELSE 4 + (IF data THEN RowidLen ELSE c.len), new[i + 1])
  IN  [ids |-> new,
       pages |-> [i \in 1..d.k |-> [leaf |-> leaf, cells |-> SubSeq(arr.cells, start(i - 1) + 1, d.n[i - 1]),
                                    right |-> right(i - 1), over |-> <<>>]],
       dividers |-> [i \in 1..d.k - 1 |-> divider(i - 1)]]

\* What balancing makes of the siblings ids (allocate_page gives out new ids only,
\* never one of the free list), whose cells are arr and whose shares are d: the pages
\* in ascending order of their ids and the dividers between them.  A divider is a row
\* of its own in an index and the last rowid before it in a table.
rebuilt(ids, arr, d, data) ==
  LET leaf == pages[ids[1]].leaf
      start(i) == IF i = 0 THEN 0 ELSE d.n[i - 1] + (IF data THEN 0 ELSE 1)
      right(i) == IF leaf THEN 0
                  ELSE IF i = d.k - 1 THEN pages[Last(ids)].right ELSE arr.cells[d.n[i] + 1].child
      kept == SubSeq(ids, 1, Min({d.k, Len(ids)}))
      new == SetToSortSeq(Range(kept) \union Len(pages) + 1 .. Len(pages) + d.k - Len(ids), <)
      divider(i) == LET c == arr.cells[IF data THEN d.n[i] ELSE d.n[i] + 1]
                    IN  Cell(c.key, IF ~leaf THEN c.len ELSE 4 + (IF data THEN RowidLen ELSE c.len), new[i + 1])
  IN  [ids |-> new,
       pages |-> [i \in 1..d.k |-> [leaf |-> leaf, cells |-> SubSeq(arr.cells, start(i - 1) + 1, d.n[i - 1]),
                                    right |-> right(i - 1), over |-> <<>>]],
       dividers |-> [i \in 1..d.k - 1 |-> divider(i - 1)]]

\* The parent: the old dividers go, the child after them becomes the last new page,
\* the new dividers come in one by one.
new_parent(p, first, count, new) ==
  LET dropped == [p EXCEPT !.cells = SubSeq(@, 1, first) \o SubSeq(@, first + count, Len(@))]
      pointed == IF first = Len(dropped.cells) THEN [dropped EXCEPT !.right = Last(new.ids)]
                                               ELSE [dropped EXCEPT !.cells[first + 1].child = Last(new.ids)]
  IN  FoldLeft(LAMBDA q, i : insert_into_cell(q, new.dividers[i], first + i - 1), pointed,
               [i \in 1..Len(new.dividers) |-> i])

\* The siblings given back to the pager when k pages are left of them.
surplus(ids, k, collapse) == {ids[i] : i \in (IF collapse THEN k ELSE k + 1)..Len(ids)}

\* Mutant: the same siblings are balanced again.
upwards_again == [at |-> "balance_non_root", for |-> pc.for, key |-> pc.key, rounds |-> pc.rounds + 1]

\* The parent is looked at next.
upwards == [at |-> "balance_start", for |-> pc.for, key |-> pc.key, rounds |-> pc.rounds + 1]

\* BalanceNonRootWaitLoadPages
BalanceSiblings ==
  /\ pc.at = "balance_wait"
  /\ LET parent == Last(cursor.stack).page
         p == pages[parent]
         ids == [i \in 1..pc.count |-> Child(p, pc.first + i - 1)]
         leaf == pages[ids[1]].leaf
         data == leaf /\ kind = "table"
         dividers == SubSeq(p.cells, pc.first + 1, pc.first + pc.count - 1)
     IN  \E arr \in {collect(ids, dividers, data)} :
         \E d \in {shares(ids, arr, data, Room(leaf))} :
           IF ~d.ok THEN Fault("the cells cannot be shared out")
           ELSE \E new \in {rebuilt(ids, arr, d, data)} :
                \E q \in {new_parent(p, pc.first, pc.count, new)} :
                LET grown == pages \o [i \in 1..Max({0, d.k - Len(ids)}) |-> NewPage(leaf)]
                    placed == [id \in DOMAIN grown |->
                                 IF id = parent THEN q
                                 ELSE IF id \in Range(new.ids) THEN new.pages[CHOOSE i \in 1..d.k : new.ids[i] = id]
                                 ELSE grown[id]]
                    collapse == ~HasParent(cursor.stack) /\ q.cells = <<>>
                IN  IF \E i \in 1..d.k : compute_free_space(new.pages[i]) < 0
                      THEN Fault("the cells do not fit")
                    ELSE IF collapse /\ d.k # 1
                      THEN Fault("the root would lose a child")
                    ELSE /\ pages' = IF collapse THEN [placed EXCEPT ![parent] = placed[new.ids[1]]] ELSE placed
                         /\ freed' = freed \union surplus(ids, d.k, collapse)
                         /\ cursor' = IF collapse THEN [cursor EXCEPT !.stack = SetIdx(@, 0)] ELSE cursor
                         /\ taint' = taint \union (IF \E i, j \in 1..d.k - 1 :
                                                        /\ i < j
                                                        /\ \E o \in Range(q.over) : o.cell = new.dividers[i]
                                                        /\ new.dividers[j] \in Range(q.cells)
                                                     THEN {"mixed"} ELSE {})
                         /\ pc' = upwards
  /\ InBalance

\* After an insert the cursor goes back to the row (restore_context), after a
\* delete to the row before the deleted one.
Balanced ==
  /\ pc.at = "balanced"
  /\ cursor' = seek(IF pc.for = "insert" THEN "GE_eq" ELSE "LT", pc.key)
  /\ pc' = Idle
  /\ UNCHANGED <<Tree, taint>>
  /\ InBalance

-----------------------------------------------------------------------------
(* Delete                                                                  *)

\* Start to ClearOverflowPages: the cell under the cursor, dropped if on a leaf.  A
\* table's cursor without a record deletes nothing (an index's has read one by then).
DeleteCell ==
  /\ Executes("delete")
  /\ LET st == cursor.stack
         p == TopPage(st)
         idx == TopIdx(st)
     IN  IF kind = "table" /\ ~cursor.has
           THEN UNCHANGED <<Tree, cursor, pc, rows, taint>>
         ELSE IF idx \notin 0..Len(p.cells) - 1
           THEN Fault("cell index is out of bounds") /\ UNCHANGED rows
           ELSE /\ rows' = [k \in DOMAIN rows \ {KeyAt(cursor)} |-> rows[k]]
                /\ pc' = [at |-> IF p.leaf THEN "check_balance" ELSE "replace",
                          key |-> KeyAt(cursor), idx |-> idx, last |-> p.leaf /\ idx = Len(p.cells) - 1]
                /\ pages' = IF p.leaf THEN [pages EXCEPT ![Last(st).page] = drop_cell(p, idx)] ELSE pages
                /\ UNCHANGED <<freed, cursor, taint>>
  /\ todo' = Tail(todo)
  /\ sought' = NoSeek
  /\ UNCHANGED <<work, ops, scan>>

\* InteriorNodeReplacement: the row before, the last of a leaf, takes the place of
\* the deleted one -- on the parent of that leaf.
ReplaceInterior ==
  /\ pc.at = "replace"
  /\ \E pos \in {get_prev_record(cursor.stack, cursor.up)} :
       LET leaf_id == Last(pos.stack).page
           leaf == pages[leaf_id]
           parent_id == pos.stack[Len(pos.stack) - 1].page
           parent == pages[parent_id]
           old == TopPage(cursor.stack).cells[pc.idx + 1]
           c == Last(leaf.cells)
           q == insert_into_cell(drop_cell(parent, pc.idx), Cell(c.key, 4 + c.len, old.child), pc.idx)
       IN  IF pc.idx >= Len(parent.cells)
             THEN Fault("no such cell on the parent")
             ELSE /\ pages' = [pages EXCEPT ![parent_id] = q, ![leaf_id] = drop_cell(leaf, Len(leaf.cells) - 1)]
                  /\ cursor' = pos
                  /\ pc' = [pc EXCEPT !.at = "check_balance"]
                  /\ taint' = taint \union (IF parent_id # Last(cursor.stack).page THEN {"deep"} ELSE {})
                                    \union (IF q.over # <<>> THEN {"spilled"} ELSE {})
                  /\ UNCHANGED freed
  /\ InBalance

\* Mutant: the cursor stays at the index of the deleted cell.
CheckNeedsBalancing_stays ==
  /\ pc.at = "check_balance"
  /\ LET st == cursor.stack
         back == IF pc.last THEN SetIdx(st, TopIdx(st) - 1) ELSE st
     IN  IF HasParent(st) /\ 3 * compute_free_space(TopPage(st)) > 2 * Usable
           THEN /\ cursor' = [cursor EXCEPT !.stack = back]
                /\ pc' = [at |-> "balance_start", for |-> "delete", key |-> pc.key, rounds |-> 0]
           ELSE /\ cursor' = cursor
                /\ pc' = Idle
  /\ UNCHANGED <<Tree, taint>>
  /\ InBalance

\* With nothing to balance the cursor goes back one cell, so that next comes to the
\* row after the deleted one.
CheckNeedsBalancing ==
  /\ pc.at = "check_balance"
  /\ LET st == cursor.stack
         back == IF pc.last THEN SetIdx(st, TopIdx(st) - 1) ELSE st
     IN  IF HasParent(st) /\ 3 * compute_free_space(TopPage(st)) > 2 * Usable
           THEN /\ cursor' = [cursor EXCEPT !.stack = back]
                /\ pc' = [at |-> "balance_start", for |-> "delete", key |-> pc.key, rounds |-> 0]
           ELSE /\ cursor' = [cursor EXCEPT !.stack = SetIdx(back, TopIdx(back) - 1)]
                /\ pc' = Idle
  /\ UNCHANGED <<Tree, taint>>
  /\ InBalance

-----------------------------------------------------------------------------

CursorStep ==
  \/ InsertStart \/ BalanceStart \/ BalanceNonRoot \/ BalanceSiblings \/ Balanced
  \/ DeleteCell \/ ReplaceInterior \/ CheckNeedsBalancing
  \/ Seek \/ NewRowid \/ Rewind \/ LastI \/ NextI \/ PrevI

Next == Statement \/ CursorStep

Spec == Init /\ [][Next]_vars

-----------------------------------------------------------------------------
(* Properties                                                              *)

\* No instruction is under way and none met what the code does not provide for
\* (taint):
\*   astray    a row was inserted on a leaf other than the one a search for it ends
\*             in: UPDATE inserts where its delete left the cursor;
\*   spilled   a cell grew where nothing balances the page afterwards;
\*   deep      the replacement of an interior index row went to the leaf's parent,
\*             which is not the page the row was on;
\*   mixed     a new divider waits beside its parent and one after it does not;
\*   climbed   a backward scan of a table entered an interior page.
\* No statement begins after one of them.
AtRest == pc = Idle /\ taint = {}

\* Every page of the tree below id, the keys below it in order, its height.
RECURSIVE PagesBelow(_)
PagesBelow(id) ==
  LET p == pages[id]
  IN  IF p.leaf THEN <<id>>
      ELSE <<id>> \o FlattenSeq([i \in 1..Len(p.cells) + 1 |-> PagesBelow(Child(p, i - 1))])

RECURSIVE RowsBelow(_)
RowsBelow(id) ==
  LET p == pages[id]
      own(i) == IF kind = "index" /\ i <= Len(p.cells)
                  THEN <<[key |-> p.cells[i].key, len |-> p.cells[i].len - 4]>> ELSE <<>>
  IN  IF p.leaf THEN [i \in DOMAIN p.cells |-> [key |-> p.cells[i].key, len |-> p.cells[i].len]]
      ELSE FlattenSeq([i \in 1..Len(p.cells) + 1 |-> RowsBelow(Child(p, i - 1)) \o own(i)])

RECURSIVE Height(_)
Height(id) == IF pages[id].leaf THEN 1 ELSE 1 + Height(pages[id].right)

\* Every child pointer of an interior page names a page the pager gave out, and the
\* stack is never empty (balance_root, rightmost_pointer).
TypeOK ==
  /\ work \in Work
  /\ freed \subseteq DOMAIN pages
  /\ \A id \in DOMAIN pages : pages[id].right \in (IF pages[id].leaf THEN {0} ELSE DOMAIN pages)
  /\ cursor.stack # <<>> /\ cursor.up \in BOOLEAN /\ cursor.has \in BOOLEAN
  /\ taint \subseteq {"astray", "spilled", "deep", "mixed", "climbed"}

\* Between instructions the tree, read from left to right, holds exactly the rows
\* that were inserted and not deleted, each once, in order and with its payload:
\* whatever balance_non_root, balance_root and the collapse of the root moved.
Contents ==
  AtRest => \E s \in {RowsBelow(Root)} :
    /\ \A i, j \in DOMAIN s : i < j => s[i].key < s[j].key
    /\ {<<s[i].key, s[i].len>> : i \in DOMAIN s} = {<<k, rows[k]>> : k \in DOMAIN rows}

\* Between instructions every divider separates the rows of the subtree on its left
\* from those on its right, as tablebtree_move_to and indexbtree_move_to rely on: a
\* table's divider may equal the last rowid on its left, an index's is a row itself.
Separated ==
  AtRest => \A id \in DOMAIN pages \ freed : ~pages[id].leaf =>
    \A i \in DOMAIN pages[id].cells :
      LET c == pages[id].cells[i]
      IN  /\ \A r \in Range(RowsBelow(c.child)) : IF kind = "table" THEN r.key <= c.key ELSE r.key < c.key
          /\ \A r \in Range(RowsBelow(Child(pages[id], i))) : r.key > c.key

\* Between instructions no cell is left waiting beside a page (overflow_cells), no
\* page holds more than fits, none but the root is empty, and all leaves are equally
\* deep.
Shape ==
  AtRest => \A id \in DOMAIN pages \ freed :
    /\ pages[id].over = <<>>
    /\ compute_free_space(pages[id]) >= 0
    /\ id # Root => pages[id].cells # <<>>
    /\ ~pages[id].leaf => \A i \in 0..Len(pages[id].cells) :
         Height(Child(pages[id], i)) = Height(pages[id].right)

\* Between instructions every page the pager gave out is in the tree exactly once
\* or was given back, and none is both: balancing leaks no page, frees none in use
\* and hangs none in two places.
PagesAccounted ==
  AtRest => \E s \in {PagesBelow(Root)} :
    Len(s) + Cardinality(freed) = Len(pages) /\ Range(s) \union freed = DOMAIN pages

\* The tree is a B-tree between instructions, whatever balance_non_root,
\* balance_root and the collapse of the root did to it.
WellFormed == TypeOK /\ Separated /\ Shape /\ PagesAccounted

\* Balancing goes up and ends: a level is balanced at most once before the
\* instruction is done, a root that grew included (the loop of balance).  No assertion
\* of the balancing code fails and no check of it calls the tree corrupt: the parent is
\* interior and holds no overflow cells, the page to balance is one of its children,
\* five pages are enough for the cells of three siblings and the one that did not fit,
\* each new page gets at least one and has room for all.
BalanceEnds ==
  taint = {} => /\ pc.at # "fault"
                /\ "rounds" \in DOMAIN pc => pc.rounds <= Height(Root)

\* A scan passes over no row, whatever it deletes or updates on its way: rewind, last
\* or a seek, then next or prev, with deletes that rebalance in between.
NoSkip == taint = {} => scan.missed = {}

\* A seek that finds a record finds the one it was asked for: the first after the
\* key, or the last before it.  One that finds none is right, on an index for every
\* operator, on a table for equality; a table's range seek that ends in a leaf without a
\* match does not look at the next one (tablebtree_seek).
SeekRight ==
  LET hits == {k \in DOMAIN rows : Matches(sought.op, k, sought.key)}
  IN  AtRest /\ sought # NoSeek =>
        IF sought.found THEN sought.got = (IF Backwards(sought.op) THEN Max(hits) ELSE Min(hits))
        ELSE hits = {} \/ (kind = "table" /\ sought.op \notin {"GE_eq", "LE_eq"})

\* "Move the cursor to the previous record and return it" (get_prev_record): a
\* backward scan passes over no row, in a tree of any height.
PreviousRecord == taint \subseteq {"climbed"} => scan.missed = {}
=============================================================================
