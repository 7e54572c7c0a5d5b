------------------------------- MODULE MCBTree -------------------------------
(***************************************************************************)
(* Pages of 76 usable bytes: two to four rows to a table leaf, five to     *)
(* eight to an index leaf, four to five dividers to an interior page, so   *)
(* that a dozen rows of a table and thirty of an index make three levels.  *)
(***************************************************************************)
EXTENDS BTree

MCLens == [table |-> {16, 32}, index |-> {6, 10}]

\* n rows in ascending order, with a gap before each.
Rows(n, len) == [i \in 1..n |-> <<2 * i, len>>]

\* The keys 1..n - 1 in steps of stride (n is prime), of lengths that repeat.
Load(k, n, stride, lens) ==
  [kind |-> k, keys |-> {}, then |-> <<>>,
   rows |-> [i \in 1..n - 1 |-> <<(i * stride) % n, lens[1 + (i % Len(lens))]>>]]

Loads ==
  {Load("table", 23, s, l) : s \in {1, 5, 22}, l \in [1..4 -> MCLens.table]}
  \union {Load("index", 43, s, l) : s \in {1, 5, 42}, l \in [1..5 -> MCLens.index]}
  \union {Load("index", 67, 43, <<10, 6, 10, 6, 6, 6, 6>>)}

Work1(k, r, keys, then) == [kind |-> k, rows |-> r, keys |-> keys, then |-> then]

Write == {"insert", "insert_new", "insert_unique", "delete", "update", "update_rowid", "rewrite"}
Start == {"seek", "rewind", "last"}
Deletes(n) == [i \in 1..n |-> {"delete"}]
Goon == {"next", "prev", "delete_at", "update_at"}

MCWork ==
  Loads \union
  {Work1("table", Rows(11, 32), {1, 2, 11, 12, 13, 22, 23}, <<Write, Write \union {"seek"}>>),
   Work1("table", Rows(7, 16), {2, 5, 6, 8}, <<Write, Write, Write>>),
   Work1("table", Rows(7, 32), 6..9, <<Start, Goon, Goon, Goon, Goon>>),
   Work1("table", Rows(11, 32), {2, 12, 14}, <<Start, Goon, Goon, Goon, Goon, Goon>>),
   Work1("table", Rows(7, 32), {2 * i : i \in 1..7}, Deletes(7)),
   Work1("table", Rows(11, 32), {2 * i : i \in 4..11}, Deletes(8)),
   Work1("index", Rows(12, 10), {2 * i : i \in 4..12}, Deletes(8)),
   Work1("index", Rows(12, 10), {3, 4, 11, 12, 13}, <<Write, Write, Write \union {"seek"}>>),
   Work1("index", Rows(30, 10), {1, 2, 35, 36, 37, 60, 61}, <<Write, Write \union {"seek"}>>),
   Work1("index", Rows(30, 10), {2, 36}, <<Start, Goon, Goon>>)}

\* A table of three levels read from its end.
MCBackwards == {Work1("table", Rows(11, 32), {}, <<{"last"}>> \o [i \in 1..11 |-> {"prev"}])}
=============================================================================
