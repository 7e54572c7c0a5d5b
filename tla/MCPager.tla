------------------------------ MODULE MCPager ------------------------------
(***************************************************************************)
(* An instance of Pager for TLC: a database of four pages, two cursors and *)
(* a cache of two or three pages.                                          *)
(***************************************************************************)
EXTENDS Pager

CONSTANTS s1, s2

Sym == Permutations(Slots)

Work(ops, n, k, ps) == [ops |-> ops, calls |-> n, capacity |-> k, pages |-> ps]

MCWorks == {
    \* evictions under cursors that hold pages, with failures
    Work({"read", "write", "delete", "fail", "resize"}, 5, 2, {1, 2, 3}),
    \* savepoints, checkpoints and commits
    Work({"read", "write", "savepoint", "rollback_to", "commit", "checkpoint"}, 5, 2, {2, 3, 4}),
    \* allocation, up to a full cache
    Work({"read", "allocate", "commit", "rollback", "savepoint"}, 4, 3, {1, 2}),
    \* balancing that renumbers pages
    Work({"read", "write", "renumber", "savepoint", "rollback"}, 6, 3, {2, 3, 4}),
    \* the free list
    Work({"read", "free", "commit", "rollback", "halt"}, 6, 3, {2, 3, 4})}

\* Past these failures the properties say nothing: they are not explored further.
Untainted == marks \cap {"early", "raced", "torn"} = {}

=============================================================================
