-------------------------------- MODULE MCWal --------------------------------
(***************************************************************************)
(* Instances of Wal for TLC: what the client of each connection calls.     *)
(***************************************************************************)
EXTENDS Wal, TLC

CONSTANTS c1, c2

Pair(calls) == [c \in {c1, c2} |-> calls]
One(calls)  == [c \in {c1} |-> calls]

\* One connection: everything but ROLLBACK, and failing statements and checkpoints
\* inside a transaction.
Alone == One(Calls \ {"rollback", "fail_in_tx", "checkpoint_in_tx"})
\* Readers and writers, no checkpoint.
Shared == Pair({"read", "write"})
\* One connection with savepoints, ROLLBACK and failing statements beside one
\* that writes and checkpoints.
Mixed == c1 :> {"write", "savepoint", "rollback_to", "release", "rollback",
                "fail", "fail_in_tx"}
         @@ c2 :> {"write", "checkpoint", "checkpoint_in_tx"}

RollingBack      == One({"begin", "write", "rollback"})

Sym == Permutations(Page)

=============================================================================
