------------------------------ MODULE MCMigrate ------------------------------
(***************************************************************************)
(* Instances of Migrate for TLC.                                           *)
(***************************************************************************)
EXTENDS Migrate

\* rollback_with_conn takes no lock, so it does not race with runs here.
Calls == [m \in Modes |-> IF m = "connection" THEN {"run"} ELSE {"run", "rollback"}]

\* Files are edited where calls do not overlap; processes die where the database
\* outlives them.
Failures == [m \in Modes |-> {"read", "exec", "half", "track"}
                                \cup (IF m = "embedded" THEN {"edit"} ELSE {"crash"})]

=============================================================================
