---------------------------- MODULE RowLockStore ----------------------------
(***************************************************************************)
(* What the multi-version store promises to clients that update and delete *)
(* rows, with no versions in it: each row holds the timestamp of the commit *)
(* that wrote it, a writer has the row to itself from its first write to   *)
(* its end, and a commit replaces all the rows of the writer at once.      *)
(***************************************************************************)
EXTENDS Integers

CONSTANTS
  Writer,   \* the transactions
  Row,      \* the rows
  Stamp,    \* commit timestamps
  Absent    \* the value of a row that is not there

VARIABLES
  db,       \* [Row -> the commit that wrote it]
  claims    \* [Writer -> the rows it has written]

absVars == <<db, claims>>

AbsInit ==
  /\ db \in [Row -> Stamp \cup {Absent}]
  /\ claims = [t \in Writer |-> {}]

Claim(t, r) ==
  /\ db[r] # Absent
  /\ \A u \in Writer : r \notin claims[u]
  /\ claims' = [claims EXCEPT ![t] = @ \cup {r}]
  /\ UNCHANGED db

Commit(t, c) ==
  /\ claims[t] # {}
  /\ claims' = [claims EXCEPT ![t] = {}]
  /\ \A r \in Row :
       IF r \in claims[t] THEN c > db[r] /\ db'[r] \in {c, Absent} ELSE db'[r] = db[r]

Release(t) ==
  /\ claims[t] # {}
  /\ claims' = [claims EXCEPT ![t] = {}]
  /\ UNCHANGED db

AbsNext ==
  \E t \in Writer :
    \/ \E r \in Row : Claim(t, r)
    \/ \E c \in Stamp : Commit(t, c)
    \/ Release(t)

AbsSpec == AbsInit /\ [][AbsNext]_absVars
=============================================================================
