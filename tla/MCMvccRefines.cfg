CONSTANTS
  TxID = {t1, t2}
  RowID = {1, 2}
  Ops = {"update", "delete", "rollback"}
  Preload = {1, 2}
  MaxTs = 5
  MaxWrites = 2
SPECIFICATION Spec
SYMMETRY Sym
INVARIANTS NoTornCommit OneCurrentVersion
PROPERTIES ImplementsRowLocks
CHECK_DEADLOCK FALSE
