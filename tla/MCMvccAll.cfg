CONSTANTS
  TxID = {t1, t2}
  RowID = {1}
  Ops = {"insert", "insert_over", "upsert", "delete", "read", "rollback", "gc"}
  Preload = {1}
  MaxTs = 5
  MaxWrites = 1
SPECIFICATION Spec
SYMMETRY Sym
INVARIANTS NoLostUpdate MarksResolved LoggedBeforeVisible NoDirtyRead
PROPERTIES ViewStable
CHECK_DEADLOCK FALSE
