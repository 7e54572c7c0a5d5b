CONSTANTS
  Runner = {r1, r2}
  Modes = {"embedded", "connection", "serial"}
  Version = {1, 2, 3}
  Invalid = {}
  NoDown = {}
  InvalidDown = {3}
  Locked = TRUE
  Target = 2
  NoRunner = NoRunner
  MaxEdit = 1
  MaxCalls = 3
  Ops <- Calls
  Faults <- Failures
SPECIFICATION FairSpec
INVARIANTS NoDoubleApply InOrder Consistent SuccessMeansCurrent
PROPERTIES LockFreed
CHECK_DEADLOCK FALSE
