CONSTANTS
  c1 = c1
  c2 = c2
  Conn = {c1}
  Page = {p1, p2}
  Slots = 2
  Threshold = 2
  Ops <- Alone
  MaxFrame = 4
  MaxWrite = 3
  MaxReads = 1
  MaxDepth = 2
SPECIFICATION FairSpec
INVARIANTS ReadsView CacheFresh Durable
CHECK_DEADLOCK FALSE
PROPERTIES LockReleased
