CONSTANTS
  c1 = c1
  c2 = c2
  Conn = {c1}
  Page = {p1, p2}
  Slots = 2
  Threshold = 9
  Ops <- RollingBack
  MaxFrame = 3
  MaxWrite = 3
  MaxReads = 2
  MaxDepth = 1
SPECIFICATION Spec
SYMMETRY Sym
INVARIANT CommittedReachable
CHECK_DEADLOCK FALSE
