CONSTANTS
  c1 = c1
  c2 = c2
  Conn = {c1, c2}
  Page = {p1, p2}
  Slots = 2
  Threshold = 2
  Ops <- Mixed
  MaxFrame = 2
  MaxWrite = 2
  MaxReads = 2
  MaxDepth = 1
SPECIFICATION Spec
SYMMETRY Sym
INVARIANTS OneWriter FrameCacheSound PageListMatches CheckpointInBounds
CHECK_DEADLOCK FALSE
