CONSTANTS
  Objs = {1,2,3,4,5,6}
  Slots = {s1, s2}
  s1 = s1
  s2 = s2
  MaxPage = 7
  FirstSize = 4
  Capacities = {2, 3}
  PtrmapPages = {5}
  MaxLeaves = 1
  Word = 8
  Works <- MCWorks
SPECIFICATION Spec
SYMMETRY Sym
CONSTRAINT Untainted
INVARIANTS HeaderSound DirtyPinned Coherent
PROPERTIES Bounded FsyncAfterWrites ClearsUnlessReading
CHECK_DEADLOCK FALSE
