CONSTANTS
  Usable = 33
  Header = 8
  Lens = {4, 7}
  MaxFrag = 2
  Buffered = 1
  MaxCells = 5
  Dividers = 2
  Foreign = 1
SPECIFICATION Spec
INVARIANTS Layout FreeSpaceExact Contents
CHECK_DEADLOCK FALSE
