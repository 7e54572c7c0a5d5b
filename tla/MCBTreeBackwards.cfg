CONSTANTS
  Usable = 76
  RowidLen = 9
  Lens <- MCLens
  Work <- MCBackwards
SPECIFICATION Spec
INVARIANT PreviousRecord
CHECK_DEADLOCK FALSE
