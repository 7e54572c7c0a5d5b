CONSTANTS
  Usable = 76
  RowidLen = 9
  Lens <- MCLens
  Work <- MCWork
SPECIFICATION Spec
INVARIANTS Contents WellFormed NoSkip SeekRight BalanceEnds
CHECK_DEADLOCK FALSE
