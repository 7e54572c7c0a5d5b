CONSTANTS
  Reader = {r1, r2}
  Writer = {w1, w2}
  U32 = 4
SPECIFICATION Spec
INVARIANTS Exclusive UnlockSucceeds Settled
CHECK_DEADLOCK FALSE
