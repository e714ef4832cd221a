SPECIFICATION Spec
CONSTANTS
  Tasks = {t1, t2}
  Nobody = Nobody
  Locks = {1, 2, 3, 4}
  Kind <- TwoIrq
  MAX_SPIN = 2
  MaxBackoff = 2
  MaxTries = 1
  MaxGuards = 3
  MaxFrames = 2
SYMMETRY TaskSymmetry
INVARIANT IrqLockExcludesInterrupts
PROPERTY IsMutex
CHECK_DEADLOCK FALSE
