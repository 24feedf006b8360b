\* two members start at once, one may be idle
SPECIFICATION Spec
CONSTANTS
  NumJobs = 3
  SlotLimit = 2
  IdleSlotLimit = 1
  MoabCompatible = TRUE
  KeepCompleted = TRUE
  Threads = {t1, t2}
  Cloner = c
  None = None
  Budget = 0
SYMMETRY Symmetry
INVARIANT IdleLimitFilled
CHECK_DEADLOCK FALSE
