\* three members run one at a time; one exceptional request
SPECIFICATION Spec
CONSTANTS
  NumJobs = 3
  SlotLimit = 1
  IdleSlotLimit = 2
  MoabCompatible = TRUE
  KeepCompleted = TRUE
  Threads = {t1, t2}
  Cloner = c
  None = None
  Budget = 1
SYMMETRY Symmetry
INVARIANTS TypeOK SlotLimitHolds ArrayOutlivesMembers DependencyHonest CountersSettle CreationHoldHolds NeverStuck
CHECK_DEADLOCK FALSE
