CONSTANTS
  Jobs = {j1, j2}
  Queues = {q1, q2}
  RouteQueues = {q2}
  Threads = {t1, t2}
  MaxQueuable = 1
  MaxContended = 1
  MaxUnknown = 1
  MaxMoves = 2
  None = None
SPECIFICATION Spec
SYMMETRY Symmetry
INVARIANTS TypeOK ServerCountsHold QueueCountsHold UserCountsHold LimitHolds NoJobStranded
CHECK_DEADLOCK FALSE
CONSTRAINT OneCause
