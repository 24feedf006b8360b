\* one run, one delete, one network fault; MOMs older than 6.1.0
SPECIFICATION Spec
CONSTANTS
  n1 = n1
  n2 = n2
  Nodes = {n1, n2}
  None = None
  ModernMom = FALSE
  KeepCompleted = TRUE
  Nanny = TRUE
  MaxAttempts = 1
  MaxRuns = 1
  MaxFaults = 1
  MaxDeletes = 1
  MaxReruns = 0
  MaxCrashes = 0
SYMMETRY Symmetry
INVARIANTS TypeOK RunningHoldsNode QueuedHoldsNothing AnsweredObitIsRecorded
CHECK_DEADLOCK FALSE
