\* one run, one qrerun, one network fault; MOMs older than 6.1.0
SPECIFICATION FairSpec
CONSTANTS
  n1 = n1
  Nodes = {n1}
  None = None
  ModernMom = FALSE
  KeepCompleted = TRUE
  Nanny = TRUE
  MaxAttempts = 1
  MaxRuns = 1
  MaxFaults = 1
  MaxDeletes = 0
  MaxReruns = 1
  MaxCrashes = 0
PROPERTIES ExitFinishes
CHECK_DEADLOCK FALSE
