\* one run, one delete, one network fault
SPECIFICATION FairSpec
CONSTANTS
  n1 = n1
  Nodes = {n1}
  None = None
  ModernMom = TRUE
  KeepCompleted = TRUE
  Nanny = TRUE
  MaxAttempts = 1
  MaxRuns = 1
  MaxFaults = 1
  MaxDeletes = 1
  MaxReruns = 0
  MaxCrashes = 0
PROPERTIES NodesComeBack StraysAreCleared
CHECK_DEADLOCK FALSE
