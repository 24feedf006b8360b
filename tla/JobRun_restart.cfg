\* two runs and two restarts of the server
SPECIFICATION Spec
CONSTANTS
  n1 = n1
  n2 = n2
  Nodes = {n1, n2}
  None = None
  ModernMom = TRUE
  KeepCompleted = TRUE
  Nanny = TRUE
  MaxAttempts = 1
  MaxRuns = 2
  MaxFaults = 0
  MaxDeletes = 0
  MaxReruns = 0
  MaxCrashes = 2
SYMMETRY Symmetry
INVARIANTS NeverRunsTwice
PROPERTIES EndIsRecorded
CHECK_DEADLOCK FALSE
