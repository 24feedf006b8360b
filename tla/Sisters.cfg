\* two sisters, one run; one fault or exceptional step, a poll, a spawned task
SPECIFICATION Spec
CONSTANTS
  Sisters = {s1, s2}
  MS = MS
  MaxRuns = 1
  MaxFaults = 1
  MaxExtras = 1
  Work = {"poll", "spawn"}
  Signals = {"KILL", "other"}
  ResendAttempts = 2
CONSTRAINT Bound
SYMMETRY Symmetry
INVARIANTS TypeOK
PROPERTIES LaunchNeedsEveryJoin EpilogueWaits
CHECK_DEADLOCK FALSE
