\* one sister, two runs; one fault, or a poll
SPECIFICATION Spec
CONSTANTS
  Sisters = {s1}
  MS = MS
  MaxRuns = 2
  MaxFaults = 1
  MaxExtras = 0
  Work = {"poll"}
  Signals = {}
  ResendAttempts = 1
CONSTRAINT Bound
PROPERTIES RunEnds StrayCopiesGo
CHECK_DEADLOCK FALSE
