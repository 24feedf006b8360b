\* one sister, one run, an ordinary signal and a spawned task
SPECIFICATION Spec
CONSTANTS
  Sisters = {s1}
  MS = MS
  MaxRuns = 1
  MaxFaults = 0
  MaxExtras = 1
  Work = {"spawn"}
  Signals = {"other"}
  ResendAttempts = 4
INVARIANTS TaskOutlivesSignal
CHECK_DEADLOCK FALSE
