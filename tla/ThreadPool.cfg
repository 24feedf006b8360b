\* three workers, so that one may time out while another is signalled
SPECIFICATION FairSpec
CONSTANTS
  Threads = {t1, t2, t3}
  Work = {w1, w2, w3, w4}
  MinThreads = 1
  MaxThreads = 3
  Timed = TRUE
  MaxFailures = 1
  None = None
INVARIANTS TypeOK CountersExact WakeupPerItem QueuedWorkIsServed
PROPERTIES SubmittedWorkRuns DestroyReturns
CHECK_DEADLOCK FALSE
