CONSTANTS
  Items = {t1}
  Workers = {w1, w2}
  Requests = {r1}
  NoItem = NoItem
  Offline = FALSE
  MaxRetries = {3}
  DbErrors = FALSE
  EnqueueErrors = FALSE
  Crashes = FALSE
  WithScheduler = TRUE
  CancelWorks = TRUE
  MaxJobs = 1
SPECIFICATION FairSpec
CHECK_DEADLOCK FALSE
INVARIANTS ExclusiveExecution NoAbandonedItem NoTempLeak
PROPERTY EventuallySettled
