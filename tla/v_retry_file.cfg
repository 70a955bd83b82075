CONSTANTS
  Items = {t1}
  Workers = {w1}
  Requests = {r1}
  NoItem = NoItem
  Offline = FALSE
  MaxRetries = {3}
  DbErrors = FALSE
  EnqueueErrors = FALSE
  Crashes = FALSE
  WithScheduler = TRUE
  CancelWorks = FALSE
  MaxJobs = 1
SPECIFICATION Spec
CHECK_DEADLOCK FALSE
INVARIANT PendingRetryHasFile
