CONSTANTS
  Items = {t1}
  Workers = {w1}
  Requests = {r1, r2}
  NoItem = NoItem
  Offline = TRUE
  MaxRetries = {1, 2}
  DbErrors = TRUE
  EnqueueErrors = TRUE
  Crashes = TRUE
  WithScheduler = TRUE
  CancelWorks = FALSE
  MaxJobs = 1
SPECIFICATION Spec
CHECK_DEADLOCK FALSE
SYMMETRY Symmetry
INVARIANTS TypeOK NoAbandonedItem NoTempLeak AtMostOneVideo DoneImpliesStored
PROPERTY CustodyKept StatusProtocol
