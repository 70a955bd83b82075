CONSTANTS
  Files = {f1}
  Retries = 2
  Processes = {p1, p2}
  Online = {p1}
  Threads = 2
  Limit = 1
  Window = 3
  MaxItems = 1
  MaxDelay = 1
  MaxClock = 6
SPECIFICATION Spec
CHECK_DEADLOCK FALSE
INVARIANTS TypeOK AllowedPerWindow ItemLimit SecondRowNeedsLoss
PROPERTY RefusedWhenFull
