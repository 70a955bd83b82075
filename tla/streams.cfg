CONSTANTS
  Attempts = {1, 2}
  Pages = {p1}
  MaxFailures = 1
SPECIFICATION FairSpec
CHECK_DEADLOCK FALSE
INVARIANTS TypeOK NoLineTwice NothingMissed
PROPERTY StreamEnds
