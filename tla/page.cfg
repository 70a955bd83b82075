CONSTANTS
  Pages = {p1, p2}
  Lists = {L1, L2}
  Empty = Empty
  NoList = NoList
  Threads = 4
  ItemStreams = 1
  MaxFetches = 2
  MaxEvents = 3
SPECIFICATION FairSpec
CHECK_DEADLOCK FALSE
INVARIANTS TypeOK LastIsNewest
PROPERTY PollingCatchesUp StreamCatchesUp
