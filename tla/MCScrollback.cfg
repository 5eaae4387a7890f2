CONSTANTS
  RingCapacity = 3
  MaxMerge = 2
  HydrateLimit = 1
  PageSizes = {3}
  AroundReach = 0
  FirstRows = 1
  MaxRows = 5
  MaxRequests = 1
  MaxLocal = 1
  MaxJumps = 1
  MaxDrops = 1
SPECIFICATION FairSpec
INVARIANTS
  RowsInOrder
  EffectsOnce
  NoHole
  PagerArmed
PROPERTIES
  CatchesUp
\* The log, the connection losses and the user's input are bounded, so it may stop.
CHECK_DEADLOCK FALSE
