CONSTANTS
  Capacity = 7
  Cost = 3
  MaxTime = 20
SPECIFICATION BucketSpec
INVARIANTS
  RateBound
  NoNeedlessWait
\* The clock is bounded, so a verb may wait for a tick that never comes.
CHECK_DEADLOCK FALSE
