CONSTANTS
  Capacity = 7
  Cost = 3
  MaxTime = 20
SPECIFICATION BucketSpec
INVARIANT StaysInside
CHECK_DEADLOCK FALSE
