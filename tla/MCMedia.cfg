SPECIFICATION Spec
CONSTANTS
  Convs = {c1, c2}
  Pictures = {p1}
  Pages = {g1}
  Thumb = p1
  Screens = 2
  MaxTurns = 4
  Posters = {a, b}
  MaxTasks = 3
  Chunks = 2
  MaxFaults = 2
  Drafts = {c1, c2}
  Uploaders = {u1}
  MaxJobs = 3
  MaxCalls = 4
  MaxLists = 2
  MaxElsewhere = 1
INVARIANTS
  ArrivedIsDrawn
  CachedIsWhole
  WaitsHaveTasks
  ChoiceAgrees
PROPERTIES
  CachesKeepPromise
\* Every bound on what users and faults do is reached in the end.
CHECK_DEADLOCK FALSE
