SPECIFICATION Spec
CONSTANTS
  Others = {x}
  MaxCalls = 2
  MaxMoves = 2
  MaxBursts = 2
INVARIANTS
  CallAgrees
  CountAgrees
PROPERTIES
  EndTogether
\* Every bound on calls, moves and connections is reached in the end.
CHECK_DEADLOCK FALSE
