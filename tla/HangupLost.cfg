SPECIFICATION Spec
CONSTANTS
  Others = {x}
  MaxCalls = 1
  MaxMoves = 0
  MaxBursts = 0
PROPERTIES
  HangupLeaves
\* Every bound on calls, moves and connections is reached in the end.
CHECK_DEADLOCK FALSE
