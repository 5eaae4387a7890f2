CONSTANTS
  Channels = {c1}
  Queries = {q1, q2}
  System = sys
  Nicks = {n1}
  SystemHead = 4
  MaxRows = 3
  MaxInFlight = 3
  MaxMoves = 3
SPECIFICATION Spec
INVARIANTS
  HeldIsOpen
  ViewAgrees
  RowsAgree
\* Rows, moves and losses are bounded, so it may stop.
CHECK_DEADLOCK FALSE
