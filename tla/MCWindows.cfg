SPECIFICATION Spec
CONSTANTS
  Main = main
  Popouts = {p1}
  Channel = chan
  Peer = peer
  Renamed = ren
  AllowSplit = FALSE
  MaxRows = 1
  MaxRecall = 1
  MaxMoves = 3
INVARIANTS
  ComposerAgrees
  ShownIsRead
  SplitWasAsked
\* The application quits.
CHECK_DEADLOCK FALSE
