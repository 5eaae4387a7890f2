SPECIFICATION Spec
CONSTANTS
  Tier = tier
  Fold = fold
  Nets = {n1}
  MaxCalls = 2
  MaxMoves = 3
  MaxTokens = 4
  MaxChats = 2
  MaxChances = 8
INVARIANTS
  SettledAgrees
  UnitFollows
  DeadIsForgotten
  ResumesNewest
PROPERTIES
  Settles
\* The user may be content and the calls answered, or the application has been
\* launched often enough.
CHECK_DEADLOCK FALSE
