SPECIFICATION Spec
CONSTANTS
  People = {me, ann}
  Me = me
  Spares = {zoe}
  Capacity = 4
  MaxNames = 1
  Delay = 1
  Unmask = 1
  MaxTurns = 4
  MaxWords = 3
  MaxKeys = 6
  Masks = {m1, m2}
  Slice = 3
  MaxLog = 5
  MaxFirst = 4
  MaxAsked = 2
  MaxMoves = 4
  Networks = {n1, n2}
  Filters = {blank, text}
  Unfiltered = blank
  MaxVerbs = 3
  MaxSearches = 3
INVARIANTS
  WideShowsConversation
\* Every bound on what comes and what the user does is reached in the end.
CHECK_DEADLOCK FALSE
