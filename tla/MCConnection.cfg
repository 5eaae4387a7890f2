CONSTANTS
  BackoffMin = 1
  BackoffMax = 3
  MaxFaults = 2
  MaxActs = 1
SPECIFICATION FairSpec
INVARIANTS
  HonestState
  AbsenceIsProof
  PresenceAgrees
  VerbsInOrder
PROPERTIES
  FramesOnlyWhileConnected
  ShownStateFollowsAutomaton
  Recovers
\* The task stops for good after a shutdown or a fatal refusal.
CHECK_DEADLOCK FALSE
