SPECIFICATION FairSpec
CONSTANTS
  Length = 4
  StallTimeout = 3
  MaxSilence = 5
CHECK_DEADLOCK FALSE
INVARIANTS WholeOrNothing
PROPERTIES StallIsEarned BodyEnds
