CONSTANTS
  AppCmds <- MCAppCmds
  Notices <- MCNotices
  MaxSends = 2
  MaxPort = 0
SPECIFICATION FairSpec
CHECK_DEADLOCK FALSE
INVARIANTS
  NoOrphan
  EventsDecode
  OwnOutcome
  ReleasedWithoutReconnect
PROPERTIES
  EveryFutureCompletes
