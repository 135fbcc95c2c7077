CONSTANTS
  ConnectTimeout = 2
  ServicesTimeout = 4
  EncryptTimeout = 3
  SubscribeTimeout = 2
  BackoffInitial = 1
  BackoffMax = 2
  Asked <- AskedServices
  Wrap = 64
  Required = {"command", "query"}
  Optional = {"network"}
  Order <- OrderAll
  Refused = {}
  MaxDrops = 1
  Climbs = 2
  Timeout = 4
SPECIFICATION FairSpec
CHECK_DEADLOCK FALSE
INVARIANTS
  StallIsEarned
  DeadlineKept
  ListeningIfUndisturbed
PROPERTIES
  ActionFits
  ClimbEnds
