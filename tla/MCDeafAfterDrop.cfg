CONSTANTS
  ConnectTimeout = 2
  ServicesTimeout = 4
  EncryptTimeout = 3
  SubscribeTimeout = 2
  BackoffInitial = 1
  BackoffMax = 3
  Asked <- AskedServices
  Wrap = 64
  Required = {"command", "query"}
  Optional = {}
  Order <- OrderRequired
  Refused = {}
  MaxDrops = 1
  Climbs = 1
  Timeout = 8
SPECIFICATION Spec
CHECK_DEADLOCK FALSE
INVARIANTS ReadyMeansListening
