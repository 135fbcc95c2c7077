CONSTANTS
  Ports = {"p1", "p2"}
  Addressable = {"p1", "p2"}
  Restless = {"p1"}
  Budget = 1
  MaxLag = 1
  MaxUpsets = 1
  MaxRescans = 1
SPECIFICATION FairSpec
CHECK_DEADLOCK FALSE
INVARIANTS
  CamerasMatchAttached
  TerminalStateLearnt
  AtMostOncePerArrival
PROPERTIES
  StartedMeansLooked
  CloseEnds
