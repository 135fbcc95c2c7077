SPECIFICATION FairNetworkSpec
CONSTANTS
  Attempts = {"a1", "a2"}
  Timeout = 1
  MaxDrops = 1
  MaxWire = 1
CHECK_DEADLOCK FALSE
INVARIANTS NothingMissed
PROPERTIES ScanErrorsHandled CallsEnd
