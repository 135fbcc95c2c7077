CONSTANTS
  Cmds <- MCCmds
  CmdId <- MCCmdId
  CmdPrio <- MCCmdPrio
  WriteTimeout = 1
  QueueTimeout = 2
  MaxNest = 2
SPECIFICATION FairSpec
INVARIANTS
  TypeOK
  SingleFlight
  OneQueuedInFlight
  NoLostWakeup
  ExactlyOnce
PROPERTIES
  ServiceSpec
  EveryCommandCompletes
