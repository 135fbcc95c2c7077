CONSTANTS
  Cmds <- MCCmds
  CmdId <- MCCmdId
  CmdPrio <- MCCmdPrio
  WriteTimeout = 3
  QueueTimeout = 1
  MaxNest = 0
  KeepAlive = "ka"
  Sent <- MCSent
  Replies <- MCReplies
  Pushes <- MCPushes
  KeepAliveInterval = 2
SPECIFICATION SessionSpec
INVARIANTS
  GateMatchesCamera
  AnswersItsOwn
  KeepAliveInTime
PROPERTIES
  SentAfterReport
