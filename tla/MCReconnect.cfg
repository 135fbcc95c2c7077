CONSTANTS
  AppCmds <- MCAppCmds
  Notices <- MCNotices
  MaxSends = 1
  MaxPort = 0
SPECIFICATION Spec
CHECK_DEADLOCK FALSE
PROPERTIES ReconnectCompletes
