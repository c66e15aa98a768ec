SPECIFICATION MCFairSpec
CONSTANTS
  init = init
  a = a
  b = b
  d = d
  any = any
  NULL = NULL
  Task <- MCTask
  Pid <- MCPid
  Untraced = {FALSE}
  KillSig <- MCKill
  Func = {"DFL"}
PROPERTIES
  OrphansAreReaped
  KillEnds
CHECK_DEADLOCK FALSE
