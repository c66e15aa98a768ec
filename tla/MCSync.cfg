SPECIFICATION MCSpec
CONSTANTS
  a = a
  b = b
  c = c
  x = x
  y = y
  NULL = NULL
  creator = a
  Task <- MCTask
  Char <- MCChar
  Count <- MCCount
  SIZE = 4
  MaxOps = 2
  LSock = {"srv", "c1", "c2", "e"}
  LTask <- MCTask
  Path = {"p"}
  Server = {"srv"}
  End = {"e"}
  LPipe <- MCLPipe
  NoPipe = NoPipe
  Interrupts = 1
SYMMETRY MCSym
INVARIANTS
  LockIsSafe
  ConnectionsAreSound
  RwLockIsSafe
  NoSleepWithWork
PROPERTIES
  ImplementsFifo
CHECK_DEADLOCK FALSE
