SPECIFICATION MCSpec
CONSTANTS
  a = a
  b = b
  c = c
  f1 = f1
  f2 = f2
  p1 = p1
  p2 = p2
  p3 = p3
  p4 = p4
  NoPte = NoPte
  NoTable = NoTable
  Task <- MCTask
  Boot = a
  UserFrame <- MCUserFrame
  Frame <- MCFrame
  Val <- MCVal
  Top = 2
  Bss = 1
  Text = {0}
  Fresh <- MCFresh
  MaxOrphan = 1
  NPde = 2
  NPte = 2
  NFrame = 4
  KERNQUOTA = 2
  DRIVERQUOTA = 1
  MaxRef = 2
SYMMETRY MCSym
INVARIANTS
  MappingsExact
  WalksAreExact
  FreeListExact
PROPERTIES
  ImplementsMem
  ReserveKept
CHECK_DEADLOCK FALSE
