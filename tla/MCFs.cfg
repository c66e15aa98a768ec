SPECIFICATION Spec
CONSTANTS
  t1 = t1
  t2 = t2
  b1 = b1
  b2 = b2
  s1 = s1
  s2 = s2
  Nobody = Nobody
  BufTask = {t1, t2}
  Buf = {b1, b2}
  Block = {1, 2, 3}
  NoBlock = 99
  CANDIDATES = 2
  CLUSTER = 2
  MaxVersion = 1
  MaxCalls = 4
  ITask = {t1, t2}
  Slot = {s1, s2}
  Ino = {1, 2, 3}
  Used = {1, 2}
  NoIno = 0
  ICANDIDATES = 2
  MaxIOps = 4
  DirRenames = {}
  DirFirst = {}
SYMMETRY MCSym
INVARIANTS
  NewestIsKept
  InodesAreKept
  
PROPERTIES
  HeldKeepsBlock
CHECK_DEADLOCK FALSE
