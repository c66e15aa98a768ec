SPECIFICATION FairSpec
CONSTANTS
  Task = {a, b}
  Dev = {1}
  NBLK = 3
  SECTPERBLK = 2
  MAXSECT = 5
  MAXBUFPERIO = 2
  PartSect = 4
  DriveFails = TRUE
INVARIANTS
  QueueConsistent
PROPERTIES
  ReadIsComplete
  IoEndsIfWell
  ImplementsBlockIO
