SPECIFICATION FairSpec
CONSTANTS
  idle = idle
  a = a
  b = b
  q = q
  Task <- MCTask
  WaitQ <- MCWaitQ
  NiceInc <- MCNiceInc
  NRUNTASKQ = 3
  Priority0 = 1
INVARIANTS
  QueuesConsistent
  NoSignalAsleep
PROPERTIES
  RechargeEnds
  PicksLargestCounter
  NoStarvation
