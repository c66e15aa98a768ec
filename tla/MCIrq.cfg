SPECIFICATION MCSpec
CONSTANTS
  t1 = t1
  t2 = t2
  Timer <- MCTimer
  Period <- MCPeriod
  NTICK = 4
  N = 3
  Net = {3}
INVARIANTS
  FiresOnTime
  OneHandler
PROPERTIES
  TimerEnds
  RequestServed
