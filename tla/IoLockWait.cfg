SPECIFICATION IoFairSpec
CONSTANTS
  NULL = NULL
  Task = {a, b, c}
  MaxOps = 1
  Char = {a}
  SIZE = 2
  creator = a
  Count = {1}
PROPERTIES
  WaitReturns
CHECK_DEADLOCK FALSE
