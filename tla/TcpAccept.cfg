SPECIFICATION FairTcp
CONSTANTS
  MODULUS = 64
  ISS <- MCIss
  OPTLEN = 1
  MAXREXMIT = 4
  MAXDELACK = 2
  SNDBUF = 20
  RCVBUF = 4
  MaxSend <- MCSend
  Faults = {}
  MaxFaults = 0
  Pipelined = TRUE
  Hasty = FALSE
PROPERTIES
  AcceptReturns
CHECK_DEADLOCK FALSE
