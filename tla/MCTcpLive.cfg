SPECIFICATION FairTcp
CONSTANTS
  MODULUS = 64
  ISS <- MCIss
  OPTLEN = 1
  MAXREXMIT = 4
  MAXDELACK = 2
  SNDBUF = 20
  RCVBUF = 4
  MaxSend <- MCSend
  Faults = {"lose"}
  MaxFaults = 1
  Pipelined = FALSE
  Hasty = FALSE
PROPERTIES
  SentArrives
CHECK_DEADLOCK FALSE
