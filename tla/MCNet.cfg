SPECIFICATION Spec
CONSTANTS
  t1 = t1
  t2 = t2
  Addr <- MCAddr
  HwAddr <- MCHwAddr
  Port = {"p", "e"}
  Me = "m"
  Lo = "lo"
  INADDRANY = "any"
  HwOf <- Hw
  NPKT = 3
  NARP = 1
  MAXREXMIT = 3
  RING = 1
  Frames <- UdpFrames
  Routes = {}
  Local <- Routed
  USock = {"s"}
  UTask = {t1, t2}
  Ports = {"p"}
  Eph = "e"
  Dests <- UdpDests
  Peers = {"b"}
  Posts = 1
  TTask = {t1, t2}
  Reader = {t1}
  Fg = {t1}
  Char = {"c", "nl", "cr", "erase", "kill", "intr"}
  Key <- Keys
  Keymap <- Map
  RAWSIZE = 1
  COOKSIZE = 2
  Lens = {2}
  Termios <- Modes
  SigPosts = 1
  NROW = 2
  NCOL = 2
  NSCREEN = 2
  TAB = 2
  NPAR = 2
  Told = {}
  Ways = {"write"}
  Outq <- Written
  MaxPar = 2
INVARIANTS
  
  NoSleepWithLine
PROPERTIES
  
  ImplementsTerminal
CHECK_DEADLOCK FALSE
