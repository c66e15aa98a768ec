SPECIFICATION MCSpec
CONSTANTS
  init = init
  u1 = u1
  u2 = u2
  any = any
  NULL = NULL
  Task <- MCTask
  Pid <- MCPid
  Untraced = {TRUE, FALSE}
  KillSig <- MCBoth
  Func <- MCFunc
  STask <- MCSTask
  inittask = init
  Parent <- MCParent
  Signo = {8, 17, 19}
  Trap = {8}
  Mask <- MCMask
  Flag <- MCFlag
  MaxFrame = 2
  MaxPosts = 3
  PTask = {1, 2, 3}
  initpid = 1
  Group = {0, 1, 2}
  Session = {0, 1}
  Idle = 0
  None = None
  Hashed = {TRUE, FALSE}
  Foreign = FALSE
  FTask <- MCFTask
  Nil = Nil
  Inode <- MCInode
  Directory <- MCDirectory
  Fd = {0, 1}
  Fdes = {1, 2, 3, 4}
  MaxPos = 2
  MaxFOps = 5
SYMMETRY MCSym
INVARIANTS
  FamilyIsTree
  WaitersAreTold
  PendingIsDue
  MaskComesBack
  FgIsLive
  TablesAgree
CHECK_DEADLOCK FALSE
