SPECIFICATION FileSpec
CONSTANTS
  db = db
  log = log
  d1 = d1
  d2 = d2
  d3 = d3
  d4 = d4
  Paths = {d1, d2, d3, d4}
  Db = {}
  AllowPaths = {}
  DenyPaths = {d1, d2, d3, d4}
  NoData = NoData
  Large = 3
  Threshold = 2
  Pid = Pid
  Kind <- TraversalOnly
  timeout_ns <- Window1
  cooldown_ns <- Cooldown2
  Ops = {"openat", "close", "getdents64"}
  OpenModes = {"directory"}
  Dirs = {d1, d2, d3, d4}
  MaxFd = 1
  Chunk = 2
  Closed = Closed
  NoEvent = NoEvent
  NoRet = NoRet
  Untracked = Untracked
  MaxTime = 2
  MaxIds = 10
  MaxCalls = 10
CHECK_DEADLOCK FALSE
VIEW MCView
SYMMETRY SameDirs
INVARIANTS
  TraversalNoticed
PROPERTIES
  ReportIsTraversal
