SPECIFICATION FileSpec
CONSTANTS
  db = db
  log = log
  d1 = d1
  d2 = d2
  d3 = d3
  d4 = d4
  Paths = {db, log, d1, d2}
  Db = {}
  AllowPaths = {d2}
  DenyPaths = {db, log, d1, d2}
  NoData = NoData
  Large = 3
  Threshold = 2
  Pid = Pid
  Kind <- CountOnly
  timeout_ns <- Window1
  cooldown_ns <- Cooldown2
  Ops = {"openat", "close"}
  OpenModes = {"read", "directory"}
  Dirs = {}
  MaxFd = 2
  Chunk = 2
  Closed = Closed
  NoEvent = NoEvent
  NoRet = NoRet
  Untracked = Untracked
  MaxTime = 4
  MaxIds = 10
  MaxCalls = 6
CHECK_DEADLOCK FALSE
VIEW MCView
SYMMETRY SameFiles
INVARIANTS
  ScanNoticed
PROPERTIES
  ReportIsScan
