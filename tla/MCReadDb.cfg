SPECIFICATION FileSpec
CONSTANTS
  db = db
  log = log
  d1 = d1
  d2 = d2
  d3 = d3
  d4 = d4
  Paths = {db, log}
  Db = {db}
  AllowPaths = {}
  DenyPaths = {}
  NoData = NoData
  Large = 3
  Threshold = 2
  Pid = Pid
  Kind <- ReadDbOnly
  timeout_ns <- Window1
  cooldown_ns <- NoCooldownTime
  Ops = {"openat", "read", "copy_file_range", "dup2", "close"}
  OpenModes = {"read", "write"}
  Dirs = {}
  MaxFd = 1
  Chunk = 2
  Closed = Closed
  NoEvent = NoEvent
  NoRet = NoRet
  Untracked = Untracked
  MaxTime = 2
  MaxIds = 4
  MaxCalls = 6
CHECK_DEADLOCK FALSE
VIEW MCView
INVARIANTS
  FileTypeOK
  AccountsAgree
PROPERTIES
  LargeReadReported
  ReportIsLarge
