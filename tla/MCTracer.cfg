SPECIFICATION TracerSpec
CONSTANTS
  zero = zero
  r = r
  a = a
  b = b
  Pids = {zero, r, a, b}
  Root = r
  ZeroPid = zero
  ReuseNamed = FALSE
  MaxCalls = 4
  Forks = {"fork"}
  Threads = {"thread"}
  Exits = {"exit"}
  NoCall = NoCall
  NoTask = NoTask
  NumRules = 0
  Length <- NoRules
  timeout_ns <- NoRules
  cooldown_ns <- NoRules
  inherit_on_fork <- NoRules
  single_active_per_pid <- NoRules
  Step <- NoStep
  Data = {0}
  NoData = 0
  Calls <- MCCalls
  Execves = {"sh", "php"}
  Listens = {}
  ExecPath <- MCExecPath
  NoPath = NoPath
  allow_execve_paths = {"/usr/bin/php"}
  Retvals <- MCRetvals
  NoRet = NoRet
  Untracked = Untracked
  NoEvent = NoEvent
  RequireListen = FALSE
  MaxTime = 0
  MaxIds = 0
SYMMETRY Interchangeable
VIEW MCView
INVARIANTS
  TrackedOrPending
  JudgedOnce
  FlagsExact
  LeavesLast
PROPERTIES
  OwnCallJudged
