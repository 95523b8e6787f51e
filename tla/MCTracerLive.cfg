SPECIFICATION FairTracerSpec
CONSTANTS
  zero = zero
  r = r
  a = a
  Pids = {zero, r, a}
  Root = r
  ZeroPid = zero
  ReuseNamed = TRUE
  MaxCalls = 3
  Forks = {"fork"}
  Threads = {"thread"}
  Exits = {"exit"}
  NoCall = NoCall
  NoTask = NoTask
  NumRules = 0
  Length <- NoRules
  timeout_ns <- NoRules
  cooldown_ns <- NoRules
  inherit_on_fork <- NoRules
  single_active_per_pid <- NoRules
  Step <- NoStep
  Data = {0}
  NoData = 0
  Calls <- MCCalls
  Execves = {"sh", "php"}
  Listens = {}
  ExecPath <- MCExecPath
  NoPath = NoPath
  allow_execve_paths = {"/usr/bin/php"}
  Retvals <- MCRetvals
  NoRet = NoRet
  Untracked = Untracked
  NoEvent = NoEvent
  RequireListen = FALSE
  MaxTime = 1
  MaxIds = 0
PROPERTIES
  StopsHandled
  LoopEnds
