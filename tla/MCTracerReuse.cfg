SPECIFICATION TracerSpec
CONSTANTS
  zero = zero
  r = r
  a = a
  Pids = {zero, r, a}
  Root = r
  ZeroPid = zero
  ReuseNamed = TRUE
  MaxCalls = 4
  Forks = {"fork"}
  Threads = {}
  Exits = {}
  NoCall = NoCall
  NoTask = NoTask
  NumRules = 1
  Length <- TwoSteps
  timeout_ns <- OneUnit
  cooldown_ns <- ZeroUnits
  inherit_on_fork <- NoInherit
  single_active_per_pid <- NoInherit
  Step <- SequenceStep
  Data = {0}
  NoData = 0
  Calls <- SequenceCalls
  Execves = {"sh", "php"}
  Listens = {}
  ExecPath <- MCExecPath
  NoPath = NoPath
  allow_execve_paths = {}
  Retvals <- MCRetvals
  NoRet = NoRet
  Untracked = Untracked
  NoEvent = NoEvent
  RequireListen = FALSE
  MaxTime = 1
  MaxIds = 3
VIEW MCView
PROPERTIES
  SameProcess
