SPECIFICATION Spec
CONSTANTS
  Pids = {p1, p2}
  p1 = p1
  p2 = p2
  Root = p1
  NumRules = 2
  Length <- MCLength
  timeout_ns <- MCTimeout
  cooldown_ns <- MCCooldown
  inherit_on_fork <- MCInherit
  single_active_per_pid <- MCSingle
  Step <- MCStep
  Data <- MCData
  NoData = 0
  Calls <- MCCalls
  Execves <- MCExecves
  Listens = {"listen"}
  ExecPath <- MCExecPath
  NoPath = NoPath
  allow_execve_paths = {"/usr/bin/php"}
  Retvals <- MCRetvals
  NoRet = NoRet
  Untracked = Untracked
  NoEvent = NoEvent
  RequireListen = TRUE
  MaxTime = 2
  MaxIds = 4
VIEW MCView
SYMMETRY Interchangeable
INVARIANTS
  TypeOK
  FreshIds
  SingleActive
  QuietUntilListen
PROPERTIES
  AllowedSilent
  ReportInWindow
  CooldownRespected
  CooldownKept
  ReportedOnce
  KeepsMonitors
