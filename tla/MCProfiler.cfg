SPECIFICATION ProfilerSpec
CONSTANTS
  zero = zero
  r = r
  a = a
  Pids = {zero, r, a}
  Root = r
  ZeroPid = zero
  ReusePids = TRUE
  MaxCalls = 5
  Calls <- MCCalls
  Execves = {"execve"}
  Forks = {"fork"}
  Threads = {"thread"}
  Exits = {"exit"}
  Connects = {"connect"}
  Followed = {"execve", "connect", "read"}
  ReadsMemory = {"execve", "connect"}
  Retvals <- MCRetvals
  InProgress <- MinusTwo
  NoCall = NoCall
  NoTask = NoTask
  Absent = Absent
  Nullopt = Nullopt
  NoRecord = NoRecord
INVARIANTS
  ProfilerTypeOK
  PrintedOnce
  PendingIsOwn
  ProfilerLeavesLast
PROPERTIES
  PrintedOwnCall
  ProfilerEnds
