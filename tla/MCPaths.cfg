SPECIFICATION PathSpec
CONSTANTS
  Nodes <- MCNodes
  RootDir = "root"
  Dirs <- MCDirs
  Names <- MCNames
  Target <- MCTarget
  Fds = {3, 4}
  FdNumber <- MCFdNumber
  FdModulus = 8
  Leader = 1
  Thread = 2
  SelfFd <- MCSelfFd
  DevFd <- MCDevFd
  ProcFd <- MCProcFd
  CallerCwd = 100
  NoNode = "none"
  NoCall = NoCall
  Nullopt = Nullopt
  Places <- MCPlaces
  Cwds <- MCDirs
  DescriptorTables <- MCDescriptorTables
  Requests <- MCRequests
  RulePaths <- MCRulePaths
  Moves <- MCMoves
  Removals = {"c", "f", "l"}
  Chdirs <- MCDirs
  Dups <- MCDups
  MaxChanges = 1
CHECK_DEADLOCK FALSE
INVARIANTS
  PathInExact
PROPERTIES
  PathNamed
  DescriptorNamed
