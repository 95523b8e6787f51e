SPECIFICATION ReaderSpec
CONSTANTS
  Word = 2
  MaxString = 4
  MaxArgv = 1
  MaxEnvp = 2
  MaxArg = 8
  FamilySize = 1
  InetSize = 3
  Inet6Size = 5
  UnixSize = 5
  StorageSize = 6
  Inet6Min = 4
  Unix <- MCUnix
  Inet <- MCInet
  Inet6 <- MCInet6
  AtSign = 64
  Hole = Hole
  Failed = Failed
  NoArgs = NoArgs
  NoCall = NoCall
  Memories <- MCMemories
  Requests <- MCRequests
  Pokes <- MCPokes
  MaxPokes = 1
CHECK_DEADLOCK FALSE
INVARIANTS
  ReaderTypeOK
  PathsRead
  ArgvRead
  WriteRead
  ConnectRead
PROPERTIES
  ReadingEnds
