CONSTANTS
  NULL = NULL
  Conns = {c1}
  NoConn = NoConn
  ConnFDs = {5}
  SignalThreads <- OnlyMain
  StdinReadable = FALSE
  Failures = {}
SPECIFICATION FairSpec
PROPERTY SignalStopsServer
CHECK_DEADLOCK FALSE
