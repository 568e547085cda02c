CONSTANTS
  NULL = NULL
  Conns = {c1, c2}
  NoConn = NoConn
  ConnFDs = {5, 6}
  SignalThreads <- AllThreads
  StdinReadable = TRUE
  Failures = {"lock", "join", "epoll"}
SPECIFICATION FairSpec
INVARIANTS TypeOK ListMatchesMemory OwnDescriptor CleanExit
PROPERTIES ShutdownOrHang AcceptsClients
CHECK_DEADLOCK FALSE
