SPECIFICATION System
CONSTANTS
  AESDCHAR_MAX_WRITE_OPERATIONS_SUPPORTED = 2
  NULL = NULL
  Procs = {h1, h2}
  NoProc = NoProc
  Blocks = {b1, b2, b3}
  Byte <- TwoBytes
  Newline = 0
  KMALLOC_MAX_SIZE = 2
  WordMod = 64
  Payloads <- SomeLines
  ReadCounts = {4}
  SeekArgs <- NoArgs
  IoctlArgs <- SomeSeeks
  Signals = TRUE
  Packets <- SomePackets
SYMMETRY Symmetry
INVARIANTS
  HandlersTypeOK
  Uncontended
  LinesIntact
PROPERTIES
  ReplyIsRest
CHECK_DEADLOCK FALSE
