SPECIFICATION FairSpec
CONSTANTS
  AESDCHAR_MAX_WRITE_OPERATIONS_SUPPORTED = 1
  NULL = NULL
  Procs = {p1, p2}
  NoProc = NoProc
  Blocks = {b1, b2}
  Byte <- TwoBytes
  Newline = 0
  KMALLOC_MAX_SIZE = 2
  WordMod = 4
  Payloads <- DoubleLine
  ReadCounts = {1}
  SeekArgs <- NoArgs
  IoctlArgs <- OneSeekTo
  Signals = TRUE
PROPERTIES
  CallReturns
