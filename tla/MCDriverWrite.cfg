SPECIFICATION Spec
CONSTANTS
  AESDCHAR_MAX_WRITE_OPERATIONS_SUPPORTED = 2
  NULL = NULL
  Procs = {p1, p2, p3}
  NoProc = NoProc
  Blocks = {b1, b2, b3, b4}
  Byte <- TwoBytes
  Newline = 0
  KMALLOC_MAX_SIZE = 3
  WordMod = 8
  Payloads <- MixedPayloads
  ReadCounts = {}
  SeekArgs <- NoArgs
  IoctlArgs <- NoArgs
  Signals = TRUE
SYMMETRY Symmetry
INVARIANTS
  TypeOK
  LocksMatchCalls
  OneOwner
  NoLeak
  RequestStaysPossible
PROPERTIES
  RefinesLineLog
