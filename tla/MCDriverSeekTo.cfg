SPECIFICATION Spec
CONSTANTS
  AESDCHAR_MAX_WRITE_OPERATIONS_SUPPORTED = 2
  NULL = NULL
  Procs = {p1, p2}
  NoProc = NoProc
  Blocks = {b1, b2, b3}
  Byte <- TwoBytes
  Newline = 0
  KMALLOC_MAX_SIZE = 2
  WordMod = 8
  Payloads <- ShortPayloads
  ReadCounts = {}
  SeekArgs <- NoArgs
  IoctlArgs <- MixedSeekTos
  Signals = FALSE
SYMMETRY Symmetry
PROPERTIES
  SeekToLandsInWrite
