SPECIFICATION Spec
CONSTANTS
  AESDCHAR_MAX_WRITE_OPERATIONS_SUPPORTED = 3
  NULL = NULL
  Ptrs = {b1, b2, b3, b4}
  Sizes = {1, 2}
INVARIANTS
  BufferInv
  LookupFindsByte
  SeekFindsEntry
PROPERTIES
  RefinesHistory
