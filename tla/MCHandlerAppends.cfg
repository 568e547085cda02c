CONSTANTS
  AESDCHAR_MAX_WRITE_OPERATIONS_SUPPORTED = 4
  NULL = NULL
  ch = ch
  num = num
  open = open
  nl = nl
  c1 = c1
  Conns = {c1}
  NoConn = NoConn
  Text = {ch}
  Newline = nl
  Seeks <- NoSeeks
  OpenSeeks = {}
  Completed <- NeverDone
  BufSize = 3
  Junk = {ch, nl}
  Packets <- PartPackets
  MaxSent <- Unequal
SPECIFICATION Spec
INVARIANT AppendsReceivedData
CHECK_DEADLOCK FALSE
