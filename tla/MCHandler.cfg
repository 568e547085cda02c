CONSTANTS
  AESDCHAR_MAX_WRITE_OPERATIONS_SUPPORTED = 3
  NULL = NULL
  ch = ch
  num = num
  open = open
  nl = nl
  c1 = c1
  Conns = {c1, c2}
  NoConn = NoConn
  Text = {ch, num}
  Newline = nl
  Seeks <- SomeSeeks
  OpenSeeks = {open}
  Completed <- WithNumber
  BufSize = 3
  Junk = {num}
  Packets <- MixedPackets
  MaxSent <- Unequal
SPECIFICATION FairSpec
INVARIANTS TypeOK CountsInsideBuffer WholeLinesHandled
PROPERTIES RepliesWithStream RefinesHandlerThreads HandlerEnds
CHECK_DEADLOCK FALSE
