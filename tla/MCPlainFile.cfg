CONSTANTS
  Conns = {c1, c2}
  Others = {main}
  NoThread = NoThread
  Stamp = Stamp
  Zero = Zero
  Packets <- SomePackets
SPECIFICATION Spec
INVARIANT TypeOK
PROPERTIES OwnLineInReply 
CHECK_DEADLOCK FALSE
