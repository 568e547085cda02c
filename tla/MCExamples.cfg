CONSTANTS
  Threads = {t1, t2}
  NoThread = NoThread
  Waits <- SomeWaits
  NoValue = NoValue
SPECIFICATION Spec
INVARIANTS ThreadTypeOK WaitsInFull TrueMeansRan CleanReturn
PROPERTY ThreadsFinish
CHECK_DEADLOCK FALSE
