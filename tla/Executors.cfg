SPECIFICATION FairSpec
CONSTANTS
  User = {u}
  Loop = loop
  Handles = {h1, h2}
  Callbacks = {cb}
  Delayed = {d}
  Io = {io}
  None = None
  MaxGiven = 3
  BatchSize = 1
  QueueDepth = 1
  Wakeup = Wakeup
INVARIANTS NoLostWakeup TimeoutsTracked
PROPERTIES RefinesFifoExecutor ItemsServed StopEndsRun
CHECK_DEADLOCK FALSE
