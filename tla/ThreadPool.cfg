SPECIFICATION PoolFairSpec
CONSTANTS
  Worker = {w1, w2}
  User = {u1, u2}
  None = None
  Programs = {{"RunOnce"}, {"Run", "Stop", "Destroy"}}
  MaxItems = 2
  MaxRequeues = 2
  Handle = {h1, h2}
  Caller = {u1}
  NoHandle = NoHandle
  Garbage = Garbage
  Delay = {1, 2}
  MaxTime = 3
  Capacities = {0, 1, 2}
INVARIANTS ItemsInOnePlace DelayedOnceUnlessMoved
PROPERTIES RunReturnsIdle ItemsServed DelayedServed
CHECK_DEADLOCK FALSE
