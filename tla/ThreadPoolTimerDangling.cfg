SPECIFICATION TimerSpec
CONSTANTS
  Handle = {h1, h2}
  Caller = {u1}
  NoHandle = NoHandle
  Garbage = Garbage
  Delay = {1, 2}
  MaxTime = 3
  Capacities = {0}
INVARIANTS DelayedOnceNotEarly
CHECK_DEADLOCK FALSE
