SPECIFICATION FairSpec
CONSTANTS
  Coro = {c1, c2, c3, c4}
  None = None
  InitialCount = 2
  MaxPermits = 3
  LatchCount = 3
  MaxStep = 2
INVARIANTS MutualExclusion HandlesValid WaitersJustified ReadWriteExclusion BoundedOvertaking
PROPERTIES MutexRefinesFifo SemaphoreRefinesFifo WaitersServed
CHECK_DEADLOCK FALSE
