SPECIFICATION FairSpec
CONSTANTS
  Coro = {c1, c2, c3}
  None = None
  capacity_ = 1
  MaxSends = 3
INVARIANTS WaitersRight Truthful
PROPERTIES RefinesFifoChannel CloseReleases
CHECK_DEADLOCK FALSE
