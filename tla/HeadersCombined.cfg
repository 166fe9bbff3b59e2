SPECIFICATION Spec
CONSTANTS
  Conn = {k1, k2}
  MaxFaults = 1
  Requests <- SomeRequests
  Brief <- OneRequest
  MaxRequests = 2
  kMaxUrlLength = 2
  kMaxHeaderCount = 1
  kMaxTotalHeaderSize = 5
  kMaxBodySize = 1
  MaxFd = 3
  MaxBytes = 2
  Buffer = {b1, b2}
  Depth = 1
  Waiter = {w1, w2}
  Nobody = Nobody
INVARIANTS HeadersCombined
CHECK_DEADLOCK FALSE
