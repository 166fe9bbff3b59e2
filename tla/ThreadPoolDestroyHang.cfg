SPECIFICATION FairSpec
CONSTANTS
  Worker = {w1}
  User = {u1}
  None = None
  Programs = {{"Destroy"}}
  MaxItems = 1
  MaxRequeues = 0
PROPERTIES DestructorReturns
CHECK_DEADLOCK FALSE
