SPECIFICATION FairSpec
CONSTANTS
  Coro = {c1, c2, c3, c4, c5, c6, c7}
  None = None
  Users = {c3, c4, c5, c6}
  Owner = c1
  Task = {c2, c3, c4}
  Caller = c2
  Parent = c3
  Timer = c4
  User = {c5, c6, c7}
INVARIANTS HandlesValid JoinsAllOnOneThread NoUseAfterFree ResultPublished
PROPERTIES AwaitReturns OneWinner CallerReturns
CHECK_DEADLOCK FALSE
