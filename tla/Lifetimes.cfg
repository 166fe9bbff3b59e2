SPECIFICATION FairSpec
CONSTANTS
  Thread = {main, t1, t2}
  Main = main
  Frame = {Wrapper, Detached, Bridge, Child, Leaf}
  Wrapper = Wrapper
  Detached = Detached
  Bridge = Bridge
  Child = Child
  Leaf = Leaf
  NoFrame = NoFrame
  FrameSize <- SomeSizes
  Block = {m1, m2, m3, m4, m5}
  NoBlock = NoBlock
  kMaxPooledPerBucket = 1
  MaxHops = 2
  Callback = {c1, c2}
  ErrorCallback = e1
  NoCallback = NoCallback
  Canceller = {x1, x2}
  Client = {l1, l2}
  Policies <- SomePolicies
  Outcomes <- SomeOutcomes
  MaxLong = 7
  Length = 3
INVARIANTS FramesSafe ToldOnce LoopsRight
PROPERTIES EverythingEnds
CHECK_DEADLOCK FALSE
