SPECIFICATION Spec
CONSTANTS
  a = a
  b = b
  x = x
  y = y
  o1 = o1
  o2 = o2
  w1 = w1
  w2 = w2
  Store = {a, x, y}
  Malformed = {x, y}
  Orchestrator = {o1, o2}
  Worker = {w1, w2}
  BatchSize = 2
  MaxQueue = 1
  MaxExpiries = 1
  MaxFaults = 1
INVARIANTS
  OneJobUnlessOverlapped
  JobsAreNeeded
PROPERTY StoresAreCrawled
\* every store may be fresh
CHECK_DEADLOCK FALSE
