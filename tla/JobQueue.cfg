SPECIFICATION Spec
CONSTANTS
  j1 = j1
  j2 = j2
  j3 = j3
  w1 = w1
  w2 = w2
  Job <- MCJob
  Malformed <- MCMalformed
  Consumer <- MCConsumer
  Concurrency = 2
  MaxCrashes = 2
INVARIANTS
  NothingLost
  RepeatedOnlyByCrashes
PROPERTIES
  EveryJobSettles
  ImplementsAtLeastOnce
\* all jobs may be settled and the crashes used up
CHECK_DEADLOCK FALSE
