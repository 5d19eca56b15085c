SPECIFICATION FairSpec
CONSTANTS
  k1 = k1
  k2 = k2
  k3 = k3
  Keys <- MCKeys
  NoKey = NoKey
  MaxInvs = 4
  MaxCount = 2
  MaxBuilds = 3
  WorkerDies = TRUE
CONSTRAINT KeysInOrder
INVARIANT TypeOK
INVARIANT CacheIsLive
INVARIANT RunsAreNotCut
 
PROPERTY SweepIsLru
PROPERTY EveryInvocationSettles
PROPERTY DisposeCompletes
CHECK_DEADLOCK FALSE
