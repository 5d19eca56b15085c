SPECIFICATION Spec
CONSTANTS
  k1 = k1
  k2 = k2
  k3 = k3
  Keys = {k1, k2}
  NoKey = NoKey
  MaxInvs = 3
  MaxCount = 1
  MaxBuilds = 3
  WorkerDies = FALSE
INVARIANT DispatchedCompletes
CHECK_DEADLOCK FALSE
