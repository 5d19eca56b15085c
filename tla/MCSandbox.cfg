SPECIFICATION FairSpec
CONSTANTS
  a = a
  b = b
  c = c
  NoInv = NoInv
  Invs = {a, b, c}
  Faults = {"crash", "limit", "lastEvent", "cpu", "restore", "dispose"}
INVARIANT TypeOK
INVARIANT OneTerminal
INVARIANT DeadRunIsClosed
INVARIANT AttributionHolds
INVARIANT RecordAgrees
PROPERTY SettledIsFrozen
PROPERTY TerminatedOnce
PROPERTY EveryInvocationSettles
CHECK_DEADLOCK FALSE
