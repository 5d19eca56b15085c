SPECIFICATION Spec
CONSTANTS
  a = a
  b = b
  Ids = {a, b}
  NoId = NoId
  MaxEvents = 2
  MaxRetries = 1
  Retention = 1
  MaxDay = 2
  MaxRestarts = 1
  LateLeaf = TRUE
CHECK_DEADLOCK FALSE
INVARIANT OneTerminal
