SPECIFICATION FairSpec
CONSTANTS
  a = a
  b = b
  Ids = {a, b}
  NoId = NoId
  MaxEvents = 1
  MaxRetries = 1
  Retention = 1
  MaxDay = 0
  MaxRestarts = 1
  LateLeaf = FALSE
CHECK_DEADLOCK FALSE
PROPERTY CommitsSettle
PROPERTY DrainEnds
