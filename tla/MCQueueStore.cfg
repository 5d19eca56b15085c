SPECIFICATION QueueSpec
CONSTANTS
  Workflows = {"w"}
  Queues = {"jobs", "mail"}
  Keys = {"", "a", "long"}
  LongKeys = {"long"}
  Items = {"x", "legacy", "big"}
  BigItems = {"big"}
  Invalid = Invalid
  Schema <- MCSchema
  Callers = {c1, c2}
  Addresses <- MCAddresses
  MaxDepth = 1
  MaxSeq = 3
INVARIANT QueueTypeOK
INVARIANT DepthBounded
PROPERTY ImplementsFifo
SYMMETRY CallerSymmetry
CHECK_DEADLOCK FALSE
