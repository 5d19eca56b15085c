SPECIFICATION Spec
CONSTANTS
  Workflows = {"w1", "w2"}
  Queues = {"jobs", "mail"}
  Keys = {""}
  LongKeys = {}
  Items = {"x"}
  BigItems = {}
  Invalid = Invalid
  Schema <- MCSchema
  Callers = {c1}
  Addresses <- MCAddresses
  MaxDepth = 2
  MaxSeq = 2
  Contains <- MCContains
  Size <- MCSize
  Uploads = {u1, u2}
  NoBundle = NoBundle
  MaxUploads = 2
  MaxCrashes = 1
INVARIANT StoredIsWhole
CHECK_DEADLOCK FALSE
