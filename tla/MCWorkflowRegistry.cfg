SPECIFICATION FairSpec
CONSTANTS
  Workflows = {"w1", "w2"}
  Queues = {"jobs", "mail"}
  Keys = {""}
  LongKeys = {}
  Items = {"x"}
  BigItems = {}
  Invalid = Invalid
  Schema <- MCSchema
  Callers = {c1}
  Addresses <- MCAddresses
  MaxDepth = 1
  MaxSeq = 1
  Contains <- MCContains
  Size <- MCSize
  Uploads = {u1, u2}
  NoBundle = NoBundle
  MaxUploads = 2
  MaxCrashes = 2
INVARIANT TypeOK
INVARIANT AckedIsDurable
INVARIANT BootLeavesNoOrphan
PROPERTY DeclaredRowsStay
PROPERTY EveryUploadEnds
PROPERTY EveryBootEnds
CHECK_DEADLOCK FALSE
