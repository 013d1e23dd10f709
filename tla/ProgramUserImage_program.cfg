SPECIFICATION RetrySpec
CONSTANTS
  c1 = c1
  c2 = c2
  i1 = i1
  i2 = i2
  Clients = {c1}
  Images = {i1, i2}
  NoImage = NoImage
  Bytes <- AlignedBytes
  FifoDepth = 2
  PollTries = 2
  DebugLog = TRUE
INVARIANTS
  TypeOK
  ServedImageIntact
  OkMeansLive
  IdleMeansDrained
  CtrlNestsDma
PROPERTIES
  ChangesIsolated
  KeepsPromise
  CallsReturn
  RetriesSucceed
