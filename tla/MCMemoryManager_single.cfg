SPECIFICATION Spec
CONSTANTS
  t1 = t1
  t2 = t2
  t3 = t3
  Threads = {t1}
  NoThread = NoThread
  AllocContextCount = 2
  FreeStoreCount = 1
  BucketCount = 2
  BucketAddressRange = 2
  PoolAddresses = {1, 25, 50}
  RangeCount = 2
  MaxSize <- TwoRows_MaxSize
  ElPerChunk <- TwoRows_ElPerChunk
  BuforSize <- TwoRows_BuforSize
  Sizes = {2, 19, 20, 22}
  ContextIDs = {1}
  ThreadHash <- SameHash
  SoftSize = 20
  SoftCount = 1
  HardSize = 40
  HardCount = 2
  ContextPeriod = 2
  ForcePeriod = 4
  Word = 128
INVARIANTS
  ForcedCleanFreesAll
  NoChunkIsStranded
  TableBuffersFit
