SPECIFICATION FairSpec
CONSTANTS
  t1 = t1
  t2 = t2
  t3 = t3
  Threads = {t1, t2}
  NoThread = NoThread
  AllocContextCount = 2
  FreeStoreCount = 1
  BucketCount = 2
  BucketAddressRange = 2
  PoolAddresses = {1, 6}
  RangeCount = 2
  MaxSize <- TwoRows_MaxSize
  ElPerChunk <- TwoRows_ElPerChunk
  BuforSize <- TwoRows_BuforSize
  Sizes = {2}
  ContextIDs = {}
  ThreadHash <- SameHash
  SoftSize = 5
  SoftCount = 1
  HardSize = 10
  HardCount = 2
  ContextPeriod = 2
  ForcePeriod = 2
  Word = 32
PROPERTIES
  CallsReturn
