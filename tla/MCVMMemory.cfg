SPECIFICATION Spec
CONSTANTS
  WordBits = 3
  IntBits = 2
  SizeWord = 64
  Rows <- MCRows
  Sizes = {1, 2, 3}
  Chunks = 2
  MaxLive = 10
  MaxMisreports = 2
  ChunkIds <- MCChunkIds
  SizeSoft = 8
  CountSoft = 2
  SizeHard = 13
  CountHard = 3
INVARIANTS
  TypeOK
  ListsExact
  BlocksInUse
  EmptyCountsExact
