SPECIFICATION Spec
CONSTANTS
  Pools = 3
  Copies <- MCCopies
  PoolIds <- MCPoolIds
  Sizes = {10, 27, 32}
  Garbage = {0, 1}
  ShouldBe = 1
  Tolerance = 0
INVARIANTS
  TypeOK
  PoolsAccounted
  ArraysMatchPools
  AllocServes
  BlocksApart
