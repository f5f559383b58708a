-------------------------- MODULE SinglePoolProofs --------------------------
(***************************************************************************)
(* The theorems about a pool and the blocks its caller holds: what         *)
(* SinglePool's run checks, for every number of copies of a type's trees   *)
(* and every set of sizes asked for.                                       *)
(***************************************************************************)
EXTENDS SinglePool, MemoryPoolProofs

-----------------------------------------------------------------------------
(* The inductive invariant: the pool is good and its blocks are the        *)
(* caller's, each of its rounded size.                                     *)

Held(block) == Block(block.ptr, roundSizeTable[block.size])
LiveType == [ptr : Nat, size : 1 .. 32]
HeldApart == \A b, c \in live : b.ptr = c.ptr => b = c
PoolInv ==
  /\ PoolOK(pool)
  /\ live \subseteq LiveType
  /\ IsFiniteSet(live)
  /\ pool.allocatedcount \in Int /\ Cardinality(live) \in Nat
  /\ pool.allocatedcount - Cardinality(live) \in Garbage
  /\ BlocksIn(pool) = {Held(b) : b \in live}
  /\ HeldApart

(* Every pool of the right type is empty, and so are its caller's hands.   *)
LEMMA PoolInit ==
  ASSUME Init
  PROVE  PoolInv
<1>1. PICK garbage \in Garbage : pool = NewPool(garbage)
  BY DEF Init
<1>2. garbage \in Int
  BY GarbageAssumption
<1>3. PoolOK(pool) /\ BlocksIn(pool) = {} /\ pool.allocatedcount = garbage
  BY <1>1, <1>2, NewPoolIsGood
<1>4. live = {} /\ IsFiniteSet(live) /\ Cardinality(live) = 0
  BY FS_EmptySet DEF Init
<1>5. pool.allocatedcount - Cardinality(live) = garbage
  BY <1>2, <1>3, <1>4
<1> QED BY <1>2, <1>3, <1>4, <1>5 DEF PoolInv, HeldApart

LEMMA ResetStep ==
  ASSUME PoolInv, NEW type \in Types, Reset(type)
  PROVE  PoolInv'
<1>1. BlocksIn(pool) = {} /\ live' = live /\ pool' = poolReset(pool, type) /\ live = {}
  BY DEF PoolInv, Reset
<1>2. PoolOK(pool') /\ BlocksIn(pool') = {} /\ pool'.allocatedcount = pool.allocatedcount
  BY <1>1, ResetPool DEF PoolInv
<1> QED BY <1>1, <1>2 DEF PoolInv, HeldApart

LEMMA AllocStep ==
  ASSUME PoolInv, NEW size \in 1 .. 32, Alloc(size)
  PROVE  PoolInv'
<1> DEFINE result == poolAlloc(pool, size)
           k == roundSizeTable[size]
           new == [ptr |-> result.index, size |-> size]
<1>1. /\ PoolOK(result.pool)
      /\ IF result.index = NoIndex
         THEN /\ result.pool.allocatedcount = pool.allocatedcount
              /\ BlocksIn(result.pool) = BlocksIn(pool)
         ELSE /\ result.index \in Nat /\ Block(result.index, k) \notin BlocksIn(pool)
              /\ BlocksIn(result.pool) = BlocksIn(pool) \cup {Block(result.index, k)}
              /\ result.pool.allocatedcount = pool.allocatedcount + 1
  BY AllocPool DEF PoolInv
<1>2. pool' = result.pool /\ live' = IF result.index = NoIndex THEN live ELSE live \cup {new}
  BY DEF Alloc, Return
<1> HIDE DEF result
<1>3. CASE result.index = NoIndex
  BY <1>1, <1>2, <1>3 DEF PoolInv, HeldApart
<1>4. CASE result.index # NoIndex
  <2>1. /\ PoolOK(pool') /\ result.index \in Nat /\ Block(result.index, k) \notin BlocksIn(pool)
        /\ BlocksIn(pool') = BlocksIn(pool) \cup {Block(result.index, k)}
        /\ pool'.allocatedcount = pool.allocatedcount + 1
        /\ live' = live \cup {new}
    BY <1>1, <1>2, <1>4
  <2>2. new.ptr = result.index /\ new.size = size /\ new \in LiveType
    BY <2>1 DEF LiveType
  <2>3. Held(new) = Block(result.index, k)
    BY <2>2 DEF Held
  <2> HIDE DEF new, k
  <2>4. \A b \in live : b.ptr # new.ptr
    <3>1. SUFFICES ASSUME NEW b \in live, b.ptr = new.ptr PROVE FALSE
      OBVIOUS
    <3>2. Held(b) \in BlocksIn(pool)
      BY DEF PoolInv
    <3>3. Held(b) \in BlocksIn(pool') /\ Held(new) \in BlocksIn(pool')
      BY <2>1, <2>3, <3>2
    <3>4. Held(b).ptr = Held(new).ptr
      BY <3>1 DEF Held, Block
    <3>5. Held(b) = Held(new)
      BY <2>1, <3>3, <3>4, OneBlockAt
    <3> QED BY <2>1, <2>3, <3>2, <3>5
  <2>5. new \notin live
    BY <2>4
  <2>6. IsFiniteSet(live') /\ Cardinality(live') = Cardinality(live) + 1
    BY <2>1, <2>5, FS_AddElement DEF PoolInv
  <2>7. BlocksIn(pool') = {Held(b) : b \in live'}
    BY <2>1, <2>3 DEF PoolInv
  <2>8. HeldApart'
    BY <2>1, <2>4 DEF PoolInv, HeldApart
  <2>9. live' \subseteq LiveType
    BY <2>1, <2>2 DEF PoolInv
  <2>10. /\ pool'.allocatedcount \in Int /\ Cardinality(live') \in Nat
         /\ pool'.allocatedcount - Cardinality(live') = pool.allocatedcount - Cardinality(live)
    BY <2>1, <2>6 DEF PoolInv
  <2> QED BY <2>1, <2>6, <2>7, <2>8, <2>9, <2>10 DEF PoolInv
<1> QED BY <1>3, <1>4

LEMMA DeallocStep ==
  ASSUME PoolInv, NEW block \in live, Dealloc(block)
  PROVE  PoolInv'
<1> DEFINE result == poolDealloc(pool, block.ptr)
<1>1. Held(block) \in BlocksIn(pool) /\ Held(block).ptr = block.ptr
  BY DEF PoolInv, Held, Block
<1>2. /\ PoolOK(result.pool) /\ result.pool.allocatedcount = pool.allocatedcount - 1
      /\ BlocksIn(result.pool) = BlocksIn(pool) \ {Held(block)}
  <2>1. PoolOK(pool)
    BY DEF PoolInv
  <2> QED BY <1>1, <2>1, FreePool
<1>3. pool' = result.pool /\ live' = live \ {block}
  BY DEF Dealloc
<1> HIDE DEF result
<1>4. IsFiniteSet(live') /\ Cardinality(live') = Cardinality(live) - 1
  BY <1>3, FS_RemoveElement DEF PoolInv
<1>5. \A b \in live : b # block => Held(b) # Held(block)
  BY DEF PoolInv, HeldApart, Held, Block
<1>6. BlocksIn(pool') = {Held(b) : b \in live'}
  BY <1>2, <1>3, <1>5 DEF PoolInv
<1>7. HeldApart' /\ live' \subseteq LiveType
  BY <1>3 DEF PoolInv, HeldApart
<1>8. /\ pool'.allocatedcount \in Int /\ Cardinality(live') \in Nat
      /\ pool'.allocatedcount - Cardinality(live') = pool.allocatedcount - Cardinality(live)
  <2>1. Cardinality(live') \in Nat
    BY <1>4, FS_CardinalityType
  <2> QED BY <1>2, <1>3, <1>4, <2>1 DEF PoolInv
<1> QED BY <1>2, <1>3, <1>4, <1>6, <1>7, <1>8 DEF PoolInv

(* The pool stays good, and its blocks the caller's.                       *)
THEOREM PoolCorrect == Spec => []PoolInv
<1>1. Init => PoolInv
  BY PoolInit
<1>2. PoolInv /\ [Next]_vars => PoolInv'
  <2> SUFFICES ASSUME PoolInv, [Next]_vars PROVE PoolInv'
    OBVIOUS
  <2>1. ASSUME NEW type \in DOMAIN SizesOf, Reset(type) PROVE PoolInv'
    <3>1. type \in Types
      BY SizesAssumption
    <3> QED BY <2>1, <3>1, ResetStep
  <2>2. ASSUME pool.memory, NEW size \in SizesOf[pool.blockType], Alloc(size) PROVE PoolInv'
    <3>1. pool.blockType \in Types
      BY <2>2, PoolFields DEF PoolInv, PoolOK
    <3>2. size \in 1 .. 32
      BY <3>1, SizesAssumption
    <3> QED BY <2>2, <3>2, AllocStep
  <2>3. ASSUME NEW block \in live, Dealloc(block) PROVE PoolInv'
    BY <2>3, DeallocStep
  <2>4. CASE UNCHANGED vars
    BY <2>4 DEF vars, PoolInv, HeldApart
  <2> QED BY <2>1, <2>2, <2>3, <2>4 DEF Next
<1> QED BY <1>1, <1>2, PTL DEF Spec

-----------------------------------------------------------------------------
(* What the invariant says of a pool, property by property.                *)

LEMMA PoolFacts ==
  ASSUME PoolInv
  PROVE  /\ pool.chunkTypes \in Memory /\ pool.blockType \in Types \cup {0}
         /\ pool.memory \in BOOLEAN /\ (pool.memory <=> pool.blockType # 0)
         /\ PoolGood(pool.chunkTypes, pool.blockType)
         /\ pool.freeSizes = getFreeSizeTypes(pool.chunkTypes, pool.blockType)
         /\ PoolBlocks(pool.chunkTypes, pool.blockType) = {Held(b) : b \in live}
         /\ live \subseteq LiveType /\ pool.allocatedcount - Cardinality(live) \in Garbage
BY PoolFields DEF PoolInv, PoolOK, BlocksIn

(* The pool has its type, and its count goes with its blocks.              *)
THEOREM PoolTypeCorrect == Spec => []TypeOK
<1>1. PoolInv => TypeOK
  <2> SUFFICES ASSUME PoolInv PROVE TypeOK
    OBVIOUS
  <2> DEFINE m == pool.chunkTypes
             type == pool.blockType
  <2>1. m \in Memory /\ type \in Types \cup {0} /\ PoolGood(m, type)
        /\ pool.freeSizes = getFreeSizeTypes(m, type) /\ pool.allocatedcount - Cardinality(live) \in Garbage
    BY PoolFacts
  <2>3. m \in [0 .. SIZEOF - 1 -> [Option : 0 .. 3, fullChilds : 0 .. 63]]
    BY <2>1, MemoryType
  <2>4. pool.freeSizes.first \cup pool.freeSizes.second \subseteq getMaxSplit(type)
    BY <2>1, PoolSizes DEF All
  <2> QED BY <2>1, <2>3, <2>4 DEF TypeOK
<1> QED BY <1>1, PoolCorrect, PTL

(* The places that are reserved are those of the pool's blocks.            *)
LEMMA ReservedPlacesOfPool ==
  ASSUME NEW p, p.blockType \in Types
  PROVE  {[ptr |-> place.unit, size |-> place.kind] : place \in Reserved(p)} = BlocksIn(p)
<1> DEFINE m == p.chunkTypes
           type == p.blockType
           Is(b, place) == b = [ptr |-> place.unit, size |-> place.kind]
<1>1. type # 0 /\ type \in Types \cup {0}
  BY DEF Types
<1>2. ASSUME NEW t \in Trees(type), NEW q \in PlacesIn[t.kind]
      PROVE  /\ Shifted(q, t.at, t.unit) \in Reserved(p) <=> q \in ReservedPlaces(m, t.at, t.kind)
             /\ Shifted(q, t.at, t.unit).unit = t.unit + q.unit
             /\ Shifted(q, t.at, t.unit).kind = q.kind
  <2> DEFINE s == Shifted(q, t.at, t.unit)
  <2>1. t.at \in Nat /\ t.unit \in Nat
    BY <1>1, TreeFacts
  <2>2. /\ s.at = t.at + q.at /\ s.kind = q.kind /\ s.unit = t.unit + q.unit
        /\ There(m, s) <=> Active(m, t.at, q)
    BY <2>1, ShiftedPlace
  <2>3. s \in PlacesOf[type]
    BY PlacesOfPool
  <2>4. s \in Reserved(p) <=> Option(m, s.at) = SOE_Reserved /\ There(m, s)
    <3> HIDE DEF s
    <3> QED BY <1>1, <2>3 DEF Reserved, There
  <2> HIDE DEF s
  <2>5. s \in Reserved(p) <=> q \in ReservedPlaces(m, t.at, t.kind)
    BY <2>2, <2>4 DEF ReservedPlaces, isReserved
  <2> QED BY <2>2, <2>5 DEF s
<1>3. ASSUME NEW place \in Reserved(p) PROVE [ptr |-> place.unit, size |-> place.kind] \in BlocksIn(p)
  <2>1. place \in PlacesOf[type]
    BY <1>1 DEF Reserved
  <2>2. PICK t \in Trees(type) : \E q \in PlacesIn[t.kind] : place = Shifted(q, t.at, t.unit)
    BY <2>1, PlacesOfPool
  <2>3. PICK q \in PlacesIn[t.kind] : place = Shifted(q, t.at, t.unit)
    BY <2>2
  <2>4. q \in ReservedPlaces(m, t.at, t.kind) /\ place.unit = t.unit + q.unit /\ place.kind = q.kind
    BY <1>2, <2>3
  <2>5. Block(q.unit, q.kind) \in Blocks(m, t.at, t.kind)
    BY <2>4 DEF Blocks
  <2>6. Block(t.unit + q.unit, q.kind) \in TreeBlocks(m, t)
    <3>1. Block(q.unit, q.kind).ptr = q.unit /\ Block(q.unit, q.kind).size = q.kind
      BY DEF Block
    <3> QED BY <2>5, <3>1 DEF TreeBlocks
  <2> QED BY <2>4, <2>6 DEF BlocksIn, PoolBlocks, Block
<1>4. ASSUME NEW b \in BlocksIn(p) PROVE \E place \in Reserved(p) : Is(b, place)
  <2>1. PICK t \in Trees(type) : b \in TreeBlocks(m, t)
    BY DEF BlocksIn, PoolBlocks
  <2>2. PICK c \in Blocks(m, t.at, t.kind) : b = Block(t.unit + c.ptr, c.size)
    BY <2>1 DEF TreeBlocks
  <2>3. PICK q \in ReservedPlaces(m, t.at, t.kind) : c = Block(q.unit, q.kind)
    BY <2>2 DEF Blocks
  <2>4. b = Block(t.unit + q.unit, q.kind)
    BY <2>2, <2>3 DEF Block
  <2>5. q \in PlacesIn[t.kind]
    BY DEF ReservedPlaces
  <2>6. /\ Shifted(q, t.at, t.unit) \in Reserved(p)
        /\ Shifted(q, t.at, t.unit).unit = t.unit + q.unit
        /\ Shifted(q, t.at, t.unit).kind = q.kind
    BY <1>2, <2>5
  <2> QED BY <2>4, <2>6 DEF Block
<1> QED BY <1>3, <1>4

(* The reserved nodes are the blocks the caller holds, and dealloc of one  *)
(* says its size.                                                          *)
THEOREM ReservedCorrect == Spec => []ReservedAreLive
<1>1. PoolInv => ReservedAreLive
  <2> SUFFICES ASSUME PoolInv PROVE ReservedAreLive
    OBVIOUS
  <2>1. PoolOK(pool) /\ BlocksIn(pool) = {Held(b) : b \in live}
    BY DEF PoolInv
  <2>2. {[ptr |-> place.unit, size |-> place.kind] : place \in Reserved(pool)} = BlocksIn(pool)
    <3>1. CASE pool.blockType \in Types
      BY <3>1, ReservedPlacesOfPool
    <3>2. CASE pool.blockType = 0
      <4>1. Reserved(pool) = {}
        BY <3>2 DEF Reserved
      <4>2. BlocksIn(pool) = {}
        BY <3>2 DEF BlocksIn, PoolBlocks, Trees
      <4> QED BY <4>1, <4>2
    <3> QED BY <3>1, <3>2, PoolFacts
  <2>3. BlocksIn(pool) = {[ptr |-> block.ptr, size |-> roundSizeTable[block.size]] : block \in live}
    BY <2>1 DEF Held, Block
  <2>4. ASSUME NEW block \in live PROVE poolDealloc(pool, block.ptr).size = roundSizeTable[block.size]
    <3>1. Held(block) \in BlocksIn(pool) /\ Held(block).ptr = block.ptr
          /\ Held(block).size = roundSizeTable[block.size]
      BY <2>1 DEF Held, Block
    <3> QED BY <2>1, <3>1, FreePool
  <2> QED BY <2>2, <2>3, <2>4 DEF ReservedAreLive
<1> QED BY <1>1, PoolCorrect, PTL

(* The blocks handed out lie in the pool and never overlap.                *)
THEOREM LiveCorrect == Spec => []LiveApart
<1>1. PoolInv => LiveApart
  <2> SUFFICES ASSUME PoolInv PROVE LiveApart
    OBVIOUS
  <2> DEFINE type == pool.blockType
             Buffer(b) == [at |-> b.ptr, len |-> b.size]
  <2>1. /\ type \in Types \cup {0} /\ (pool.memory <=> type # 0) /\ live \subseteq LiveType
        /\ PoolBlocks(pool.chunkTypes, type) = {Held(b) : b \in live}
    BY PoolFacts
  <2>2. ASSUME NEW b \in live
        PROVE  /\ b.ptr \in Nat /\ b.size \in Nat /\ Held(b).ptr = b.ptr /\ Held(b).size \in Nat
               /\ b.size <= Held(b).size /\ Held(b) \in PoolBlocks(pool.chunkTypes, type)
               /\ type \in Types /\ Units(type) \in Nat /\ b.ptr + Held(b).size <= Units(type)
    <3>1. b.ptr \in Nat /\ b.size \in 1 .. 32
      BY <2>1 DEF LiveType
    <3>2. Held(b).ptr = b.ptr /\ Held(b).size = roundSizeTable[b.size]
      BY DEF Held, Block
    <3>3. Held(b) \in PoolBlocks(pool.chunkTypes, type)
      BY <2>1
    <3>4. type \in Types /\ Units(type) \in Nat /\ Held(b).ptr + Held(b).size <= Units(type)
      BY <2>1, <3>3, PoolBlocksApart
    <3>5. b.size <= roundSizeTable[b.size] /\ roundSizeTable[b.size] \in Nat
      BY <3>1, Rounded
    <3> QED BY <3>1, <3>2, <3>3, <3>4, <3>5
  <2>3. ASSUME NEW a \in live, NEW b \in live, a.ptr # b.ptr
        PROVE  Heap!Apart(Buffer(a), Buffer(b))
    <3>1. Held(a) = Held(b) \/ Before(Held(a), Held(b)) \/ Before(Held(b), Held(a))
      BY <2>1, <2>2, PoolBlocksApart
    <3>2. a.ptr + a.size <= b.ptr \/ b.ptr + b.size <= a.ptr
      BY <2>2, <2>3, <3>1 DEF Before
    <3> QED BY <3>2 DEF Heap!Apart
  <2>4. ASSUME NEW a \in live, NEW b \in live, Buffer(a) # Buffer(b)
        PROVE  Heap!Apart(Buffer(a), Buffer(b))
    <3>1. a # b
      BY <2>4
    <3>2. a.ptr # b.ptr
      BY <3>1 DEF PoolInv, HeldApart
    <3> QED BY <2>3, <3>2
  <2>5. ASSUME NEW a \in live
        PROVE  \E block \in (IF pool.memory THEN {[at |-> 0, len |-> Units(pool.blockType)]} ELSE {}) :
                 Heap!Inside(Buffer(a), block)
    <3>1. type # 0
      BY <2>2 DEF Types
    <3>2. Heap!Inside(Buffer(a), [at |-> 0, len |-> Units(pool.blockType)])
      BY <2>2 DEF Heap!Inside
    <3> QED BY <2>1, <3>1, <3>2
  <2> HIDE DEF type
  <2> QED BY <2>4, <2>5 DEF LiveApart, Heap!BuffersApart
<1> QED BY <1>1, PoolCorrect, PTL

(* The code's own test passes, and a pool without blocks is blank.         *)
THEOREM TreesCorrect == Spec => []TreeCorrect
<1>1. PoolInv => TreeCorrect
  <2> SUFFICES ASSUME PoolInv PROVE TreeCorrect
    OBVIOUS
  <2> DEFINE m == pool.chunkTypes
             type == pool.blockType
  <2>1. m \in Memory /\ type \in Types \cup {0} /\ PoolGood(m, type)
        /\ PoolBlocks(m, type) = {Held(b) : b \in live}
    BY PoolFacts
  <2>2. ASSUME NEW t \in Trees(type) PROVE nodeCorrect(m, t.at, t.kind)
    <3>1. t.kind \in Kinds /\ Within(t.at, t.kind) /\ Good(m, t.at, t.kind)
      BY <2>1, TreeFacts DEF PoolGood
    <3> HIDE DEF m
    <3> QED BY <2>1, <3>1, GoodIsCorrect
  <2>3. live = {} => m = BlankMemory
    <3>1. live = {} => PoolBlocks(m, type) = {}
      BY <2>1
    <3> HIDE DEF m, type
    <3> QED BY <2>1, <3>1, NoBlocksIsBlank
  <2> QED BY <2>2, <2>3 DEF TreeCorrect, correctnessTest
<1> QED BY <1>1, PoolCorrect, PTL

(* A place of the pool that is free for the size.                          *)
LEMMA FitsInPool ==
  ASSUME NEW p, p.blockType \in Types, NEW size
  PROVE  Fits(p, size) <=> \E t \in Trees(p.blockType) : FitsIn(p.chunkTypes, t.at, t.kind, size)
<1> DEFINE m == p.chunkTypes
           type == p.blockType
           Free(place) == place.kind = size /\ isEmpty(m, place.at) /\ Open(m, place)
<1>1. type \in Types \cup {0}
  OBVIOUS
<1>2. ASSUME NEW t \in Trees(type), NEW q \in PlacesIn[t.kind]
      PROVE  Free(Shifted(q, t.at, t.unit)) <=> q.kind = size /\ FreeFor(m, t.at, q)
  <2>1. t.at \in Nat /\ t.unit \in Nat
    BY <1>1, TreeFacts
  <2>2. /\ Shifted(q, t.at, t.unit).at = t.at + q.at /\ Shifted(q, t.at, t.unit).kind = q.kind
        /\ isEmpty(m, t.at + q.at) /\ Open(m, Shifted(q, t.at, t.unit)) <=> FreeFor(m, t.at, q)
    BY <2>1, ShiftedPlace
  <2> QED BY <2>2
<1>3. Fits(p, size) <=> \E place \in PlacesOf[type] : Free(place)
  BY DEF Fits, Open, isEmpty
<1> HIDE DEF Free
<1>4. (\E place \in PlacesOf[type] : Free(place)) <=>
        \E t \in Trees(type) : \E q \in PlacesIn[t.kind] : Free(Shifted(q, t.at, t.unit))
  <2>1. \A place : place \in PlacesOf[type] <=>
                 \E t \in Trees(type) : \E q \in PlacesIn[t.kind] : place = Shifted(q, t.at, t.unit)
    BY PlacesOfPool
  <2> HIDE DEF type
  <2>2. ASSUME NEW place \in PlacesOf[type], Free(place)
        PROVE  \E t \in Trees(type) : \E q \in PlacesIn[t.kind] : Free(Shifted(q, t.at, t.unit))
    <3>1. PICK t \in Trees(type) : \E q \in PlacesIn[t.kind] : place = Shifted(q, t.at, t.unit)
      BY <2>1
    <3>2. PICK q \in PlacesIn[t.kind] : place = Shifted(q, t.at, t.unit)
      BY <3>1
    <3> QED BY <2>2, <3>2
  <2>3. ASSUME NEW t \in Trees(type), NEW q \in PlacesIn[t.kind], Free(Shifted(q, t.at, t.unit))
        PROVE  \E place \in PlacesOf[type] : Free(place)
    <3>1. Shifted(q, t.at, t.unit) \in PlacesOf[type]
      BY <2>1
    <3> QED BY <2>3, <3>1
  <2> QED BY <2>2, <2>3
<1>5. (\E t \in Trees(type) : \E q \in PlacesIn[t.kind] : Free(Shifted(q, t.at, t.unit))) <=>
        \E t \in Trees(type) : \E q \in PlacesIn[t.kind] : q.kind = size /\ FreeFor(m, t.at, q)
  BY <1>2
<1> QED BY <1>3, <1>4, <1>5 DEF FitsIn

(* The free sizes a pool advertises are those alloc can serve, and those   *)
(* are the sizes some place is free for.                                   *)
THEOREM AdvertisedCorrect == Spec => []ServesWhatItAdvertises
<1>1. PoolInv => ServesWhatItAdvertises
  <2> DEFINE m == pool.chunkTypes
             type == pool.blockType
  <2> SUFFICES ASSUME PoolInv, type # 0, NEW size \in getMaxSplit(type)
               PROVE  LET advertised == size \in pool.freeSizes.first \cup pool.freeSizes.second
                      IN  /\ advertised <=> allocIndex(m, type, size).index # NoIndex
                          /\ advertised <=> Fits(pool, size)
    BY DEF ServesWhatItAdvertises
  <2>1. /\ m \in Memory /\ type \in Types \cup {0} /\ type \in Types /\ PoolGood(m, type)
        /\ pool.freeSizes = getFreeSizeTypes(m, type)
    BY PoolFacts
  <2>2. size \in Kinds /\ size <= 32
    BY <2>1, MaxSplitKinds
  <2>3. size \in 1 .. 32 /\ size \in Nat /\ roundSizeTable[size] = size
    BY <2>2, KindsAreRound
  <2>4. allocIndex(m, type, size).index # NoIndex <=> \E t \in Trees(type) : Serves(m, t.at, t.kind, size)
    BY <2>1, <2>3, PoolServes
  <2>5. \A t \in Trees(type) : Serves(m, t.at, t.kind, size) <=> FitsIn(m, t.at, t.kind, size)
    <3>1. \A t \in Trees(type) : t.kind \in Kinds /\ Within(t.at, t.kind) /\ Good(m, t.at, t.kind)
      BY <2>1, TreeFacts DEF PoolGood
    <3> HIDE DEF m, type
    <3> QED BY <2>1, <2>3, <3>1, ServesWhatFits
  <2>6. Fits(pool, size) <=> \E t \in Trees(type) : FitsIn(m, t.at, t.kind, size)
    BY <2>1, FitsInPool
  <2>7. size \in pool.freeSizes.first \cup pool.freeSizes.second <=>
          \E t \in Trees(type) : FitsIn(m, t.at, t.kind, size)
    <3>1. pool.freeSizes.first \cup pool.freeSizes.second = PoolFitting(m, type)
      BY <2>1, PoolSizes DEF All
    <3> HIDE DEF m, type
    <3> QED BY <2>2, <3>1 DEF PoolFitting
  <2> HIDE DEF m, type
  <2> QED BY <2>4, <2>5, <2>6, <2>7
<1> QED BY <1>1, PoolCorrect, PTL
=============================================================================
