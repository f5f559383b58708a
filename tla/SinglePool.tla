----------------------------- MODULE SinglePool -----------------------------
(***************************************************************************)
(* A pool on its own, with the blocks its caller holds: what the pool      *)
(* allocator may ask of a MemoryPool.                                      *)
(***************************************************************************)
EXTENDS MemoryPool

CONSTANTS SizesOf,    \* SizesOf[type]: the sizes asked of a pool of the type
          Garbage     \* what the uninitialised allocatedcount may hold
ASSUME SizesAssumption == SizesOf \in [Types -> SUBSET (1 .. 32)]
ASSUME GarbageAssumption == Garbage \subseteq Int

VARIABLES pool, live  \* live: the caller's blocks, [ptr, size] with the size asked
vars == <<pool, live>>

Init == (\E garbage \in Garbage : pool = NewPool(garbage)) /\ live = {}

(* The allocator resets a pool when it is new or holds no block.           *)
Reset(type) ==
  /\ live = {}
  /\ pool' = poolReset(pool, type)
  /\ UNCHANGED live

Return(result, size) ==
  /\ pool' = result.pool
  /\ live' = IF result.index = NoIndex THEN live
             ELSE live \cup {[ptr |-> result.index, size |-> size]}
Alloc(size) ==
  /\ pool.memory
  /\ Return(poolAlloc(pool, size), size)

Dealloc(block) ==
  /\ pool' = poolDealloc(pool, block.ptr).pool
  /\ live' = live \ {block}

Next ==
  \/ \E type \in DOMAIN SizesOf : Reset(type)
  \/ pool.memory /\ \E size \in SizesOf[pool.blockType] : Alloc(size)
  \/ \E block \in live : Dealloc(block)

Spec == Init /\ [][Next]_vars

-----------------------------------------------------------------------------
Reserved(p) ==
  IF p.blockType = 0 THEN {}
  ELSE {place \in PlacesOf[p.blockType] :
          /\ Option(p.chunkTypes, place.at) = SOE_Reserved
          /\ \A a \in place.ancestors : Option(p.chunkTypes, a[1]) = a[2]}

(* An empty place of the size, under nodes divided for it or not at all.   *)
Fits(p, size) ==
  \E place \in PlacesOf[p.blockType] :
    /\ place.kind = size
    /\ Option(p.chunkTypes, place.at) = SOE_Empty
    /\ \A a \in place.ancestors : Option(p.chunkTypes, a[1]) \in {SOE_Empty, a[2]}

(* The pool has its type; free sizes are sizes of the type; the count goes *)
(* with the blocks from where it started.                                  *)
TypeOK ==
  /\ pool.chunkTypes \in [0 .. SIZEOF - 1 -> [Option : 0 .. 3, fullChilds : 0 .. 63]]
  /\ pool.blockType \in Types \cup {0}
  /\ pool.freeSizes.first \cup pool.freeSizes.second \subseteq getMaxSplit(pool.blockType)
  /\ pool.allocatedcount - Cardinality(live) \in Garbage

(* The reserved nodes are the blocks the caller holds, each of its rounded *)
(* size, and dealloc of a block says that size.                            *)
ReservedAreLive ==
  /\ {[ptr |-> place.unit, size |-> place.kind] : place \in Reserved(pool)}
       = {[ptr |-> block.ptr, size |-> roundSizeTable[block.size]] : block \in live}
  /\ \A block \in live :
       poolDealloc(pool, block.ptr).size = roundSizeTable[block.size]

(* The code's own test holds (each count of full children is right), and   *)
(* what lies below nodes that are not divided is blank, in both arrays of  *)
(* the union: a pool without blocks can be used for any type.              *)
TreeCorrect ==
  /\ pool.blockType # 0 => correctnessTest(pool.chunkTypes, pool.blockType)
  /\ live = {} => pool.chunkTypes = BlankMemory

(* The free sizes a pool advertises, by which the allocator picks it, are  *)
(* those alloc can serve, and those are the sizes some place is free for:  *)
(* the early ends of the loops hide none and the costs promise none.       *)
ServesWhatItAdvertises ==
  pool.blockType # 0 =>
    \A size \in getMaxSplit(pool.blockType) :
      LET advertised == size \in pool.freeSizes.first \cup pool.freeSizes.second
      IN  /\ advertised <=> allocIndex(pool.chunkTypes, pool.blockType, size).index # NoIndex
          /\ advertised <=> Fits(pool, size)

Heap == INSTANCE AllocatorHeap WITH
  Places <- 0 .. 511, Lengths <- 1 .. 512,
  blocks <- IF pool.memory THEN {[at |-> 0, len |-> Units(pool.blockType)]} ELSE {},
  buffers <- {[at |-> block.ptr, len |-> block.size] : block \in live}

(* The blocks handed out lie in the pool and never overlap.                *)
LiveApart == Heap!BuffersApart
=============================================================================
