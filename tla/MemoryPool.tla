----------------------------- MODULE MemoryPool -----------------------------
(***************************************************************************)
(* One pool of the pool allocator: MemoryPool and MemoryChunkPool of       *)
(* src/VirtualMachineProject/MemoryChunkPool.h, over the tree of           *)
(* SplitTypes.  Sizes and positions are in units of 2048 bytes.  A pool is *)
(* used under the allocator's mutex: calls do not overlap.                 *)
(***************************************************************************)
EXTENDS SplitTypes

(* A pool object.  allocatedcount is not initialised by its constructor.   *)
NewPool(garbage) ==
  [chunkTypes |-> BlankMemory, memory |-> FALSE, blockType |-> 0,
   freeSizes |-> NoSizes, allocatedcount |-> garbage]

ComputedFreeSizes(p) == [p EXCEPT !.freeSizes = getFreeSizeTypes(p.chunkTypes, p.blockType)]

(* alloc: the pool and the index of the block, NoIndex for null.           *)
withFound(p, found) ==
  [pool |-> ComputedFreeSizes(
              [p EXCEPT !.chunkTypes = found.memory,
                        !.allocatedcount = @ + (IF found.index # NoIndex THEN 1 ELSE 0)]),
   index |-> found.index]
poolAlloc(p, size) == withFound(p, allocIndex(p.chunkTypes, p.blockType, size))

withFreed(p, freed) ==
  [pool |-> ComputedFreeSizes([p EXCEPT !.chunkTypes = freed.memory, !.allocatedcount = @ - 1]),
   size |-> freed.size]
poolDealloc(p, index) == withFreed(p, dealocIndex(p.chunkTypes, p.blockType, index))

(* MemoryChunkPool::needReset and MemoryPool::reset: a pool with memory    *)
(* whose bytes are blank is left as it is, type and free sizes included.   *)
needReset(p, type) ==
  /\ p.blockType # type
  /\ type = 0 \/ ~ p.memory \/ needResetTypes(p.chunkTypes, type)
poolReset(p, type) ==
  IF ~ needReset(p, type) THEN p
  ELSE ComputedFreeSizes(
         [p EXCEPT !.chunkTypes = IF needResetTypes(@, type) THEN resetTypes(@, type) ELSE @,
                   !.memory = @ \/ type # 0,
                   !.blockType = type])
=============================================================================
