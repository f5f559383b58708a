--------------------- MODULE MCMemoryChunkPoolAllocator ---------------------
(***************************************************************************)
(* Pools of one tree for TLC; PoolIds is the number of pools that fit in   *)
(* memory.                                                                 *)
(***************************************************************************)
EXTENDS MemoryChunkPoolAllocator
CONSTANT Pools
MCCopies == [type \in Types |-> 1]
MCPoolIds == 1 .. Pools

\* size_t(-1): the count of a pool with one block is 0.
MCWraps == {0, -1}
=============================================================================
