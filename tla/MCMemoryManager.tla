-------------------------- MODULE MCMemoryManager --------------------------
(***************************************************************************)
(* Small instances of MemoryManagerParallel for TLC.                       *)
(***************************************************************************)
EXTENDS MemoryManagerInvariants

CONSTANTS t1, t2, t3

(* One row of two elements of up to 2 bytes in a block of 5, and AnySize.  *)
(* With a BucketAddressRange of 2 and two buckets, the second element of a *)
(* block at 1 or at 6 is in another bucket than the block, and the search  *)
(* for the one at 6 goes around the bucket table.                          *)
TwoRows_MaxSize == <<2>>
TwoRows_ElPerChunk == <<2, 1>>
TwoRows_BuforSize == <<5>>

(* The threads' hashes fall into different contexts and stores.            *)
ApartHash == [t \in Threads |-> IF t = t1 THEN 0 ELSE 1]
SameHash == [t \in Threads |-> 0]

Symmetry == Permutations(Threads)
=============================================================================
