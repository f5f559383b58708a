--------------------------- MODULE AllocatorHeap ---------------------------
(***************************************************************************)
(* What a memory manager promises, whatever its chunks, lists and locks:   *)
(* a heap of blocks borrowed from a pool, and buffers placed in the blocks.*)
(* A buffer lies inside one block and overlaps no other; a block goes back *)
(* to the pool only when no buffer is left in it.                          *)
(***************************************************************************)
EXTENDS Integers

CONSTANTS Places, Lengths

VARIABLES blocks, buffers
heapVars == <<blocks, buffers>>

Area == [at : Places, len : Lengths]

Apart(a, b) == a.at + a.len <= b.at \/ b.at + b.len <= a.at
Inside(a, b) == b.at <= a.at /\ a.at + a.len <= b.at + b.len

HeapInit == blocks = {} /\ buffers = {}

(* The pool lends a block that overlaps none it has lent.                  *)
Grow ==
  \E b \in Area :
    /\ \A other \in blocks : Apart(b, other)
    /\ blocks' = blocks \cup {b}
    /\ UNCHANGED buffers

Shrink ==
  \E b \in blocks :
    /\ \A buffer \in buffers : ~ Inside(buffer, b)
    /\ blocks' = blocks \ {b}
    /\ UNCHANGED buffers

Allocate ==
  \E b \in blocks, buffer \in Area :
    /\ Inside(buffer, b)
    /\ \A other \in buffers : Apart(buffer, other)
    /\ buffers' = buffers \cup {buffer}
    /\ UNCHANGED blocks

Free ==
  \E buffer \in buffers :
    /\ buffers' = buffers \ {buffer}
    /\ UNCHANGED blocks

HeapNext == Grow \/ Shrink \/ Allocate \/ Free

HeapSpec == HeapInit /\ [][HeapNext]_heapVars

(* Buffers never overlap, and each lies in a block.                        *)
BuffersApart ==
  /\ \A a, b \in buffers : a # b => Apart(a, b)
  /\ \A a \in buffers : \E b \in blocks : Inside(a, b)
=============================================================================
