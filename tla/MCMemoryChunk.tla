--------------------------- MODULE MCMemoryChunk ---------------------------
(***************************************************************************)
(* Small chunks of each kind for TLC: words of 8 bits instead of 64.       *)
(***************************************************************************)
EXTENDS MemoryChunk

Shape(kind, size1, capacity, bits, count, elementSize, sizes) ==
  [kind |-> kind, SIZE1 |-> size1, ELEMENT_COUNT |-> capacity, BITS_PER_ELEMENT |-> bits,
   elementCount |-> count, elementSize |-> elementSize, memorysize |-> count * elementSize + 1,
   sizes |-> sizes]

(* As MemoryChunkMedium: one word, a mask that is not whole, 4 bit fields. *)
OneWord == Shape("Template", 1, 8, 4, 5, 16, {1, 10, 16})
(* As MemoryChunkVerySmall: two levels, part of the words, 2 bit fields.   *)
TwoLevels == Shape("Template", 3, 24, 2, 8, 4, {1, 4})
(* As MemoryChunkPrecise: two full words of three.                         *)
Precise == Shape("Precise", 3, 0, 0, 16, 2, {2})
AnySize == [Shape("AnySize", 1, 0, 0, 1, 40, {38, 40}) EXCEPT !.memorysize = 40]

MCShapes == {OneWord, TwoLevels, Precise, AnySize}
=============================================================================
