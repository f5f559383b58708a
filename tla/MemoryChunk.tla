---------------------------- MODULE MemoryChunk ----------------------------
(***************************************************************************)
(* The chunk classes of src/VirtualMachineProject: MemoryChunkTemplate     *)
(* (VerySmall, Small, Medium, Large), MemoryChunkPrecise and               *)
(* MemoryChunkAnySize over MemoryChunkBase, with their bitmap and their    *)
(* packed counters of wasted bytes.  One chunk, its block at address 0, so *)
(* that a pointer is an offset; the caller holds the bucket's lock, so     *)
(* that calls do not overlap.                                              *)
(***************************************************************************)
EXTENDS MemoryBitfieldManager, Functions

CONSTANT Shapes
(***************************************************************************)
(* The chunks to build: the template's parameters (kind, SIZE1,            *)
(* ELEMENT_COUNT, BITS_PER_ELEMENT), the constructor's (elementCount,      *)
(* elementSize, memorysize) and the sizes asked of the chunk.  Counters    *)
(* fill whole words and hold what a request wastes, as RowFitsChunk of     *)
(* MemorySizeRanges finds of every row of the size table; divtoshift wants *)
(* a power of two.  An AnySize chunk has no bitmap; its record says one    *)
(* word of one bit.                                                        *)
(***************************************************************************)
ASSUME ShapesAssumption ==
  \A s \in Shapes :
    /\ s.kind \in {"Template", "Precise", "AnySize"}
    /\ s.SIZE1 \in 1 .. WordBits
    /\ s.elementCount \in Nat \ {0} /\ s.elementSize \in Nat \ {0} /\ s.memorysize \in Nat
    /\ s.BITS_PER_ELEMENT \in Nat /\ s.ELEMENT_COUNT \in Nat
    /\ s.elementCount * s.elementSize <= s.memorysize
    /\ s.kind = "Template" =>
         /\ s.elementCount <= s.ELEMENT_COUNT
         /\ s.BITS_PER_ELEMENT \in 1 .. WordBits /\ WordBits % s.BITS_PER_ELEMENT = 0
         /\ (s.ELEMENT_COUNT * s.BITS_PER_ELEMENT) % WordBits = 0
         /\ \A size \in s.sizes : s.elementSize - size < PowerOfTwo[s.BITS_PER_ELEMENT]
    /\ s.SIZE1 = 1 => s.elementCount <= WordBits
    /\ s.SIZE1 > 1 => \E words \in 1 .. s.SIZE1 : s.elementCount = words * WordBits
    /\ s.sizes \subseteq 1 .. s.elementSize
    /\ s.kind = "Precise" => s.sizes \subseteq {s.elementSize}
    /\ s.kind = "AnySize" =>
         s.SIZE1 = 1 /\ s.elementCount = 1 /\ s.elementSize = s.memorysize

VARIABLES
  shape,              \* how the chunk was built; it never changes
  wastedBytesCount,   \* words of BITS_PER_ELEMENT bit fields, one per element
  useCount,
  anyElementSize,     \* MemoryChunkAnySize::elementSize
  answer,             \* what the last call of alloc or dealloc returned
  held                \* the caller's buffers: held[ptr] is the size it asked for

vars == <<bitVars, shape, wastedBytesCount, useCount, anyElementSize, answer, held>>

-----------------------------------------------------------------------------
(* WastedBytesCounter.                                                     *)

BitsOf(n) == {b \in Bits : (n \div PowerOfTwo[b]) % 2 = 1}
NumberOf(word) == MapThenSumSet(LAMBDA b : PowerOfTwo[b], word)

MASK(width) == 0 .. width - 1
ELEMENTS_PER_BLOCK == WordBits \div shape.BITS_PER_ELEMENT
blockNumber(index) == index \div ELEMENTS_PER_BLOCK
inblockAddress(index) == (index % ELEMENTS_PER_BLOCK) * shape.BITS_PER_ELEMENT
BUFFER_SIZE(s) == (s.ELEMENT_COUNT * s.BITS_PER_ELEMENT) \div WordBits

getWastedBytes(index) ==
  LET block == wastedBytesCount[blockNumber(index)]
  IN  NumberOf(ShiftRight(block, inblockAddress(index)) \cap MASK(shape.BITS_PER_ELEMENT))

setWastedBytes_NoClean(index, size) ==
  LET mask == ShiftLeft(MASK(shape.BITS_PER_ELEMENT), inblockAddress(index))
      kept == wastedBytesCount[blockNumber(index)]
  IN  wastedBytesCount' = [wastedBytesCount EXCEPT ![blockNumber(index)] =
                             kept \cup (mask \cap ShiftLeft(BitsOf(size), inblockAddress(index)))]
setWastedBytes(index, size) ==
  LET mask == ShiftLeft(MASK(shape.BITS_PER_ELEMENT), inblockAddress(index))
      kept == wastedBytesCount[blockNumber(index)] \ mask
  IN  wastedBytesCount' = [wastedBytesCount EXCEPT ![blockNumber(index)] =
                             kept \cup (mask \cap ShiftLeft(BitsOf(size), inblockAddress(index)))]

-----------------------------------------------------------------------------
(* The chunk.                                                              *)

full == IF shape.kind = "AnySize" THEN useCount # 0 ELSE fullBits
empty == useCount = 0
ElementIndex(ptr) == ptr \div shape.elementSize

Hold(ptr, size) == held' = [p \in DOMAIN held \cup {ptr} |-> IF p = ptr THEN size ELSE held[p]]
Drop(ptr) == held' = Restrict(held, DOMAIN held \ {ptr})

Init ==
  /\ shape \in Shapes
  /\ SetElementCount(shape.SIZE1, shape.elementCount)
  /\ wastedBytesCount = [w \in 0 .. BUFFER_SIZE(shape) - 1 |-> {}]
  /\ useCount = 0
  /\ anyElementSize = shape.memorysize
  /\ answer = "new"
  /\ held = << >>

(* alloc of a chunk with a bitmap.                                         *)
Alloc(size) ==
  /\ shape.kind # "AnySize"
  /\ ~ full
  /\ AllocIndex
  /\ useCount' = useCount + 1
  /\ IF shape.kind = "Template" THEN setWastedBytes(NextIndex, shape.elementSize - size)
                                ELSE UNCHANGED wastedBytesCount
  /\ answer' = "buffer"
  /\ Hold(shape.elementSize * NextIndex, size)
  /\ UNCHANGED <<shape, anyElementSize>>

AllocAnySize(size) ==
  /\ shape.kind = "AnySize"
  /\ empty
  /\ useCount' = useCount + 1
  /\ anyElementSize' = size
  /\ answer' = "buffer"
  /\ Hold(0, size)
  /\ UNCHANGED <<bitVars, shape, wastedBytesCount>>

(* Either alloc returns null from a chunk without room.                    *)
AllocNull ==
  /\ IF shape.kind = "AnySize" THEN ~ empty ELSE full
  /\ answer' = "null"
  /\ UNCHANGED <<bitVars, shape, wastedBytesCount, useCount, anyElementSize, held>>

Dealloc(ptr) ==
  /\ shape.kind # "AnySize"
  /\ IF ptr >= shape.memorysize
       THEN answer' = "BAD_ADDRESS" /\ UNCHANGED <<bitVars, useCount>>
       ELSE /\ answer' = FreeResult(ElementIndex(ptr))
            /\ DeallocIndex(ElementIndex(ptr))
            /\ useCount' = useCount - 1
  /\ Drop(ptr)
  /\ UNCHANGED <<shape, wastedBytesCount, anyElementSize>>

DeallocAnySize(ptr) ==
  /\ shape.kind = "AnySize"
  /\ IF ptr >= anyElementSize
       THEN answer' = "BAD_ADDRESS" /\ UNCHANGED <<useCount, anyElementSize>>
       ELSE IF useCount # 1
              THEN answer' = "DEALOC_NOT_ALLOCATED" /\ UNCHANGED <<useCount, anyElementSize>>
              ELSE /\ answer' = "WAS_FULL_IS_EMPTY"
                   /\ useCount' = useCount - 1
                   /\ anyElementSize' = shape.memorysize
  /\ Drop(ptr)
  /\ UNCHANGED <<bitVars, shape, wastedBytesCount>>

(* What getInfo says of a pointer into the chunk.                          *)
RequestedSize(ptr) ==
  CASE shape.kind = "Template" -> shape.elementSize - getWastedBytes(ElementIndex(ptr))
    [] shape.kind = "Precise"  -> shape.elementSize
    [] shape.kind = "AnySize"  -> anyElementSize
getInfo(ptr) ==
  LET size  == IF shape.kind = "AnySize" THEN anyElementSize ELSE shape.elementSize
      inUse == IF shape.kind = "AnySize" THEN ~ empty ELSE isAllocated(ElementIndex(ptr))
  IN  IF ptr >= shape.memorysize THEN [isAllocated |-> FALSE]
      ELSE IF inUse
             THEN [buferAddress |-> (ptr \div size) * size, isAllocated |-> TRUE,
                   requestedSize |-> RequestedSize(ptr)]
             ELSE [buferAddress |-> (ptr \div size) * size, isAllocated |-> FALSE]

Next ==
  \/ \E size \in shape.sizes : Alloc(size) \/ AllocAnySize(size)
  \/ AllocNull
  \/ \E ptr \in DOMAIN held : Dealloc(ptr) \/ DeallocAnySize(ptr)

Spec == Init /\ [][Next]_vars

-----------------------------------------------------------------------------
(* Properties.                                                             *)

Addresses == {shape.elementSize * i : i \in 0 .. shape.elementCount - 1}

(* The variables have their types.                                         *)
TypeOK ==
  /\ shape \in Shapes /\ SIZE1 = shape.SIZE1
  /\ bitusedmask \subseteq Bits /\ bitfield_1 \subseteq Bits /\ bitfield_empty \subseteq Bits
  /\ bitfield_2 \in [Words -> SUBSET Bits]
  /\ wastedBytesCount \in [0 .. BUFFER_SIZE(shape) - 1 -> SUBSET Bits]
  /\ useCount \in 0 .. shape.elementCount
  /\ anyElementSize \in 1 .. shape.memorysize
  /\ IsFiniteSet(DOMAIN held)

(* The summary words tell the truth about the words: full ones and empty   *)
(* ones, and no element past elementCount is ever used.  AllocIndex picks  *)
(* its word by the first, DeallocIndex reports "empty" by the second.      *)
SummariesExact ==
  IF SIZE1 = 1 THEN bitfield_1 \subseteq bitusedmask
  ELSE /\ bitfield_1 = {w \in Words : bitfield_2[w] = Ones}
       /\ bitfield_empty = {w \in bitusedmask : bitfield_2[w] = {}}
       /\ \A w \in Words \ bitusedmask : bitfield_2[w] = {}

(* The portable search for a 0 bit (a table of 4 bits) and the compiler's  *)
(* instruction agree on every word the bitmap searches.                    *)
ScanAgrees ==
  \A word \in {bitfield_1} \cup {bitfield_2[w] : w \in Words} :
    word # Ones => scanFirstEmptyBit(word) = findFirstEmptyBit(word)

(* full, empty and useCount, by which the manager lists, moves and deletes *)
(* a chunk, are those of the buffers its callers hold.                     *)
FlagsExact ==
  /\ full <=> DOMAIN held = Addresses
  /\ empty <=> DOMAIN held = {}
  /\ useCount = Cardinality(DOMAIN held)

(* getInfo of any byte of a buffer names the buffer and the size its       *)
(* caller asked for, whatever was written for the neighbours that share    *)
(* its word of wasted bytes; of a free element it says so.                 *)
InfoExact ==
  /\ \A ptr \in DOMAIN held : \A p \in ptr .. ptr + held[ptr] - 1 :
       getInfo(p) = [buferAddress |-> ptr, isAllocated |-> TRUE, requestedSize |-> held[ptr]]
  /\ \A ptr \in Addresses \ DOMAIN held : ~ getInfo(ptr).isAllocated

Chunk == INSTANCE ChunkSlots WITH room <- Addresses, taken <- DOMAIN held

(* A chunk implements a set of slots: alloc never gives a slot twice nor   *)
(* refuses while one is free, and dealloc reports exactly the edges; no    *)
(* buffer's own pointer is a BAD_ADDRESS or DEALOC_NOT_ALLOCATED.          *)
ImplementsSlots == Chunk!SlotsSpec
=============================================================================
