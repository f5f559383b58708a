------------------------------ MODULE VMMemory ------------------------------
(***************************************************************************)
(* The memory of the virtual machine, src/VirtualMachineProject/VMMemory.h *)
(* (the single-threaded ancestor of MemoryManagerParallel): chunks of      *)
(* equal elements for small sizes, a chunk of one element for big ones, a  *)
(* list of chunks with room for each size range, and counters of empty     *)
(* chunks that decide when to free them.  Calls do not overlap.            *)
(*                                                                         *)
(* A word is the set of its 1 bits.  An operator named X_Y, defined before *)
(* X, is X with the plausible bug Y seeded in it; nothing else uses it.    *)
(***************************************************************************)
EXTENDS Integers, FiniteSetsExt, SequencesExt

CONSTANTS
  WordBits,     \* 64
  IntBits,      \* 32: the width of the int that alloc shifts
  SizeWord,     \* 2^64: size_t counts modulo it
  Rows,         \* elementSize_perChunk_Table: <<[min, max, count], ...>>
  Sizes,        \* the sizes asked
  ChunkIds,     \* the chunks there is memory for
  MaxLive,      \* bound: blocks in use at a time
  MaxMisreports,    \* bound: how often the counters of empty chunks may go wrong
  SizeSoft, CountSoft, SizeHard, CountHard   \* clean: 16 MB and 8, 256 MB, 256

ASSUME WidthAssumption == WordBits \in Nat /\ IntBits \in 1 .. WordBits /\ SizeWord \in Nat \ {0}
ASSUME RowsAssumption ==
  /\ Rows \in Seq([min : Nat, max : Nat, count : Nat])
  /\ \A r \in DOMAIN Rows :
       /\ Rows[r].min = (IF r = 1 THEN 1 ELSE Rows[r - 1].max + 1)
       /\ Rows[r].min <= Rows[r].max
       /\ \/ Rows[r].count = 1 /\ r = Len(Rows)
          \/ \E words \in 1 .. WordBits : Rows[r].count = words * WordBits
ASSUME SizesAssumption ==
  \A size \in Sizes : \E r \in DOMAIN Rows : size \in Rows[r].min .. Rows[r].max
ASSUME ChunksAssumption == IsFiniteSet(ChunkIds)

VARIABLES
  memory,           \* the chunks, by their range: [ChunkIds -> chunk or None]
  notfullchunks,    \* for each row, the list of its chunks with room
  emptyBlocksSize, emptyBlocksCount,
  live,             \* the callers' blocks: [chunk, index, size]
  misreported       \* history: the rows of the chunks that told dealloc wrongly
                    \* whether they are empty, in order
vars == <<memory, notfullchunks, emptyBlocksSize, emptyBlocksCount, live, misreported>>

Bits == 0 .. WordBits - 1
Plus(a, b) == (a + b) % SizeWord
Minus_NoWrap(a, b) == a - b
Minus(a, b) == (a - b) % SizeWord
None == [kind |-> "None"]
InMemory == {c \in ChunkIds : memory[c] # None}

(* elementSize_perChunk_Map.find: the row of a size.                       *)
RowOf(size) == CHOOSE r \in DOMAIN Rows : Rows[r].min <= size /\ size <= Rows[r].max

-----------------------------------------------------------------------------
(* The chunks.                                                             *)

NewSmall(row) ==
  [kind |-> "Small", memorysize |-> row.count * row.max, elementSize |-> row.max,
   bitusedmask |-> 0 .. (row.count \div WordBits) - 1,
   bitfieldempty |-> 0 .. (row.count \div WordBits) - 1,
   bitfield1 |-> {}, bitfield64 |-> [w \in Bits |-> {}], useCount |-> 0]
NewBig(size) ==
  [kind |-> "Big", memorysize |-> size, elementSize |-> size, useCount |-> 0]

full(chunk) ==
  IF chunk.kind = "Small" THEN chunk.bitfield1 = chunk.bitusedmask ELSE chunk.useCount # 0
empty_ByMask(chunk) ==
  IF chunk.kind = "Small" THEN chunk.bitfieldempty = chunk.bitusedmask ELSE chunk.useCount = 0
empty(chunk) == chunk.useCount = 0

findFirstEmptyBit(word) == Min(Bits \ word)

(* The bits of ~(1 << index1) that are 0.  The 1 is an int: shifted to the *)
(* sign bit it becomes a negative int whose complement has no high bits,   *)
(* and the machine takes a shift by IntBits or more modulo IntBits.        *)
ClearedBits(index1) ==
  LET bit == index1 % IntBits
  IN  IF bit = IntBits - 1 THEN bit .. WordBits - 1 ELSE {bit}

(* alloc of a chunk that is not full: the chunk and the element's index.   *)
SmallAlloc(chunk) ==
  LET index1 == findFirstEmptyBit(chunk.bitfield1)
      index2 == findFirstEmptyBit(chunk.bitfield64[index1])
      word == chunk.bitfield64[index1] \cup {index2}
  IN  [chunk |-> [chunk EXCEPT !.bitfieldempty = @ \ ClearedBits(index1),
                               !.bitfield64[index1] = word,
                               !.bitfield1 = IF word = Bits THEN @ \cup {index1} ELSE @,
                               !.useCount = @ + 1],
       index |-> index1 * WordBits + index2]
ChunkAlloc(chunk) ==
  IF chunk.kind = "Small" THEN SmallAlloc(chunk)
  ELSE [chunk |-> [chunk EXCEPT !.useCount = @ + 1], index |-> 0]

(* dealloc of an element in use (of any other it changes nothing, and      *)
(* callers free what they hold): the chunk, and whether it says it is      *)
(* empty.                                                                  *)
SmallDealloc_NoWord(chunk, index) ==
  LET index1 == index \div WordBits
      word == chunk.bitfield64[index1] \ {index % WordBits}
      freed == [chunk EXCEPT !.bitfield1 = @ \ {index1}, !.bitfield64[index1] = word,
                             !.useCount = @ - 1]
  IN  [chunk |-> freed, isnowempty |-> word = {}]
SmallDealloc(chunk, index) ==
  LET index1 == index \div WordBits
      word == chunk.bitfield64[index1] \ {index % WordBits}
      freed == [chunk EXCEPT !.bitfield1 = @ \ {index1}, !.bitfield64[index1] = word,
                             !.bitfieldempty = IF word = {} THEN @ \cup {index1} ELSE @,
                             !.useCount = @ - 1]
  IN  [chunk |-> freed,
       isnowempty |-> freed.bitfieldempty \cap freed.bitusedmask = freed.bitusedmask]
ChunkDealloc(chunk, index) ==
  IF chunk.kind = "Small" THEN SmallDealloc(chunk, index)
  ELSE [chunk |-> [chunk EXCEPT !.useCount = @ - 1], isnowempty |-> TRUE]

-----------------------------------------------------------------------------
(* clean, of the fields as dealloc leaves them: every empty chunk of a     *)
(* list is freed, once the counters pass a threshold or by force.          *)

Now == [memory |-> memory, lists |-> notfullchunks,
        size |-> emptyBlocksSize, count |-> emptyBlocksCount]

Listed(lists) == UNION {Range(lists[r]) : r \in DOMAIN lists}

(* The list with the chunks that are gone erased, front to back.           *)
Without(list, gone) ==
  LET kept[i \in 0 .. Len(list)] ==
        IF i = 0 THEN << >>
        ELSE IF list[i] \in gone THEN kept[i - 1] ELSE Append(kept[i - 1], list[i])
  IN  kept[Len(list)]

(* The bytes of some chunks.                                               *)
BytesOf(mem, chunks) ==
  LET bytes == [c \in chunks |-> mem[c].memorysize]
  IN  MapThenSumSet(LAMBDA c : bytes[c], chunks)

PassesThreshold(s) ==
  \/ s.size >= SizeSoft /\ s.count >= CountSoft
  \/ s.size >= SizeHard
  \/ s.count >= CountHard

clean_StaysListed(s, force) ==
  LET gone == {c \in Listed(s.lists) : empty(s.memory[c])}
  IN  IF ~ PassesThreshold(s) /\ ~ force THEN s
      ELSE [memory |-> [c \in ChunkIds |-> IF c \in gone THEN None ELSE s.memory[c]],
            lists |-> s.lists,
            size |-> Minus(s.size, BytesOf(s.memory, gone)),
            count |-> Minus(s.count, Cardinality(gone))]
clean(s, force) ==
  LET gone == {c \in Listed(s.lists) : empty(s.memory[c])}
  IN  IF ~ PassesThreshold(s) /\ ~ force THEN s
      ELSE [memory |-> [c \in ChunkIds |-> IF c \in gone THEN None ELSE s.memory[c]],
            lists |-> [r \in DOMAIN Rows |-> Without(s.lists[r], gone)],
            size |-> Minus(s.size, BytesOf(s.memory, gone)),
            count |-> Minus(s.count, Cardinality(gone))]

Store(s) ==
  /\ memory' = s.memory
  /\ notfullchunks' = s.lists
  /\ emptyBlocksSize' = s.size
  /\ emptyBlocksCount' = s.count

-----------------------------------------------------------------------------
Init ==
  /\ memory = [c \in ChunkIds |-> None]
  /\ notfullchunks = [r \in DOMAIN Rows |-> << >>]
  /\ emptyBlocksSize = 0
  /\ emptyBlocksCount = 0
  /\ live = {}
  /\ misreported = << >>

(* alloc from the first chunk of the row's list.                           *)
AllocListed(size) ==
  LET r == RowOf(size)
      c == Head(notfullchunks[r])
      result == ChunkAlloc(memory[c])
  IN  /\ notfullchunks[r] # << >>
      /\ memory' = [memory EXCEPT ![c] = result.chunk]
      /\ notfullchunks' = [notfullchunks EXCEPT ![r] = IF full(result.chunk) THEN Tail(@) ELSE @]
      /\ IF empty(memory[c])
           THEN /\ emptyBlocksSize' = Minus(emptyBlocksSize, memory[c].memorysize)
                /\ emptyBlocksCount' = Minus(emptyBlocksCount, 1)
           ELSE UNCHANGED <<emptyBlocksSize, emptyBlocksCount>>
      /\ live' = live \cup {[chunk |-> c, index |-> result.index, size |-> size]}
      /\ UNCHANGED misreported

(* alloc from a new chunk.  The chunks lie apart in one address space;     *)
(* without memory for it the call throws before it changes anything.       *)
AllocNew(size, c) ==
  LET r == RowOf(size)
      result == ChunkAlloc(IF Rows[r].count >= WordBits THEN NewSmall(Rows[r]) ELSE NewBig(size))
  IN  /\ notfullchunks[r] = << >>
      /\ BytesOf(memory, InMemory) + result.chunk.memorysize < SizeWord
      /\ memory' = [memory EXCEPT ![c] = result.chunk]
      /\ notfullchunks' = [notfullchunks EXCEPT ![r] = IF full(result.chunk) THEN @ ELSE <<c>> \o @]
      /\ live' = live \cup {[chunk |-> c, index |-> result.index, size |-> size]}
      /\ UNCHANGED <<emptyBlocksSize, emptyBlocksCount, misreported>>

(* dealloc: a chunk that was full is listed again, one that says it is     *)
(* empty is counted, and the thresholds are looked at.                     *)
Dealloc(block) ==
  LET before == memory[block.chunk]
      result == ChunkDealloc(before, block.index)
      r == RowOf(before.elementSize)
      listed(size, count) ==
        [memory |-> [memory EXCEPT ![block.chunk] = result.chunk],
         lists |-> [notfullchunks EXCEPT ![r] = IF full(before) THEN <<block.chunk>> \o @ ELSE @],
         size |-> size, count |-> count]
  IN  /\ Store(IF result.isnowempty
                 THEN clean(listed(Plus(emptyBlocksSize, before.memorysize),
                                   Plus(emptyBlocksCount, 1)), FALSE)
                 ELSE listed(emptyBlocksSize, emptyBlocksCount))
      /\ live' = live \ {block}
      /\ misreported' = IF result.isnowempty # empty(result.chunk)
                         THEN Append(misreported, r) ELSE misreported
      /\ Len(misreported') <= MaxMisreports

Clean(force) ==
  /\ Store(clean(Now, force))
  /\ UNCHANGED <<live, misreported>>

Next ==
  \/ /\ Cardinality(live) < MaxLive
     /\ \E size \in Sizes : AllocListed(size) \/ \E c \in ChunkIds \ InMemory : AllocNew(size, c)
  \/ \E block \in live : Dealloc(block)
  \/ \E force \in BOOLEAN : Clean(force)

Spec == Init /\ [][Next]_vars

-----------------------------------------------------------------------------
(* The lists and counters have their types.                                *)
TypeOK ==
  /\ \A c \in InMemory : memory[c].useCount \in 0 .. WordBits * WordBits
  /\ notfullchunks \in [DOMAIN Rows -> Seq(ChunkIds)]
  /\ emptyBlocksSize \in 0 .. SizeWord - 1 /\ emptyBlocksCount \in 0 .. SizeWord - 1
  /\ misreported \in Seq(DOMAIN Rows)

(* A row lists each chunk with room once, and nothing else: no chunk is    *)
(* lost with room in it, none is listed full, and a freed one leaves its   *)
(* list.                                                                   *)
ListsExact ==
  /\ \A r \in DOMAIN Rows, i, j \in 1 .. Cardinality(ChunkIds) :
       {i, j} \subseteq DOMAIN notfullchunks[r] /\ i # j
         => notfullchunks[r][i] # notfullchunks[r][j]
  /\ \A r \in DOMAIN Rows :
       Range(notfullchunks[r])
         = {c \in InMemory : RowOf(memory[c].elementSize) = r /\ ~ full(memory[c])}

(* The indexes of the elements in use.                                     *)
Used(chunk) ==
  IF chunk.kind = "Small"
    THEN {i \in 0 .. WordBits * WordBits - 1 : i % WordBits \in chunk.bitfield64[i \div WordBits]}
    ELSE {i \in {0} : chunk.useCount = 1}

(* The elements in use are the callers' blocks, each once: a chunk is not  *)
(* freed under a block, whatever it says of being empty.  A block of a row *)
(* of equal elements fits its element.                                     *)
BlocksInUse ==
  /\ \A block \in live :
       LET chunk == memory[block.chunk]
       IN  /\ block.chunk \in InMemory
           /\ chunk.kind = "Small" =>
                /\ block.size <= chunk.elementSize
                /\ (block.index + 1) * chunk.elementSize <= chunk.memorysize
  /\ \A c \in InMemory :
       LET blocks == {block \in live : block.chunk = c}
       IN  /\ Used(memory[c]) = {block.index : block \in blocks}
           /\ memory[c].useCount = Cardinality(blocks)
           /\ Cardinality({block.index : block \in blocks}) = Cardinality(blocks)

EmptyChunks == {c \in InMemory : empty(memory[c])}

(* The counters clean goes by are those of the empty chunks, as long as no *)
(* chunk misreported, and a chunk of no more words than an int has bits    *)
(* never does.  One of more may, for the int that alloc shifts; from then  *)
(* on the counters drift.                                                  *)
EmptyCountsExact ==
  /\ \A r \in Range(misreported) : Rows[r].count > IntBits * WordBits
  /\ misreported = << >> =>
       /\ emptyBlocksCount = Cardinality(EmptyChunks)
       /\ emptyBlocksSize = BytesOf(memory, EmptyChunks)
=============================================================================
