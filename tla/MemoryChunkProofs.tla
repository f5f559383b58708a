------------------------- MODULE MemoryChunkProofs -------------------------
(***************************************************************************)
(* Theorems about MemoryChunk, for words of any width and chunks of every  *)
(* shape: the bitmap and its summaries agree with the buffers held, the    *)
(* packed counters with the sizes asked for, the two searches for a 0 bit  *)
(* with each other, and a chunk implements the set of slots of ChunkSlots. *)
(***************************************************************************)
EXTENDS MemoryChunk, FiniteFacts, TLAPS

-----------------------------------------------------------------------------
(* The inductive invariant.                                                *)

Indexes == 0 .. shape.elementCount - 1
InUse == {i \in Indexes : isAllocated(i)}
UsedWords == IF shape.SIZE1 = 1 THEN shape.elementCount ELSE shape.elementCount \div WordBits

(* The bitmap: which of its bits can be set, and that the summaries are    *)
(* right.                                                                  *)
BitmapInv ==
  /\ shape \in Shapes /\ SIZE1 = shape.SIZE1
  /\ bitusedmask = 0 .. UsedWords - 1
  /\ bitfield_1 \subseteq Bits /\ bitfield_empty \subseteq Bits
  /\ bitfield_2 \in [Words -> SUBSET Bits]
  /\ SummariesExact

(* The buffers held are the elements in use.                               *)
HeldInv ==
  /\ IsFiniteSet(DOMAIN held) /\ useCount = Cardinality(DOMAIN held)
  /\ IF shape.kind = "AnySize" THEN DOMAIN held \subseteq {0}
                               ELSE DOMAIN held = {shape.elementSize * i : i \in InUse}

CountersInv ==
  /\ wastedBytesCount \in [0 .. BUFFER_SIZE(shape) - 1 -> SUBSET Bits]
  /\ anyElementSize \in 1 .. shape.memorysize

ChunkInv == BitmapInv /\ HeldInv /\ CountersInv

-----------------------------------------------------------------------------
(* Arithmetic of indexes.                                                  *)

(* A word and a bit make an index from which both come back.               *)
LEMMA WordAndBit ==
  /\ \A w \in Nat, b \in Bits :
       IndexOf(w, b) \in Nat /\ WordOf(IndexOf(w, b)) = w /\ BitOf(IndexOf(w, b)) = b
  /\ \A i \in Nat : WordOf(i) \in Nat /\ BitOf(i) \in Bits /\ IndexOf(WordOf(i), BitOf(i)) = i
<1> USE WordAssumption DEF Bits, IndexOf, WordOf, BitOf
<1>1. ASSUME NEW w \in Nat, NEW b \in Bits
      PROVE  IndexOf(w, b) \in Nat /\ WordOf(IndexOf(w, b)) = w /\ BitOf(IndexOf(w, b)) = b
  BY Z3
<1>2. ASSUME NEW i \in Nat
      PROVE  WordOf(i) \in Nat /\ BitOf(i) \in Bits /\ IndexOf(WordOf(i), BitOf(i)) = i
  BY Z3
<1> QED BY <1>1, <1>2

(* The indexes below n words are those whose word is one of the n.         *)
LEMMA WordBelow ==
  ASSUME NEW n \in Nat, NEW i \in Nat
  PROVE  i < n * WordBits <=> WordOf(i) < n
BY WordAssumption, Z3 DEF WordOf

(* A product with a positive number is below another when its factor is.   *)
LEMMA ProductLess ==
  ASSUME NEW k \in Nat \ {0}, NEW a \in Nat, NEW b \in Nat
  PROVE  /\ a < b => k * a < k * b
         /\ k * a = k * b => a = b
         /\ (k * a) \div k = a
<1>1. a < b => k * a < k * b
  BY Z3
<1>2. b < a => k * b < k * a
  BY Z3
<1>3. (k * a) \div k = a
  BY Z3
<1> QED BY <1>1, <1>2, <1>3

-----------------------------------------------------------------------------
(* Shapes and masks.                                                       *)

(* What the assumption on the shapes says of one.                          *)
LEMMA ShapeFacts ==
  ASSUME NEW s \in Shapes
  PROVE  /\ s.SIZE1 \in 1 .. WordBits
         /\ s.elementCount \in Nat \ {0} /\ s.elementSize \in Nat \ {0} /\ s.memorysize \in Nat \ {0}
         /\ s.elementCount * s.elementSize <= s.memorysize
         /\ s.SIZE1 = 1 => s.elementCount \in 1 .. WordBits
         /\ s.SIZE1 > 1 => /\ s.elementCount \div WordBits \in 1 .. s.SIZE1
                           /\ s.elementCount = (s.elementCount \div WordBits) * WordBits
         /\ s.kind = "AnySize" =>
              s.SIZE1 = 1 /\ s.elementCount = 1 /\ s.elementSize = s.memorysize
<1>1. s.elementCount * s.elementSize >= 1
  BY ShapesAssumption, Z3
<1>2. ASSUME NEW words \in 1 .. s.SIZE1, s.elementCount = words * WordBits
      PROVE  s.elementCount \div WordBits = words
  <2>1. (WordBits * words) \div WordBits = words
    BY WordAssumption, ShapesAssumption, ProductLess
  <2>2. words * WordBits = WordBits * words
    BY WordAssumption, ShapesAssumption
  <2> QED BY <1>2, <2>1, <2>2
<1>3. s.memorysize \in Nat \ {0}
  BY <1>1, ShapesAssumption
<1>4. s.SIZE1 > 1 => /\ s.elementCount \div WordBits \in 1 .. s.SIZE1
                     /\ s.elementCount = (s.elementCount \div WordBits) * WordBits
  BY <1>2, ShapesAssumption
<1> QED BY <1>3, <1>4, ShapesAssumption

(* The mask has the low bits.                                              *)
LEMMA UsedMaskIs ==
  ASSUME NEW n \in 1 .. WordBits
  PROVE  UsedMask(n) = 0 .. n - 1
<1>1. ASSUME NEW b \in UsedMask(n) PROVE b \in 0 .. n - 1
  BY <1>1, WordAssumption DEF UsedMask, ShiftRight, Ones, Bits
<1>2. ASSUME NEW b \in 0 .. n - 1 PROVE b \in UsedMask(n)
  <2>1. b + (WordBits - n) \in Bits /\ b + (WordBits - n) >= WordBits - n
        /\ (b + (WordBits - n)) - (WordBits - n) = b
    BY WordAssumption DEF Bits
  <2> QED BY <2>1 DEF UsedMask, ShiftRight, Ones
<1> QED BY <1>1, <1>2

(* How many bits of the mask are used.                                     *)
LEMMA UsedWordsIs ==
  ASSUME shape \in Shapes
  PROVE  /\ UsedWords \in 1 .. WordBits
         /\ shape.SIZE1 > 1 => UsedWords \in 1 .. shape.SIZE1
         /\ shape.SIZE1 > 1 => shape.elementCount = UsedWords * WordBits
         /\ shape.SIZE1 = 1 => shape.elementCount = UsedWords
BY ShapeFacts, WordAssumption DEF UsedWords

-----------------------------------------------------------------------------
(* What the bitmap says, in terms of the elements in use.                  *)

(* A bit of a used word is the bit of an element.                          *)
LEMMA UsedBit ==
  ASSUME BitmapInv, SIZE1 > 1, NEW w \in bitusedmask, NEW b \in Bits
  PROVE  /\ IndexOf(w, b) \in Indexes
         /\ IndexOf(w, b) \in InUse <=> b \in bitfield_2[w]
<1>1. UsedWords \in Nat /\ shape.elementCount = UsedWords * WordBits /\ w \in 0 .. UsedWords - 1
  BY UsedWordsIs DEF BitmapInv
<1>2. /\ IndexOf(w, b) \in Nat
      /\ WordOf(IndexOf(w, b)) = w /\ BitOf(IndexOf(w, b)) = b
  BY <1>1, WordAndBit
<1>3. IndexOf(w, b) < UsedWords * WordBits
  BY <1>1, <1>2, WordBelow
<1>4. IndexOf(w, b) \in Indexes
  BY <1>1, <1>2, <1>3, ShapeFacts DEF Indexes, BitmapInv
<1> QED BY <1>2, <1>4 DEF InUse, isAllocated

(* An element's word is a used one, and its bit says whether it is in use. *)
LEMMA ElementBit ==
  ASSUME BitmapInv, SIZE1 > 1, NEW i \in Indexes
  PROVE  /\ WordOf(i) \in bitusedmask /\ WordOf(i) \in Words /\ BitOf(i) \in Bits
         /\ IndexOf(WordOf(i), BitOf(i)) = i
         /\ i \in InUse <=> BitOf(i) \in bitfield_2[WordOf(i)]
<1>1. /\ UsedWords \in 1 .. SIZE1 /\ SIZE1 \in Nat
      /\ shape.elementCount = UsedWords * WordBits /\ i \in Nat /\ i < UsedWords * WordBits
  BY UsedWordsIs, ShapeFacts DEF BitmapInv, Indexes
<1>2. WordOf(i) \in Nat /\ WordOf(i) < UsedWords /\ BitOf(i) \in Bits
      /\ IndexOf(WordOf(i), BitOf(i)) = i
  BY <1>1, WordAndBit, WordBelow
<1>3. WordOf(i) \in bitusedmask /\ WordOf(i) \in Words
  BY <1>1, <1>2 DEF BitmapInv, Words
<1> QED BY <1>2, <1>3 DEF InUse, isAllocated

(* With one word the elements in use are its bits.                         *)
LEMMA OneWordInUse ==
  ASSUME BitmapInv, SIZE1 = 1
  PROVE  InUse = bitfield_1 /\ Indexes = bitusedmask
BY UsedWordsIs, ShapeFacts DEF BitmapInv, SummariesExact, InUse, Indexes, isAllocated

(* fullBits tells that every element is in use.                            *)
LEMMA FullIsFull ==
  ASSUME BitmapInv
  PROVE  fullBits <=> InUse = Indexes
<1>1. CASE SIZE1 = 1
  BY <1>1, OneWordInUse DEF BitmapInv, SummariesExact, fullBits
<1>2. CASE SIZE1 > 1
  <2>1. bitusedmask \subseteq Words
    BY <1>2, UsedWordsIs, ShapeFacts DEF BitmapInv, Words
  <2>2. fullBits <=> \A w \in bitusedmask : bitfield_2[w] = Bits
    BY <1>2, <2>1 DEF fullBits, BitmapInv, SummariesExact, Ones
  <2>3. ASSUME \A w \in bitusedmask : bitfield_2[w] = Bits, NEW i \in Indexes PROVE i \in InUse
    BY <1>2, <2>3, ElementBit
  <2>4. ASSUME InUse = Indexes, NEW w \in bitusedmask PROVE bitfield_2[w] = Bits
    <3>1. \A b \in Bits : b \in bitfield_2[w]
      BY <1>2, <2>4, UsedBit
    <3>2. bitfield_2[w] \subseteq Bits
      BY <2>1 DEF BitmapInv
    <3> QED BY <3>1, <3>2
  <2> QED BY <2>2, <2>3, <2>4 DEF InUse
<1> QED BY <1>1, <1>2, ShapeFacts DEF BitmapInv

-----------------------------------------------------------------------------
(* AllocIndex and DeallocIndex.                                            *)

(* The first 0 bit of a word is a position of the word, and a 0 bit below  *)
(* every other.                                                            *)
LEMMA FirstEmptyBit ==
  ASSUME NEW word \in SUBSET Bits, word # Bits
  PROVE  /\ findFirstEmptyBit(word) \in Bits \ word
         /\ \A b \in Bits \ word : findFirstEmptyBit(word) <= b
<1>1. Bits \ word # {}
  OBVIOUS
<1>2. Bits \ word \in SUBSET Nat
  BY WordAssumption DEF Bits
<1> QED BY <1>1, <1>2, MinOfNaturals DEF findFirstEmptyBit, Ones

(* Before the mask's end there is a 0 bit, so the search stays below it.   *)
LEMMA FirstWithRoom ==
  ASSUME BitmapInv, ~ fullBits
  PROVE  findFirstEmptyBit(bitfield_1) \in bitusedmask \ bitfield_1
<1>1. PICK b \in bitusedmask : b \notin bitfield_1
  BY DEF fullBits
<1>2. UsedWords \in 1 .. WordBits /\ bitusedmask = 0 .. UsedWords - 1 /\ bitfield_1 \subseteq Bits
  BY UsedWordsIs DEF BitmapInv
<1>3. b \in Bits \ bitfield_1 /\ bitfield_1 # Bits /\ b <= UsedWords - 1
  BY <1>1, <1>2, WordAssumption DEF Bits
<1>4. findFirstEmptyBit(bitfield_1) \in Bits \ bitfield_1 /\ findFirstEmptyBit(bitfield_1) <= b
  BY <1>2, <1>3, FirstEmptyBit
<1> QED BY <1>2, <1>3, <1>4 DEF Bits

(* NextIndex is an element not in use.                                     *)
LEMMA NextIndexIsFree ==
  ASSUME BitmapInv, ~ fullBits
  PROVE  NextIndex \in Indexes \ InUse
<1>1. CASE SIZE1 = 1
  BY <1>1, FirstWithRoom, OneWordInUse DEF NextIndex
<1>2. CASE SIZE1 > 1
  <2> DEFINE index1 == findFirstEmptyBit(bitfield_1)
  <2>1. index1 \in bitusedmask /\ index1 \in Words /\ index1 \notin bitfield_1
    BY <1>2, FirstWithRoom, UsedWordsIs, ShapeFacts DEF BitmapInv, Words
  <2>2. bitfield_2[index1] \in SUBSET Bits /\ bitfield_2[index1] # Bits
    BY <1>2, <2>1 DEF BitmapInv, SummariesExact, Ones
  <2>3. findFirstEmptyBit(bitfield_2[index1]) \in Bits \ bitfield_2[index1]
    BY <2>2, FirstEmptyBit
  <2>4. NextIndex = IndexOf(index1, findFirstEmptyBit(bitfield_2[index1]))
    BY <1>2 DEF NextIndex
  <2> QED BY <1>2, <2>1, <2>3, <2>4, UsedBit
<1> QED BY <1>1, <1>2, ShapeFacts DEF BitmapInv

(* AllocIndex puts NextIndex in use, and nothing else.                     *)
LEMMA AllocIndexStep ==
  ASSUME BitmapInv, ~ fullBits, AllocIndex, shape' = shape
  PROVE  BitmapInv' /\ InUse' = InUse \cup {NextIndex}
<1> DEFINE i == NextIndex
<1>0. i \in Indexes \ InUse
  BY NextIndexIsFree
<1>1. CASE SIZE1 = 1
  <2>1. /\ bitfield_1' = bitfield_1 \cup {i}
        /\ UNCHANGED <<SIZE1, bitusedmask, bitfield_empty, bitfield_2>>
    BY <1>1 DEF AllocIndex, AllocIndexOneWord, AllocIndexTwoLevel
  <2>2. i \in bitusedmask /\ bitusedmask \subseteq Bits
    BY <1>0, <1>1, OneWordInUse, UsedWordsIs, WordAssumption DEF BitmapInv, Bits
  <2>3. UsedWords' = UsedWords /\ Words' = Words /\ Bits' = Bits /\ Indexes' = Indexes
    BY <2>1 DEF UsedWords, Words, Bits, Indexes
  <2>4. bitfield_1' \subseteq bitusedmask'
    BY <1>1, <2>1, <2>2 DEF BitmapInv, SummariesExact
  <2>5. BitmapInv'
    BY <1>1, <2>1, <2>2, <2>3, <2>4 DEF BitmapInv, SummariesExact
  <2>6. InUse' = {j \in Indexes : j \in bitfield_1'}
    BY <1>1, <2>1, <2>3 DEF InUse, isAllocated
  <2> QED BY <1>0, <1>1, <2>1, <2>5, <2>6 DEF InUse, isAllocated
<1>2. CASE SIZE1 > 1
  <2> DEFINE index1 == WordOf(i)
             word == bitfield_2[index1] \cup {BitOf(i)}
  <2>1. /\ bitfield_empty' = bitfield_empty \ {index1}
        /\ bitfield_2' = [bitfield_2 EXCEPT ![index1] = word]
        /\ bitfield_1' = IF word = Ones THEN bitfield_1 \cup {index1} ELSE bitfield_1
        /\ UNCHANGED <<SIZE1, bitusedmask>>
    BY <1>2 DEF AllocIndex, AllocIndexOneWord, AllocIndexTwoLevel
  <2>2. /\ index1 \in bitusedmask /\ index1 \in Words /\ BitOf(i) \in Bits
        /\ BitOf(i) \notin bitfield_2[index1]
    BY <1>0, <1>2, ElementBit
  <2>3. UsedWords' = UsedWords /\ Words' = Words /\ Bits' = Bits /\ Indexes' = Indexes
    BY <2>1 DEF UsedWords, Words, Bits, Indexes
  <2>4. /\ bitfield_2 \in [Words -> SUBSET Bits] /\ bitfield_2[index1] # Ones
        /\ \A w \in Words : bitfield_2'[w] = IF w = index1 THEN word ELSE bitfield_2[w]
        /\ bitfield_2' \in [Words -> SUBSET Bits]
        /\ word # {}
    BY <2>1, <2>2 DEF BitmapInv, Ones
  <2>5. bitfield_1' = {w \in Words : bitfield_2'[w] = Ones}
    BY <1>2, <2>1, <2>2, <2>4 DEF BitmapInv, SummariesExact
  <2>6. bitusedmask \subseteq Words /\ Words \subseteq Bits
    BY <1>2, UsedWordsIs, ShapeFacts, WordAssumption DEF BitmapInv, Words, Bits
  <2>7. bitfield_empty' = {w \in bitusedmask : bitfield_2'[w] = {}}
    BY <1>2, <2>1, <2>2, <2>4, <2>6 DEF BitmapInv, SummariesExact
  <2>8. \A w \in Words \ bitusedmask : bitfield_2'[w] = {}
    BY <1>2, <2>2, <2>4 DEF BitmapInv, SummariesExact
  <2>9. SummariesExact'
    BY <1>2, <2>1, <2>3, <2>5, <2>7, <2>8 DEF SummariesExact, Ones
  <2>10. BitmapInv'
    BY <2>1, <2>3, <2>4, <2>5, <2>6, <2>7, <2>9 DEF BitmapInv
  <2>11. ASSUME NEW j \in Indexes PROVE j \in InUse' <=> j \in InUse \cup {i}
    <3>1. WordOf(j) \in Words /\ BitOf(j) \in Bits /\ IndexOf(WordOf(j), BitOf(j)) = j
          /\ (j \in InUse <=> BitOf(j) \in bitfield_2[WordOf(j)])
      BY <1>2, ElementBit
    <3>2. j \in InUse' <=> BitOf(j) \in bitfield_2'[WordOf(j)]
      BY <1>2, <2>1, <2>3 DEF InUse, isAllocated, WordOf, BitOf
    <3>3. IndexOf(WordOf(i), BitOf(i)) = i
      BY <1>0, <1>2, ElementBit
    <3>4. j = i <=> WordOf(j) = index1 /\ BitOf(j) = BitOf(i)
      BY <3>1, <3>3
    <3> QED BY <2>4, <3>1, <3>2, <3>4
  <2>12. InUse' \subseteq Indexes /\ InUse \subseteq Indexes
    BY <2>3 DEF InUse
  <2> QED BY <1>0, <2>10, <2>11, <2>12
<1> QED BY <1>1, <1>2, ShapeFacts DEF BitmapInv

(* DeallocIndex of an element in use takes it out of use, and nothing      *)
(* else, and isNowEmpty tells whether it was the last.                     *)
LEMMA DeallocIndexStep ==
  ASSUME BitmapInv, NEW i \in InUse, DeallocIndex(i), shape' = shape
  PROVE  /\ BitmapInv' /\ InUse' = InUse \ {i}
         /\ ~ NotAllocated(i) /\ (isNowEmpty(i) <=> InUse = {i})
<1>0. i \in Indexes
  BY DEF InUse
<1>1. CASE SIZE1 = 1
  <2>1. i \in bitfield_1 /\ ~ NotAllocated(i)
    BY <1>1, OneWordInUse DEF NotAllocated, isAllocated
  <2>2. /\ bitfield_1' = bitfield_1 \ {i}
        /\ UNCHANGED <<SIZE1, bitusedmask, bitfield_empty, bitfield_2>>
    BY <1>1, <2>1 DEF DeallocIndex, DeallocIndexOneWord, DeallocIndexTwoLevel
  <2>3. UsedWords' = UsedWords /\ Words' = Words /\ Bits' = Bits /\ Indexes' = Indexes
    BY <2>2 DEF UsedWords, Words, Bits, Indexes
  <2>4. bitfield_1' \subseteq bitusedmask'
    BY <1>1, <2>2 DEF BitmapInv, SummariesExact
  <2>5. BitmapInv'
    BY <1>1, <2>2, <2>3, <2>4 DEF BitmapInv, SummariesExact
  <2>6. InUse' = {j \in Indexes : j \in bitfield_1'}
    BY <1>1, <2>2, <2>3 DEF InUse, isAllocated
  <2>7. InUse' = InUse \ {i}
    BY <1>0, <1>1, <2>2, <2>6 DEF InUse, isAllocated
  <2>8. isNowEmpty(i) <=> InUse = {i}
    BY <1>1, <2>1, OneWordInUse DEF isNowEmpty, BitmapInv, SummariesExact
  <2> QED BY <2>1, <2>5, <2>7, <2>8
<1>2. CASE SIZE1 > 1
  <2> DEFINE index1 == WordOf(i)
             word == bitfield_2[index1] \ {BitOf(i)}
  <2>1. /\ index1 \in bitusedmask /\ index1 \in Words /\ BitOf(i) \in Bits
        /\ BitOf(i) \in bitfield_2[index1]
    BY <1>0, <1>2, ElementBit
  <2>2. ~ NotAllocated(i)
    BY <1>2, <2>1 DEF NotAllocated, isAllocated, BitmapInv, SummariesExact
  <2>3. /\ bitfield_1' = bitfield_1 \ {index1}
        /\ bitfield_2' = [bitfield_2 EXCEPT ![index1] = word]
        /\ bitfield_empty' = IF word = {} THEN bitfield_empty \cup {index1} ELSE bitfield_empty
        /\ UNCHANGED <<SIZE1, bitusedmask>>
    BY <1>2, <2>2 DEF DeallocIndex, DeallocIndexOneWord, DeallocIndexTwoLevel
  <2>4. UsedWords' = UsedWords /\ Words' = Words /\ Bits' = Bits /\ Indexes' = Indexes
    BY <2>3 DEF UsedWords, Words, Bits, Indexes
  <2>5. /\ bitfield_2 \in [Words -> SUBSET Bits] /\ word # Ones /\ bitfield_2[index1] # {}
        /\ \A w \in Words : bitfield_2'[w] = IF w = index1 THEN word ELSE bitfield_2[w]
        /\ bitfield_2' \in [Words -> SUBSET Bits]
    BY <2>1, <2>3 DEF BitmapInv, Ones
  <2>6. bitfield_1' = {w \in Words : bitfield_2'[w] = Ones}
    BY <1>2, <2>1, <2>3, <2>5 DEF BitmapInv, SummariesExact
  <2>7. bitusedmask \subseteq Words /\ Words \subseteq Bits
    BY <1>2, UsedWordsIs, ShapeFacts, WordAssumption DEF BitmapInv, Words, Bits
  <2>8. bitfield_empty' = {w \in bitusedmask : bitfield_2'[w] = {}}
    BY <1>2, <2>1, <2>3, <2>5, <2>7 DEF BitmapInv, SummariesExact
  <2>9. \A w \in Words \ bitusedmask : bitfield_2'[w] = {}
    BY <1>2, <2>1, <2>5 DEF BitmapInv, SummariesExact
  <2>10. SummariesExact'
    BY <1>2, <2>3, <2>4, <2>6, <2>8, <2>9 DEF SummariesExact, Ones
  <2>11. BitmapInv'
    BY <2>3, <2>4, <2>5, <2>6, <2>7, <2>8, <2>10 DEF BitmapInv
  <2>12. ASSUME NEW j \in Indexes PROVE j \in InUse' <=> j \in InUse \ {i}
    <3>1. WordOf(j) \in Words /\ BitOf(j) \in Bits /\ IndexOf(WordOf(j), BitOf(j)) = j
          /\ (j \in InUse <=> BitOf(j) \in bitfield_2[WordOf(j)])
      BY <1>2, ElementBit
    <3>2. j \in InUse' <=> BitOf(j) \in bitfield_2'[WordOf(j)]
      BY <1>2, <2>3, <2>4 DEF InUse, isAllocated, WordOf, BitOf
    <3>3. IndexOf(WordOf(i), BitOf(i)) = i
      BY <1>0, <1>2, ElementBit
    <3>4. j = i <=> WordOf(j) = index1 /\ BitOf(j) = BitOf(i)
      BY <3>1, <3>3
    <3> QED BY <2>5, <3>1, <3>2, <3>4
  <2>13. InUse' = InUse \ {i}
    <3>1. InUse' \subseteq Indexes /\ InUse \subseteq Indexes
      BY <2>4 DEF InUse
    <3> QED BY <2>12, <3>1
  <2>14. isNowEmpty(i) <=> \A w \in bitusedmask : bitfield_2'[w] = {}
    <3>1. isNowEmpty(i) <=> bitfield_empty' \cap bitusedmask = bitusedmask
      BY <1>2, <2>3 DEF isNowEmpty
    <3> QED BY <2>8, <3>1
  <2>15. (\A w \in bitusedmask : bitfield_2'[w] = {}) <=> InUse' = {}
    <3>1. ASSUME \A w \in bitusedmask : bitfield_2'[w] = {}, NEW j \in Indexes PROVE j \notin InUse'
      <4>1. WordOf(j) \in bitusedmask
        BY <1>2, ElementBit
      <4> QED BY <1>2, <2>3, <2>4, <3>1, <4>1 DEF InUse, isAllocated, WordOf, BitOf
    <3>2. ASSUME InUse' = {}, NEW w \in bitusedmask, NEW b \in bitfield_2'[w] PROVE FALSE
      <4>1. b \in Bits
        BY <2>5, <2>7
      <4>2. IndexOf(w, b) \in Indexes
        BY <1>2, <4>1, UsedBit
      <4>3. w \in Nat /\ WordOf(IndexOf(w, b)) = w /\ BitOf(IndexOf(w, b)) = b
        BY <2>7, <4>1, WordAndBit DEF Words
      <4>4. IndexOf(w, b) \in InUse'
        BY <1>2, <2>3, <2>4, <3>2, <4>2, <4>3 DEF InUse, isAllocated, WordOf, BitOf
      <4> QED BY <3>2, <4>4
    <3>3. InUse' \subseteq Indexes
      BY <2>4 DEF InUse
    <3> QED BY <3>1, <3>2, <3>3
  <2> QED BY <2>2, <2>11, <2>13, <2>14, <2>15
<1> QED BY <1>1, <1>2, ShapeFacts DEF BitmapInv

-----------------------------------------------------------------------------
(* The chunk: what the invariant says of addresses and flags.              *)

AddressOf(i) == shape.elementSize * i

(* Elements and addresses correspond one to one; an address is inside the  *)
(* block, and ElementIndex takes it back to its element.                   *)
LEMMA AddressFacts ==
  ASSUME shape \in Shapes
  PROVE  /\ \A i \in Indexes : /\ ElementIndex(AddressOf(i)) = i
                               /\ AddressOf(i) \in Nat /\ AddressOf(i) < shape.memorysize
         /\ \A i, j \in Indexes : AddressOf(i) = AddressOf(j) => i = j
         /\ Addresses = {AddressOf(i) : i \in Indexes}
         /\ Indexes # {} /\ Indexes \subseteq Nat
<1>1. /\ shape.elementSize \in Nat \ {0} /\ shape.elementCount \in Nat \ {0}
      /\ shape.elementCount * shape.elementSize <= shape.memorysize /\ shape.memorysize \in Nat
  BY ShapeFacts
<1>2. Indexes # {} /\ Indexes \subseteq Nat
  BY <1>1 DEF Indexes
<1>3. ASSUME NEW i \in Indexes
      PROVE  /\ ElementIndex(AddressOf(i)) = i
             /\ AddressOf(i) \in Nat /\ AddressOf(i) < shape.memorysize
  <2>1. i \in Nat /\ i < shape.elementCount
    BY <1>1, <1>3 DEF Indexes
  <2>2. shape.elementSize * i < shape.elementSize * shape.elementCount
        /\ (shape.elementSize * i) \div shape.elementSize = i
    BY <1>1, <2>1, ProductLess
  <2>3. shape.elementSize * shape.elementCount = shape.elementCount * shape.elementSize
        /\ shape.elementSize * i \in Nat /\ shape.elementSize * shape.elementCount \in Nat
    BY <1>1, <2>1
  <2> QED BY <1>1, <2>2, <2>3 DEF AddressOf, ElementIndex
<1>4. \A i, j \in Indexes : AddressOf(i) = AddressOf(j) => i = j
  BY <1>3
<1>5. Addresses = {AddressOf(i) : i \in Indexes}
  BY DEF Addresses, AddressOf, Indexes
<1> QED BY <1>2, <1>3, <1>4, <1>5

(* With one element, at 0, an AnySize chunk has one address.               *)
LEMMA AnySizeAddress ==
  ASSUME shape \in Shapes, shape.kind = "AnySize"
  PROVE  Addresses = {0}
<1>1. shape.elementCount = 1 /\ shape.elementSize \in Nat
  BY ShapeFacts
<1>2. 0 .. shape.elementCount - 1 = {0} /\ shape.elementSize * 0 = 0
  BY <1>1
<1> QED BY <1>2 DEF Addresses

(* FlagsExact, and the buffers held are at addresses of the chunk.         *)
LEMMA FlagsFromInv ==
  ASSUME ChunkInv
  PROVE  FlagsExact /\ DOMAIN held \subseteq Addresses /\ useCount \in 0 .. shape.elementCount
<1>1. IsFiniteSet(DOMAIN held) /\ useCount = Cardinality(DOMAIN held) /\ useCount \in Nat
  BY FS_CardinalityType DEF ChunkInv, HeldInv
<1>2. empty <=> DOMAIN held = {}
  BY <1>1, FS_EmptySet DEF empty
<1>3. DOMAIN held \subseteq Addresses /\ (full <=> DOMAIN held = Addresses)
  <2>1. CASE shape.kind = "AnySize"
    BY <1>2, <2>1, AnySizeAddress DEF ChunkInv, BitmapInv, HeldInv, full, empty
  <2>2. CASE shape.kind # "AnySize"
    <3>1. DOMAIN held = {AddressOf(i) : i \in InUse} /\ InUse \subseteq Indexes
      BY <2>2 DEF ChunkInv, HeldInv, AddressOf, InUse
    <3>2. /\ \A i, j \in Indexes : AddressOf(i) = AddressOf(j) => i = j
          /\ Addresses = {AddressOf(i) : i \in Indexes}
      BY AddressFacts DEF ChunkInv, BitmapInv
    <3>3. full <=> InUse = Indexes
      BY <2>2, FullIsFull DEF full, ChunkInv
    <3>4. ASSUME DOMAIN held = Addresses, NEW i \in Indexes PROVE i \in InUse
      <4>1. PICK j \in InUse : AddressOf(i) = AddressOf(j)
        BY <3>1, <3>2, <3>4
      <4> QED BY <3>1, <3>2, <4>1
    <3> QED BY <3>1, <3>2, <3>3, <3>4
  <2> QED BY <2>1, <2>2
<1>4. useCount <= shape.elementCount
  <2>1. shape.elementCount \in Nat \ {0} /\ Addresses = {AddressOf(i) : i \in Indexes}
    BY ShapeFacts, AddressFacts DEF ChunkInv, BitmapInv
  <2>2. [i \in Indexes |-> AddressOf(i)] \in Surjection(Indexes, Addresses)
    BY <2>1 DEF Surjection
  <2>3. IsFiniteSet(Indexes) /\ Cardinality(Indexes) = shape.elementCount
    <3>1. 0 \in Int /\ shape.elementCount - 1 \in Int
      BY <2>1
    <3>2. /\ IsFiniteSet(0 .. shape.elementCount - 1)
          /\ Cardinality(0 .. shape.elementCount - 1) =
               IF 0 > shape.elementCount - 1 THEN 0 ELSE shape.elementCount - 1 - 0 + 1
      BY <3>1, FS_Interval
    <3> QED BY <2>1, <3>2 DEF Indexes
  <2>4. IsFiniteSet(Addresses) /\ Cardinality(Addresses) <= shape.elementCount
    BY <2>2, <2>3, FS_Surjection
  <2>5. Cardinality(DOMAIN held) <= Cardinality(Addresses)
    BY <1>3, <2>4, FS_Subset
  <2> QED BY <1>1, <2>1, <2>4, <2>5, FS_CardinalityType
<1>5. useCount \in 0 .. shape.elementCount
  BY <1>1, <1>4, ShapeFacts DEF ChunkInv, BitmapInv
<1> QED BY <1>1, <1>2, <1>3, <1>5 DEF FlagsExact

-----------------------------------------------------------------------------
(* Numbers and their bits.  PowerOfTwo is a recursive function, which is a *)
(* CHOOSE to the prover: that there is one comes first.                    *)

(* g doubles from 1 at 0 up to n.                                          *)
Doubles(g, n) == g[0] = 1 /\ \A i \in 1 .. n : g[i] = 2 * g[i - 1]

(* Two functions that double agree.                                        *)
LEMMA DoublesUnique ==
  ASSUME NEW g, NEW h, NEW n \in Nat, NEW m \in Nat, Doubles(g, n), Doubles(h, m),
         NEW k \in Nat, k <= n, k <= m
  PROVE  g[k] = h[k]
<1> DEFINE Bad == {i \in 0 .. k : g[i] # h[i]}
<1>1. ASSUME Bad # {} PROVE FALSE
  <2>1. Bad \in SUBSET Nat
    OBVIOUS
  <2>2. PICK i \in Bad : \A j \in Bad : i <= j
    <3> HIDE DEF Bad
    <3> QED BY <1>1, <2>1, MinOfNaturals
  <2>3. i \in 0 .. k /\ g[i] # h[i]
    OBVIOUS
  <2>4. i # 0
    BY <2>3 DEF Doubles
  <2>5. i \in 1 .. n /\ i \in 1 .. m /\ i - 1 \in 0 .. k
    BY <2>3, <2>4
  <2>6. i - 1 \notin Bad
    BY <2>2, <2>3
  <2>7. g[i - 1] = h[i - 1]
    BY <2>5, <2>6
  <2>8. g[i] = 2 * g[i - 1] /\ h[i] = 2 * h[i - 1]
    BY <2>5 DEF Doubles
  <2> QED BY <2>3, <2>7, <2>8
<1> QED BY <1>1

(* There is a function that doubles, however far.                          *)
LEMMA DoublesExists ==
  ASSUME NEW n \in Nat
  PROVE  \E g : Doubles(g, n)
<1> DEFINE Bad == {i \in Nat : ~ \E g : Doubles(g, i)}
<1>1. ASSUME Bad # {} PROVE FALSE
  <2>1. PICK i \in Bad : \A j \in Bad : i <= j
    <3>1. Bad \in SUBSET Nat
      OBVIOUS
    <3> HIDE DEF Bad
    <3> QED BY <1>1, <3>1, MinOfNaturals
  <2>2. i \in Nat /\ ~ \E g : Doubles(g, i)
    OBVIOUS
  <2>3. i # 0
    <3>1. Doubles([j \in {0} |-> 1], 0)
      BY DEF Doubles
    <3> QED BY <2>2, <3>1
  <2>4. i - 1 \in Nat /\ i - 1 \notin Bad
    BY <2>1, <2>2, <2>3
  <2>5. PICK g : Doubles(g, i - 1)
    BY <2>4
  <2> DEFINE h == [j \in 0 .. i |-> IF j = i THEN 2 * g[i - 1] ELSE g[j]]
  <2>6. Doubles(h, i)
    <3>1. h[0] = 1
      BY <2>2, <2>3, <2>5 DEF Doubles
    <3>2. ASSUME NEW j \in 1 .. i PROVE h[j] = 2 * h[j - 1]
      <4>1. h[j - 1] = g[j - 1]
        BY <2>2, <3>2
      <4>2. j # i => h[j] = g[j] /\ j \in 1 .. i - 1
        BY <2>2, <3>2
      <4>3. j = i => h[j] = 2 * g[i - 1]
        BY <2>2
      <4> QED BY <2>5, <4>1, <4>2, <4>3 DEF Doubles
    <3> HIDE DEF h
    <3> QED BY <3>1, <3>2 DEF Doubles
  <2> QED BY <2>2, <2>6
<1> QED BY <1>1

(* The powers of two are what their definition says.                       *)
LEMMA PowerEquation ==
  \A b \in Nat : PowerOfTwo[b] = IF b = 0 THEN 1 ELSE 2 * PowerOfTwo[b - 1]
<1> DEFINE upTo(n) == CHOOSE g : Doubles(g, n)
           f == [n \in Nat |-> upTo(n)[n]]
<1>1. \A n \in Nat : Doubles(upTo(n), n)
  BY DoublesExists
<1>2. ASSUME NEW n \in Nat PROVE f[n] = IF n = 0 THEN 1 ELSE 2 * f[n - 1]
  <2>1. f[n] = upTo(n)[n] /\ Doubles(upTo(n), n)
    BY <1>1
  <2>2. CASE n = 0
    BY <2>1, <2>2 DEF Doubles
  <2>3. CASE n # 0
    <3>1. n - 1 \in Nat /\ n \in 1 .. n
      BY <2>3
    <3>2. f[n - 1] = upTo(n - 1)[n - 1] /\ Doubles(upTo(n - 1), n - 1)
      BY <1>1, <3>1
    <3> HIDE DEF upTo, f
    <3>3. upTo(n)[n - 1] = upTo(n - 1)[n - 1]
      BY <2>1, <3>1, <3>2, DoublesUnique
    <3>4. upTo(n)[n] = 2 * upTo(n)[n - 1]
      BY <2>1, <3>1 DEF Doubles
    <3> QED BY <2>1, <2>3, <3>2, <3>3, <3>4
  <2> QED BY <2>2, <2>3
<1>3. f = [b \in Nat |-> IF b = 0 THEN 1 ELSE 2 * f[b - 1]]
  <2>1. f = [b \in Nat |-> f[b]]
    OBVIOUS
  <2> HIDE DEF f
  <2> QED BY <1>2, <2>1
<1> HIDE DEF f
<1>4. PowerOfTwo = [b \in Nat |-> IF b = 0 THEN 1 ELSE 2 * PowerOfTwo[b - 1]]
  BY <1>3 DEF PowerOfTwo
<1> HIDE DEF PowerOfTwo
<1> QED BY <1>4

(* They are positive.                                                      *)
LEMMA PowerPositive ==
  \A b \in Nat : PowerOfTwo[b] \in Nat \ {0}
<1> DEFINE Bad == {b \in Nat : PowerOfTwo[b] \notin Nat \ {0}}
<1>1. ASSUME Bad # {} PROVE FALSE
  <2>1. PICK b \in Bad : \A c \in Bad : b <= c
    <3>1. Bad \in SUBSET Nat
      OBVIOUS
    <3> HIDE DEF Bad
    <3> QED BY <1>1, <3>1, MinOfNaturals
  <2>2. b \in Nat /\ PowerOfTwo[b] \notin Nat \ {0}
    OBVIOUS
  <2>3. b # 0
    BY <2>2, PowerEquation
  <2>4. b - 1 \in Nat /\ b - 1 \notin Bad
    BY <2>1, <2>2, <2>3
  <2>5. PowerOfTwo[b - 1] \in Nat \ {0}
    BY <2>4
  <2> QED BY <2>2, <2>3, <2>5, PowerEquation
<1> QED BY <1>1

(* One bit more.                                                           *)
LEMMA RemainderOfDouble ==
  ASSUME NEW n \in Nat, NEW p \in Nat \ {0}
  PROVE  n % (2 * p) = p * ((n \div p) % 2) + (n % p)
<1>1. PICK q \in Int : q = n \div p
  OBVIOUS
<1>2. PICK r \in 0 .. p - 1 : r = n % p
  BY Remainder
<1>3. PICK h \in Int : h = q \div 2
  BY <1>1
<1>4. PICK c \in 0 .. 1 : c = q % 2
  BY <1>1, Remainder
<1>5. n = p * q + r /\ q = 2 * h + c
  BY <1>1, <1>2, <1>3, <1>4
<1>6. n = h * (2 * p) + (p * c + r)
  <2>1. p * (2 * h + c) = h * (2 * p) + p * c
    BY Z3
  <2> QED BY <1>5, <2>1
<1>7. p * c + r \in 0 .. (2 * p) - 1 /\ 2 * p \in Nat \ {0}
  <2>1. p * c = IF c = 0 THEN 0 ELSE p
    BY <1>4
  <2> QED BY <1>2, <2>1
<1>8. n % (2 * p) = p * c + r
  <2> DEFINE m == 2 * p
             s == p * c + r
  <2>1. m \in Nat \ {0} /\ s \in 0 .. m - 1 /\ n = h * m + s
    BY <1>6, <1>7
  <2> HIDE DEF m, s
  <2>2. n % m = s
    BY <2>1, OneRemainder
  <2> QED BY <2>2 DEF m, s
<1> QED BY <1>1, <1>2, <1>4, <1>8

LowBits(n, k) == {b \in 0 .. k - 1 : (n \div PowerOfTwo[b]) % 2 = 1}

(* The low bits of a number are the number, as far as they reach.          *)
LEMMA NumberOfLowBits ==
  ASSUME NEW n \in Nat, NEW k \in Nat
  PROVE  NumberOf(LowBits(n, k)) = n % PowerOfTwo[k]
<1> DEFINE Bad == {i \in Nat : SumOf(PowerOfTwo, LowBits(n, i)) # n % PowerOfTwo[i]}
<1>1. ASSUME Bad # {} PROVE FALSE
  <2>1. PICK i \in Bad : \A j \in Bad : i <= j
    <3>1. Bad \in SUBSET Nat
      OBVIOUS
    <3> HIDE DEF Bad
    <3> QED BY <1>1, <3>1, MinOfNaturals
  <2>2. i \in Nat /\ SumOf(PowerOfTwo, LowBits(n, i)) # n % PowerOfTwo[i]
    OBVIOUS
  <2>3. i # 0
    <3>1. LowBits(n, 0) = {} /\ PowerOfTwo[0] = 1 /\ n % 1 = 0
      BY PowerEquation DEF LowBits
    <3> SUFFICES ASSUME i = 0 PROVE FALSE
      OBVIOUS
    <3>2. SumOf(PowerOfTwo, LowBits(n, 0)) # n % PowerOfTwo[0]
      BY <2>2
    <3> QED BY <3>1, <3>2, SumEmpty
  <2>4. PICK j \in Nat : i = j + 1
    BY <2>2, <2>3
  <2>5. SumOf(PowerOfTwo, LowBits(n, j)) = n % PowerOfTwo[j]
    BY <2>1, <2>4
  <2> DEFINE bit == (n \div PowerOfTwo[j]) % 2
             low == LowBits(n, j)
  <2>6. PowerOfTwo[j] \in Nat \ {0} /\ PowerOfTwo[i] = 2 * PowerOfTwo[j]
    BY <2>4, PowerEquation, PowerPositive
  <2>7. bit \in 0 .. 1
    <3>1. PICK q \in Int : q = n \div PowerOfTwo[j]
      BY <2>6
    <3>2. q % 2 \in 0 .. 1
      BY <3>1
    <3> QED BY <3>1, <3>2
  <2>8. LowBits(n, i) = IF bit = 1 THEN low \cup {j} ELSE low
    <3>1. 0 .. i - 1 = (0 .. j - 1) \cup {j}
      BY <2>4
    <3> QED BY <3>1 DEF LowBits
  <2>9. IsFiniteSet(low) /\ j \notin low /\ \A b \in low : PowerOfTwo[b] \in Nat
    <3>1. IsFiniteSet(0 .. j - 1) /\ LowBits(n, j) \subseteq 0 .. j - 1
      BY FS_Interval DEF LowBits
    <3>2. j \notin 0 .. j - 1 /\ \A b \in 0 .. j - 1 : PowerOfTwo[b] \in Nat
      BY PowerPositive
    <3> QED BY <3>1, <3>2, FS_Subset
  <2>10. SumOf(PowerOfTwo, LowBits(n, i)) = PowerOfTwo[j] * bit + (n % PowerOfTwo[j])
    <3> DEFINE s == SumOf(PowerOfTwo, low)
    <3>1. SumOf(PowerOfTwo, low \cup {j}) = PowerOfTwo[j] + s
      <4> HIDE DEF low
      <4> QED BY <2>6, <2>9, SumAdd
    <3>2. s = n % PowerOfTwo[j] /\ s \in Nat
      <4>1. PICK p \in Nat \ {0} : p = PowerOfTwo[j]
        BY <2>6
      <4>2. n % p \in 0 .. p - 1
        BY Remainder
      <4> QED BY <2>5, <4>1, <4>2
    <3>3. CASE bit = 1
      BY <2>6, <2>8, <3>1, <3>2, <3>3
    <3>4. CASE bit = 0
      <4>1. SumOf(PowerOfTwo, LowBits(n, i)) = s
        BY <2>8, <3>4
      <4> HIDE DEF low, bit, s
      <4> QED BY <2>6, <3>2, <3>4, <4>1
    <3> QED BY <2>7, <3>3, <3>4
  <2>11. n % (2 * PowerOfTwo[j]) = PowerOfTwo[j] * bit + (n % PowerOfTwo[j])
    BY <2>6, RemainderOfDouble
  <2> QED BY <2>2, <2>6, <2>10, <2>11
<1>2. SumOf(PowerOfTwo, LowBits(n, k)) = n % PowerOfTwo[k]
  BY <1>1
<1> QED BY <1>2 DEF NumberOf, SumOf

(* A field of k bits holds every number below 2^k.                         *)
LEMMA FieldHolds ==
  ASSUME NEW k \in 0 .. WordBits, NEW n \in Nat, n < PowerOfTwo[k]
  PROVE  NumberOf(BitsOf(n) \cap MASK(k)) = n
<1>1. BitsOf(n) \cap MASK(k) = LowBits(n, k)
  BY WordAssumption DEF BitsOf, MASK, LowBits, Bits
<1>2. n % PowerOfTwo[k] = n
  <2>1. PowerOfTwo[k] \in Nat \ {0} /\ n = 0 * PowerOfTwo[k] + n /\ n \in 0 .. PowerOfTwo[k] - 1
    BY PowerPositive, WordAssumption
  <2> HIDE DEF PowerOfTwo
  <2> QED BY <2>1, OneRemainder
<1>3. NumberOf(LowBits(n, k)) = n % PowerOfTwo[k]
  BY NumberOfLowBits
<1> QED BY <1>1, <1>2, <1>3

-----------------------------------------------------------------------------
(* The fields of WastedBytesCounter.                                       *)

(* The bits of wastedBytesCount that getWastedBytes reads.                 *)
Field(i) == ShiftRight(wastedBytesCount[blockNumber(i)], inblockAddress(i))
              \cap MASK(shape.BITS_PER_ELEMENT)

(* What getWastedBytes reads of a word, bit by bit.                       *)
LEMMA FieldBit ==
  ASSUME NEW word, NEW a \in Nat, NEW k \in Nat, word \subseteq Bits, NEW b
  PROVE  b \in ShiftRight(word, a) \cap MASK(k) <=> b \in 0 .. k - 1 /\ a + b \in word
<1>1. ASSUME b \in ShiftRight(word, a) \cap MASK(k) PROVE b \in 0 .. k - 1 /\ a + b \in word
  <2>1. PICK c \in word : c >= a /\ b = c - a
    BY <1>1 DEF ShiftRight
  <2>2. c \in Int /\ a + b = c
    BY <2>1, WordAssumption DEF Bits
  <2> QED BY <1>1, <2>1, <2>2 DEF MASK
<1>2. ASSUME b \in 0 .. k - 1, a + b \in word PROVE b \in ShiftRight(word, a) \cap MASK(k)
  <2>1. a + b >= a /\ (a + b) - a = b
    BY <1>2
  <2> QED BY <1>2, <2>1 DEF ShiftRight, MASK
<1> QED BY <1>1, <1>2

(* Fields of k bits that fill their words: which word and place field i    *)
(* of n has.                                                               *)
LEMMA FieldArithmetic ==
  ASSUME NEW k \in 1 .. WordBits, WordBits % k = 0, NEW n \in Nat, (n * k) % WordBits = 0,
         NEW i \in 0 .. n - 1, NEW e, e = WordBits \div k
  PROVE  /\ e \in Nat \ {0} /\ (i % e) * k \in Nat /\ (i % e) * k + k <= WordBits
         /\ i \div e \in 0 .. ((n * k) \div WordBits) - 1
<1>1. WordBits \in Nat \ {0} /\ k \in Nat \ {0}
  BY WordAssumption
<1>2. e \in Nat \ {0} /\ WordBits = e * k
  <2>1. PICK q \in Nat, r \in 0 .. k - 1 : q = e /\ r = WordBits % k /\ WordBits = q * k + r
    BY <1>1, Division
  <2>2. r = 0 /\ WordBits = e * k /\ e \in Nat
    BY <1>1, <2>1
  <2>3. e = 0 => e * k = 0
    BY <1>1
  <2> QED BY <1>1, <2>2, <2>3
<1>3. PICK w \in Nat : w = (n * k) \div WordBits /\ n * k = w * WordBits
  <2>1. PICK m \in Nat : m = n * k
    BY <1>1
  <2>2. PICK q \in Nat, r \in 0 .. WordBits - 1 :
          q = m \div WordBits /\ r = m % WordBits /\ m = q * WordBits + r
    BY <1>1, <2>1, Division
  <2> QED BY <1>1, <2>1, <2>2
<1>4. n = w * e
  <2>1. k * n = k * (w * e)
    <3>1. n * k = w * (e * k)
      BY <1>2, <1>3
    <3>2. k * n = n * k /\ w * (e * k) = k * (w * e)
      BY <1>1, <1>2, <1>3, Z3
    <3> QED BY <3>1, <3>2
  <2>2. w * e \in Nat
    BY <1>2, <1>3
  <2> QED BY <1>1, <2>1, <2>2, ProductLess
<1>5. PICK q \in Nat, r \in 0 .. e - 1 : q = i \div e /\ r = i % e /\ i = q * e + r
  <2>1. i \in Nat
    OBVIOUS
  <2> QED BY <1>2, <2>1, Division
<1>6. q < w
  <2>1. ASSUME q >= w PROVE FALSE
    <3>1. q * e >= w * e
      BY <1>2, <1>3, <1>5, <2>1, Z3
    <3> QED BY <1>2, <1>3, <1>4, <1>5, <3>1
  <2> QED BY <1>3, <1>5, <2>1
<1>7. r * k \in Nat /\ r * k + k <= WordBits
  <2>1. r \in Nat /\ r + 1 <= e
    BY <1>2, <1>5
  <2>2. (r + 1) * k <= e * k
    BY <1>1, <1>2, <2>1, Z3
  <2>3. (r + 1) * k = r * k + k /\ r * k \in Nat
    BY <1>1, <2>1, Z3
  <2> QED BY <1>2, <2>2, <2>3
<1> QED BY <1>2, <1>3, <1>5, <1>6, <1>7

(* A field lies in one word of the counters.                               *)
LEMMA FieldPlace ==
  ASSUME shape \in Shapes, shape.kind = "Template", NEW i \in Indexes
  PROVE  /\ shape.BITS_PER_ELEMENT \in 1 .. WordBits /\ ELEMENTS_PER_BLOCK \in Nat \ {0}
         /\ blockNumber(i) \in 0 .. BUFFER_SIZE(shape) - 1
         /\ inblockAddress(i) \in Nat
         /\ inblockAddress(i) + shape.BITS_PER_ELEMENT <= WordBits
<1>1. PICK k \in 1 .. WordBits : k = shape.BITS_PER_ELEMENT /\ WordBits % k = 0
  BY ShapesAssumption
<1>2. PICK n \in Nat : n = shape.ELEMENT_COUNT /\ (n * k) % WordBits = 0 /\ i \in 0 .. n - 1
  BY <1>1, ShapesAssumption DEF Indexes
<1>3. PICK e : e = WordBits \div k
  OBVIOUS
<1>4. /\ e \in Nat \ {0} /\ (i % e) * k \in Nat /\ (i % e) * k + k <= WordBits
      /\ i \div e \in 0 .. ((n * k) \div WordBits) - 1
  BY <1>1, <1>2, <1>3, FieldArithmetic
<1> QED BY <1>1, <1>2, <1>3, <1>4 DEF blockNumber, inblockAddress, BUFFER_SIZE, ELEMENTS_PER_BLOCK

(* Two fields of a word do not overlap.                                    *)
LEMMA FieldsApart ==
  ASSUME shape \in Shapes, shape.kind = "Template", NEW i \in Indexes, NEW j \in Indexes,
         i # j, blockNumber(i) = blockNumber(j)
  PROVE  \/ inblockAddress(i) + shape.BITS_PER_ELEMENT <= inblockAddress(j)
         \/ inblockAddress(j) + shape.BITS_PER_ELEMENT <= inblockAddress(i)
<1>1. PICK e \in Nat \ {0} : e = ELEMENTS_PER_BLOCK
  BY FieldPlace
<1>2. PICK k \in Nat : k = shape.BITS_PER_ELEMENT
  BY FieldPlace
<1>3. i \in Nat /\ j \in Nat
  BY DEF Indexes
<1>4. PICK q \in Nat, a \in 0 .. e - 1 : q = i \div e /\ a = i % e /\ i = q * e + a
  BY <1>1, <1>3, Division
<1>0. PICK p \in Nat, b \in 0 .. e - 1 : p = j \div e /\ b = j % e /\ j = p * e + b
  BY <1>1, <1>3, Division
<1>5. q = p
  BY <1>0, <1>1, <1>4 DEF blockNumber
<1>6. a # b
  BY <1>0, <1>4, <1>5
<1>7. inblockAddress(i) = a * k /\ inblockAddress(j) = b * k
  BY <1>0, <1>1, <1>2, <1>4 DEF inblockAddress
<1>8. ASSUME NEW x \in Nat, NEW y \in Nat, x < y PROVE x * k + k <= y * k
  <2>1. (x + 1) * k <= y * k
    BY <1>8, Z3
  <2>2. (x + 1) * k = x * k + k
    BY <1>8, Z3
  <2> QED BY <2>1, <2>2
<1>9. a \in Nat /\ b \in Nat
  BY <1>0, <1>1, <1>4
<1>10. a * k + k <= b * k \/ b * k + k <= a * k
  BY <1>6, <1>8, <1>9
<1> QED BY <1>2, <1>7, <1>10

(* setWastedBytes writes its element's field and no other.                 *)
LEMMA SetField ==
  ASSUME shape \in Shapes, shape.kind = "Template", shape' = shape,
         wastedBytesCount \in [0 .. BUFFER_SIZE(shape) - 1 -> SUBSET Bits],
         NEW i \in Indexes, NEW n \in Nat, setWastedBytes(i, n)
  PROVE  /\ wastedBytesCount' \in [0 .. BUFFER_SIZE(shape) - 1 -> SUBSET Bits]
         /\ Field(i)' = BitsOf(n) \cap MASK(shape.BITS_PER_ELEMENT)
         /\ \A j \in Indexes : j # i => Field(j)' = Field(j)
<1>1. PICK k \in Nat : k = shape.BITS_PER_ELEMENT /\ k \in 1 .. WordBits
  BY FieldPlace
<1>2. PICK a \in Nat : a = inblockAddress(i) /\ a + k <= WordBits
  BY <1>1, FieldPlace
<1>3. PICK w \in 0 .. BUFFER_SIZE(shape) - 1 : w = blockNumber(i)
  BY FieldPlace
<1> DEFINE mask == ShiftLeft(MASK(k), a)
           old == wastedBytesCount[w]
           new == (old \ mask) \cup (mask \cap ShiftLeft(BitsOf(n), a))
<1>4. wastedBytesCount' = [wastedBytesCount EXCEPT ![w] = new]
  BY <1>1, <1>2, <1>3 DEF setWastedBytes
<1>5. old \subseteq Bits
  BY <1>3
<1>6. \A x : x \in mask <=> x \in a .. a + k - 1
  <2>1. ASSUME NEW x \in mask PROVE x \in a .. a + k - 1
    BY <1>1, <1>2 DEF ShiftLeft, MASK
  <2>2. ASSUME NEW x \in a .. a + k - 1 PROVE x \in mask
    <3>1. x - a \in 0 .. k - 1 /\ (x - a) + a < WordBits /\ (x - a) + a = x
      BY <1>1, <1>2, WordAssumption
    <3> QED BY <3>1 DEF ShiftLeft, MASK
  <2> QED BY <2>1, <2>2
<1>7. \A b \in 0 .. k - 1 : a + b \in ShiftLeft(BitsOf(n), a) <=> b \in BitsOf(n)
  <2> TAKE b \in 0 .. k - 1
  <2>1. ASSUME a + b \in ShiftLeft(BitsOf(n), a) PROVE b \in BitsOf(n)
    <3>1. PICK c \in BitsOf(n) : c + a = a + b
      BY <2>1 DEF ShiftLeft
    <3>2. c \in Int
      BY WordAssumption DEF BitsOf, Bits
    <3>3. c = b
      BY <1>2, <3>1, <3>2
    <3> QED BY <3>1, <3>3
  <2>2. ASSUME b \in BitsOf(n) PROVE a + b \in ShiftLeft(BitsOf(n), a)
    <3>1. b + a < WordBits /\ b + a = a + b
      BY <1>1, <1>2, WordAssumption
    <3> QED BY <2>2, <3>1 DEF ShiftLeft
  <2> QED BY <2>1, <2>2
<1>8. new \subseteq Bits
  <2>1. mask \subseteq Bits
    BY <1>1, <1>2, <1>6, WordAssumption DEF Bits
  <2> HIDE DEF mask
  <2> QED BY <1>5, <2>1
<1> HIDE DEF mask
<1>9. \A b \in 0 .. k - 1 : a + b \in new <=> b \in BitsOf(n)
  <2> TAKE b \in 0 .. k - 1
  <2>1. a + b \in mask
    BY <1>1, <1>2, <1>6
  <2> QED BY <1>7, <2>1
<1>10. \A x : x \notin a .. a + k - 1 => (x \in new <=> x \in old)
  BY <1>6
<1> HIDE DEF new
<1>11. wastedBytesCount' \in [0 .. BUFFER_SIZE(shape) - 1 -> SUBSET Bits]
  BY <1>4, <1>8
<1>12. \A j \in Indexes :
         Field(j)' = ShiftRight(wastedBytesCount'[blockNumber(j)], inblockAddress(j)) \cap MASK(k)
  BY <1>1 DEF Field, blockNumber, inblockAddress, ELEMENTS_PER_BLOCK, ShiftRight, MASK
<1>13. Field(i)' = BitsOf(n) \cap MASK(k)
  <2>1. Field(i)' = ShiftRight(new, a) \cap MASK(k)
    BY <1>2, <1>3, <1>4, <1>12
  <2>2. ASSUME NEW b PROVE b \in Field(i)' <=> b \in BitsOf(n) \cap MASK(k)
    <3>1. b \in Field(i)' <=> b \in 0 .. k - 1 /\ a + b \in new
      BY <1>8, <2>1, FieldBit
    <3> QED BY <1>9, <3>1 DEF MASK
  <2> QED BY <2>2
<1>14. ASSUME NEW j \in Indexes, j # i PROVE Field(j)' = Field(j)
  <2>1. PICK v \in 0 .. BUFFER_SIZE(shape) - 1 : v = blockNumber(j)
    BY FieldPlace
  <2>2. PICK c \in Nat : c = inblockAddress(j)
    BY FieldPlace
  <2>3. Field(j) = ShiftRight(wastedBytesCount[v], c) \cap MASK(k)
        /\ Field(j)' = ShiftRight(wastedBytesCount'[v], c) \cap MASK(k)
    BY <1>1, <1>12, <2>1, <2>2 DEF Field
  <2>4. CASE v # w
    BY <1>3, <1>4, <2>1, <2>3, <2>4
  <2>5. CASE v = w
    <3>1. a + k <= c \/ c + k <= a
      BY <1>1, <1>2, <1>3, <1>14, <2>1, <2>2, <2>5, FieldsApart
    <3>2. wastedBytesCount'[v] = new /\ wastedBytesCount[v] = old
      BY <1>3, <1>4, <2>5
    <3>3. ASSUME NEW b PROVE b \in Field(j)' <=> b \in Field(j)
      <4>1. b \in Field(j)' <=> b \in 0 .. k - 1 /\ c + b \in new
        BY <1>8, <2>3, <3>2, FieldBit
      <4>2. b \in Field(j) <=> b \in 0 .. k - 1 /\ c + b \in old
        BY <1>5, <2>3, <3>2, FieldBit
      <4>3. b \in 0 .. k - 1 => c + b \notin a .. a + k - 1
        BY <1>1, <3>1
      <4> QED BY <1>10, <4>1, <4>2, <4>3
    <3> QED BY <3>3
  <2> QED BY <2>4, <2>5
<1> QED BY <1>1, <1>11, <1>13, <1>14

-----------------------------------------------------------------------------
(* The steps of a chunk.                                                   *)

(* A new chunk has an empty bitmap, under the mask of its element count.   *)
LEMMA InitStep ==
  ASSUME Init
  PROVE  ChunkInv /\ Chunk!SlotsInit
<1>1. /\ shape \in Shapes /\ held = << >> /\ useCount = 0 /\ DOMAIN held = {}
      /\ anyElementSize = shape.memorysize /\ answer = "new"
      /\ wastedBytesCount = [w \in 0 .. BUFFER_SIZE(shape) - 1 |-> {}]
  BY DEF Init
<1>2. /\ SIZE1 = shape.SIZE1 /\ bitusedmask = UsedMask(UsedWords)
      /\ bitfield_1 = {} /\ bitfield_2 = [w \in Words |-> {}]
      /\ bitfield_empty = IF SIZE1 = 1 THEN {} ELSE Ones \cap bitusedmask
  BY DEF Init, SetElementCount, UsedWords, Words
<1>3. UsedWords \in 1 .. WordBits
  BY <1>1, UsedWordsIs
<1>4. bitusedmask = 0 .. UsedWords - 1 /\ bitusedmask \subseteq Bits
  BY <1>2, <1>3, UsedMaskIs, WordAssumption DEF Bits
<1>5. SIZE1 > 1 => bitusedmask \subseteq Words
  BY <1>1, <1>2, <1>4, UsedWordsIs, ShapeFacts DEF Words
<1>6. Ones # {}
  BY WordAssumption DEF Ones, Bits
<1>7. SIZE1 \in Nat \ {0}
  BY <1>1, <1>2, ShapeFacts
<1>8. SummariesExact
  <2>1. CASE SIZE1 = 1
    BY <1>2, <2>1 DEF SummariesExact
  <2>2. CASE SIZE1 > 1
    <3>1. \A w \in Words : bitfield_2[w] = {}
      BY <1>2
    <3>2. {w \in Words : bitfield_2[w] = Ones} = {}
      BY <1>6, <3>1
    <3>3. bitfield_empty = bitusedmask
      <4>1. bitfield_empty = Bits \cap bitusedmask
        BY <1>2, <2>2 DEF Ones
      <4>2. bitusedmask \subseteq Bits
        BY <1>4
      <4> QED BY <4>1, <4>2, Zenon
    <3>4. {w \in bitusedmask : bitfield_2[w] = {}} = bitusedmask
      BY <1>5, <2>2, <3>1
    <3> QED BY <1>2, <2>2, <3>1, <3>2, <3>3, <3>4 DEF SummariesExact
  <2> QED BY <1>7, <2>1, <2>2
<1>9. BitmapInv
  BY <1>1, <1>2, <1>4, <1>8 DEF BitmapInv
<1>10. InUse = {}
  <2>1. CASE SIZE1 = 1
    BY <1>2, <2>1 DEF InUse, isAllocated
  <2>2. CASE SIZE1 > 1
    BY <1>2, <1>9, <2>2, ElementBit DEF InUse
  <2> QED BY <1>7, <2>1, <2>2
<1>11. HeldInv
  BY <1>1, <1>10, FS_EmptySet DEF HeldInv
<1>12. CountersInv
  BY <1>1, ShapeFacts DEF CountersInv
<1>13. Addresses # {}
  BY <1>1, AddressFacts
<1> QED BY <1>1, <1>9, <1>11, <1>12, <1>13 DEF ChunkInv, Chunk!SlotsInit

(* Words of wasted bytes keep their width.                                 *)
LEMMA SetWastedBytesType ==
  ASSUME ChunkInv, shape.kind = "Template", NEW i \in Nat, NEW size,
         setWastedBytes(i, size)
  PROVE  wastedBytesCount' \in [0 .. BUFFER_SIZE(shape) - 1 -> SUBSET Bits]
<1> DEFINE k == shape.BITS_PER_ELEMENT
<1>1. k \in 1 .. WordBits
  BY ShapesAssumption DEF ChunkInv, BitmapInv
<1>2. ELEMENTS_PER_BLOCK \in Nat \ {0}
  <2>1. WordBits \div k \in Nat /\ WordBits \div k >= 1
    BY <1>1, WordAssumption, Z3
  <2> QED BY <2>1 DEF ELEMENTS_PER_BLOCK
<1>3. inblockAddress(i) \in Nat
  <2>1. i % ELEMENTS_PER_BLOCK \in Nat
    BY <1>2, Remainder
  <2> QED BY <1>1, <2>1 DEF inblockAddress
<1>4. ShiftLeft(MASK(k), inblockAddress(i)) \subseteq Bits
  BY <1>1, <1>3, WordAssumption DEF ShiftLeft, MASK, Bits
<1> QED BY <1>4 DEF setWastedBytes, ChunkInv, CountersInv

(* alloc takes a slot that no buffer has.                                  *)
LEMMA AllocStep ==
  ASSUME ChunkInv, NEW size \in shape.sizes, Alloc(size)
  PROVE  ChunkInv' /\ Chunk!Take
<1> DEFINE i == NextIndex
<1>1. /\ shape.kind # "AnySize" /\ ~ fullBits /\ AllocIndex /\ shape' = shape
      /\ useCount' = useCount + 1 /\ anyElementSize' = anyElementSize /\ answer' = "buffer"
      /\ DOMAIN held' = DOMAIN held \cup {AddressOf(i)}
  BY DEF Alloc, full, Hold, AddressOf
<1>2. shape \in Shapes
  BY DEF ChunkInv, BitmapInv
<1>3. BitmapInv' /\ InUse' = InUse \cup {i}
  BY <1>1, AllocIndexStep DEF ChunkInv
<1>4. i \in Indexes \ InUse /\ i \in Nat
  BY <1>1, <1>2, NextIndexIsFree, AddressFacts DEF ChunkInv
<1>5. DOMAIN held = {AddressOf(j) : j \in InUse} /\ InUse \subseteq Indexes
  BY <1>1 DEF ChunkInv, HeldInv, AddressOf, InUse
<1>6. AddressOf(i) \in Addresses \ DOMAIN held
  BY <1>2, <1>4, <1>5, AddressFacts
<1>7. HeldInv'
  <2>1. IsFiniteSet(DOMAIN held') /\ Cardinality(DOMAIN held') = Cardinality(DOMAIN held) + 1
    BY <1>1, <1>6, FS_AddElement DEF ChunkInv, HeldInv
  <2>2. DOMAIN held' = {AddressOf(j) : j \in InUse'}
    BY <1>1, <1>3, <1>5
  <2>3. DOMAIN held' = {shape'.elementSize * j : j \in InUse'}
    BY <1>1, <2>2 DEF AddressOf
  <2>4. useCount' = Cardinality(DOMAIN held') /\ shape'.kind # "AnySize"
    BY <1>1, <2>1 DEF ChunkInv, HeldInv
  <2> QED BY <2>1, <2>3, <2>4 DEF HeldInv
<1>8. wastedBytesCount' \in [0 .. BUFFER_SIZE(shape) - 1 -> SUBSET Bits]
  <2>1. CASE shape.kind = "Template"
    BY <1>4, <2>1, SetWastedBytesType DEF Alloc
  <2>2. CASE shape.kind # "Template"
    BY <2>2 DEF Alloc, ChunkInv, CountersInv
  <2> QED BY <2>1, <2>2
<1>9. CountersInv'
  BY <1>1, <1>8 DEF ChunkInv, CountersInv
<1>10. Chunk!Take
  BY <1>1, <1>6 DEF Chunk!Take, Addresses
<1> QED BY <1>3, <1>7, <1>9, <1>10 DEF ChunkInv

(* What the bitmap says does not change with its variables.                *)
LEMMA BitmapUnchanged ==
  ASSUME BitmapInv, UNCHANGED <<bitVars, shape>>
  PROVE  BitmapInv' /\ InUse' = InUse /\ Addresses' = Addresses
BY DEF bitVars, BitmapInv, SummariesExact, InUse, Indexes, isAllocated, UsedWords, Words, Bits,
       Ones, BitOf, WordOf, Addresses

(* alloc of an empty AnySize chunk takes its one slot.                     *)
LEMMA AllocAnySizeStep ==
  ASSUME ChunkInv, NEW size \in shape.sizes, AllocAnySize(size)
  PROVE  ChunkInv' /\ Chunk!Take
<1>1. /\ shape.kind = "AnySize" /\ empty /\ useCount' = useCount + 1 /\ anyElementSize' = size
      /\ answer' = "buffer" /\ DOMAIN held' = DOMAIN held \cup {0}
      /\ UNCHANGED <<bitVars, shape, wastedBytesCount>> /\ shape' = shape
  BY DEF AllocAnySize, Hold
<1>2. shape \in Shapes
  BY DEF ChunkInv, BitmapInv
<1>3. DOMAIN held = {} /\ IsFiniteSet(DOMAIN held) /\ useCount = Cardinality(DOMAIN held)
  BY <1>1, FlagsFromInv DEF FlagsExact, ChunkInv, HeldInv
<1>4. BitmapInv' /\ Addresses' = Addresses
  BY <1>1, BitmapUnchanged DEF ChunkInv
<1>5. HeldInv'
  <2>1. DOMAIN held' = {0} /\ IsFiniteSet(DOMAIN held') /\ Cardinality(DOMAIN held') = 1
    BY <1>1, <1>3, FS_Singleton
  <2>2. useCount' = 1
    BY <1>1, <1>3, FS_EmptySet
  <2> QED BY <1>1, <2>1, <2>2 DEF HeldInv
<1>6. size \in 1 .. shape.memorysize
  BY <1>1, <1>2, ShapesAssumption
<1>7. CountersInv'
  BY <1>1, <1>6 DEF ChunkInv, CountersInv, BUFFER_SIZE
<1>8. Chunk!Take
  <2>1. 0 \in Addresses \ DOMAIN held
    BY <1>1, <1>2, <1>3, AnySizeAddress
  <2> QED BY <1>1, <1>4, <2>1 DEF Chunk!Take
<1> QED BY <1>4, <1>5, <1>7, <1>8 DEF ChunkInv

(* alloc returns null only when every slot is taken.                       *)
LEMMA AllocNullStep ==
  ASSUME ChunkInv, AllocNull
  PROVE  ChunkInv' /\ Chunk!Refuse
<1>1. /\ answer' = "null" /\ UNCHANGED <<bitVars, shape>> /\ shape' = shape
      /\ UNCHANGED <<wastedBytesCount, useCount, anyElementSize, held>> /\ held' = held
  BY DEF AllocNull
<1>2. full
  BY DEF AllocNull, full, empty
<1>3. DOMAIN held = Addresses
  BY <1>2, FlagsFromInv DEF FlagsExact
<1>4. BitmapInv' /\ InUse' = InUse /\ Addresses' = Addresses
  BY <1>1, BitmapUnchanged DEF ChunkInv
<1>5. HeldInv' /\ CountersInv'
  BY <1>1, <1>4 DEF ChunkInv, HeldInv, CountersInv, BUFFER_SIZE
<1> QED BY <1>1, <1>3, <1>4, <1>5 DEF ChunkInv, Chunk!Refuse

(* dealloc's answer, from what FreeResult reads.                           *)
LEMMA EdgeOfFree ==
  ASSUME ChunkInv, shape.kind # "AnySize", NEW i \in InUse, ~ NotAllocated(i),
         isNowEmpty(i) <=> InUse = {i}
  PROVE  FreeResult(i) =
           CASE DOMAIN held = Addresses /\ DOMAIN held = {AddressOf(i)} -> "WAS_FULL_IS_EMPTY"
             [] DOMAIN held # Addresses /\ DOMAIN held = {AddressOf(i)} -> "NOW_IS_EMPTY_CHUNK"
             [] DOMAIN held = Addresses /\ DOMAIN held # {AddressOf(i)} -> "WAS_FULL_CHUNK"
             [] DOMAIN held # Addresses /\ DOMAIN held # {AddressOf(i)} -> "OK"
<1>1. fullBits <=> DOMAIN held = Addresses
  BY FlagsFromInv DEF FlagsExact, full
<1>2. isNowEmpty(i) <=> DOMAIN held = {AddressOf(i)}
  <2>1. DOMAIN held = {AddressOf(j) : j \in InUse} /\ InUse \subseteq Indexes
    BY DEF ChunkInv, HeldInv, AddressOf, InUse
  <2>2. \A j, k \in Indexes : AddressOf(j) = AddressOf(k) => j = k
    BY AddressFacts DEF ChunkInv, BitmapInv
  <2>3. ASSUME DOMAIN held = {AddressOf(i)}, NEW j \in InUse PROVE j = i
    BY <2>1, <2>2, <2>3
  <2>4. ASSUME InUse = {i} PROVE DOMAIN held = {AddressOf(i)}
    BY <2>1, <2>4
  <2> QED BY <2>3, <2>4
<1> QED BY <1>1, <1>2 DEF FreeResult, EdgeResult

(* dealloc of a buffer gives back its slot and reports the edges.          *)
LEMMA DeallocStep ==
  ASSUME ChunkInv, NEW ptr \in DOMAIN held, Dealloc(ptr)
  PROVE  ChunkInv' /\ Chunk!Give
<1>1. shape.kind # "AnySize" /\ shape \in Shapes /\ shape' = shape
  BY DEF Dealloc, ChunkInv, BitmapInv
<1>2. DOMAIN held = {AddressOf(j) : j \in InUse} /\ InUse \subseteq Indexes
  BY <1>1 DEF ChunkInv, HeldInv, AddressOf, InUse
<1>3. PICK i \in InUse : ptr = AddressOf(i)
  BY <1>2
<1>4. ElementIndex(ptr) = i /\ ptr \in Nat /\ ptr < shape.memorysize /\ shape.memorysize \in Nat
  BY <1>1, <1>2, <1>3, AddressFacts, ShapeFacts
<1>5. /\ answer' = FreeResult(i) /\ DeallocIndex(i) /\ useCount' = useCount - 1
      /\ UNCHANGED <<wastedBytesCount, anyElementSize>>
  BY <1>4 DEF Dealloc
<1>6. DOMAIN held' = DOMAIN held \ {ptr}
  BY DEF Dealloc, Drop, Restrict
<1>7. /\ BitmapInv' /\ InUse' = InUse \ {i}
      /\ ~ NotAllocated(i) /\ (isNowEmpty(i) <=> InUse = {i})
  BY <1>1, <1>5, DeallocIndexStep DEF ChunkInv
<1>8. HeldInv'
  <2>1. /\ IsFiniteSet(DOMAIN held') /\ Cardinality(DOMAIN held') = Cardinality(DOMAIN held) - 1
    BY <1>6, FS_RemoveElement DEF ChunkInv, HeldInv
  <2>2. DOMAIN held' = {AddressOf(j) : j \in InUse'}
    <3>1. \A j, k \in Indexes : AddressOf(j) = AddressOf(k) => j = k
      BY <1>1, AddressFacts
    <3> QED BY <1>2, <1>3, <1>6, <1>7, <3>1
  <2>3. DOMAIN held' = {shape'.elementSize * j : j \in InUse'}
    BY <1>1, <2>2 DEF AddressOf
  <2>4. useCount' = Cardinality(DOMAIN held')
    BY <1>5, <2>1 DEF ChunkInv, HeldInv
  <2> QED BY <1>1, <2>1, <2>3, <2>4 DEF HeldInv
<1>9. CountersInv'
  BY <1>1, <1>5 DEF ChunkInv, CountersInv, BUFFER_SIZE
<1>10. Chunk!Give
  <2>1. Addresses' = Addresses
    BY <1>1 DEF Addresses
  <2> QED BY <1>1, <1>3, <1>5, <1>6, <1>7, <2>1, EdgeOfFree DEF Chunk!Give
<1> QED BY <1>7, <1>8, <1>9, <1>10 DEF ChunkInv

(* dealloc of the one buffer of an AnySize chunk empties it.               *)
LEMMA DeallocAnySizeStep ==
  ASSUME ChunkInv, NEW ptr \in DOMAIN held, DeallocAnySize(ptr)
  PROVE  ChunkInv' /\ Chunk!Give
<1>1. /\ shape.kind = "AnySize" /\ shape \in Shapes /\ shape' = shape
      /\ DOMAIN held' = DOMAIN held \ {ptr}
      /\ UNCHANGED <<bitVars, shape, wastedBytesCount>>
  BY DEF DeallocAnySize, Drop, Restrict, ChunkInv, BitmapInv
<1>2. Addresses = {0} /\ DOMAIN held = {0} /\ ptr = 0
  BY <1>1, AnySizeAddress DEF ChunkInv, HeldInv
<1>3. useCount = 1
  BY <1>2, FS_Singleton DEF ChunkInv, HeldInv
<1>4. anyElementSize \in 1 .. shape.memorysize /\ shape.memorysize \in Nat \ {0}
  BY <1>1, ShapeFacts DEF ChunkInv, CountersInv
<1>5. /\ answer' = "WAS_FULL_IS_EMPTY" /\ useCount' = 0 /\ anyElementSize' = shape.memorysize
  BY <1>2, <1>3, <1>4 DEF DeallocAnySize
<1>6. BitmapInv' /\ Addresses' = Addresses
  BY <1>1, BitmapUnchanged DEF ChunkInv
<1>7. DOMAIN held' = {}
  BY <1>1, <1>2
<1>8. HeldInv'
  BY <1>1, <1>5, <1>7, FS_EmptySet DEF HeldInv
<1>9. CountersInv'
  BY <1>1, <1>4, <1>5 DEF ChunkInv, CountersInv, BUFFER_SIZE
<1>10. Chunk!Give
  BY <1>2, <1>5, <1>6, <1>7 DEF Chunk!Give
<1> QED BY <1>6, <1>8, <1>9, <1>10 DEF ChunkInv

-----------------------------------------------------------------------------
(* What getInfo says of a buffer.                                          *)

(* A buffer has the size it was asked with, a buffer of an AnySize chunk   *)
(* that of the chunk, and the counter of a template's element in use holds *)
(* the bytes its buffer wastes.                                            *)
FieldOf(n) == BitsOf(n) \cap MASK(shape.BITS_PER_ELEMENT)
WastedInv ==
  /\ \A ptr \in DOMAIN held : held[ptr] \in shape.sizes
  /\ shape.kind = "AnySize" => \A ptr \in DOMAIN held : held[ptr] = anyElementSize
  /\ shape.kind = "Template" =>
       \A i \in InUse : Field(i) = FieldOf(shape.elementSize - held[AddressOf(i)])

(* The buffers held are those of the elements in use.                      *)
LEMMA HeldAddresses ==
  ASSUME ChunkInv, shape.kind # "AnySize"
  PROVE  /\ shape \in Shapes /\ InUse \subseteq Indexes
         /\ \A i \in Indexes : AddressOf(i) \in DOMAIN held <=> i \in InUse
         /\ \A ptr \in DOMAIN held : \E i \in InUse : ptr = AddressOf(i)
<1>1. DOMAIN held = {AddressOf(j) : j \in InUse} /\ InUse \subseteq Indexes /\ shape \in Shapes
  BY DEF ChunkInv, HeldInv, BitmapInv, AddressOf, InUse
<1>2. \A i, j \in Indexes : AddressOf(i) = AddressOf(j) => i = j
  BY <1>1, AddressFacts
<1> QED BY <1>1, <1>2

(* Fields depend on the counters and the shape only.                       *)
LEMMA FieldsUnchanged ==
  ASSUME shape' = shape, wastedBytesCount' = wastedBytesCount
  PROVE  /\ \A i : Field(i)' = Field(i) /\ AddressOf(i)' = AddressOf(i)
         /\ \A n : FieldOf(n)' = FieldOf(n)
BY DEF Field, FieldOf, AddressOf, BitsOf, MASK, ShiftRight, blockNumber, inblockAddress,
       ELEMENTS_PER_BLOCK, Bits

(* A new chunk holds no buffer.                                            *)
LEMMA WastedInit ==
  ASSUME Init
  PROVE  WastedInv
<1>1. DOMAIN held = {} /\ ChunkInv
  BY InitStep DEF Init
<1>2. shape.kind = "Template" => InUse = {}
  BY <1>1, HeldAddresses
<1> QED BY <1>1, <1>2 DEF WastedInv

(* alloc writes the counter of its own element only.                       *)
LEMMA WastedAlloc ==
  ASSUME ChunkInv, WastedInv, NEW size \in shape.sizes, Alloc(size)
  PROVE  WastedInv'
<1>0. PICK i : i = NextIndex
  OBVIOUS
<1>1. /\ shape.kind # "AnySize" /\ ~ fullBits /\ AllocIndex /\ shape' = shape
      /\ DOMAIN held' = DOMAIN held \cup {AddressOf(i)}
      /\ \A ptr \in DOMAIN held' : held'[ptr] = IF ptr = AddressOf(i) THEN size ELSE held[ptr]
  BY <1>0 DEF Alloc, full, Hold, AddressOf
<1>2. /\ shape \in Shapes /\ InUse \subseteq Indexes
      /\ \A j \in Indexes : AddressOf(j) \in DOMAIN held <=> j \in InUse
  BY <1>1, HeldAddresses
<1>3. InUse' = InUse \cup {i} /\ i \in Indexes \ InUse
  BY <1>0, <1>1, AllocIndexStep, NextIndexIsFree DEF ChunkInv
<1>4. \A ptr \in DOMAIN held' : held'[ptr] \in shape'.sizes
  BY <1>1 DEF WastedInv
<1>5. ASSUME shape.kind = "Template", NEW j \in InUse'
      PROVE  Field(j)' = (FieldOf(shape.elementSize - held[AddressOf(j)]))'
  <2>1. PICK n \in Nat : n = shape.elementSize - size
    BY <1>2, ShapesAssumption
  <2>2. setWastedBytes(i, n)
    BY <1>0, <1>5, <2>1 DEF Alloc
  <2>3. wastedBytesCount \in [0 .. BUFFER_SIZE(shape) - 1 -> SUBSET Bits]
    BY DEF ChunkInv, CountersInv
  <2>4. /\ Field(i)' = BitsOf(n) \cap MASK(shape.BITS_PER_ELEMENT)
        /\ \A m \in Indexes : m # i => Field(m)' = Field(m)
    BY <1>1, <1>2, <1>3, <1>5, <2>2, <2>3, SetField
  <2>5. /\ (FieldOf(shape.elementSize - held[AddressOf(j)]))' = FieldOf(shape.elementSize - held'[AddressOf(j)])
    BY <1>1 DEF FieldOf, AddressOf, BitsOf, MASK, Bits
  <2>6. CASE j = i
    <3>1. held'[AddressOf(i)] = size
      BY <1>1
    <3> QED BY <2>1, <2>4, <2>5, <2>6, <3>1 DEF FieldOf
  <2>7. CASE j # i
    <3>1. j \in InUse /\ j \in Indexes
      BY <1>2, <1>3, <1>5, <2>7
    <3>2. AddressOf(j) # AddressOf(i)
      BY <1>2, <1>3, <2>7, <3>1, AddressFacts
    <3>3. AddressOf(j) \in DOMAIN held
      BY <1>2, <3>1
    <3>4. held'[AddressOf(j)] = held[AddressOf(j)]
      BY <1>1, <3>2, <3>3
    <3>5. Field(j) = FieldOf(shape.elementSize - held[AddressOf(j)])
      BY <1>5, <3>1 DEF WastedInv
    <3> QED BY <2>4, <2>5, <2>7, <3>1, <3>4, <3>5
  <2> QED BY <2>6, <2>7
<1> QED BY <1>1, <1>4, <1>5 DEF WastedInv

(* alloc of an AnySize chunk keeps the size asked for.                     *)
LEMMA WastedAllocAnySize ==
  ASSUME ChunkInv, WastedInv, NEW size \in shape.sizes, AllocAnySize(size)
  PROVE  WastedInv'
<1>1. /\ shape.kind = "AnySize" /\ empty /\ anyElementSize' = size /\ shape' = shape
      /\ DOMAIN held' = DOMAIN held \cup {0} /\ held'[0] = size
  BY DEF AllocAnySize, Hold
<1>2. DOMAIN held = {}
  BY <1>1, FlagsFromInv DEF FlagsExact
<1> QED BY <1>1, <1>2 DEF WastedInv

(* dealloc leaves the counters, those of the other elements included.      *)
LEMMA WastedDealloc ==
  ASSUME ChunkInv, WastedInv, NEW ptr \in DOMAIN held, Dealloc(ptr)
  PROVE  WastedInv'
<1>1. /\ shape.kind # "AnySize" /\ shape' = shape /\ wastedBytesCount' = wastedBytesCount
      /\ anyElementSize' = anyElementSize
      /\ held' = [p \in DOMAIN held \ {ptr} |-> held[p]]
  BY DEF Dealloc, Drop, Restrict
<1>2. /\ shape \in Shapes /\ InUse \subseteq Indexes
      /\ \A j \in Indexes : AddressOf(j) \in DOMAIN held <=> j \in InUse
  BY <1>1, HeldAddresses
<1>3. ChunkInv'
  BY DeallocStep
<1>4. ASSUME NEW j \in InUse' PROVE j \in InUse /\ AddressOf(j) \in DOMAIN held \ {ptr}
  <2>1. AddressOf(j)' = AddressOf(j) /\ Indexes' = Indexes /\ DOMAIN held' = DOMAIN held \ {ptr}
    BY <1>1 DEF AddressOf, Indexes
  <2>2. j \in Indexes' /\ AddressOf(j)' \in DOMAIN held'
    <3>1. DOMAIN held' = {shape'.elementSize * m : m \in InUse'}
      BY <1>1, <1>3 DEF ChunkInv, HeldInv
    <3>2. shape'.elementSize * j = AddressOf(j)'
      BY DEF AddressOf
    <3> QED BY <1>4, <3>1, <3>2 DEF InUse
  <2> QED BY <1>2, <2>1, <2>2
<1>5. ASSUME shape.kind = "Template", NEW j \in InUse'
      PROVE  Field(j)' = (FieldOf(shape.elementSize - held[AddressOf(j)]))'
  <2>1. j \in InUse /\ held'[AddressOf(j)] = held[AddressOf(j)]
    BY <1>1, <1>4, <1>5
  <2>2. Field(j) = FieldOf(shape.elementSize - held[AddressOf(j)])
    BY <1>5, <2>1 DEF WastedInv
  <2>3. Field(j)' = Field(j) /\ AddressOf(j)' = AddressOf(j)
    BY <1>1, FieldsUnchanged
  <2>4. (FieldOf(shape.elementSize - held[AddressOf(j)]))' = FieldOf(shape.elementSize - held'[AddressOf(j)])
    BY <1>1 DEF FieldOf, AddressOf, BitsOf, MASK, Bits
  <2> QED BY <2>1, <2>2, <2>3, <2>4
<1>6. \A p \in DOMAIN held' : held'[p] \in shape'.sizes
  BY <1>1 DEF WastedInv
<1> QED BY <1>1, <1>5, <1>6 DEF WastedInv

(* After dealloc of the one buffer none is held.                           *)
LEMMA WastedDeallocAnySize ==
  ASSUME ChunkInv, WastedInv, NEW ptr \in DOMAIN held, DeallocAnySize(ptr)
  PROVE  WastedInv'
<1>1. /\ shape.kind = "AnySize" /\ shape' = shape /\ DOMAIN held' = DOMAIN held \ {ptr}
  BY DEF DeallocAnySize, Drop, Restrict
<1>2. DOMAIN held \subseteq {0}
  BY <1>1 DEF ChunkInv, HeldInv
<1> QED BY <1>1, <1>2 DEF WastedInv

(* Nothing else touches the counters.                                      *)
LEMMA WastedUnchanged ==
  ASSUME ChunkInv, WastedInv, UNCHANGED <<bitVars, shape, wastedBytesCount, anyElementSize, held>>
  PROVE  WastedInv'
<1>1. /\ shape' = shape /\ wastedBytesCount' = wastedBytesCount
      /\ anyElementSize' = anyElementSize /\ held' = held
  OBVIOUS
<1>2. InUse' = InUse
  BY BitmapUnchanged DEF ChunkInv
<1>3. \A i : Field(i)' = Field(i) /\ AddressOf(i)' = AddressOf(i)
  BY <1>1, FieldsUnchanged
<1>4. \A i : (FieldOf(shape.elementSize - held[AddressOf(i)]))' = FieldOf(shape.elementSize - held[AddressOf(i)])
  BY <1>1 DEF FieldOf, AddressOf, BitsOf, MASK, Bits
<1> QED BY <1>1, <1>2, <1>3, <1>4 DEF WastedInv

(* Every step keeps the counters right.                                    *)
LEMMA WastedStep ==
  ASSUME ChunkInv, WastedInv, [Next]_vars
  PROVE  WastedInv'
<1>1. ASSUME NEW size \in shape.sizes, Alloc(size) \/ AllocAnySize(size) PROVE WastedInv'
  BY <1>1, WastedAlloc, WastedAllocAnySize
<1>2. CASE AllocNull
  BY <1>2, WastedUnchanged DEF AllocNull
<1>3. ASSUME NEW ptr \in DOMAIN held, Dealloc(ptr) \/ DeallocAnySize(ptr) PROVE WastedInv'
  BY <1>3, WastedDealloc, WastedDeallocAnySize
<1>4. CASE UNCHANGED vars
  BY <1>4, WastedUnchanged DEF vars
<1> QED BY <1>1, <1>2, <1>3, <1>4 DEF Next

(* A pointer into a buffer's element is in the block, and division by the  *)
(* element size finds the element.                                         *)
LEMMA InsideElement ==
  ASSUME shape \in Shapes, NEW i \in Indexes, NEW p \in Nat,
         AddressOf(i) <= p, p < AddressOf(i) + shape.elementSize
  PROVE  /\ p < shape.memorysize /\ ElementIndex(p) = i
         /\ (p \div shape.elementSize) * shape.elementSize = AddressOf(i)
<1>1. PICK e \in Nat \ {0} : e = shape.elementSize
  BY ShapeFacts
<1>2. PICK n \in Nat : n = shape.elementCount /\ n * e <= shape.memorysize /\ shape.memorysize \in Nat
  BY <1>1, ShapeFacts
<1>3. i \in Nat /\ i + 1 <= n
  BY <1>2 DEF Indexes
<1>4. PICK r \in 0 .. e - 1 : p = i * e + r
  <2>1. AddressOf(i) = i * e /\ i * e \in Nat
    BY <1>1, <1>3 DEF AddressOf
  <2>2. p - i * e \in 0 .. e - 1 /\ p = i * e + (p - i * e)
    BY <1>1, <2>1
  <2> QED BY <2>2
<1>5. p \div e = i
  BY <1>3, <1>4, OneQuotient
<1>6. p < shape.memorysize
  <2>1. i * e + e <= n * e
    BY <1>3, OneMore
  <2> QED BY <1>2, <1>3, <1>4, <2>1
<1>7. i * e = e * i
  BY <1>1, <1>3
<1> QED BY <1>1, <1>3, <1>5, <1>6, <1>7 DEF ElementIndex, AddressOf

(* getInfo of any byte of a buffer is exact.                               *)
LEMMA InfoOfBuffer ==
  ASSUME ChunkInv, WastedInv, NEW ptr \in DOMAIN held, NEW p \in ptr .. ptr + held[ptr] - 1
  PROVE  getInfo(p) = [buferAddress |-> ptr, isAllocated |-> TRUE, requestedSize |-> held[ptr]]
<1>1. shape \in Shapes /\ held[ptr] \in shape.sizes /\ held[ptr] \in 1 .. shape.elementSize
      /\ shape.kind \in {"Template", "Precise", "AnySize"} /\ shape.elementSize \in Nat \ {0}
      /\ shape.memorysize \in Nat
  BY ShapesAssumption DEF ChunkInv, BitmapInv, WastedInv
<1>2. CASE shape.kind = "AnySize"
  <2>1. ptr = 0 /\ held[ptr] = anyElementSize /\ shape.elementSize = shape.memorysize
    BY <1>1, <1>2, ShapeFacts DEF ChunkInv, HeldInv, WastedInv
  <2>2. p \in Nat /\ p < anyElementSize /\ p < shape.memorysize /\ anyElementSize \in Nat \ {0}
    BY <1>1, <2>1
  <2>3. ~ empty
    BY FlagsFromInv DEF FlagsExact
  <2>4. p \div anyElementSize = 0
    BY <2>2
  <2>5. (p \div anyElementSize) * anyElementSize = ptr
    BY <2>1, <2>2, <2>4
  <2>6. ~ (p >= shape.memorysize)
    BY <1>1, <2>2
  <2> QED BY <1>2, <2>1, <2>3, <2>5, <2>6 DEF getInfo, RequestedSize
<1>3. CASE shape.kind # "AnySize"
  <2>1. PICK i \in InUse : ptr = AddressOf(i)
    BY <1>3, HeldAddresses
  <2>2. i \in Indexes /\ isAllocated(i)
    BY DEF InUse
  <2>3. AddressOf(i) \in Nat
    BY <1>1, <2>2, AddressFacts
  <2>4. p \in Nat /\ AddressOf(i) <= p /\ p < AddressOf(i) + shape.elementSize
    BY <1>1, <2>1, <2>3
  <2>5. /\ p < shape.memorysize /\ ElementIndex(p) = i
        /\ (p \div shape.elementSize) * shape.elementSize = ptr
    BY <1>1, <2>1, <2>2, <2>4, InsideElement
  <2>6. ~ (p >= shape.memorysize)
    BY <1>1, <2>4, <2>5
  <2>7. RequestedSize(p) = held[ptr]
    <3>1. CASE shape.kind = "Precise"
      <4>1. held[ptr] = shape.elementSize
        BY <1>1, <3>1, ShapesAssumption
      <4> QED BY <3>1, <4>1 DEF RequestedSize
    <3>2. CASE shape.kind = "Template"
      <4>1. PICK n \in Nat : n = shape.elementSize - held[ptr]
        BY <1>1
      <4>2. PICK k \in 0 .. WordBits : k = shape.BITS_PER_ELEMENT /\ n < PowerOfTwo[k]
        <5>1. shape.BITS_PER_ELEMENT \in 0 .. WordBits
              /\ shape.elementSize - held[ptr] < PowerOfTwo[shape.BITS_PER_ELEMENT]
          BY <1>1, <3>2, ShapesAssumption
        <5> QED BY <4>1, <5>1
      <4>3. NumberOf(BitsOf(n) \cap MASK(k)) = n
        BY <4>2, FieldHolds
      <4>4. Field(i) = BitsOf(n) \cap MASK(k)
        BY <2>1, <3>2, <4>1, <4>2 DEF WastedInv, FieldOf
      <4>5. getWastedBytes(i) = NumberOf(Field(i))
        BY DEF getWastedBytes, Field
      <4>6. getWastedBytes(i) = n
        BY <4>3, <4>4, <4>5
      <4>7. shape.elementSize - n = held[ptr]
        BY <1>1, <4>1
      <4> QED BY <2>5, <3>2, <4>6, <4>7 DEF RequestedSize
    <3> QED BY <1>1, <1>3, <3>1, <3>2
  <2> QED BY <1>3, <2>2, <2>5, <2>6, <2>7 DEF getInfo
<1> QED BY <1>2, <1>3

(* getInfo of a free element says so.                                      *)
LEMMA InfoOfFree ==
  ASSUME ChunkInv, NEW ptr \in Addresses \ DOMAIN held
  PROVE  ~ getInfo(ptr).isAllocated
<1>1. shape \in Shapes
  BY DEF ChunkInv, BitmapInv
<1>2. CASE shape.kind = "AnySize"
  <2>1. empty
    BY <1>1, <1>2, AnySizeAddress, FlagsFromInv DEF FlagsExact, ChunkInv, HeldInv
  <2> QED BY <1>2, <2>1 DEF getInfo
<1>3. CASE shape.kind # "AnySize"
  <2>1. PICK i \in Indexes : ptr = AddressOf(i)
    BY <1>1, AddressFacts
  <2>2. i \notin InUse /\ ElementIndex(ptr) = i
    BY <1>1, <1>3, <2>1, HeldAddresses, AddressFacts
  <2>3. ~ isAllocated(ElementIndex(ptr))
    BY <2>2 DEF InUse
  <2> QED BY <1>3, <2>3 DEF getInfo
<1> QED BY <1>2, <1>3

-----------------------------------------------------------------------------
(* The portable search for a 0 bit.                                        *)

(* The first 0 bit among the low w bits.                                   *)
First(bits, w) == Min((0 .. w - 1) \ bits)

(* A 0 bit below all others is the first.                                  *)
LEMMA FirstIs ==
  ASSUME NEW w \in Nat, NEW bits, NEW m \in (0 .. w - 1) \ bits,
         \A b \in (0 .. w - 1) \ bits : m <= b
  PROVE  First(bits, w) = m
<1> DEFINE S == (0 .. w - 1) \ bits
<1>1. S \in SUBSET Nat /\ m \in S /\ \A b \in S : m <= b
  OBVIOUS
<1> HIDE DEF S
<1>2. Min(S) \in S /\ Min(S) <= m
  BY <1>1, MinOfNaturals
<1>3. Min(S) = m
  <2>1. m <= Min(S) /\ Min(S) \in Nat /\ m \in Nat
    BY <1>1, <1>2
  <2> QED BY <1>2, <2>1
<1> QED BY <1>3 DEF First, S

(* A word with a 0 bit has a first one.                                    *)
LEMMA FirstFound ==
  ASSUME NEW w \in Nat, NEW bits, bits \subseteq 0 .. w - 1, bits # 0 .. w - 1
  PROVE  /\ First(bits, w) \in (0 .. w - 1) \ bits
         /\ \A b \in (0 .. w - 1) \ bits : First(bits, w) <= b
<1> DEFINE S == (0 .. w - 1) \ bits
<1>1. S \in SUBSET Nat
  OBVIOUS
<1>0. S # {}
  BY Zenon
<1> HIDE DEF S
<1>2. Min(S) \in S /\ \A b \in S : Min(S) <= b
  BY <1>0, <1>1, MinOfNaturals
<1> QED BY <1>2 DEF First, S

(* What a round of the search keeps: the bits left are w, not all of them  *)
(* are ones, and the first 0 bit is where it was.                          *)
Scanned(word, scan, w) ==
  /\ scan.index \in Nat /\ scan.bits \subseteq 0 .. w - 1 /\ scan.bits # 0 .. w - 1
  /\ scan.index + First(scan.bits, w) = findFirstEmptyBit(word)

(* A round keeps the place of the first 0 bit.                             *)
LEMMA HalveScanned ==
  ASSUME NEW word, NEW scan, NEW h \in Nat \ {0}, Scanned(word, scan, 2 * h)
  PROVE  Scanned(word, Halve(scan, h), h)
<1> DEFINE bits == scan.bits
           m == First(bits, 2 * h)
           next == Halve(scan, h)
<1>1. bits \subseteq 0 .. (2 * h) - 1 /\ scan.index \in Nat
      /\ scan.index + m = findFirstEmptyBit(word)
  BY DEF Scanned
<1>2. m \in (0 .. (2 * h) - 1) \ bits /\ \A b \in (0 .. (2 * h) - 1) \ bits : m <= b
  BY FirstFound DEF Scanned
<1>3. CASE 0 .. h - 1 \subseteq bits
  <2>1. next.index = scan.index + h /\ next.bits = ShiftRight(bits, h) \cap (0 .. h - 1)
    BY <1>3 DEF Halve
  <2>2. \A b \in 0 .. h - 1 : b \in next.bits <=> b + h \in bits
    <3> TAKE b \in 0 .. h - 1
    <3>1. ASSUME b \in ShiftRight(bits, h) PROVE b + h \in bits
      <4>1. PICK c \in bits : c >= h /\ b = c - h
        BY <3>1 DEF ShiftRight
      <4>2. c \in Int /\ b + h = c
        BY <1>1, <4>1
      <4> QED BY <4>1, <4>2
    <3>2. ASSUME b + h \in bits PROVE b \in ShiftRight(bits, h)
      <4>1. b + h >= h /\ (b + h) - h = b
        OBVIOUS
      <4> QED BY <3>2, <4>1 DEF ShiftRight
    <3> HIDE DEF bits, next
    <3> QED BY <2>1, <3>1, <3>2
  <2>3. m \in Int /\ m >= h /\ m - h \in 0 .. h - 1 /\ (m - h) + h = m
    BY <1>2, <1>3
  <2> HIDE DEF bits, m, next
  <2>4. m - h \in (0 .. h - 1) \ next.bits
    BY <1>2, <2>2, <2>3
  <2>5. ASSUME NEW b \in (0 .. h - 1) \ next.bits PROVE m - h <= b
    <3>1. b + h \in (0 .. (2 * h) - 1) \ bits
      BY <2>2
    <3> QED BY <1>2, <2>3, <3>1
  <2>6. First(next.bits, h) = m - h
    <3>1. h \in Nat
      OBVIOUS
    <3> QED BY <2>4, <2>5, <3>1, FirstIs
  <2>7. next.bits \subseteq 0 .. h - 1 /\ next.bits # 0 .. h - 1
    BY <2>1, <2>4
  <2>8. next.index \in Nat /\ next.index + First(next.bits, h) = findFirstEmptyBit(word)
    BY <1>1, <2>1, <2>3, <2>6
  <2> QED BY <2>7, <2>8 DEF Scanned, next
<1>4. CASE ~ (0 .. h - 1 \subseteq bits)
  <2>1. next.index = scan.index /\ next.bits = bits \cap (0 .. h - 1)
    BY <1>4 DEF Halve
  <2>2. PICK j \in 0 .. h - 1 : j \notin bits
    BY <1>4
  <2> HIDE DEF bits, m, next
  <2>3. m \in 0 .. h - 1 /\ m \notin bits
    <3>1. j \in (0 .. (2 * h) - 1) \ bits
      BY <2>2
    <3> QED BY <1>2, <2>2, <3>1
  <2>4. m \in (0 .. h - 1) \ next.bits
    BY <2>1, <2>3
  <2>5. ASSUME NEW b \in (0 .. h - 1) \ next.bits PROVE m <= b
    <3>1. b \in (0 .. (2 * h) - 1) \ bits
      BY <2>1
    <3> QED BY <1>2, <3>1
  <2>6. First(next.bits, h) = m
    <3>1. h \in Nat
      OBVIOUS
    <3> QED BY <2>4, <2>5, <3>1, FirstIs
  <2>7. next.bits \subseteq 0 .. h - 1 /\ next.bits # 0 .. h - 1
    BY <2>1, <2>4
  <2> QED BY <1>1, <2>1, <2>6, <2>7 DEF Scanned, next
<1> QED BY <1>3, <1>4

(* The code's table and its rounds find the bit of the instruction.        *)
LEMMA ScanOfWord ==
  ASSUME WordBits \in {4, 8, 16, 32, 64}, NEW word \in SUBSET Bits, word # Ones
  PROVE  scanFirstEmptyBit(word) = findFirstEmptyBit(word)
<1> DEFINE s0 == [index |-> 0, bits |-> word]
           s1 == IF 32 < WordBits THEN Halve(s0, 32) ELSE s0
           s2 == IF 16 < WordBits THEN Halve(s1, 16) ELSE s1
           s3 == IF 8 < WordBits THEN Halve(s2, 8) ELSE s2
           s4 == IF 4 < WordBits THEN Halve(s3, 4) ELSE s3
<1>1. Halvings([index |-> 0, bits |-> word]) = s4
  BY Zenon DEF Halvings
<1>2. Scanned(word, s0, WordBits)
  <2>1. First(word, WordBits) = findFirstEmptyBit(word)
    BY DEF First, findFirstEmptyBit, Ones, Bits
  <2>2. First(word, WordBits) \in Nat
    <3>1. WordBits \in Nat /\ word \subseteq 0 .. WordBits - 1 /\ word # 0 .. WordBits - 1
      BY DEF Ones, Bits
    <3>2. First(word, WordBits) \in 0 .. WordBits - 1
      BY <3>1, FirstFound
    <3> QED BY <3>2
  <2> QED BY <2>1, <2>2 DEF Scanned, Ones, Bits
<1>3. ASSUME NEW h \in Nat \ {0}, NEW s, Scanned(word, s, 2 * h) PROVE Scanned(word, Halve(s, h), h)
  BY <1>3, HalveScanned
<1> HIDE DEF s0
<1>4. Scanned(word, s1, IF 32 < WordBits THEN 32 ELSE WordBits)
  <2>1. 64 = 2 * 32
    OBVIOUS
  <2> QED BY <1>2, <1>3, <2>1
<1> HIDE DEF s1
<1>5. Scanned(word, s2, IF 16 < WordBits THEN 16 ELSE WordBits)
  <2>1. 32 = 2 * 16
    OBVIOUS
  <2> QED BY <1>3, <1>4, <2>1
<1> HIDE DEF s2
<1>6. Scanned(word, s3, IF 8 < WordBits THEN 8 ELSE WordBits)
  <2>1. 16 = 2 * 8
    OBVIOUS
  <2> QED BY <1>3, <1>5, <2>1
<1> HIDE DEF s3
<1>7. Scanned(word, s4, 4)
  <2>1. 8 = 2 * 4
    OBVIOUS
  <2> QED BY <1>3, <1>6, <2>1
<1>8. helptable(s4.bits) = First(s4.bits, 4)
  BY <1>7 DEF Scanned, helptable, First
<1> HIDE DEF s4
<1>9. scanFirstEmptyBit(word) = s4.index + helptable(s4.bits)
  BY <1>1 DEF scanFirstEmptyBit
<1> QED BY <1>7, <1>8, <1>9 DEF Scanned

-----------------------------------------------------------------------------
(* Theorems.                                                               *)

(* Every step keeps the invariant and is a step of the slots.              *)
LEMMA NextStep ==
  ASSUME ChunkInv, [Next]_vars
  PROVE  ChunkInv' /\ [Chunk!SlotsNext]_<<Addresses, DOMAIN held, answer>>
<1>1. ASSUME NEW size \in shape.sizes, Alloc(size) \/ AllocAnySize(size)
      PROVE  ChunkInv' /\ Chunk!SlotsNext
  BY <1>1, AllocStep, AllocAnySizeStep DEF Chunk!SlotsNext
<1>2. CASE AllocNull
  BY <1>2, AllocNullStep DEF Chunk!SlotsNext
<1>3. ASSUME NEW ptr \in DOMAIN held, Dealloc(ptr) \/ DeallocAnySize(ptr)
      PROVE  ChunkInv' /\ Chunk!SlotsNext
  BY <1>3, DeallocStep, DeallocAnySizeStep DEF Chunk!SlotsNext
<1>4. CASE UNCHANGED vars
  <2>1. /\ UNCHANGED <<bitVars, shape>> /\ UNCHANGED <<wastedBytesCount, useCount, anyElementSize>>
        /\ held' = held /\ answer' = answer /\ shape' = shape
    BY <1>4 DEF vars
  <2>2. BitmapInv' /\ InUse' = InUse /\ Addresses' = Addresses
    BY <2>1, BitmapUnchanged DEF ChunkInv
  <2>3. HeldInv' /\ CountersInv'
    BY <2>1, <2>2 DEF ChunkInv, HeldInv, CountersInv, BUFFER_SIZE
  <2> QED BY <2>1, <2>2, <2>3 DEF ChunkInv
<1> QED BY <1>1, <1>2, <1>3, <1>4 DEF Next

(* The bitmap and the buffers held agree at all times.                     *)
THEOREM ChunkInvariant == Spec => []ChunkInv
<1>1. Init => ChunkInv
  BY InitStep
<1>2. ChunkInv /\ [Next]_vars => ChunkInv'
  BY NextStep
<1> QED BY <1>1, <1>2, PTL DEF Spec

(* The variables of a chunk have their types.                              *)
THEOREM ChunkTypes == Spec => []TypeOK
<1>1. ChunkInv => TypeOK
  <2> SUFFICES ASSUME ChunkInv PROVE TypeOK
    OBVIOUS
  <2>1. bitusedmask \subseteq Bits
    BY UsedWordsIs, WordAssumption DEF ChunkInv, BitmapInv, Bits
  <2> QED BY <2>1, FlagsFromInv DEF ChunkInv, BitmapInv, HeldInv, CountersInv, TypeOK
<1> QED BY <1>1, ChunkInvariant, PTL

(* The summaries by which AllocIndex and DeallocIndex decide are right.    *)
THEOREM SummariesAreExact == Spec => []SummariesExact
<1>1. ChunkInv => SummariesExact
  BY DEF ChunkInv, BitmapInv
<1> QED BY <1>1, ChunkInvariant, PTL

(* full, empty and useCount are those of the buffers held.                 *)
THEOREM FlagsAreExact == Spec => []FlagsExact
<1>1. ChunkInv => FlagsExact
  BY FlagsFromInv
<1> QED BY <1>1, ChunkInvariant, PTL

(* getInfo names a buffer, and the size its caller asked for, whatever was *)
(* written for the neighbours in its word of wasted bytes.                 *)
THEOREM InfoIsExact == Spec => []InfoExact
<1>1. Init => ChunkInv /\ WastedInv
  BY InitStep, WastedInit
<1>2. (ChunkInv /\ WastedInv) /\ [Next]_vars => (ChunkInv /\ WastedInv)'
  BY NextStep, WastedStep
<1>3. ChunkInv /\ WastedInv => InfoExact
  BY InfoOfBuffer, InfoOfFree DEF InfoExact
<1> QED BY <1>1, <1>2, <1>3, PTL DEF Spec

(* Without the instruction the code finds the same 0 bit, for words of 64  *)
(* bits, and of every width that its rounds can halve to the table's 4.    *)
THEOREM ScanIsRight ==
  ASSUME WordBits \in {4, 8, 16, 32, 64}
  PROVE  Spec => []ScanAgrees
<1>1. ChunkInv => ScanAgrees
  BY ScanOfWord DEF ChunkInv, BitmapInv, ScanAgrees
<1> QED BY <1>1, ChunkInvariant, PTL

(* A chunk implements a set of slots.                                      *)
THEOREM ChunkImplementsSlots == Spec => ImplementsSlots
<1>1. Init => Chunk!SlotsInit
  BY InitStep
<1>2. ChunkInv /\ [Next]_vars => [Chunk!SlotsNext]_<<Addresses, DOMAIN held, answer>>
  BY NextStep
<1> QED BY <1>1, <1>2, ChunkInvariant, PTL
        DEF Spec, ImplementsSlots, Chunk!SlotsSpec, Chunk!slotVars
=============================================================================
