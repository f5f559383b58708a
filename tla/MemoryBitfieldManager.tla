----------------------- MODULE MemoryBitfieldManager -----------------------
(***************************************************************************)
(* The bitmap of a chunk, src/VirtualMachineProject/                       *)
(* MemoryBitfieldManager.h.  With SIZE1 = 1 one word holds a bit for each  *)
(* element.  With more, SIZE1 words hold the bits and two summary words    *)
(* say which of them are full and which are empty.                         *)
(*                                                                         *)
(* A word is the set of the positions of its 1 bits: | is union, & is      *)
(* intersection, & ~ is difference.  The code's words have 64 bits.        *)
(*                                                                         *)
(* An operator named X_Y, defined before X, is X with the plausible bug Y  *)
(* seeded in it.  Nothing else uses it.                                    *)
(***************************************************************************)
EXTENDS Integers, FiniteSetsExt

CONSTANT WordBits   \* 64
ASSUME WordAssumption == WordBits \in Nat \ {0}

VARIABLES
  SIZE1,            \* template parameter: words of the bitmap
  bitusedmask,      \* the summary bits (or element bits) in use
  bitfield_1,       \* the full words; with SIZE1 = 1, the elements in use
  bitfield_empty,   \* the empty words
  bitfield_2        \* bitfield_2[w]: word w of the elements in use

bitVars == <<SIZE1, bitusedmask, bitfield_1, bitfield_empty, bitfield_2>>

Bits == 0 .. WordBits - 1
Ones == Bits                                  \* 0xFFFF'FFFF'FFFF'FFFF
Words == 0 .. SIZE1 - 1
ShiftRight(word, n) == {b - n : b \in {c \in word : c >= n}}
ShiftLeft(word, n) == {b + n : b \in {c \in word : c + n < WordBits}}
PowerOfTwo[b \in Nat] == IF b = 0 THEN 1 ELSE 2 * PowerOfTwo[b - 1]      \* 1 << b

WordOf(index) == index \div WordBits          \* index >> 6
BitOf(index) == index % WordBits              \* index & 0x3F
IndexOf(w, b) == w * WordBits + b             \* (index1 << 6) | index2

-----------------------------------------------------------------------------
(* The first 0 bit of a word that is not all ones: the instruction where   *)
(* the compiler has one, a binary search and a table of 4 bits elsewhere.  *)

findFirstEmptyBit(word) == Min(Ones \ word)

helptable(word) == IF word = 0 .. 3 THEN 64 ELSE Min((0 .. 3) \ word)

(* One round: skip the low half when it is full, then keep a half only.    *)
Halve_NoShift(scan, half) ==
  LET low == 0 .. half - 1
  IN  IF low \subseteq scan.bits
        THEN [index |-> scan.index + half, bits |-> scan.bits \cap low]
        ELSE [index |-> scan.index, bits |-> scan.bits \cap low]
Halve(scan, half) ==
  LET low == 0 .. half - 1
  IN  IF low \subseteq scan.bits
        THEN [index |-> scan.index + half, bits |-> ShiftRight(scan.bits, half) \cap low]
        ELSE [index |-> scan.index, bits |-> scan.bits \cap low]

(* The rounds of a word of 64, 32, 16, 8 or 4 bits.                        *)
Halvings(scan) ==
  LET Round(s, half) == IF half < WordBits THEN Halve(s, half) ELSE s
  IN  Round(Round(Round(Round(scan, 32), 16), 8), 4)
scanFirstEmptyBit(word) ==
  LET scan == Halvings([index |-> 0, bits |-> word])
  IN  scan.index + helptable(scan.bits)

-----------------------------------------------------------------------------
(* The constructor and setElementCount.                                    *)

UsedMask_OneMore(n) == ShiftRight(Ones, WordBits - n - 1)
UsedMask(n) == ShiftRight(Ones, WordBits - n)

SetElementCount(size1, elementCount) ==
  LET mask == UsedMask(IF size1 = 1 THEN elementCount ELSE elementCount \div WordBits)
  IN  /\ SIZE1 = size1
      /\ bitusedmask = mask
      /\ bitfield_1 = {}
      /\ bitfield_empty = IF size1 = 1 THEN {} ELSE Ones \cap mask
      /\ bitfield_2 = [w \in 0 .. size1 - 1 |-> {}]

-----------------------------------------------------------------------------
(* Queries.                                                                *)

fullBits_AllWords == bitfield_1 = Ones
fullBits == bitfield_1 \cap bitusedmask = bitusedmask

isAllocated(index) ==
  IF SIZE1 = 1 THEN index \in bitfield_1
  ELSE BitOf(index) \in bitfield_2[WordOf(index)]

-----------------------------------------------------------------------------
(* AllocIndex: NextIndex is the index it returns.                          *)

NextIndex ==
  LET index1 == findFirstEmptyBit(bitfield_1)
  IN  IF SIZE1 = 1 THEN index1
      ELSE IndexOf(index1, findFirstEmptyBit(bitfield_2[index1]))

AllocIndexOneWord ==
  /\ SIZE1 = 1
  /\ bitfield_1' = bitfield_1 \cup {NextIndex}
  /\ UNCHANGED <<SIZE1, bitusedmask, bitfield_empty, bitfield_2>>

AllocIndexTwoLevel_StaysEmpty ==
  /\ SIZE1 > 1
  /\ LET index1 == WordOf(NextIndex)
         word   == bitfield_2[index1] \cup {BitOf(NextIndex)}
     IN  /\ bitfield_2' = [bitfield_2 EXCEPT ![index1] = word]
         /\ bitfield_1' = IF word = Ones THEN bitfield_1 \cup {index1} ELSE bitfield_1
  /\ UNCHANGED <<SIZE1, bitusedmask, bitfield_empty>>
AllocIndexTwoLevel ==
  /\ SIZE1 > 1
  /\ LET index1 == WordOf(NextIndex)
         word   == bitfield_2[index1] \cup {BitOf(NextIndex)}
     IN  /\ bitfield_empty' = bitfield_empty \ {index1}
         /\ bitfield_2' = [bitfield_2 EXCEPT ![index1] = word]
         /\ bitfield_1' = IF word = Ones THEN bitfield_1 \cup {index1} ELSE bitfield_1
  /\ UNCHANGED <<SIZE1, bitusedmask>>

AllocIndex == AllocIndexOneWord \/ AllocIndexTwoLevel

-----------------------------------------------------------------------------
(* DeallocIndex: FreeResult is the DealocResult it returns.  An index that *)
(* is not in use changes nothing.                                          *)

NotAllocated(index) ==
  \/ ~ isAllocated(index)
  \/ SIZE1 > 1 /\ bitfield_2[WordOf(index)] = Ones /\ WordOf(index) \notin bitfield_1

EdgeResult(wasfull, isnowempty) ==
  CASE isnowempty /\ wasfull     -> "WAS_FULL_IS_EMPTY"
    [] isnowempty /\ ~ wasfull   -> "NOW_IS_EMPTY_CHUNK"
    [] ~ isnowempty /\ wasfull   -> "WAS_FULL_CHUNK"
    [] ~ isnowempty /\ ~ wasfull -> "OK"

(* Whether the bitmap is empty once the index is freed.                    *)
isNowEmpty_AnyWord(index) ==
  IF SIZE1 = 1 THEN (bitfield_1 \ {index}) \cap bitusedmask = {}
  ELSE bitfield_2[WordOf(index)] \ {BitOf(index)} = {}
isNowEmpty(index) ==
  IF SIZE1 = 1 THEN (bitfield_1 \ {index}) \cap bitusedmask = {}
  ELSE LET nowEmpty == IF bitfield_2[WordOf(index)] \ {BitOf(index)} = {}
                         THEN bitfield_empty \cup {WordOf(index)} ELSE bitfield_empty
       IN  nowEmpty \cap bitusedmask = bitusedmask

FreeResult(index) ==
  IF NotAllocated(index) THEN "DEALOC_NOT_ALLOCATED"
  ELSE EdgeResult(fullBits, isNowEmpty(index))

DeallocIndexOneWord(index) ==
  /\ SIZE1 = 1
  /\ bitfield_1' = IF NotAllocated(index) THEN bitfield_1 ELSE bitfield_1 \ {index}
  /\ UNCHANGED <<SIZE1, bitusedmask, bitfield_empty, bitfield_2>>

DeallocIndexTwoLevel(index) ==
  /\ SIZE1 > 1
  /\ IF NotAllocated(index)
       THEN UNCHANGED <<bitfield_1, bitfield_empty, bitfield_2>>
       ELSE LET index1 == WordOf(index)
                word   == bitfield_2[index1] \ {BitOf(index)}
            IN  /\ bitfield_1' = bitfield_1 \ {index1}   \* set only if the word was full
                /\ bitfield_2' = [bitfield_2 EXCEPT ![index1] = word]
                /\ bitfield_empty' =
                     IF word = {} THEN bitfield_empty \cup {index1} ELSE bitfield_empty
  /\ UNCHANGED <<SIZE1, bitusedmask>>

DeallocIndex(index) == DeallocIndexOneWord(index) \/ DeallocIndexTwoLevel(index)
=============================================================================
