-------------------------- MODULE MemorySizeRanges --------------------------
(***************************************************************************)
(* The size table, src/VirtualMachineProject/MemorySizeRanges.h, its index *)
(* and the order of MemoryRange.h: which row, and so which chunk class, a  *)
(* request is served from.  The numbers are the code's.                    *)
(*                                                                         *)
(* An operator named X_Y, defined before X, is X with the plausible bug Y  *)
(* seeded in it.  Nothing else uses it.                                    *)
(***************************************************************************)
EXTENDS Integers, FiniteSetsExt, SequencesExt

CONSTANT LastSize       \* bound: the largest size asked for
ASSUME LastSizeAssumption == LastSize \in Nat /\ LastSize < 2^30

VARIABLES size, range   \* the last request and the row getSizeRange gave it
vars == <<size, range>>

SizeMax == 2147483647   \* size_t(-1), larger than every request
WordBits == 64

-----------------------------------------------------------------------------
(* elementSize_perChunk_Table: minv, maxv, elPerChunk, buforSize in KiB.   *)

PreciseRows == <<
    <<0, 1, 4096, 4>>, <<2, 2, 4096, 8>>, <<3, 3, 2688, 8>>, <<4, 4, 4096, 16>>,
    <<5, 5, 3264, 16>>, <<6, 6, 2688, 16>>, <<7, 7, 2304, 16>>, <<8, 8, 4096, 32>>,
    <<9, 9, 3584, 32>>, <<10, 10, 3264, 32>>, <<11, 11, 2944, 32>>,
    <<12, 12, 2688, 32>>, <<13, 13, 2496, 32>>, <<14, 14, 2304, 32>>,
    <<15, 15, 2176, 32>>, <<16, 16, 4096, 64>> >>
VerySmallRows == <<
    <<17, 18, 1792, 32>>, <<19, 20, 1600, 32>>, <<21, 22, 1472, 32>>,
    <<23, 24, 1344, 32>>, <<25, 26, 1216, 32>>, <<27, 28, 1152, 32>>,
    <<29, 30, 1088, 32>>, <<31, 32, 2048, 64>>, <<33, 36, 1792, 64>>,
    <<37, 40, 1600, 64>>, <<41, 44, 1472, 64>>, <<45, 48, 1344, 64>>,
    <<49, 52, 1216, 64>>, <<53, 56, 1152, 64>>, <<57, 60, 1088, 64>>,
    <<61, 64, 2048, 128>> >>
SmallRows == <<
    <<65, 72, 896, 64>>, <<73, 80, 768, 64>>, <<81, 88, 704, 64>>, <<89, 96, 640, 64>>,
    <<97, 104, 576, 64>>, <<105, 112, 576, 64>>, <<113, 120, 512, 64>>,
    <<121, 128, 1024, 128>>, <<129, 144, 896, 128>>, <<145, 160, 768, 128>>,
    <<161, 176, 704, 128>>, <<177, 192, 640, 128>>, <<193, 208, 576, 128>>,
    <<209, 224, 576, 128>>, <<225, 240, 512, 128>>, <<241, 256, 512, 128>>,
    <<257, 272, 448, 128>>, <<273, 288, 448, 128>>, <<289, 304, 832, 256>>,
    <<305, 320, 384, 128>>, <<321, 336, 384, 128>>, <<337, 352, 704, 256>>,
    <<353, 368, 704, 256>>, <<369, 384, 320, 128>>, <<385, 400, 320, 128>>,
    <<401, 416, 576, 256>>, <<417, 432, 576, 256>>, <<433, 448, 576, 256>>,
    <<449, 464, 256, 128>>, <<465, 480, 256, 128>>, <<481, 496, 256, 128>>,
    <<497, 512, 256, 128>> >>
MediumRows == <<
    <<513, 576, 56, 32>>, <<577, 640, 51, 32>>, <<641, 704, 46, 32>>,
    <<705, 768, 42, 32>>, <<769, 832, 39, 32>>, <<833, 896, 36, 32>>,
    <<897, 960, 34, 32>>, <<961, 1024, 64, 64>>, <<1025, 1152, 56, 64>>,
    <<1153, 1280, 51, 64>>, <<1281, 1408, 46, 64>>, <<1409, 1536, 42, 64>>,
    <<1537, 1664, 39, 64>>, <<1665, 1792, 36, 64>>, <<1793, 1920, 34, 64>>,
    <<1921, 2048, 64, 128>>, <<2049, 2304, 56, 128>>, <<2305, 2560, 51, 128>>,
    <<2561, 2816, 46, 128>>, <<2817, 3072, 42, 128>>, <<3073, 3328, 39, 128>>,
    <<3329, 3584, 36, 128>>, <<3585, 3840, 34, 128>>, <<3841, 4096, 32, 128>> >>
LargeRows == <<
    <<4097, 4608, 14, 64>>, <<4609, 5120, 12, 64>>, <<5121, 5632, 11, 64>>,
    <<5633, 6144, 10, 64>>, <<6145, 6656, 9, 64>>, <<6657, 7168, 9, 64>>,
    <<7169, 7680, 8, 64>>, <<7681, 8192, 16, 128>>, <<8193, 9216, 14, 128>>,
    <<9217, 10240, 12, 128>>, <<10241, 11264, 11, 128>>, <<11265, 12288, 10, 128>>,
    <<12289, 13312, 9, 128>>, <<13313, 14336, 9, 128>>, <<14337, 15360, 8, 128>>,
    <<15361, 16384, 8, 128>> >>

Row(chunkType, row) ==
  [minv |-> row[1], maxv |-> row[2], elPerChunk |-> row[3],
   buforSize |-> row[4] * 1024, chunkType |-> chunkType]
RowsOf(chunkType, rows) == [i \in DOMAIN rows |-> Row(chunkType, rows[i])]
AnySizeRow ==
  [minv |-> 16385, maxv |-> SizeMax, elPerChunk |-> 1, buforSize |-> SizeMax,
   chunkType |-> "AnySize"]

elementSize_perChunk_Table ==
  RowsOf("Precise", PreciseRows) \o RowsOf("VerySmall", VerySmallRows)
    \o RowsOf("Small", SmallRows) \o RowsOf("Medium", MediumRows)
    \o RowsOf("Large", LargeRows) \o <<AnySizeRow>>

-----------------------------------------------------------------------------
(* indexTranslationTable: the buckets <<first, .., last>> in order, each   *)
(* written n times.                                                        *)

IndexRuns == <<
  <<0, 0, 2>>, <<1, 15, 1>>, <<16, 23, 2>>, <<24, 31, 4>>, <<32, 39, 8>>, <<40, 63, 16>>,
  <<64, 71, 64>>, <<72, 79, 128>>, <<80, 87, 256>>, <<88, 95, 512>>, <<96, 103, 1024>>,
  <<104, 104, 1>> >>
RunLength(run) == (run[2] - run[1] + 1) * run[3]
RunStart == [k \in 1 .. Len(IndexRuns) + 1 |->
               FoldLeft(LAMBDA sum, run : sum + RunLength(run), 0, SubSeq(IndexRuns, 1, k - 1))]
TabSize == RunStart[Len(IndexRuns) + 1]
indexTranslationTable(i) ==
  LET k == Max({j \in DOMAIN IndexRuns : RunStart[j] <= i})
  IN  IndexRuns[k][1] + (i - RunStart[k]) \div IndexRuns[k][3]

getSizeBucket_ClampedShort(n) == indexTranslationTable(IF n < TabSize - 1 THEN n ELSE TabSize - 2)
getSizeBucket(n) == indexTranslationTable(IF n < TabSize THEN n ELSE TabSize - 1)
getBucketRange_OneBased(bucket) == elementSize_perChunk_Table[IF bucket = 0 THEN 1 ELSE bucket]
getBucketRange(bucket) == elementSize_perChunk_Table[bucket + 1]
getSizeRange(n) == getBucketRange(getSizeBucket(n))

(* MemoryRange::operator<, the order of the maps of ranges: ranges that    *)
(* overlap are equal.                                                      *)
LessRange(a, b) == a.maxv < b.minv

-----------------------------------------------------------------------------
(* The classes createNewChunk builds for a row: words of the bitmap,       *)
(* counters of wasted bytes, bits of each.                                 *)

Template_NarrowCounters(chunkType) ==
  CASE chunkType = "Precise"             -> [SIZE1 |-> 64, ELEMENT_COUNT |-> 0, BITS |-> 0]
    [] chunkType \in {"VerySmall", "Small"} -> [SIZE1 |-> 32, ELEMENT_COUNT |-> 2048, BITS |-> 2]
    [] chunkType \in {"Medium", "Large"}    -> [SIZE1 |-> 1, ELEMENT_COUNT |-> 64, BITS |-> 8]
Template(chunkType) ==
  CASE chunkType = "Precise"   -> [SIZE1 |-> 64, ELEMENT_COUNT |-> 0,    BITS |-> 0]
    [] chunkType = "VerySmall" -> [SIZE1 |-> 32, ELEMENT_COUNT |-> 2048, BITS |-> 2]
    [] chunkType = "Small"     -> [SIZE1 |-> 16, ELEMENT_COUNT |-> 1024, BITS |-> 4]
    [] chunkType = "Medium"    -> [SIZE1 |-> 1,  ELEMENT_COUNT |-> 64,   BITS |-> 8]
    [] chunkType = "Large"     -> [SIZE1 |-> 1,  ELEMENT_COUNT |-> 16,   BITS |-> 16]

Ask(n) == size' = n /\ range' = getSizeRange(n)

Init == size = 0 /\ range = getSizeRange(0)
Next == Ask(IF size = LastSize THEN 0 ELSE size + 1)
Spec == Init /\ [][Next]_vars

-----------------------------------------------------------------------------
(* Properties.                                                             *)

(* The row holds the size, and no other row does: a search of the table    *)
(* under the order of MemoryRange would find the same one.                 *)
RowHoldsSize ==
  LET point == [minv |-> size, maxv |-> size]
  IN  {r \in ToSet(elementSize_perChunk_Table) :
         ~ LessRange(r, point) /\ ~ LessRange(point, r)} = {range}

(* A row's block, bitmap and counters are large enough for the chunk the   *)
(* row builds: its elements fit the block and the words, two-level bitmaps *)
(* are filled word by word, and the bytes a request of the row wastes fit  *)
(* a counter (a Precise row has no counters and must waste none).          *)
RowFitsChunk ==
  range.chunkType # "AnySize" =>
    LET chunk == Template(range.chunkType)
    IN  /\ range.elPerChunk \in 1 .. chunk.SIZE1 * WordBits
        /\ range.elPerChunk * range.maxv <= range.buforSize
        /\ chunk.SIZE1 > 1 => range.elPerChunk % WordBits = 0
        /\ chunk.BITS > 0 => /\ range.elPerChunk <= chunk.ELEMENT_COUNT
                             /\ (chunk.ELEMENT_COUNT * chunk.BITS) % WordBits = 0
        /\ size > 0 => range.maxv - size < 2^chunk.BITS

(* Rows grow with the size and the last, AnySize, serves what is beyond    *)
(* the table: what the concurrent core assumes of MaxSize and getSizeRange *)
(* (its row is 1 plus the number of rows too small for the size).          *)
RowsGrow ==
  LET rows == elementSize_perChunk_Table
  IN  /\ range = rows[1 + Cardinality({r \in 1 .. Len(rows) - 1 : rows[r].maxv < size})]
      /\ range.chunkType = "AnySize" <=> range = rows[Len(rows)]
=============================================================================
