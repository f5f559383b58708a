--------------------------- MODULE VMMemoryProofs ---------------------------
(***************************************************************************)
(* Theorems about VMMemory, for every table of rows, every width of words  *)
(* and every address space: its type invariant, its lists, its blocks and  *)
(* its counters of empty chunks.                                           *)
(*                                                                         *)
(* A call of dealloc passes through a state of its own before it calls     *)
(* clean, so the inductive invariant is stated of any chunks, lists and    *)
(* blocks, and VMInv of those of the state.                                *)
(***************************************************************************)
EXTENDS VMMemory, FiniteFacts, SequenceTheorems

-----------------------------------------------------------------------------
(* The inductive invariant.                                                *)

Row(chunk) == RowOf(chunk.elementSize)

(* The chunk's words, of which the mask says how many there are.           *)
WordsOf(r) == 0 .. (Rows[r].count \div WordBits) - 1

SmallChunks ==
  [kind : {"Small"}, memorysize : Nat, elementSize : Nat, bitusedmask : SUBSET Bits,
   bitfieldempty : SUBSET Bits, bitfield1 : SUBSET Bits, bitfield64 : [Bits -> SUBSET Bits],
   useCount : Nat]

(* A chunk of equal elements: bitfield1 knows its full words and, if it    *)
(* has no more words than an int has bits, bitfieldempty its empty ones.   *)
SmallInv(chunk) ==
  /\ chunk \in SmallChunks
  /\ Row(chunk) \in DOMAIN Rows
  /\ LET row == Rows[Row(chunk)]
     IN  /\ row.count >= WordBits
         /\ chunk.elementSize = row.max
         /\ chunk.memorysize = row.count * row.max
         /\ row.count <= IntBits * WordBits =>
              chunk.bitfieldempty = {w \in chunk.bitusedmask : chunk.bitfield64[w] = {}}
  /\ chunk.bitusedmask = WordsOf(Row(chunk))
  /\ chunk.bitfieldempty \subseteq chunk.bitusedmask
  /\ chunk.bitfield1 = {w \in chunk.bitusedmask : chunk.bitfield64[w] = Bits}
  /\ \A w \in Bits : chunk.bitfield64[w] # {} => w \in chunk.bitusedmask

(* A chunk of one element.                                                 *)
BigInv(chunk) ==
  /\ chunk \in [kind : {"Big"}, memorysize : Nat, elementSize : Nat, useCount : {0, 1}]
  /\ Row(chunk) \in DOMAIN Rows
  /\ Rows[Row(chunk)].count < WordBits
  /\ chunk.memorysize = chunk.elementSize
  /\ chunk.elementSize # 0

ChunkInv(chunk) == SmallInv(chunk) \/ BigInv(chunk)

(* The elements of a chunk in use are those of its blocks, one each.       *)
Matches(chunk, blocks) ==
  /\ IsFiniteSet(blocks)
  /\ {block.index : block \in blocks} = Used(chunk)
  /\ \A a, b \in blocks : a.index = b.index => a = b
  /\ chunk.useCount = Cardinality(blocks)
  /\ chunk.kind = "Small" => \A block \in blocks : block.size <= chunk.elementSize

In(mem) == {c \in ChunkIds : mem[c] # None}
Blocks(chunks) == [chunk : chunks, index : Nat, size : Sizes]
BlocksOf(c, blocks) == {block \in blocks : block.chunk = c}

ChunksInv(mem) ==
  /\ mem = [c \in ChunkIds |-> mem[c]]
  /\ \A c \in In(mem) : ChunkInv(mem[c])

BlocksInv(mem, blocks) ==
  /\ blocks \subseteq Blocks(In(mem))
  /\ \A c \in In(mem) : Matches(mem[c], BlocksOf(c, blocks))

(* No chunk twice in a list.                                               *)
Once(list) == \A i, j \in DOMAIN list : list[i] = list[j] => i = j

WithRoom(mem, r) == {c \in In(mem) : Row(mem[c]) = r /\ ~ full(mem[c])}
ListsInv(mem, lists) ==
  /\ lists \in [DOMAIN Rows -> Seq(ChunkIds)]
  /\ \A r \in DOMAIN Rows : Once(lists[r]) /\ Range(lists[r]) = WithRoom(mem, r)

(* The chunks fit the address space, and the counters are those of the     *)
(* empty ones unless a chunk misreported.                                  *)
Empties(mem) == {c \in In(mem) : empty(mem[c])}
FitsMemory(mem) == BytesOf(mem, In(mem)) < SizeWord
Counts(s) ==
  /\ s.size = BytesOf(s.memory, Empties(s.memory))
  /\ s.count = Cardinality(Empties(s.memory))

PlaceInv(mem, lists, blocks) ==
  ChunksInv(mem) /\ ListsInv(mem, lists) /\ BlocksInv(mem, blocks) /\ FitsMemory(mem)

CountersInv ==
  /\ emptyBlocksSize \in 0 .. SizeWord - 1
  /\ emptyBlocksCount \in 0 .. SizeWord - 1
  /\ misreported \in Seq(DOMAIN Rows)
  /\ \A r \in Range(misreported) : Rows[r].count > IntBits * WordBits
  /\ misreported = << >> => Counts(Now)

VMInv == PlaceInv(memory, notfullchunks, live) /\ CountersInv

-----------------------------------------------------------------------------
(* Rows, words and bits.                                                   *)

LEMMA Widths ==
  /\ WordBits \in Nat \ {0} /\ IntBits \in 1 .. WordBits /\ SizeWord \in Nat \ {0}
  /\ Bits \subseteq Nat /\ IsFiniteSet(Bits)
<1>1. WordBits \in Nat \ {0} /\ IntBits \in 1 .. WordBits /\ SizeWord \in Nat \ {0}
  BY WidthAssumption
<1>2. IsFiniteSet(Bits)
  BY <1>1, FS_Interval DEF Bits
<1> QED BY <1>1, <1>2 DEF Bits

LEMMA RowTypes ==
  /\ DOMAIN Rows = 1 .. Len(Rows) /\ Len(Rows) \in Nat
  /\ \A r \in DOMAIN Rows :
       /\ r \in Nat /\ Rows[r].min \in Nat /\ Rows[r].max \in Nat /\ Rows[r].count \in Nat
       /\ Rows[r].min <= Rows[r].max /\ 1 <= Rows[r].min
<1>1. DOMAIN Rows = 1 .. Len(Rows) /\ Len(Rows) \in Nat
  BY RowsAssumption
<1>2. ASSUME NEW r \in DOMAIN Rows
      PROVE  /\ r \in Nat /\ Rows[r].min \in Nat /\ Rows[r].max \in Nat /\ Rows[r].count \in Nat
             /\ Rows[r].min <= Rows[r].max
  <2>1. Rows[r] \in [min : Nat, max : Nat, count : Nat]
    BY <1>1, RowsAssumption, ElementOfSeq
  <2> QED BY <1>1, <2>1, RowsAssumption
<1>3. ASSUME NEW r \in DOMAIN Rows PROVE 1 <= Rows[r].min
  <2>1. CASE r = 1
    BY <2>1, RowsAssumption
  <2>2. CASE r # 1
    <3>1. r - 1 \in DOMAIN Rows
      BY <1>1, <2>2
    <3>2. Rows[r].min = Rows[r - 1].max + 1 /\ Rows[r - 1].max \in Nat
      BY <1>2, <2>2, <3>1, RowsAssumption
    <3> QED BY <3>2
  <2> QED BY <2>1, <2>2
<1> QED BY <1>1, <1>2, <1>3

(* The rows ascend.                                                        *)
LEMMA RowsAscend ==
  ASSUME NEW r \in DOMAIN Rows, NEW q \in DOMAIN Rows, r < q
  PROVE  Rows[r].max < Rows[q].min
<1> DEFINE Bad == {i \in DOMAIN Rows : r < i /\ ~ Rows[r].max < Rows[i].min}
<1>1. ASSUME Bad # {} PROVE FALSE
  <2>1. Bad \in SUBSET Nat
    BY RowTypes
  <2>2. PICK i \in Bad : \A j \in Bad : i <= j
    <3> HIDE DEF Bad
    <3> QED BY <1>1, <2>1, MinOfNaturals
  <2>3. i - 1 \in DOMAIN Rows /\ i # 1 /\ r <= i - 1
    BY RowTypes
  <2>4. Rows[i].min = Rows[i - 1].max + 1
    BY <2>3, RowsAssumption
  <2>5. CASE r = i - 1
    BY <2>4, <2>5, RowTypes
  <2>6. CASE r # i - 1
    <3>1. i - 1 \notin Bad
      BY <2>2, RowTypes
    <3>2. Rows[r].max < Rows[i - 1].min /\ Rows[i - 1].min <= Rows[i - 1].max
      BY <2>3, <2>6, <3>1, RowTypes
    <3> QED BY <2>3, <2>4, <3>2, RowTypes
  <2> QED BY <2>5, <2>6
<1>2. q \notin Bad
  BY <1>1
<1> QED BY <1>2

(* A number is in one row at most, and RowOf finds it.                     *)
LEMMA RowOfIs ==
  ASSUME NEW r \in DOMAIN Rows, NEW n \in Nat, Rows[r].min <= n, n <= Rows[r].max
  PROVE  RowOf(n) = r
<1>1. \E q \in DOMAIN Rows : Rows[q].min <= n /\ n <= Rows[q].max
  OBVIOUS
<1>2. PICK q : q = RowOf(n)
  OBVIOUS
<1>3. q \in DOMAIN Rows /\ Rows[q].min <= n /\ n <= Rows[q].max
  BY <1>1, <1>2, Zenon DEF RowOf
<1>4. ~ r < q /\ ~ q < r
  BY <1>3, RowsAscend, RowTypes
<1> QED BY <1>2, <1>3, <1>4, RowTypes

(* The row of a size asked, and of its row's elements.                     *)
LEMMA SizeRow ==
  ASSUME NEW size \in Sizes
  PROVE  /\ size \in Nat \ {0} /\ RowOf(size) \in DOMAIN Rows
         /\ size <= Rows[RowOf(size)].max
         /\ RowOf(Rows[RowOf(size)].max) = RowOf(size)
<1>1. PICK r \in DOMAIN Rows : size \in Rows[r].min .. Rows[r].max
  BY SizesAssumption
<1>2. size \in Nat \ {0} /\ Rows[r].min <= size /\ size <= Rows[r].max
  BY <1>1, RowTypes
<1>3. RowOf(size) = r
  BY <1>2, RowOfIs
<1>4. RowOf(Rows[r].max) = r
  BY RowOfIs, RowTypes
<1> QED BY <1>2, <1>3, <1>4

(* The number of words of a row of equal elements.                         *)
LEMMA RowWords ==
  ASSUME NEW r \in DOMAIN Rows, Rows[r].count >= WordBits
  PROVE  \E words \in 1 .. WordBits :
           /\ Rows[r].count = words * WordBits
           /\ Rows[r].count \div WordBits = words
           /\ WordsOf(r) = 0 .. words - 1
<1>1. \E words \in 1 .. WordBits : Rows[r].count = words * WordBits
  <2>1. CASE Rows[r].count = 1
    <3>1. WordBits = 1
      BY <2>1, Widths
    <3> QED BY <2>1, <3>1
  <2>2. CASE Rows[r].count # 1
    BY <2>2, RowsAssumption
  <2> QED BY <2>1, <2>2
<1>2. PICK words \in 1 .. WordBits : Rows[r].count = words * WordBits
  BY <1>1
<1>3. (words * WordBits) \div WordBits = words
  BY Widths, Z3
<1> QED BY <1>2, <1>3 DEF WordsOf

(* The first 0 bit of a word that has one.                                 *)
LEMMA FirstEmptyBit ==
  ASSUME NEW word \in SUBSET Bits, NEW some \in Bits \ word
  PROVE  /\ findFirstEmptyBit(word) \in Bits \ word
         /\ findFirstEmptyBit(word) <= some
<1>1. Bits \ word \in SUBSET Nat /\ Bits \ word # {}
  BY Widths
<1> QED BY <1>1, MinOfNaturals DEF findFirstEmptyBit

(* An index is a word and a bit.                                           *)
LEMMA IndexOfBit ==
  ASSUME NEW w \in Bits, NEW b \in Bits
  PROVE  /\ w * WordBits + b \in 0 .. WordBits * WordBits - 1
         /\ (w * WordBits + b) \div WordBits = w
         /\ (w * WordBits + b) % WordBits = b
<1>1. w * WordBits + b \in Nat /\ (w * WordBits + b) \div WordBits = w
      /\ (w * WordBits + b) % WordBits = b
  BY Widths, Z3 DEF Bits
<1>2. (WordBits - 1 - w) * WordBits >= 0
  BY Widths, Z3 DEF Bits
<1>3. w * WordBits <= WordBits * WordBits - WordBits
  BY <1>2, Widths, Z3 DEF Bits
<1> QED BY <1>1, <1>3, Widths, Z3 DEF Bits

LEMMA BitOfIndex ==
  ASSUME NEW i \in 0 .. WordBits * WordBits - 1
  PROVE  /\ i \div WordBits \in Bits /\ i % WordBits \in Bits
         /\ i = (i \div WordBits) * WordBits + (i % WordBits)
<1>1. i \in Nat /\ i \div WordBits \in Nat /\ i % WordBits \in Bits
      /\ i = (i \div WordBits) * WordBits + (i % WordBits)
  BY Widths, Z3 DEF Bits
<1>2. i < WordBits * WordBits
  BY Widths
<1>3. i \div WordBits < WordBits
  BY <1>1, <1>2, Widths, Z3
<1> QED BY <1>1, <1>3, Widths DEF Bits

(* Two indexes of one word and bit are one.                                *)
LEMMA OneIndex ==
  ASSUME NEW i \in 0 .. WordBits * WordBits - 1, NEW j \in 0 .. WordBits * WordBits - 1,
         i \div WordBits = j \div WordBits, i % WordBits = j % WordBits
  PROVE  i = j
BY BitOfIndex, Zenon

-----------------------------------------------------------------------------
(* Lists.                                                                  *)

(* An element put in front of a list it is not in.                         *)
LEMMA PushFacts ==
  ASSUME NEW S, NEW list \in Seq(S), NEW c \in S, Once(list), c \notin Range(list)
  PROVE  /\ <<c>> \o list \in Seq(S) /\ Once(<<c>> \o list)
         /\ Range(<<c>> \o list) = Range(list) \cup {c}
<1> DEFINE longer == <<c>> \o list
<1>1. <<c>> \in Seq(S) /\ Len(<<c>>) = 1 /\ <<c>>[1] = c
  OBVIOUS
<1>2. /\ longer \in Seq(S) /\ Len(longer) = 1 + Len(list)
      /\ \A i \in 1 .. 1 + Len(list) : longer[i] = IF i <= 1 THEN c ELSE list[i - 1]
  BY <1>1, ConcatProperties
<1>3. Len(list) \in Nat /\ DOMAIN list = 1 .. Len(list) /\ DOMAIN longer = 1 .. 1 + Len(list)
  BY <1>2, LenProperties
<1> HIDE DEF longer
<1>4. \A i \in DOMAIN list : list[i] # c
  BY DEF Range
<1>5. Once(longer)
  <2>1. SUFFICES ASSUME NEW i \in DOMAIN longer, NEW j \in DOMAIN longer, longer[i] = longer[j]
                 PROVE  i = j
    BY DEF Once
  <2>2. i # 1 => i - 1 \in DOMAIN list /\ longer[i] = list[i - 1]
    BY <1>2, <1>3
  <2>3. j # 1 => j - 1 \in DOMAIN list /\ longer[j] = list[j - 1]
    BY <1>2, <1>3
  <2>4. longer[1] = c
    BY <1>2, <1>3
  <2>5. CASE i = 1 \/ j = 1
    BY <1>4, <2>1, <2>2, <2>3, <2>4, <2>5
  <2>6. CASE i # 1 /\ j # 1
    <3>1. i - 1 = j - 1
      BY <2>1, <2>2, <2>3, <2>6 DEF Once
    <3> QED BY <1>3, <3>1
  <2> QED BY <2>5, <2>6
<1>6. Range(longer) = Range(list) \cup {c}
  <2>1. \A i \in DOMAIN longer : longer[i] \in Range(list) \cup {c}
    <3>1. \A i \in DOMAIN longer : i = 1 \/ i - 1 \in DOMAIN list
      BY <1>3
    <3> QED BY <1>2, <1>3, <3>1 DEF Range
  <2>2. \A i \in DOMAIN list : i + 1 \in DOMAIN longer /\ longer[i + 1] = list[i]
    BY <1>2, <1>3
  <2>3. 1 \in DOMAIN longer /\ longer[1] = c
    BY <1>2, <1>3
  <2> QED BY <2>1, <2>2, <2>3 DEF Range
<1> QED BY <1>2, <1>5, <1>6 DEF longer

(* An element put at the end of a list it is not in.                       *)
LEMMA AppendFacts ==
  ASSUME NEW S, NEW list \in Seq(S), NEW c \in S
  PROVE  /\ Append(list, c) \in Seq(S)
         /\ Range(Append(list, c)) = Range(list) \cup {c}
         /\ Once(list) /\ c \notin Range(list) => Once(Append(list, c))
<1> DEFINE longer == Append(list, c)
<1>1. /\ longer \in Seq(S) /\ Len(longer) = Len(list) + 1
      /\ \A i \in 1 .. Len(list) : longer[i] = list[i]
      /\ longer[Len(list) + 1] = c
  BY AppendProperties
<1>2. Len(list) \in Nat /\ DOMAIN list = 1 .. Len(list) /\ DOMAIN longer = 1 .. Len(list) + 1
  BY <1>1, LenProperties
<1> HIDE DEF longer
<1>3. Range(longer) = Range(list) \cup {c}
  <2>1. \A i \in DOMAIN longer : i \in DOMAIN list \/ i = Len(list) + 1
    BY <1>2
  <2>2. \A i \in DOMAIN list : i \in DOMAIN longer /\ longer[i] = list[i]
    BY <1>1, <1>2
  <2>3. Len(list) + 1 \in DOMAIN longer
    BY <1>2
  <2> QED BY <1>1, <2>1, <2>2, <2>3 DEF Range
<1>4. ASSUME Once(list), c \notin Range(list), NEW i \in DOMAIN longer, NEW j \in DOMAIN longer,
             longer[i] = longer[j]
      PROVE  i = j
  <2>1. \A k \in DOMAIN longer : (k \in DOMAIN list /\ longer[k] = list[k]) \/ k = Len(list) + 1
    BY <1>1, <1>2
  <2>2. \A k \in DOMAIN list : list[k] # c
    BY <1>4 DEF Range
  <2> QED BY <1>1, <1>4, <2>1, <2>2 DEF Once
<1> QED BY <1>1, <1>3, <1>4 DEF Once, longer

(* A list without its head.                                                *)
LEMMA TailFacts ==
  ASSUME NEW S, NEW list \in Seq(S), list # << >>, Once(list)
  PROVE  /\ Head(list) \in Range(list) /\ Tail(list) \in Seq(S) /\ Once(Tail(list))
         /\ Range(Tail(list)) = Range(list) \ {Head(list)}
<1> DEFINE rest == Tail(list)
<1>1. /\ rest \in Seq(S) /\ Len(rest) = Len(list) - 1
      /\ \A i \in 1 .. Len(rest) : rest[i] = list[i + 1]
  BY HeadTailProperties
<1>2. Len(list) \in Nat \ {0} /\ DOMAIN list = 1 .. Len(list) /\ DOMAIN rest = 1 .. Len(list) - 1
  BY <1>1, LenProperties, EmptySeq
<1>3. Head(list) = list[1] /\ 1 \in DOMAIN list
  BY <1>2
<1> HIDE DEF rest
<1>4. \A i \in DOMAIN rest : i + 1 \in DOMAIN list /\ i + 1 # 1 /\ rest[i] = list[i + 1]
  BY <1>1, <1>2
<1>5. Once(rest)
  <2>1. SUFFICES ASSUME NEW i \in DOMAIN rest, NEW j \in DOMAIN rest, rest[i] = rest[j]
                 PROVE  i = j
    BY DEF Once
  <2>2. i + 1 = j + 1
    BY <1>4, <2>1 DEF Once
  <2> QED BY <1>2, <2>2
<1>6. Range(rest) = Range(list) \ {list[1]}
  <2>1. \A i \in DOMAIN rest : rest[i] \in Range(list) \ {list[1]}
    BY <1>3, <1>4 DEF Once, Range
  <2>2. \A i \in DOMAIN list : i # 1 => i - 1 \in DOMAIN rest /\ rest[i - 1] = list[i]
    BY <1>1, <1>2
  <2> QED BY <2>1, <2>2 DEF Range
<1> QED BY <1>1, <1>3, <1>5, <1>6 DEF rest, Range

(* Without is defined for every list.                                      *)
IsKept(list, gone, n, g) ==
  g = [i \in 0 .. n |->
         IF i = 0 THEN << >> ELSE IF list[i] \in gone THEN g[i - 1] ELSE Append(g[i - 1], list[i])]
Kept(list, gone) == CHOOSE g : IsKept(list, gone, Len(list), g)

LEMMA WithoutIs ==
  ASSUME NEW list, NEW gone
  PROVE  Without(list, gone) = Kept(list, gone)[Len(list)]
BY DEF Without, Kept, IsKept

LEMMA KeptExists ==
  ASSUME NEW list, NEW gone, NEW n \in Nat
  PROVE  \E g : IsKept(list, gone, n, g)
<1> DEFINE Bad == {k \in Nat : ~ \E g : IsKept(list, gone, k, g)}
<1>1. ASSUME Bad # {} PROVE FALSE
  <2>1. PICK k \in Bad : \A j \in Bad : k <= j
    <3>1. Bad \in SUBSET Nat
      OBVIOUS
    <3> HIDE DEF Bad
    <3> QED BY <1>1, <3>1, MinOfNaturals
  <2>2. CASE k = 0
    <3> DEFINE none == [i \in 0 .. 0 |-> << >>]
    <3>1. IsKept(list, gone, 0, none)
      BY DEF IsKept
    <3> QED BY <2>1, <2>2, <3>1
  <2>3. CASE k # 0
    <3>1. k - 1 \in Nat /\ k - 1 \notin Bad
      BY <2>1, <2>3
    <3>2. PICK g : IsKept(list, gone, k - 1, g)
      BY <3>1
    <3> DEFINE step(i) == IF i = 0 THEN << >>
                          ELSE IF list[i] \in gone THEN g[i - 1] ELSE Append(g[i - 1], list[i])
               h == [i \in 0 .. k |-> step(i)]
    <3>3. \A i \in 0 .. k - 1 : g[i] = step(i)
      BY <3>2 DEF IsKept
    <3>4. \A i \in 0 .. k - 1 : i \in 0 .. k /\ h[i] = g[i]
      BY <3>1, <3>3
    <3>5. \A i \in 0 .. k : i # 0 => i - 1 \in 0 .. k - 1
      BY <2>3
    <3>6. h = [i \in 0 .. k |->
                 IF i = 0 THEN << >>
                 ELSE IF list[i] \in gone THEN h[i - 1] ELSE Append(h[i - 1], list[i])]
      BY <3>4, <3>5
    <3>7. IsKept(list, gone, k, h)
      BY <3>6 DEF IsKept
    <3> QED BY <2>1, <3>7
  <2> QED BY <2>2, <2>3
<1>2. n \notin Bad
  BY <1>1
<1> QED BY <1>2

(* A list without some of its elements has the others, once if it had them *)
(* once.                                                                   *)
LEMMA WithoutFacts ==
  ASSUME NEW S, NEW list \in Seq(S), NEW gone
  PROVE  /\ Without(list, gone) \in Seq(S)
         /\ Range(Without(list, gone)) = Range(list) \ gone
         /\ Once(list) => Once(Without(list, gone))
<1> DEFINE g == Kept(list, gone)
           n == Len(list)
           First(i) == {list[j] : j \in 1 .. i}
           Right(i) == /\ g[i] \in Seq(S) /\ Range(g[i]) = First(i) \ gone
                       /\ Once(list) => Once(g[i])
           Bad == {i \in 0 .. n : ~ Right(i)}
<1>1. n \in Nat /\ DOMAIN list = 1 .. n /\ \A i \in 1 .. n : list[i] \in S
  BY LenProperties, ElementOfSeq
<1>2. IsKept(list, gone, n, g)
  <2>1. \E h : IsKept(list, gone, n, h)
    BY <1>1, KeptExists
  <2> QED BY <2>1 DEF Kept
<1> HIDE DEF g, n
<1>3. /\ g[0] = << >>
      /\ \A i \in 1 .. n : g[i] = IF list[i] \in gone THEN g[i - 1] ELSE Append(g[i - 1], list[i])
  <2>1. 0 \in 0 .. n /\ \A i \in 1 .. n : i \in 0 .. n /\ i # 0
    BY <1>1
  <2>2. \A i \in 0 .. n :
          g[i] = IF i = 0 THEN << >>
                 ELSE IF list[i] \in gone THEN g[i - 1] ELSE Append(g[i - 1], list[i])
    BY <1>2 DEF IsKept
  <2> HIDE DEF g
  <2> QED BY <2>1, <2>2
<1>4. ASSUME Bad # {} PROVE FALSE
  <2>1. PICK i \in Bad : \A j \in Bad : i <= j
    <3>1. Bad \in SUBSET Nat
      BY <1>1
    <3> HIDE DEF Bad
    <3> QED BY <1>4, <3>1, MinOfNaturals
  <2>2. i # 0
    <3>1. First(0) = {}
      OBVIOUS
    <3>2. << >> \in Seq(S) /\ Range(<< >>) = {} /\ Once(<< >>)
      BY EmptySeq DEF Range, Once
    <3>3. Right(0)
      BY <1>3, <3>1, <3>2
    <3> HIDE DEF Right
    <3> QED BY <2>1, <3>3
  <2>3. i \in 1 .. n /\ i - 1 \in 0 .. n /\ ~ Right(i)
    BY <1>1, <2>1, <2>2
  <2>4. Right(i - 1)
    <3> HIDE DEF Right
    <3>1. i - 1 < i /\ i - 1 \notin Bad
      BY <1>1, <2>1, <2>3
    <3> QED BY <2>3, <3>1
  <2>5. list[i] \in S /\ First(i) = First(i - 1) \cup {list[i]}
    <3>1. \A j \in 1 .. i : j \in 1 .. i - 1 \/ j = i
      BY <1>1, <2>3
    <3>2. i \in 1 .. i /\ \A j \in 1 .. i - 1 : j \in 1 .. i
      BY <1>1, <2>3
    <3> QED BY <1>1, <2>3, <3>1, <3>2
  <2>6. CASE list[i] \in gone
    <3>1. g[i] = g[i - 1]
      BY <1>3, <2>3, <2>6
    <3>2. First(i) \ gone = First(i - 1) \ gone
      BY <2>5, <2>6
    <3> HIDE DEF First
    <3> QED BY <2>3, <2>4, <3>1, <3>2
  <2>7. CASE list[i] \notin gone
    <3>1. g[i] = Append(g[i - 1], list[i])
      BY <1>3, <2>3, <2>7
    <3>2. Once(list) => list[i] \notin First(i - 1)
      BY <1>1, <2>3 DEF Once
    <3>3. /\ g[i] \in Seq(S) /\ Range(g[i]) = Range(g[i - 1]) \cup {list[i]}
          /\ Once(g[i - 1]) /\ list[i] \notin Range(g[i - 1]) => Once(g[i])
      BY <2>4, <2>5, <3>1, AppendFacts
    <3>4. First(i) \ gone = (First(i - 1) \ gone) \cup {list[i]}
      BY <2>5, <2>7
    <3> HIDE DEF First
    <3> QED BY <2>3, <2>4, <3>2, <3>3, <3>4
  <2> QED BY <2>6, <2>7
<1>5. Right(n)
  <2> HIDE DEF Right
  <2>1. n \in 0 .. n /\ n \notin Bad
    BY <1>1, <1>4
  <2> QED BY <2>1
<1>6. First(n) = Range(list)
  BY <1>1 DEF Range
<1> QED BY <1>5, <1>6, WithoutIs DEF g, n

-----------------------------------------------------------------------------
(* The chunks.                                                             *)

LEMMA MaskFacts ==
  ASSUME NEW chunk, SmallInv(chunk)
  PROVE  /\ chunk.bitusedmask \subseteq Bits /\ chunk.bitusedmask # {}
         /\ Row(chunk) \in DOMAIN Rows
         /\ Rows[Row(chunk)].count <= IntBits * WordBits =>
              \A w \in chunk.bitusedmask : w < IntBits
<1> DEFINE r == Row(chunk)
<1>1. r \in DOMAIN Rows /\ Rows[r].count >= WordBits /\ chunk.bitusedmask = WordsOf(r)
  BY DEF SmallInv
<1> HIDE DEF r
<1>2. PICK words \in 1 .. WordBits :
        /\ Rows[r].count = words * WordBits
        /\ Rows[r].count \div WordBits = words
        /\ WordsOf(r) = 0 .. words - 1
  BY <1>1, RowWords
<1>3. words * WordBits <= IntBits * WordBits => words <= IntBits
  <2>1. words > IntBits => (words - IntBits) * WordBits >= WordBits
    BY Widths, Z3
  <2> QED BY <2>1, Widths, Z3
<1>4. /\ chunk.bitusedmask \subseteq Bits /\ 0 \in chunk.bitusedmask
      /\ \A w \in chunk.bitusedmask : w < words
  BY <1>1, <1>2, Widths DEF Bits
<1>5. Rows[r].count <= IntBits * WordBits => \A w \in chunk.bitusedmask : w < IntBits
  <2>1. Rows[r].count <= IntBits * WordBits => words <= IntBits
    BY <1>2, <1>3
  <2>2. IntBits \in Int /\ words \in Int /\ \A w \in chunk.bitusedmask : w \in Int
    BY <1>2, <1>4, Widths DEF Bits
  <2> QED BY <1>4, <2>1, <2>2
<1> QED BY <1>1, <1>4, <1>5 DEF r

(* A new chunk of equal elements.                                          *)
LEMMA NewSmallFacts ==
  ASSUME NEW r \in DOMAIN Rows, Rows[r].count >= WordBits
  PROVE  LET chunk == NewSmall(Rows[r])
         IN  /\ SmallInv(chunk) /\ Row(chunk) = r /\ chunk.kind = "Small"
             /\ ~ full(chunk) /\ Used(chunk) = {} /\ chunk.useCount = 0
             /\ chunk.elementSize = Rows[r].max
<1> DEFINE chunk == NewSmall(Rows[r])
<1>1. PICK words \in 1 .. WordBits :
        /\ Rows[r].count = words * WordBits
        /\ Rows[r].count \div WordBits = words
        /\ WordsOf(r) = 0 .. words - 1
  BY RowWords
<1>2. /\ chunk.kind = "Small" /\ chunk.useCount = 0 /\ chunk.elementSize = Rows[r].max
      /\ chunk.memorysize = Rows[r].count * Rows[r].max
      /\ chunk.bitusedmask = WordsOf(r) /\ chunk.bitfieldempty = WordsOf(r)
      /\ chunk.bitfield1 = {} /\ chunk.bitfield64 = [w \in Bits |-> {}]
  BY DEF NewSmall, WordsOf
<1>3. WordsOf(r) \subseteq Bits /\ 0 \in WordsOf(r) /\ 0 \in Bits
  BY <1>1, Widths DEF Bits
<1>4. Row(chunk) = r
  BY <1>2, RowOfIs, RowTypes DEF Row
<1>5. chunk \in SmallChunks
  <2>1. Rows[r].count * Rows[r].max \in Nat /\ Rows[r].max \in Nat
    BY RowTypes
  <2>2. (0 .. (Rows[r].count \div WordBits) - 1) \in SUBSET Bits
    BY <1>3 DEF WordsOf
  <2>3. [w \in Bits |-> {}] \in [Bits -> SUBSET Bits]
    OBVIOUS
  <2> QED BY <2>1, <2>2, <2>3 DEF SmallChunks, NewSmall
<1>6. SmallInv(chunk)
  <2> HIDE DEF chunk
  <2>1. \A w \in Bits : chunk.bitfield64[w] = {}
    BY <1>2
  <2>2. chunk.bitfieldempty = {w \in chunk.bitusedmask : chunk.bitfield64[w] = {}}
    BY <1>2, <1>3, <2>1
  <2>3. chunk.bitfield1 = {w \in chunk.bitusedmask : chunk.bitfield64[w] = Bits}
    BY <1>2, <1>3, <2>1
  <2> QED BY <1>2, <1>4, <1>5, <2>1, <2>2, <2>3 DEF SmallInv
<1>7. ~ full(chunk)
  <2> HIDE DEF chunk
  <2> QED BY <1>2, <1>3 DEF full
<1>8. Used(chunk) = {}
  <2> HIDE DEF chunk
  <2>1. \A i \in 0 .. WordBits * WordBits - 1 : i \div WordBits \in Bits
    BY BitOfIndex
  <2> QED BY <1>2, <2>1 DEF Used
<1> HIDE DEF chunk
<1> QED BY <1>2, <1>4, <1>6, <1>7, <1>8 DEF chunk

(* A new chunk of one element.                                             *)
LEMMA NewBigFacts ==
  ASSUME NEW size \in Sizes, Rows[RowOf(size)].count < WordBits
  PROVE  LET chunk == NewBig(size)
         IN  /\ BigInv(chunk) /\ Row(chunk) = RowOf(size) /\ chunk.kind = "Big"
             /\ ~ full(chunk) /\ Used(chunk) = {} /\ chunk.useCount = 0
<1> DEFINE chunk == NewBig(size)
<1>1. size \in Nat \ {0} /\ RowOf(size) \in DOMAIN Rows
  BY SizeRow
<1>2. /\ chunk.kind = "Big" /\ chunk.useCount = 0 /\ chunk.elementSize = size
      /\ chunk.memorysize = size
      /\ chunk \in [kind : {"Big"}, memorysize : Nat, elementSize : Nat, useCount : {0, 1}]
  BY <1>1 DEF NewBig
<1> HIDE DEF chunk
<1>3. BigInv(chunk) /\ Row(chunk) = RowOf(size)
  BY <1>1, <1>2 DEF BigInv, Row
<1>4. ~ full(chunk) /\ Used(chunk) = {}
  BY <1>2 DEF full, Used
<1> QED BY <1>2, <1>3, <1>4 DEF chunk

(* Two chunks that differ in the bits of one word differ in those elements.*)
LEMMA UsedStep ==
  ASSUME NEW old, NEW new, old.kind = "Small", new.kind = "Small",
         old.bitfield64 \in [Bits -> SUBSET Bits],
         NEW w \in Bits, NEW word \in SUBSET Bits, NEW b \in Bits,
         new.bitfield64 = [old.bitfield64 EXCEPT ![w] = word],
         word \ {b} = old.bitfield64[w] \ {b}
  PROVE  LET i == w * WordBits + b
         IN  /\ i \in Used(old) <=> b \in old.bitfield64[w]
             /\ i \in Used(new) <=> b \in word
             /\ Used(new) \ {i} = Used(old) \ {i}
<1> DEFINE i == w * WordBits + b
           Indexes == 0 .. WordBits * WordBits - 1
<1>1. i \in Indexes /\ i \div WordBits = w /\ i % WordBits = b
  BY IndexOfBit
<1>2. new.bitfield64[w] = word
  OBVIOUS
<1>3. /\ Used(old) = {j \in Indexes : j % WordBits \in old.bitfield64[j \div WordBits]}
      /\ Used(new) = {j \in Indexes : j % WordBits \in new.bitfield64[j \div WordBits]}
  BY DEF Used
<1> HIDE DEF i
<1>4. ASSUME NEW j \in Indexes, j # i
      PROVE  j % WordBits \in new.bitfield64[j \div WordBits]
               <=> j % WordBits \in old.bitfield64[j \div WordBits]
  <2>1. j \div WordBits \in Bits /\ j % WordBits \in Bits
    BY BitOfIndex
  <2>2. CASE j \div WordBits = w
    <3>1. j % WordBits # b
      BY <1>1, <1>4, <2>2, OneIndex
    <3> QED BY <1>2, <2>2, <3>1
  <2>3. CASE j \div WordBits # w
    BY <2>1, <2>3
  <2> QED BY <2>2, <2>3
<1> HIDE DEF Indexes
<1>5. Used(new) \ {i} = Used(old) \ {i}
  BY <1>3, <1>4
<1>6. (i \in Used(old) <=> b \in old.bitfield64[w]) /\ (i \in Used(new) <=> b \in word)
  BY <1>1, <1>2, <1>3
<1> QED BY <1>5, <1>6 DEF i

(* What a call leaves of a chunk's shape.                                  *)
SameShape(old, new) ==
  /\ new.kind = old.kind /\ new.elementSize = old.elementSize
  /\ new.memorysize = old.memorysize

(* alloc of a chunk of equal elements with room takes an element that was  *)
(* not in use.                                                             *)
LEMMA SmallAllocFacts ==
  ASSUME NEW chunk, SmallInv(chunk), ~ full(chunk)
  PROVE  LET result == SmallAlloc(chunk)
             new == result.chunk
         IN  /\ SmallInv(new) /\ SameShape(chunk, new)
             /\ new.useCount = chunk.useCount + 1
             /\ result.index \in Nat /\ result.index \notin Used(chunk)
             /\ Used(new) = Used(chunk) \cup {result.index}
<1> DEFINE w == findFirstEmptyBit(chunk.bitfield1)
           b == findFirstEmptyBit(chunk.bitfield64[w])
           word == chunk.bitfield64[w] \cup {b}
           i == w * WordBits + b
           new == SmallAlloc(chunk).chunk
<1>1. /\ chunk.kind = "Small" /\ chunk \in SmallChunks
      /\ chunk.bitfield64 \in [Bits -> SUBSET Bits] /\ chunk.useCount \in Nat
      /\ chunk.bitfield1 = {v \in chunk.bitusedmask : chunk.bitfield64[v] = Bits}
      /\ chunk.bitfieldempty \subseteq chunk.bitusedmask
      /\ \A v \in Bits : chunk.bitfield64[v] # {} => v \in chunk.bitusedmask
  BY DEF SmallInv, SmallChunks
<1>2. chunk.bitusedmask \subseteq Bits
  BY MaskFacts
<1>3. w \in chunk.bitusedmask \ chunk.bitfield1
  <2>1. PICK some \in chunk.bitusedmask : some \notin chunk.bitfield1
    BY <1>1 DEF full
  <2>2. chunk.bitfield1 \in SUBSET Bits /\ some \in Bits \ chunk.bitfield1
    BY <1>1, <1>2, <2>1
  <2>3. w \in Bits \ chunk.bitfield1 /\ w <= some
    BY <2>2, FirstEmptyBit
  <2>4. \E n \in Nat : chunk.bitusedmask = 0 .. n - 1
    <3>1. Row(chunk) \in DOMAIN Rows /\ Rows[Row(chunk)].count >= WordBits
          /\ chunk.bitusedmask = WordsOf(Row(chunk))
      BY DEF SmallInv
    <3> QED BY <3>1, RowWords
  <2>5. w \in chunk.bitusedmask
    BY <2>1, <2>3, <2>4, Widths DEF Bits
  <2> QED BY <2>3, <2>5
<1> HIDE DEF w
<1>4. w \in Bits /\ chunk.bitfield64[w] \in SUBSET Bits /\ chunk.bitfield64[w] # Bits
  BY <1>1, <1>2, <1>3
<1>5. b \in Bits \ chunk.bitfield64[w]
  <2>1. PICK some \in Bits : some \notin chunk.bitfield64[w]
    BY <1>4
  <2> QED BY <1>4, <2>1, FirstEmptyBit
<1>6. /\ SmallAlloc(chunk).index = i
      /\ new = [chunk EXCEPT !.bitfieldempty = @ \ ClearedBits(w), !.bitfield64[w] = word,
                             !.bitfield1 = IF word = Bits THEN @ \cup {w} ELSE @,
                             !.useCount = @ + 1]
  BY DEF SmallAlloc, w
<1> HIDE DEF b
<1>7. word \in SUBSET Bits /\ word # {} /\ b \in word
  BY <1>4, <1>5
<1> HIDE DEF word, new
<1>8. /\ new \in SmallChunks /\ SameShape(chunk, new) /\ new.bitusedmask = chunk.bitusedmask
      /\ new.bitfieldempty = chunk.bitfieldempty \ ClearedBits(w)
      /\ new.bitfield64 = [chunk.bitfield64 EXCEPT ![w] = word]
      /\ new.bitfield1 = IF word = Bits THEN chunk.bitfield1 \cup {w} ELSE chunk.bitfield1
      /\ new.useCount = chunk.useCount + 1
  <2>1. chunk.bitfieldempty \ ClearedBits(w) \in SUBSET Bits
    BY <1>1, <1>2
  <2>2. [chunk.bitfield64 EXCEPT ![w] = word] \in [Bits -> SUBSET Bits]
    BY <1>1, <1>7
  <2>3. (IF word = Bits THEN chunk.bitfield1 \cup {w} ELSE chunk.bitfield1) \in SUBSET Bits
    BY <1>1, <1>2, <1>4
  <2> PICK empties, words, fulls :
        /\ empties = chunk.bitfieldempty \ ClearedBits(w)
        /\ words = [chunk.bitfield64 EXCEPT ![w] = word]
        /\ fulls = IF word = Bits THEN chunk.bitfield1 \cup {w} ELSE chunk.bitfield1
    OBVIOUS
  <2>4. new = [chunk EXCEPT !.bitfieldempty = empties, !.bitfield64 = words, !.bitfield1 = fulls,
                            !.useCount = @ + 1]
    BY <1>6
  <2>5. empties \in SUBSET Bits /\ words \in [Bits -> SUBSET Bits] /\ fulls \in SUBSET Bits
    BY <2>1, <2>2, <2>3
  <2>6. /\ new \in SmallChunks /\ SameShape(chunk, new) /\ new.bitusedmask = chunk.bitusedmask
        /\ new.bitfieldempty = empties /\ new.bitfield64 = words /\ new.bitfield1 = fulls
        /\ new.useCount = chunk.useCount + 1
    <3>1. /\ new.bitfieldempty = empties /\ new.bitfield64 = words /\ new.bitfield1 = fulls
          /\ new.useCount = chunk.useCount + 1 /\ new.kind = chunk.kind
          /\ new.elementSize = chunk.elementSize /\ new.memorysize = chunk.memorysize
          /\ new.bitusedmask = chunk.bitusedmask
      BY <1>1, <2>4 DEF SmallChunks
    <3>2. chunk.useCount + 1 \in Nat
      BY <1>1
    <3>3. new \in SmallChunks
      BY <1>1, <2>4, <2>5, <3>2 DEF SmallChunks
    <3> QED BY <3>1, <3>3 DEF SameShape
  <2> QED BY <2>6
<1>9. \A v \in Bits : new.bitfield64[v] = IF v = w THEN word ELSE chunk.bitfield64[v]
  BY <1>1, <1>4, <1>8
<1>10. new.bitfield1 = {v \in new.bitusedmask : new.bitfield64[v] = Bits}
  BY <1>1, <1>2, <1>3, <1>8, <1>9
<1>11. \A v \in Bits : new.bitfield64[v] # {} => v \in new.bitusedmask
  BY <1>1, <1>3, <1>8, <1>9
<1>12. Row(new) = Row(chunk)
  BY <1>8 DEF Row, SameShape
<1>13. Rows[Row(chunk)].count <= IntBits * WordBits =>
         new.bitfieldempty = {v \in new.bitusedmask : new.bitfield64[v] = {}}
  <2>1. SUFFICES ASSUME Rows[Row(chunk)].count <= IntBits * WordBits
                 PROVE  new.bitfieldempty = {v \in new.bitusedmask : new.bitfield64[v] = {}}
    OBVIOUS
  <2>2. chunk.bitfieldempty = {v \in chunk.bitusedmask : chunk.bitfield64[v] = {}}
    BY <2>1 DEF SmallInv
  <2>3. \A v \in chunk.bitusedmask : v \in Nat /\ v < IntBits
    BY <1>2, <2>1, MaskFacts, Widths
  <2>4. w \in Nat /\ w < IntBits /\ w % IntBits = w
    BY <1>3, <2>3, Widths
  <2>5. \A v \in chunk.bitusedmask : v \in ClearedBits(w) <=> v = w
    BY <2>3, <2>4, Widths DEF ClearedBits
  <2>6. \A v \in chunk.bitusedmask : v \in new.bitfieldempty <=> new.bitfield64[v] = {}
    BY <1>2, <1>7, <1>8, <1>9, <2>2, <2>5
  <2> QED BY <1>1, <1>8, <2>6
<1>14. SmallInv(new)
  <2>1. /\ Row(chunk) \in DOMAIN Rows /\ Rows[Row(chunk)].count >= WordBits
        /\ chunk.elementSize = Rows[Row(chunk)].max
        /\ chunk.memorysize = Rows[Row(chunk)].count * Rows[Row(chunk)].max
        /\ chunk.bitusedmask = WordsOf(Row(chunk))
    BY DEF SmallInv
  <2> QED BY <1>1, <1>8, <1>10, <1>11, <1>12, <1>13, <2>1 DEF SmallInv, SameShape
<1>15. /\ i \in Used(chunk) <=> b \in chunk.bitfield64[w]
       /\ i \in Used(new) <=> b \in word
       /\ Used(new) \ {i} = Used(chunk) \ {i}
  <2>1. word \ {b} = chunk.bitfield64[w] \ {b}
    BY DEF word
  <2>2. new.kind = "Small" /\ chunk.kind = "Small"
    BY <1>1, <1>8 DEF SameShape
  <2>3. /\ w * WordBits + b \in Used(chunk) <=> b \in chunk.bitfield64[w]
        /\ w * WordBits + b \in Used(new) <=> b \in word
        /\ Used(new) \ {w * WordBits + b} = Used(chunk) \ {w * WordBits + b}
    BY <1>1, <1>4, <1>5, <1>7, <1>8, <2>1, <2>2, UsedStep
  <2> QED BY <2>3
<1>16. i \in Nat
  BY <1>4, <1>5, IndexOfBit
<1> HIDE DEF i
<1>17. i \notin Used(chunk) /\ Used(new) = Used(chunk) \cup {i}
  BY <1>5, <1>7, <1>15
<1> QED BY <1>6, <1>8, <1>14, <1>16, <1>17 DEF new

(* dealloc of an element in use frees it; what the chunk says of being     *)
(* empty is true when it has no more words than an int has bits.           *)
LEMMA SmallDeallocFacts ==
  ASSUME NEW chunk, SmallInv(chunk), chunk.useCount > 0, NEW i \in Used(chunk)
  PROVE  LET result == SmallDealloc(chunk, i)
             new == result.chunk
         IN  /\ SmallInv(new) /\ SameShape(chunk, new) /\ ~ full(new)
             /\ new.useCount = chunk.useCount - 1
             /\ Used(new) = Used(chunk) \ {i} /\ result.isnowempty \in BOOLEAN
             /\ Rows[Row(chunk)].count <= IntBits * WordBits =>
                  (result.isnowempty <=> Used(new) = {})
<1> DEFINE w == i \div WordBits
           b == i % WordBits
           word == chunk.bitfield64[w] \ {b}
           new == SmallDealloc(chunk, i).chunk
<1>1. /\ chunk.kind = "Small" /\ chunk \in SmallChunks
      /\ chunk.bitfield64 \in [Bits -> SUBSET Bits] /\ chunk.useCount \in Nat
      /\ chunk.bitfield1 = {v \in chunk.bitusedmask : chunk.bitfield64[v] = Bits}
      /\ chunk.bitfieldempty \subseteq chunk.bitusedmask
      /\ \A v \in Bits : chunk.bitfield64[v] # {} => v \in chunk.bitusedmask
  BY DEF SmallInv, SmallChunks
<1>2. chunk.bitusedmask \subseteq Bits
  BY MaskFacts
<1>3. i \in 0 .. WordBits * WordBits - 1 /\ b \in chunk.bitfield64[w]
  BY <1>1 DEF Used
<1>4. w \in Bits /\ b \in Bits /\ i = w * WordBits + b
  BY <1>3, BitOfIndex
<1>5. w \in chunk.bitusedmask /\ chunk.bitfield64[w] \in SUBSET Bits
  BY <1>1, <1>3, <1>4
<1>6. /\ new = [chunk EXCEPT !.bitfield1 = @ \ {w}, !.bitfield64[w] = word,
                             !.bitfieldempty = IF word = {} THEN @ \cup {w} ELSE @,
                             !.useCount = @ - 1]
      /\ SmallDealloc(chunk, i).isnowempty
           = (new.bitfieldempty \cap new.bitusedmask = new.bitusedmask)
  BY DEF SmallDealloc
<1> HIDE DEF w, b
<1>7. word \in SUBSET Bits /\ word # Bits /\ b \notin word
  BY <1>4, <1>5
<1> HIDE DEF word, new
<1>8. /\ new \in SmallChunks /\ SameShape(chunk, new) /\ new.bitusedmask = chunk.bitusedmask
      /\ new.bitfieldempty = IF word = {} THEN chunk.bitfieldempty \cup {w} ELSE chunk.bitfieldempty
      /\ new.bitfield64 = [chunk.bitfield64 EXCEPT ![w] = word]
      /\ new.bitfield1 = chunk.bitfield1 \ {w}
      /\ new.useCount = chunk.useCount - 1
  <2>1. (IF word = {} THEN chunk.bitfieldempty \cup {w} ELSE chunk.bitfieldempty) \in SUBSET Bits
    BY <1>1, <1>2, <1>4
  <2>2. [chunk.bitfield64 EXCEPT ![w] = word] \in [Bits -> SUBSET Bits]
    BY <1>1, <1>7
  <2>3. chunk.bitfield1 \ {w} \in SUBSET Bits /\ chunk.useCount - 1 \in Nat
    BY <1>1, <1>2
  <2> QED BY <1>1, <1>6, <2>1, <2>2, <2>3 DEF SmallChunks, SameShape
<1>9. \A v \in Bits : new.bitfield64[v] = IF v = w THEN word ELSE chunk.bitfield64[v]
  BY <1>1, <1>4, <1>8
<1>10. new.bitfield1 = {v \in new.bitusedmask : new.bitfield64[v] = Bits}
  BY <1>1, <1>2, <1>7, <1>8, <1>9
<1>11. \A v \in Bits : new.bitfield64[v] # {} => v \in new.bitusedmask
  BY <1>1, <1>5, <1>8, <1>9
<1>12. Row(new) = Row(chunk)
  BY <1>8 DEF Row, SameShape
<1>13. Rows[Row(chunk)].count <= IntBits * WordBits =>
         new.bitfieldempty = {v \in new.bitusedmask : new.bitfield64[v] = {}}
  <2>1. SUFFICES ASSUME Rows[Row(chunk)].count <= IntBits * WordBits
                 PROVE  new.bitfieldempty = {v \in new.bitusedmask : new.bitfield64[v] = {}}
    OBVIOUS
  <2>2. chunk.bitfieldempty = {v \in chunk.bitusedmask : chunk.bitfield64[v] = {}}
    BY <2>1 DEF SmallInv
  <2>3. chunk.bitfield64[w] # {}
    BY <1>3
  <2>4. \A v \in chunk.bitusedmask : v \in new.bitfieldempty <=> new.bitfield64[v] = {}
    BY <1>2, <1>8, <1>9, <2>2, <2>3
  <2>5. new.bitfieldempty \subseteq chunk.bitusedmask
    BY <1>1, <1>5, <1>8
  <2> QED BY <1>8, <2>4, <2>5
<1>14. SmallInv(new)
  <2>1. /\ Row(chunk) \in DOMAIN Rows /\ Rows[Row(chunk)].count >= WordBits
        /\ chunk.elementSize = Rows[Row(chunk)].max
        /\ chunk.memorysize = Rows[Row(chunk)].count * Rows[Row(chunk)].max
        /\ chunk.bitusedmask = WordsOf(Row(chunk))
    BY DEF SmallInv
  <2>2. new.bitfieldempty \subseteq new.bitusedmask
    BY <1>1, <1>5, <1>8
  <2> QED BY <1>8, <1>10, <1>11, <1>12, <1>13, <2>1, <2>2 DEF SmallInv, SameShape
<1>15. Used(new) = Used(chunk) \ {i}
  <2>1. word \ {b} = chunk.bitfield64[w] \ {b}
    BY DEF word
  <2>2. new.kind = "Small" /\ chunk.kind = "Small"
    BY <1>1, <1>8 DEF SameShape
  <2>3. /\ w * WordBits + b \in Used(new) <=> b \in word
        /\ Used(new) \ {w * WordBits + b} = Used(chunk) \ {w * WordBits + b}
    BY <1>1, <1>4, <1>7, <1>8, <2>1, <2>2, UsedStep
  <2> QED BY <1>4, <1>7, <2>3
<1>16. ~ full(new)
  BY <1>1, <1>5, <1>8 DEF full, SameShape
<1>17. ASSUME Rows[Row(chunk)].count <= IntBits * WordBits
       PROVE  SmallDealloc(chunk, i).isnowempty <=> Used(new) = {}
  <2>1. SmallDealloc(chunk, i).isnowempty <=> \A v \in new.bitusedmask : new.bitfield64[v] = {}
    BY <1>6, <1>13, <1>17
  <2>2. new.kind = "Small" /\ new.bitusedmask \subseteq Bits
        /\ \A v \in Bits : new.bitfield64[v] \in SUBSET Bits
    BY <1>1, <1>2, <1>7, <1>8, <1>9 DEF SameShape
  <2>3. ASSUME NEW v \in new.bitusedmask, new.bitfield64[v] # {} PROVE Used(new) # {}
    <3>1. PICK c \in Bits : c \in new.bitfield64[v]
      BY <2>2, <2>3
    <3>2. v * WordBits + c \in Used(new)
      BY <2>2, <3>1, IndexOfBit DEF Used
    <3> QED BY <3>2
  <2>4. ASSUME NEW j \in Used(new) PROVE \E v \in new.bitusedmask : new.bitfield64[v] # {}
    <3>1. j \div WordBits \in Bits /\ j % WordBits \in new.bitfield64[j \div WordBits]
      BY <2>2, <2>4, BitOfIndex DEF Used
    <3> QED BY <1>11, <3>1
  <2> QED BY <2>1, <2>3, <2>4
<1>18. SmallDealloc(chunk, i).isnowempty \in BOOLEAN
  BY <1>6
<1> QED BY <1>8, <1>14, <1>15, <1>16, <1>17, <1>18 DEF new

(* Both kinds of chunk.                                                    *)
LEMMA ChunkFacts ==
  ASSUME NEW chunk, ChunkInv(chunk)
  PROVE  /\ chunk.memorysize \in Nat \ {0} /\ chunk.useCount \in Nat
         /\ Row(chunk) \in DOMAIN Rows /\ chunk # None
         /\ chunk.kind = "Small" <=> SmallInv(chunk)
         /\ chunk.kind # "Small" <=> BigInv(chunk)
<1>1. CASE SmallInv(chunk)
  <2>1. /\ chunk.kind = "Small" /\ chunk.useCount \in Nat /\ chunk # None
        /\ Row(chunk) \in DOMAIN Rows /\ chunk.memorysize \in Nat
    BY <1>1 DEF SmallInv, SmallChunks, None
  <2>2. ~ BigInv(chunk)
    BY <2>1 DEF BigInv
  <2>3. chunk.memorysize # 0
    <3> DEFINE row == Rows[Row(chunk)]
    <3>1. chunk.memorysize = row.count * row.max /\ row.count >= WordBits
      BY <1>1 DEF SmallInv
    <3>2. row.max \in Nat \ {0} /\ row.count \in Nat
      BY <2>1, RowTypes
    <3> HIDE DEF row
    <3>3. row.count \in Nat \ {0}
      BY <3>1, <3>2, Widths
    <3>4. row.count * row.max >= row.count
      BY <3>2, <3>3, Z3
    <3> QED BY <3>1, <3>3, <3>4
  <2> QED BY <1>1, <2>1, <2>2, <2>3
<1>2. CASE BigInv(chunk)
  <2>1. /\ chunk.kind = "Big" /\ chunk.useCount \in Nat /\ chunk # None
        /\ Row(chunk) \in DOMAIN Rows /\ chunk.memorysize \in Nat \ {0}
    BY <1>2 DEF BigInv, None
  <2>2. ~ SmallInv(chunk)
    BY <2>1 DEF SmallInv, SmallChunks
  <2> QED BY <1>2, <2>1, <2>2
<1> QED BY <1>1, <1>2 DEF ChunkInv

LEMMA ChunkAllocFacts ==
  ASSUME NEW chunk, ChunkInv(chunk), ~ full(chunk)
  PROVE  LET result == ChunkAlloc(chunk)
             new == result.chunk
         IN  /\ ChunkInv(new) /\ SameShape(chunk, new)
             /\ new.useCount = chunk.useCount + 1
             /\ result.index \in Nat /\ result.index \notin Used(chunk)
             /\ Used(new) = Used(chunk) \cup {result.index}
<1>1. CASE SmallInv(chunk)
  <2>1. ChunkAlloc(chunk) = SmallAlloc(chunk)
    BY <1>1, ChunkFacts DEF ChunkAlloc
  <2> QED BY <1>1, <2>1, SmallAllocFacts DEF ChunkInv
<1>2. CASE BigInv(chunk)
  <2> DEFINE new == [chunk EXCEPT !.useCount = @ + 1]
  <2>1. /\ chunk \in [kind : {"Big"}, memorysize : Nat, elementSize : Nat, useCount : {0, 1}]
        /\ chunk.useCount = 0
    BY <1>2 DEF full, BigInv
  <2>2. /\ new \in [kind : {"Big"}, memorysize : Nat, elementSize : Nat, useCount : {0, 1}]
        /\ SameShape(chunk, new) /\ new.useCount = 1
    BY <2>1 DEF SameShape
  <2>3. ChunkAlloc(chunk) = [chunk |-> new, index |-> 0]
    BY <2>1 DEF ChunkAlloc
  <2> HIDE DEF new
  <2>4. BigInv(new)
    BY <1>2, <2>2 DEF BigInv, SameShape, Row
  <2>5. Used(chunk) = {} /\ Used(new) = {0}
    BY <2>1, <2>2 DEF Used
  <2>6. ChunkAlloc(chunk).chunk = new /\ ChunkAlloc(chunk).index = 0
    BY <2>3
  <2> QED BY <2>1, <2>2, <2>4, <2>5, <2>6 DEF ChunkInv
<1> QED BY <1>1, <1>2 DEF ChunkInv

LEMMA ChunkDeallocFacts ==
  ASSUME NEW chunk, ChunkInv(chunk), chunk.useCount > 0, NEW i \in Used(chunk)
  PROVE  LET result == ChunkDealloc(chunk, i)
             new == result.chunk
         IN  /\ ChunkInv(new) /\ SameShape(chunk, new) /\ ~ full(new)
             /\ new.useCount = chunk.useCount - 1
             /\ Used(new) = Used(chunk) \ {i} /\ result.isnowempty \in BOOLEAN
             /\ Rows[Row(chunk)].count <= IntBits * WordBits =>
                  (result.isnowempty <=> Used(new) = {})
<1>1. CASE SmallInv(chunk)
  <2>1. ChunkDealloc(chunk, i) = SmallDealloc(chunk, i)
    BY <1>1, ChunkFacts DEF ChunkDealloc
  <2> QED BY <1>1, <2>1, SmallDeallocFacts DEF ChunkInv
<1>2. CASE BigInv(chunk)
  <2> DEFINE new == [chunk EXCEPT !.useCount = @ - 1]
  <2>1. /\ chunk \in [kind : {"Big"}, memorysize : Nat, elementSize : Nat, useCount : {0, 1}]
        /\ chunk.useCount = 1
    BY <1>2 DEF BigInv
  <2>2. /\ new \in [kind : {"Big"}, memorysize : Nat, elementSize : Nat, useCount : {0, 1}]
        /\ SameShape(chunk, new) /\ new.useCount = 0
    BY <2>1 DEF SameShape
  <2>3. ChunkDealloc(chunk, i) = [chunk |-> new, isnowempty |-> TRUE]
    BY <2>1 DEF ChunkDealloc
  <2> HIDE DEF new
  <2>4. BigInv(new) /\ ~ full(new)
    BY <1>2, <2>2 DEF BigInv, SameShape, Row, full
  <2>5. Used(chunk) = {0} /\ Used(new) = {}
    BY <2>1, <2>2 DEF Used
  <2>6. ChunkDealloc(chunk, i).chunk = new /\ ChunkDealloc(chunk, i).isnowempty = TRUE
    BY <2>3
  <2>7. ChunkDealloc(chunk, i).isnowempty \in BOOLEAN
    BY <2>6
  <2> PICK result : result = ChunkDealloc(chunk, i)
    OBVIOUS
  <2> QED BY <2>1, <2>2, <2>4, <2>5, <2>6, <2>7 DEF ChunkInv
<1> QED BY <1>1, <1>2 DEF ChunkInv

(* A chunk without elements in use has room.                               *)
LEMMA EmptyHasRoom ==
  ASSUME NEW chunk, ChunkInv(chunk), Used(chunk) = {}
  PROVE  ~ full(chunk)
<1>1. CASE SmallInv(chunk)
  <2>1. ASSUME full(chunk) PROVE FALSE
    <3>1. chunk.kind = "Small" /\ chunk.bitfield1 = chunk.bitusedmask
      BY <1>1, <2>1, ChunkFacts DEF full
    <3>2. PICK w \in chunk.bitusedmask : chunk.bitfield64[w] = Bits
      BY <1>1, <3>1, MaskFacts DEF SmallInv
    <3>3. w \in Bits /\ 0 \in Bits
      BY <1>1, <3>2, MaskFacts, Widths DEF Bits
    <3>4. w * WordBits + 0 \in Used(chunk)
      BY <3>1, <3>2, <3>3, IndexOfBit DEF Used
    <3> QED BY <3>4
  <2> QED BY <2>1
<1>2. CASE BigInv(chunk)
  BY <1>2 DEF BigInv, full, Used
<1> QED BY <1>1, <1>2 DEF ChunkInv

-----------------------------------------------------------------------------
(* A chunk and its blocks.                                                 *)

LEMMA MatchesUse ==
  ASSUME NEW chunk, NEW blocks, Matches(chunk, blocks)
  PROVE  /\ chunk.useCount \in Nat
         /\ chunk.useCount = 0 <=> blocks = {}
         /\ blocks = {} <=> Used(chunk) = {}
         /\ \A block \in blocks : block.index \in Used(chunk)
<1>1. chunk.useCount \in Nat /\ (chunk.useCount = 0 <=> blocks = {})
  BY FS_CardinalityType, FS_EmptySet DEF Matches
<1> QED BY <1>1 DEF Matches

LEMMA MatchesAlloc ==
  ASSUME NEW chunk, ChunkInv(chunk), ~ full(chunk), NEW blocks, Matches(chunk, blocks),
         NEW block, block.index = ChunkAlloc(chunk).index,
         chunk.kind = "Small" => block.size <= chunk.elementSize
  PROVE  Matches(ChunkAlloc(chunk).chunk, blocks \cup {block})
<1> PICK new, i : new = ChunkAlloc(chunk).chunk /\ i = ChunkAlloc(chunk).index
  OBVIOUS
<1>1. /\ SameShape(chunk, new) /\ new.useCount = chunk.useCount + 1
      /\ i \notin Used(chunk) /\ Used(new) = Used(chunk) \cup {i}
  BY ChunkAllocFacts
<1>2. block \notin blocks /\ block.index = i /\ \A b \in blocks : b.index # i
  BY <1>1, MatchesUse
<1>3. /\ IsFiniteSet(blocks \cup {block})
      /\ Cardinality(blocks \cup {block}) = Cardinality(blocks) + 1
  BY <1>2, FS_AddElement DEF Matches
<1>4. {b.index : b \in blocks \cup {block}} = {b.index : b \in blocks} \cup {i}
  BY <1>2
<1>5. new.kind = "Small" => \A b \in blocks \cup {block} : b.size <= new.elementSize
  BY <1>1 DEF Matches, SameShape
<1>6. \A a, b \in blocks \cup {block} : a.index = b.index => a = b
  BY <1>2 DEF Matches
<1>7. Matches(new, blocks \cup {block})
  BY <1>1, <1>3, <1>4, <1>5, <1>6 DEF Matches
<1> QED BY <1>7

LEMMA MatchesDealloc ==
  ASSUME NEW chunk, ChunkInv(chunk), NEW blocks, Matches(chunk, blocks), NEW block \in blocks
  PROVE  LET result == ChunkDealloc(chunk, block.index)
         IN  /\ Matches(result.chunk, blocks \ {block})
             /\ chunk.useCount > 0 /\ block.index \in Used(chunk)
             /\ result.isnowempty \in BOOLEAN
             /\ Rows[Row(chunk)].count <= IntBits * WordBits =>
                  (result.isnowempty <=> empty(result.chunk))
<1> PICK new, i : new = ChunkDealloc(chunk, i).chunk /\ i = block.index
  OBVIOUS
<1>0. chunk.useCount > 0 /\ i \in Used(chunk)
  BY MatchesUse
<1>1. /\ SameShape(chunk, new) /\ new.useCount = chunk.useCount - 1
      /\ Used(new) = Used(chunk) \ {i} /\ ChunkDealloc(chunk, i).isnowempty \in BOOLEAN
      /\ Rows[Row(chunk)].count <= IntBits * WordBits =>
           (ChunkDealloc(chunk, i).isnowempty <=> Used(new) = {})
  BY <1>0, ChunkDeallocFacts
<1>2. \A b \in blocks \ {block} : b.index # i
  BY DEF Matches
<1>3. /\ IsFiniteSet(blocks \ {block})
      /\ Cardinality(blocks \ {block}) = Cardinality(blocks) - 1
  BY FS_RemoveElement DEF Matches
<1>4. {b.index : b \in blocks \ {block}} = {b.index : b \in blocks} \ {i}
  BY <1>2
<1>5. new.kind = "Small" => \A b \in blocks \ {block} : b.size <= new.elementSize
  BY <1>1 DEF Matches, SameShape
<1>6. Matches(new, blocks \ {block})
  BY <1>1, <1>3, <1>4, <1>5 DEF Matches
<1>7. empty(new) <=> Used(new) = {}
  BY <1>6, MatchesUse DEF empty
<1> QED BY <1>0, <1>1, <1>6, <1>7

-----------------------------------------------------------------------------
(* The bytes of some chunks.                                               *)

LEMMA BytesAreSum ==
  ASSUME NEW mem, ChunksInv(mem), NEW S \in SUBSET In(mem)
  PROVE  LET bytes == [c \in ChunkIds |-> mem[c].memorysize]
         IN  /\ BytesOf(mem, S) = SumOf(bytes, S)
             /\ IsFiniteSet(S) /\ \A c \in S : bytes[c] \in Nat \ {0}
<1> DEFINE bytes == [c \in ChunkIds |-> mem[c].memorysize]
           some == [c \in S |-> mem[c].memorysize]
<1>1. S \subseteq ChunkIds /\ IsFiniteSet(S)
  BY ChunksAssumption, FS_Subset DEF In
<1>2. \A c \in S : mem[c].memorysize \in Nat \ {0}
  BY ChunkFacts DEF ChunksInv
<1>3. \A c \in S : bytes[c] = some[c] /\ some[c] \in Nat /\ bytes[c] \in Nat \ {0}
  BY <1>1, <1>2
<1>4. BytesOf(mem, S) = SumOf(some, S)
  BY DEF BytesOf, SumOf, MapThenSumSet, MapThenFoldSet
<1> HIDE DEF bytes, some
<1>5. SumOf(some, S) = SumOf(bytes, S)
  BY <1>1, <1>3, SumSame
<1> QED BY <1>1, <1>3, <1>4, <1>5 DEF bytes

(* They are at least as many as the chunks, and those of more chunks.      *)
LEMMA BytesFacts ==
  ASSUME NEW mem, ChunksInv(mem), NEW T \in SUBSET In(mem), NEW S \in SUBSET T
  PROVE  /\ BytesOf(mem, S) \in Nat /\ BytesOf(mem, T) \in Nat
         /\ BytesOf(mem, S) <= BytesOf(mem, T)
         /\ Cardinality(S) \in Nat /\ Cardinality(S) <= BytesOf(mem, S)
<1> DEFINE bytes == [c \in ChunkIds |-> mem[c].memorysize]
           rest == T \ S
<1>1. /\ BytesOf(mem, S) = SumOf(bytes, S) /\ BytesOf(mem, T) = SumOf(bytes, T)
      /\ IsFiniteSet(S) /\ IsFiniteSet(T) /\ IsFiniteSet(rest)
      /\ \A c \in T : bytes[c] \in Nat \ {0}
  BY BytesAreSum
<1>2. T = S \cup rest /\ S \cap rest = {}
  OBVIOUS
<1> HIDE DEF bytes, rest
<1>3. SumOf(bytes, S \cup rest) = SumOf(bytes, S) + SumOf(bytes, rest)
  BY <1>1, <1>2, SumUnion
<1>4. SumOf(bytes, S) \in Nat /\ SumOf(bytes, rest) \in Nat
  BY <1>1, <1>2, SumType
<1>5. Cardinality(S) \in Nat /\ Cardinality(S) <= SumOf(bytes, S)
  BY <1>1, SumOfPositives, FS_CardinalityType
<1> QED BY <1>1, <1>2, <1>3, <1>4, <1>5

(* The bytes and the number of two sets that differ in one chunk.          *)
LEMMA BytesStep ==
  ASSUME NEW mem, ChunksInv(mem), NEW new, ChunksInv(new), NEW c,
         NEW S \in SUBSET In(mem), NEW T \in SUBSET In(new), T \ {c} = S \ {c},
         \A d \in S : d # c => new[d] = mem[d]
  PROVE  /\ BytesOf(mem, S) \in Nat /\ BytesOf(new, T) \in Nat
         /\ BytesOf(new, T) = BytesOf(mem, S) - If(c \in S, mem[c].memorysize)
                                              + If(c \in T, new[c].memorysize)
         /\ Cardinality(S) \in Nat /\ Cardinality(T) \in Nat
         /\ Cardinality(T) = Cardinality(S) - One(c \in S) + One(c \in T)
<1> DEFINE f == [d \in ChunkIds |-> mem[d].memorysize]
           g == [d \in ChunkIds |-> new[d].memorysize]
<1>1. /\ BytesOf(mem, S) = SumOf(f, S) /\ IsFiniteSet(S)
      /\ BytesOf(new, T) = SumOf(g, T) /\ IsFiniteSet(T)
      /\ \A d \in S : f[d] \in Nat
      /\ \A d \in T : g[d] \in Nat
  BY BytesAreSum
<1>2. S \subseteq ChunkIds /\ T \subseteq ChunkIds
  BY DEF In
<1>3. \A d \in S : d # c => g[d] = f[d]
  BY <1>2
<1>4. (c \in S => f[c] = mem[c].memorysize) /\ (c \in T => g[c] = new[c].memorysize)
  BY <1>2
<1> HIDE DEF f, g
<1>5. /\ SumOf(f, S) \in Nat /\ SumOf(g, T) \in Nat
      /\ SumOf(g, T) = SumOf(f, S) - If(c \in S, f[c]) + If(c \in T, g[c])
  BY <1>1, <1>3, SumStep
<1>6. If(c \in S, f[c]) = If(c \in S, mem[c].memorysize)
      /\ If(c \in T, g[c]) = If(c \in T, new[c].memorysize)
  BY <1>4 DEF If
<1>7. /\ Cardinality(S) \in Nat /\ Cardinality(T) \in Nat
      /\ Cardinality(T) = Cardinality(S) - One(c \in S) + One(c \in T)
  BY <1>1, CountStep
<1> QED BY <1>1, <1>5, <1>6, <1>7

-----------------------------------------------------------------------------
(* A chunk put in its place, a list in its.                                *)

Put(f, x, new) == [f EXCEPT ![x] = new]

(* The chunks of a list with c listed if it has room and not otherwise.    *)
Relisted(listed, c, chunk) == (listed \ {c}) \cup {d \in {c} : ~ full(chunk)}

LEMMA PutChunk ==
  ASSUME NEW mem, ChunksInv(mem), NEW c \in ChunkIds, NEW chunk, ChunkInv(chunk)
  PROVE  LET new == Put(mem, c, chunk)
         IN  /\ ChunksInv(new) /\ In(new) = In(mem) \cup {c}
             /\ new[c] = chunk /\ \A d \in ChunkIds : d # c => new[d] = mem[d]
<1> DEFINE new == Put(mem, c, chunk)
<1>1. new = [d \in ChunkIds |-> IF d = c THEN chunk ELSE mem[d]]
  BY DEF ChunksInv, Put
<1> HIDE DEF new
<1>2. new[c] = chunk /\ \A d \in ChunkIds : d # c => new[d] = mem[d]
  BY <1>1
<1>3. In(new) = In(mem) \cup {c}
  BY <1>2, ChunkFacts DEF In
<1>4. ChunksInv(new)
  <2>1. new = [d \in ChunkIds |-> new[d]]
    BY <1>1
  <2> QED BY <1>2, <1>3, <2>1 DEF ChunksInv, In
<1> QED BY <1>2, <1>3, <1>4 DEF new

LEMMA PutBlocks ==
  ASSUME NEW mem, ChunksInv(mem), NEW c \in ChunkIds, NEW chunk, ChunkInv(chunk),
         NEW blocks, BlocksInv(mem, blocks),
         NEW after \in SUBSET Blocks(In(mem) \cup {c}),
         \A d \in In(mem) : d # c => BlocksOf(d, after) = BlocksOf(d, blocks),
         Matches(chunk, BlocksOf(c, after))
  PROVE  BlocksInv(Put(mem, c, chunk), after)
<1> DEFINE new == Put(mem, c, chunk)
<1>1. /\ In(new) = In(mem) \cup {c} /\ new[c] = chunk
      /\ \A d \in ChunkIds : d # c => new[d] = mem[d]
  BY PutChunk
<1> HIDE DEF new
<1>2. ASSUME NEW d \in In(new) PROVE Matches(new[d], BlocksOf(d, after))
  <2>1. CASE d = c
    BY <1>1, <2>1
  <2>2. CASE d # c
    <3>1. d \in In(mem) /\ d \in ChunkIds /\ new[d] = mem[d]
      BY <1>1, <2>2 DEF In
    <3> QED BY <2>2, <3>1 DEF BlocksInv
  <2> QED BY <2>1, <2>2
<1>3. BlocksInv(new, after)
  BY <1>1, <1>2 DEF BlocksInv
<1> QED BY <1>3 DEF new

LEMMA PutLists ==
  ASSUME NEW mem, ChunksInv(mem), NEW c \in ChunkIds, NEW chunk, ChunkInv(chunk),
         NEW lists, ListsInv(mem, lists), NEW r, Row(chunk) = r,
         c \in In(mem) => Row(mem[c]) = r,
         NEW list \in Seq(ChunkIds), Once(list),
         Range(list) = Relisted(Range(lists[r]), c, chunk)
  PROVE  ListsInv(Put(mem, c, chunk), Put(lists, r, list))
<1> DEFINE new == Put(mem, c, chunk)
           after == Put(lists, r, list)
<1>1. /\ In(new) = In(mem) \cup {c} /\ new[c] = chunk
      /\ \A d \in ChunkIds : d # c => new[d] = mem[d]
  BY PutChunk
<1> HIDE DEF new
<1>2. r \in DOMAIN Rows /\ In(mem) \subseteq ChunkIds
  BY ChunkFacts DEF In
<1>3. /\ after \in [DOMAIN Rows -> Seq(ChunkIds)]
      /\ \A q \in DOMAIN Rows : after[q] = IF q = r THEN list ELSE lists[q]
  BY <1>2 DEF ListsInv, Put
<1> HIDE DEF after
<1>4. ASSUME NEW q \in DOMAIN Rows
      PROVE  Once(after[q]) /\ Range(after[q]) = WithRoom(new, q)
  <2>0. Once(lists[q]) /\ Range(lists[q]) = WithRoom(mem, q)
    BY DEF ListsInv
  <2>1. CASE q = r
    <3>1. after[q] = list /\ Range(lists[r]) = WithRoom(mem, r)
      BY <1>3, <2>0, <2>1
    <3>2. \A d : d \in WithRoom(new, r) <=>
                   \/ d \in WithRoom(mem, r) /\ d # c
                   \/ d = c /\ ~ full(chunk)
      BY <1>1, <1>2 DEF WithRoom
    <3> QED BY <2>0, <2>1, <3>1, <3>2 DEF Relisted
  <2>2. CASE q # r
    <3>1. after[q] = lists[q]
      BY <1>3, <2>2
    <3>2. \A d : d \in WithRoom(new, q) <=> d \in WithRoom(mem, q)
      BY <1>1, <1>2, <2>2 DEF WithRoom
    <3> QED BY <2>0, <3>1, <3>2
  <2> QED BY <2>1, <2>2
<1>5. ListsInv(new, after)
  BY <1>3, <1>4 DEF ListsInv
<1> QED BY <1>5 DEF new, after

-----------------------------------------------------------------------------
(* clean.                                                                  *)

LEMMA BytesSame ==
  ASSUME NEW mem, ChunksInv(mem), NEW new, ChunksInv(new),
         NEW S \in SUBSET In(mem), S \subseteq In(new), \A d \in S : new[d] = mem[d]
  PROVE  BytesOf(new, S) = BytesOf(mem, S)
<1> DEFINE f == [d \in ChunkIds |-> mem[d].memorysize]
           g == [d \in ChunkIds |-> new[d].memorysize]
<1>1. /\ BytesOf(mem, S) = SumOf(f, S) /\ BytesOf(new, S) = SumOf(g, S) /\ IsFiniteSet(S)
      /\ \A d \in S : f[d] \in Nat
  BY BytesAreSum
<1>2. \A d \in S : g[d] = f[d]
  BY DEF In
<1> HIDE DEF f, g
<1> QED BY <1>1, <1>2, SumSame

LEMMA BytesOfNone ==
  ASSUME NEW mem
  PROVE  BytesOf(mem, {}) = 0 /\ Cardinality({}) = 0
<1>1. BytesOf(mem, {}) = SumOf([c \in {} |-> mem[c].memorysize], {})
  BY DEF BytesOf, SumOf, MapThenSumSet, MapThenFoldSet
<1> QED BY <1>1, SumEmpty, FS_EmptySet

(* An empty chunk has room, so it is in a list: clean finds them all.      *)
LEMMA EmptiesAreListed ==
  ASSUME NEW mem, NEW lists, NEW blocks, PlaceInv(mem, lists, blocks)
  PROVE  {c \in Listed(lists) : empty(mem[c])} = Empties(mem)
<1>1. ASSUME NEW c \in Empties(mem) PROVE c \in Listed(lists)
  <2>1. c \in In(mem) /\ ChunkInv(mem[c]) /\ Matches(mem[c], BlocksOf(c, blocks))
        /\ mem[c].useCount = 0
    BY DEF Empties, empty, PlaceInv, ChunksInv, BlocksInv
  <2>2. ~ full(mem[c]) /\ Row(mem[c]) \in DOMAIN Rows
    BY <2>1, MatchesUse, EmptyHasRoom, ChunkFacts
  <2>3. c \in Range(lists[Row(mem[c])])
    BY <2>1, <2>2 DEF PlaceInv, ListsInv, WithRoom
  <2> QED BY <2>2, <2>3 DEF Listed, PlaceInv, ListsInv
<1>2. ASSUME NEW c \in Listed(lists) PROVE c \in In(mem)
  <2>1. PICK r \in DOMAIN Rows : c \in Range(lists[r])
    BY DEF Listed, PlaceInv, ListsInv
  <2> QED BY <2>1 DEF PlaceInv, ListsInv, WithRoom
<1> QED BY <1>1, <1>2 DEF Empties

(* The chunks, lists and blocks without the empty chunks.                  *)
LEMMA CleanPlace ==
  ASSUME NEW mem, NEW lists, NEW blocks, PlaceInv(mem, lists, blocks)
  PROVE  LET gone == Empties(mem)
             new == [c \in ChunkIds |-> IF c \in gone THEN None ELSE mem[c]]
         IN  /\ PlaceInv(new, [r \in DOMAIN Rows |-> Without(lists[r], gone)], blocks)
             /\ Empties(new) = {}
<1> DEFINE gone == Empties(mem)
           new == [c \in ChunkIds |-> IF c \in gone THEN None ELSE mem[c]]
           after == [r \in DOMAIN Rows |-> Without(lists[r], gone)]
<1>1. ChunksInv(mem) /\ ListsInv(mem, lists) /\ BlocksInv(mem, blocks) /\ FitsMemory(mem)
  BY DEF PlaceInv
<1>2. In(mem) \subseteq ChunkIds /\ gone \subseteq In(mem)
  BY DEF In, Empties
<1>3. \A c \in ChunkIds : new[c] = IF c \in gone THEN None ELSE mem[c]
  OBVIOUS
<1>4. new = [c \in ChunkIds |-> new[c]]
  OBVIOUS
<1> HIDE DEF gone, new
<1>5. /\ In(new) = In(mem) \ gone /\ In(new) \subseteq In(mem)
      /\ \A c \in In(new) : new[c] = mem[c]
  BY <1>2, <1>3 DEF In
<1>6. ChunksInv(new)
  BY <1>1, <1>4, <1>5 DEF ChunksInv
<1>7. Empties(new) = {}
  <2>1. \A c \in In(mem) : empty(mem[c]) => c \in gone
    BY DEF gone, Empties
  <2>2. \A c \in In(new) : ~ empty(new[c])
    BY <1>5, <2>1
  <2> QED BY <2>2 DEF Empties
<1>8. ListsInv(new, after)
  <2>1. ASSUME NEW r \in DOMAIN Rows
        PROVE  /\ after[r] \in Seq(ChunkIds) /\ Once(after[r])
               /\ Range(after[r]) = WithRoom(new, r)
    <3>1. lists[r] \in Seq(ChunkIds) /\ Once(lists[r]) /\ Range(lists[r]) = WithRoom(mem, r)
      BY <1>1 DEF ListsInv
    <3>2. /\ after[r] \in Seq(ChunkIds) /\ Once(after[r])
          /\ Range(after[r]) = Range(lists[r]) \ gone
      BY <3>1, WithoutFacts
    <3>3. WithRoom(new, r) = WithRoom(mem, r) \ gone
      BY <1>5 DEF WithRoom
    <3> QED BY <3>1, <3>2, <3>3
  <2>2. after = [r \in DOMAIN Rows |-> after[r]]
    OBVIOUS
  <2> HIDE DEF after
  <2> QED BY <2>1, <2>2 DEF ListsInv
<1>9. BlocksInv(new, blocks)
  <2>1. ASSUME NEW block \in blocks PROVE block.chunk \in In(new)
    <3> DEFINE c == block.chunk
    <3>1. c \in In(mem) /\ block \in BlocksOf(c, blocks) /\ Matches(mem[c], BlocksOf(c, blocks))
      BY <1>1 DEF BlocksInv, Blocks, BlocksOf
    <3>2. mem[c].useCount # 0
      BY <3>1, MatchesUse
    <3>3. c \notin gone
      BY <3>2 DEF gone, Empties, empty
    <3> QED BY <1>5, <3>1, <3>3
  <2>2. blocks \subseteq Blocks(In(new))
    BY <1>1, <2>1 DEF BlocksInv, Blocks
  <2> QED BY <1>1, <1>5, <2>2 DEF BlocksInv
<1>10. FitsMemory(new)
  <2>1. BytesOf(new, In(new)) = BytesOf(mem, In(new))
    BY <1>1, <1>5, <1>6, BytesSame
  <2>2. /\ BytesOf(mem, In(new)) <= BytesOf(mem, In(mem))
        /\ BytesOf(mem, In(new)) \in Nat /\ BytesOf(mem, In(mem)) \in Nat
    BY <1>1, <1>5, BytesFacts
  <2> QED BY <1>1, <2>1, <2>2, Widths DEF FitsMemory
<1> HIDE DEF after
<1>11. PlaceInv(new, after, blocks)
  BY <1>6, <1>8, <1>9, <1>10 DEF PlaceInv
<1> QED BY <1>7, <1>11 DEF gone, new, after

(* A number below the width is its own remainder.                          *)
LEMMA SmallIsItself ==
  ASSUME NEW a \in 0 .. SizeWord - 1
  PROVE  a % SizeWord = a
<1>1. a = 0 * SizeWord + a /\ a \in Int /\ 0 \in Int
  BY Widths
<1> QED BY <1>1, Widths, OneRemainder

(* A word's difference is a word, and that of equals is 0.                 *)
LEMMA MinusFacts ==
  ASSUME NEW a \in Int, NEW b \in Int
  PROVE  Minus(a, b) \in 0 .. SizeWord - 1 /\ Minus(a, a) = 0
<1>1. Minus(a, b) \in 0 .. SizeWord - 1
  BY Widths, Remainder DEF Minus
<1>2. 0 % SizeWord = 0
  BY Widths, OneRemainder
<1> QED BY <1>1, <1>2 DEF Minus

(* clean keeps the invariant, whether or not it passes the thresholds.     *)
LEMMA CleanFacts ==
  ASSUME NEW s, NEW force, NEW blocks, PlaceInv(s.memory, s.lists, blocks),
         s.size \in 0 .. SizeWord - 1, s.count \in 0 .. SizeWord - 1
  PROVE  LET after == clean(s, force)
         IN  /\ PlaceInv(after.memory, after.lists, blocks)
             /\ after.size \in 0 .. SizeWord - 1 /\ after.count \in 0 .. SizeWord - 1
             /\ Counts(s) => Counts(after)
<1> DEFINE gone == Empties(s.memory)
           new == [c \in ChunkIds |-> IF c \in gone THEN None ELSE s.memory[c]]
           lists == [r \in DOMAIN Rows |-> Without(s.lists[r], gone)]
           after == [memory |-> new, lists |-> lists,
                     size |-> Minus(s.size, BytesOf(s.memory, gone)),
                     count |-> Minus(s.count, Cardinality(gone))]
<1>1. CASE ~ PassesThreshold(s) /\ ~ force
  <2>1. clean(s, force) = s
    BY <1>1 DEF clean
  <2> QED BY <2>1
<1>2. CASE ~ (~ PassesThreshold(s) /\ ~ force)
  <2>1. {c \in Listed(s.lists) : empty(s.memory[c])} = gone
    BY EmptiesAreListed
  <2>2. clean(s, force) = after
    BY <1>2, <2>1 DEF clean
  <2>3. PlaceInv(new, lists, blocks) /\ Empties(new) = {}
    BY CleanPlace
  <2> HIDE DEF new, lists
  <2>4. /\ after.memory = new /\ after.lists = lists
        /\ after.size = Minus(s.size, BytesOf(s.memory, gone))
        /\ after.count = Minus(s.count, Cardinality(gone))
    OBVIOUS
  <2> HIDE DEF after
  <2>5. BytesOf(s.memory, gone) \in Nat /\ Cardinality(gone) \in Nat
    <3>1. gone \in SUBSET In(s.memory) /\ ChunksInv(s.memory)
      BY DEF Empties, PlaceInv
    <3> HIDE DEF gone
    <3> QED BY <3>1, BytesFacts
  <2>6. s.size \in Int /\ s.count \in Int
    BY Widths
  <2>7. after.size \in 0 .. SizeWord - 1 /\ after.count \in 0 .. SizeWord - 1
    <3>1. BytesOf(s.memory, gone) \in Int /\ Cardinality(gone) \in Int
      BY <2>5
    <3> QED BY <2>4, <2>6, <3>1, MinusFacts, Zenon
  <2>8. ASSUME Counts(s) PROVE Counts(after)
    <3>1. s.size = BytesOf(s.memory, gone) /\ s.count = Cardinality(gone)
      BY <2>8 DEF Counts
    <3>2. after.size = 0 /\ after.count = 0
      BY <2>4, <2>6, <3>1, MinusFacts
    <3>3. after.size = BytesOf(after.memory, {}) /\ after.count = Cardinality({})
      BY <3>2, BytesOfNone
    <3>4. Empties(after.memory) = {}
      BY <2>3, <2>4
    <3> QED BY <3>3, <3>4 DEF Counts
  <2> QED BY <2>2, <2>3, <2>4, <2>7, <2>8
<1> QED BY <1>1, <1>2

-----------------------------------------------------------------------------
(* alloc.                                                                  *)

Block(c, index, size) == [chunk |-> c, index |-> index, size |-> size]

(* A chunk a block of the size may be taken from: one of the memory or a   *)
(* new one.                                                                *)
Serves(mem, blocks, c, chunk, size) ==
  /\ c \in ChunkIds /\ ChunkInv(chunk) /\ ~ full(chunk) /\ Matches(chunk, BlocksOf(c, blocks))
  /\ c \in In(mem) => mem[c] = chunk
  /\ size \in Sizes /\ Row(chunk) = RowOf(size)
  /\ chunk.kind = "Small" => size <= chunk.elementSize

(* The chunks, lists and blocks once it is.                                *)
Served(mem, lists, blocks, c, result, size, list) ==
  LET new == Put(mem, c, result.chunk)
  IN  /\ ChunksInv(new) /\ In(new) = In(mem) \cup {c} /\ new[c] = result.chunk
      /\ \A d \in ChunkIds : d # c => new[d] = mem[d]
      /\ ListsInv(new, Put(lists, RowOf(size), list))
      /\ BlocksInv(new, blocks \cup {Block(c, result.index, size)})

LEMMA AllocPlace ==
  ASSUME NEW mem, ChunksInv(mem), NEW lists, ListsInv(mem, lists),
         NEW blocks, BlocksInv(mem, blocks), NEW c, NEW chunk, NEW size,
         Serves(mem, blocks, c, chunk, size),
         NEW result, result = ChunkAlloc(chunk),
         NEW list \in Seq(ChunkIds), Once(list),
         Range(list) = Relisted(Range(lists[RowOf(size)]), c, result.chunk)
  PROVE  Served(mem, lists, blocks, c, result, size, list)
<1>0. /\ c \in ChunkIds /\ ChunkInv(chunk) /\ ~ full(chunk) /\ Matches(chunk, BlocksOf(c, blocks))
      /\ c \in In(mem) => mem[c] = chunk
      /\ size \in Sizes /\ Row(chunk) = RowOf(size)
      /\ chunk.kind = "Small" => size <= chunk.elementSize
  BY DEF Serves
<1> DEFINE block == Block(c, result.index, size)
           after == blocks \cup {block}
<1>1. /\ ChunkInv(result.chunk) /\ SameShape(chunk, result.chunk) /\ result.index \in Nat
      /\ Row(result.chunk) = RowOf(size)
  BY <1>0, ChunkAllocFacts DEF SameShape, Row
<1>2. /\ block.chunk = c /\ block.index = result.index /\ block.size = size
      /\ block \in Blocks(In(mem) \cup {c})
  BY <1>0, <1>1 DEF Block, Blocks
<1> HIDE DEF block
<1>3. after \in SUBSET Blocks(In(mem) \cup {c})
  <2>1. blocks \subseteq Blocks(In(mem) \cup {c})
    BY DEF BlocksInv, Blocks
  <2> QED BY <1>2, <2>1
<1>4. /\ \A d \in In(mem) : d # c => BlocksOf(d, after) = BlocksOf(d, blocks)
      /\ BlocksOf(c, after) = BlocksOf(c, blocks) \cup {block}
  BY <1>2 DEF BlocksOf
<1>5. Matches(result.chunk, BlocksOf(c, after))
  <2> PICK old : old = BlocksOf(c, blocks)
    OBVIOUS
  <2>1. Matches(chunk, old) /\ block.index = ChunkAlloc(chunk).index
        /\ (chunk.kind = "Small" => block.size <= chunk.elementSize)
    BY <1>0, <1>2
  <2>2. Matches(ChunkAlloc(chunk).chunk, old \cup {block})
    BY <1>0, <2>1, MatchesAlloc, Zenon
  <2> QED BY <1>4, <2>2
<1> HIDE DEF after
<1>6. BlocksInv(Put(mem, c, result.chunk), after)
  <2> PICK taken : taken = result.chunk
    OBVIOUS
  <2>1. ChunkInv(taken) /\ Matches(taken, BlocksOf(c, after))
    BY <1>1, <1>5
  <2>2. c \in ChunkIds /\ \A d \in In(mem) : d # c => BlocksOf(d, after) = BlocksOf(d, blocks)
    BY <1>0, <1>4
  <2>3. BlocksInv(Put(mem, c, taken), after)
    BY <1>3, <2>1, <2>2, PutBlocks
  <2> QED BY <2>3
<1>7. ListsInv(Put(mem, c, result.chunk), Put(lists, RowOf(size), list))
  BY <1>0, <1>1, PutLists
<1>8. LET new == Put(mem, c, result.chunk)
      IN  /\ ChunksInv(new) /\ In(new) = In(mem) \cup {c} /\ new[c] = result.chunk
          /\ \A d \in ChunkIds : d # c => new[d] = mem[d]
  BY <1>0, <1>1, PutChunk
<1> QED BY <1>6, <1>7, <1>8, Zenon DEF block, after, Served

(* The empty chunks after alloc are those before, but for the one it took  *)
(* the element from.                                                       *)
LEMMA EmptiesAfterAlloc ==
  ASSUME NEW mem, NEW new, NEW c \in ChunkIds, In(new) = In(mem) \cup {c},
         \A d \in ChunkIds : d # c => new[d] = mem[d], ~ empty(new[c])
  PROVE  Empties(new) = Empties(mem) \ {c}
BY DEF Empties, In

LEMMA AllocListedKeeps ==
  ASSUME VMInv, NEW size \in Sizes, AllocListed(size)
  PROVE  VMInv'
<1> DEFINE r == RowOf(size)
           c == Head(notfullchunks[r])
           result == ChunkAlloc(memory[c])
           rest == IF full(result.chunk) THEN Tail(notfullchunks[r]) ELSE notfullchunks[r]
           block == Block(c, result.index, size)
<1>1. /\ ChunksInv(memory) /\ ListsInv(memory, notfullchunks) /\ BlocksInv(memory, live)
      /\ FitsMemory(memory) /\ CountersInv
  BY DEF VMInv, PlaceInv
<1>2. /\ notfullchunks[r] # << >>
      /\ memory' = [memory EXCEPT ![c] = result.chunk]
      /\ notfullchunks' = [notfullchunks EXCEPT ![r] = rest]
      /\ live' = live \cup {block} /\ misreported' = misreported
      /\ IF empty(memory[c])
           THEN /\ emptyBlocksSize' = Minus(emptyBlocksSize, memory[c].memorysize)
                /\ emptyBlocksCount' = Minus(emptyBlocksCount, 1)
           ELSE emptyBlocksSize' = emptyBlocksSize /\ emptyBlocksCount' = emptyBlocksCount
  BY DEF AllocListed, Block
<1>3. r \in DOMAIN Rows /\ size <= Rows[r].max
  BY SizeRow
<1>4. /\ notfullchunks[r] \in Seq(ChunkIds) /\ Once(notfullchunks[r])
      /\ Range(notfullchunks[r]) = WithRoom(memory, r)
  BY <1>1, <1>3 DEF ListsInv
<1>5. /\ c \in Range(notfullchunks[r])
      /\ Tail(notfullchunks[r]) \in Seq(ChunkIds) /\ Once(Tail(notfullchunks[r]))
      /\ Range(Tail(notfullchunks[r])) = Range(notfullchunks[r]) \ {c}
  BY <1>2, <1>4, TailFacts
<1> HIDE DEF r, c
<1>6. /\ c \in In(memory) /\ c \in ChunkIds /\ Row(memory[c]) = r /\ ~ full(memory[c])
      /\ ChunkInv(memory[c]) /\ Matches(memory[c], BlocksOf(c, live))
  BY <1>1, <1>4, <1>5 DEF WithRoom, In, ChunksInv, BlocksInv
<1>7. memory[c].kind = "Small" => size <= memory[c].elementSize
  BY <1>3, <1>6, ChunkFacts DEF SmallInv
<1>8. /\ rest \in Seq(ChunkIds) /\ Once(rest)
      /\ Range(rest) = Relisted(Range(notfullchunks[r]), c, result.chunk)
  BY <1>4, <1>5 DEF Relisted
<1> HIDE DEF rest
<1>9. /\ ChunksInv(memory') /\ In(memory') = In(memory) /\ memory'[c] = result.chunk
      /\ \A d \in ChunkIds : d # c => memory'[d] = memory[d]
      /\ ListsInv(memory', notfullchunks') /\ BlocksInv(memory', live')
  <2>1. In(memory) \cup {c} = In(memory)
    BY <1>6
  <2> PICK before, list, taken : before = memory[c] /\ list = rest /\ taken = result
    OBVIOUS
  <2>2. Serves(memory, live, c, before, size)
    BY <1>6, <1>7 DEF r, Serves
  <2>3. /\ list \in Seq(ChunkIds) /\ Once(list)
        /\ Range(list) = Relisted(Range(notfullchunks[RowOf(size)]), c, taken.chunk)
        /\ taken = ChunkAlloc(before)
    BY <1>8 DEF r
  <2> HIDE DEF result
  <2>4. Served(memory, notfullchunks, live, c, taken, size, list)
    BY <1>1, <2>2, <2>3, AllocPlace
  <2> QED BY <1>2, <2>1, <2>4 DEF r, Put, Served
<1>10. /\ SameShape(memory[c], memory'[c]) /\ memory'[c].useCount = memory[c].useCount + 1
       /\ memory[c].useCount \in Nat /\ memory[c].memorysize \in Nat
  BY <1>6, <1>9, ChunkAllocFacts, ChunkFacts
<1>11. FitsMemory(memory')
  <2>1. /\ BytesOf(memory', In(memory)) = BytesOf(memory, In(memory))
                 - If(c \in In(memory), memory[c].memorysize)
                 + If(c \in In(memory), memory'[c].memorysize)
        /\ BytesOf(memory, In(memory)) \in Nat
    BY <1>1, <1>9, BytesStep DEF In
  <2> QED BY <1>1, <1>9, <1>10, <2>1 DEF FitsMemory, SameShape, If
<1>12. Empties(memory') = Empties(memory) \ {c}
  BY <1>6, <1>9, <1>10, EmptiesAfterAlloc DEF empty
<1>13. c \in Empties(memory) <=> empty(memory[c])
  BY <1>6 DEF Empties
<1>14. ASSUME Counts(Now) PROVE Counts(Now)'
  <2> DEFINE E == Empties(memory)
             F == Empties(memory')
  <2>1. /\ E \in SUBSET In(memory) /\ F \in SUBSET In(memory') /\ F \ {c} = E \ {c} /\ c \notin F
        /\ \A d \in E : d # c => memory'[d] = memory[d]
    BY <1>9, <1>12 DEF Empties, In
  <2> HIDE DEF E, F
  <2>2. /\ BytesOf(memory, E) \in Nat /\ BytesOf(memory', F) \in Nat
        /\ BytesOf(memory', F) = BytesOf(memory, E) - If(c \in E, memory[c].memorysize)
                                                    + If(c \in F, memory'[c].memorysize)
        /\ Cardinality(E) \in Nat /\ Cardinality(F) \in Nat
        /\ Cardinality(F) = Cardinality(E) - One(c \in E) + One(c \in F)
    BY <1>1, <1>9, <2>1, BytesStep
  <2>3. emptyBlocksSize = BytesOf(memory, E) /\ emptyBlocksCount = Cardinality(E)
    BY <1>14 DEF Counts, Now, E
  <2>4. emptyBlocksSize < SizeWord /\ emptyBlocksCount < SizeWord
    BY <1>1, Widths DEF CountersInv
  <2>5. emptyBlocksSize' = BytesOf(memory', F) /\ emptyBlocksCount' = Cardinality(F)
    <3>1. CASE empty(memory[c])
      <4>1. c \in E
        BY <1>13, <3>1 DEF E
      <4>2. BytesOf(memory', F) = emptyBlocksSize - memory[c].memorysize
            /\ Cardinality(F) = emptyBlocksCount - 1
        BY <1>10, <2>1, <2>2, <2>3, <4>1 DEF If, One
      <4>3. /\ emptyBlocksSize - memory[c].memorysize \in 0 .. SizeWord - 1
            /\ emptyBlocksCount - 1 \in 0 .. SizeWord - 1
        BY <1>10, <2>2, <2>3, <2>4, <4>2, Widths
      <4> QED BY <1>2, <3>1, <4>2, <4>3, SmallIsItself DEF Minus
    <3>2. CASE ~ empty(memory[c])
      <4>1. c \notin E
        BY <1>13, <3>2 DEF E
      <4> QED BY <1>2, <2>1, <2>2, <2>3, <3>2, <4>1 DEF If, One
    <3> QED BY <3>1, <3>2
  <2> QED BY <2>5 DEF Counts, Now, F
<1>15. CountersInv'
  <2>1. emptyBlocksSize' \in 0 .. SizeWord - 1 /\ emptyBlocksCount' \in 0 .. SizeWord - 1
    <3>1. emptyBlocksSize \in Int /\ emptyBlocksCount \in Int /\ memory[c].memorysize \in Int
      BY <1>1, <1>10, Widths DEF CountersInv
    <3> QED BY <1>1, <1>2, <3>1, MinusFacts DEF CountersInv
  <2> QED BY <1>1, <1>2, <1>14, <2>1 DEF CountersInv
<1> QED BY <1>9, <1>11, <1>15 DEF VMInv, PlaceInv

(* The chunk alloc makes for a size.                                       *)
NewChunk(size) ==
  LET r == RowOf(size)
  IN  IF Rows[r].count >= WordBits THEN NewSmall(Rows[r]) ELSE NewBig(size)

LEMMA NewChunkFacts ==
  ASSUME NEW size \in Sizes
  PROVE  LET chunk == NewChunk(size)
         IN  /\ ChunkInv(chunk) /\ ~ full(chunk) /\ Row(chunk) = RowOf(size)
             /\ Used(chunk) = {} /\ chunk.useCount = 0
             /\ chunk.kind = "Small" => size <= chunk.elementSize
<1> DEFINE r == RowOf(size)
<1>1. r \in DOMAIN Rows /\ size <= Rows[r].max /\ Rows[r].count \in Nat
  BY SizeRow, RowTypes
<1> HIDE DEF r
<1>2. CASE Rows[r].count >= WordBits
  <2>1. NewChunk(size) = NewSmall(Rows[r])
    BY <1>2 DEF NewChunk, r
  <2> QED BY <1>1, <1>2, <2>1, NewSmallFacts DEF ChunkInv, r
<1>3. CASE ~ Rows[r].count >= WordBits
  <2>1. NewChunk(size) = NewBig(size)
    BY <1>3 DEF NewChunk, r
  <2>2. Rows[RowOf(size)].count < WordBits
    BY <1>1, <1>3, Widths DEF r
  <2> QED BY <2>1, <2>2, NewBigFacts DEF ChunkInv
<1> QED BY <1>2, <1>3

LEMMA AllocNewKeeps ==
  ASSUME VMInv, NEW size \in Sizes, NEW c \in ChunkIds \ InMemory, AllocNew(size, c)
  PROVE  VMInv'
<1> DEFINE r == RowOf(size)
           chunk == NewChunk(size)
           result == ChunkAlloc(chunk)
           list == IF full(result.chunk) THEN notfullchunks[r] ELSE <<c>> \o notfullchunks[r]
<1>1. /\ ChunksInv(memory) /\ ListsInv(memory, notfullchunks) /\ BlocksInv(memory, live)
      /\ FitsMemory(memory) /\ CountersInv
  BY DEF VMInv, PlaceInv
<1>2. /\ notfullchunks[r] = << >>
      /\ BytesOf(memory, InMemory) + result.chunk.memorysize < SizeWord
      /\ memory' = Put(memory, c, result.chunk)
      /\ notfullchunks' = Put(notfullchunks, r, list)
      /\ live' = live \cup {Block(c, result.index, size)}
      /\ emptyBlocksSize' = emptyBlocksSize /\ emptyBlocksCount' = emptyBlocksCount
      /\ misreported' = misreported
  BY DEF AllocNew, NewChunk, Put, Block
<1>3. c \in ChunkIds /\ c \notin In(memory) /\ InMemory = In(memory)
  BY DEF In, InMemory
<1>4. /\ ChunkInv(chunk) /\ ~ full(chunk) /\ Row(chunk) = r
      /\ Used(chunk) = {} /\ chunk.useCount = 0
      /\ chunk.kind = "Small" => size <= chunk.elementSize
  BY NewChunkFacts
<1> HIDE DEF chunk, r
<1>5. Matches(chunk, BlocksOf(c, live))
  <2>1. BlocksOf(c, live) = {}
    BY <1>1, <1>3 DEF BlocksInv, Blocks, BlocksOf
  <2>2. Matches(chunk, {})
    BY <1>4, FS_EmptySet DEF Matches
  <2> QED BY <2>1, <2>2
<1>6. Serves(memory, live, c, chunk, size)
  BY <1>3, <1>4, <1>5 DEF Serves, r
<1>7. /\ list \in Seq(ChunkIds) /\ Once(list)
      /\ Range(list) = Relisted(Range(notfullchunks[r]), c, result.chunk)
  <2>1. << >> \in Seq(ChunkIds) /\ Once(<< >>) /\ Range(<< >>) = {}
    BY EmptySeq DEF Once, Range
  <2>2. /\ <<c>> \o << >> \in Seq(ChunkIds) /\ Once(<<c>> \o << >>)
        /\ Range(<<c>> \o << >>) = {c}
    <3>1. <<c>> \o << >> = <<c>> /\ <<c>> \in Seq(ChunkIds) /\ DOMAIN <<c>> = {1} /\ <<c>>[1] = c
      BY <1>3
    <3> QED BY <3>1 DEF Once, Range
  <2> QED BY <1>2, <2>1, <2>2 DEF Relisted
<1> HIDE DEF list, result
<1>8. Served(memory, notfullchunks, live, c, result, size, list)
  BY <1>1, <1>6, <1>7, AllocPlace DEF result, r
<1>9. /\ ChunksInv(memory') /\ In(memory') = In(memory) \cup {c} /\ memory'[c] = result.chunk
      /\ \A d \in ChunkIds : d # c => memory'[d] = memory[d]
      /\ ListsInv(memory', notfullchunks') /\ BlocksInv(memory', live')
  BY <1>2, <1>8 DEF Served, r
<1>10. result.chunk.useCount = 1 /\ ~ empty(memory'[c]) /\ result.chunk.memorysize \in Nat
  BY <1>4, <1>9, ChunkAllocFacts, ChunkFacts DEF empty, result
<1>11. FitsMemory(memory')
  <2>1. In(memory') \ {c} = In(memory) \ {c} /\ c \in In(memory')
    BY <1>9
  <2>2. \A d \in In(memory) : d # c => memory'[d] = memory[d]
    BY <1>9 DEF In
  <2>3. /\ BytesOf(memory', In(memory')) = BytesOf(memory, In(memory))
                 - If(c \in In(memory), memory[c].memorysize)
                 + If(c \in In(memory'), memory'[c].memorysize)
        /\ BytesOf(memory, In(memory)) \in Nat
    BY <1>1, <1>9, <2>1, <2>2, BytesStep
  <2>4. BytesOf(memory', In(memory')) = BytesOf(memory, In(memory)) + result.chunk.memorysize
    BY <1>3, <1>9, <1>10, <2>1, <2>3 DEF If
  <2> QED BY <1>2, <1>3, <2>4 DEF FitsMemory
<1>12. Empties(memory') = Empties(memory)
  <2>1. Empties(memory') = Empties(memory) \ {c}
    BY <1>3, <1>9, <1>10, EmptiesAfterAlloc
  <2> QED BY <1>3, <2>1 DEF Empties
<1>13. ASSUME Counts(Now) PROVE Counts(Now)'
  <2>1. Empties(memory) \in SUBSET In(memory) /\ Empties(memory) \subseteq In(memory')
        /\ \A d \in Empties(memory) : memory'[d] = memory[d]
    BY <1>3, <1>9 DEF Empties, In
  <2>2. BytesOf(memory', Empties(memory)) = BytesOf(memory, Empties(memory))
    BY <1>1, <1>9, <2>1, BytesSame
  <2> QED BY <1>2, <1>12, <1>13, <2>2 DEF Counts, Now
<1>14. CountersInv'
  BY <1>1, <1>2, <1>13 DEF CountersInv
<1> QED BY <1>9, <1>11, <1>14 DEF VMInv, PlaceInv

-----------------------------------------------------------------------------
(* dealloc.                                                                *)

(* The chunks, lists and blocks between the chunk's dealloc and clean.     *)
LEMMA DeallocPlace ==
  ASSUME NEW mem, NEW lists, NEW blocks, PlaceInv(mem, lists, blocks),
         NEW c \in In(mem), NEW block \in BlocksOf(c, blocks),
         NEW new, ChunkInv(new), SameShape(mem[c], new), ~ full(new),
         Matches(new, BlocksOf(c, blocks) \ {block}),
         NEW list \in Seq(ChunkIds), Once(list),
         Range(list) = Relisted(Range(lists[Row(mem[c])]), c, new)
  PROVE  PlaceInv(Put(mem, c, new), Put(lists, Row(mem[c]), list), blocks \ {block})
<1> DEFINE after == blocks \ {block}
           r == Row(mem[c])
<1>1. ChunksInv(mem) /\ ListsInv(mem, lists) /\ BlocksInv(mem, blocks) /\ FitsMemory(mem)
  BY DEF PlaceInv
<1>2. c \in ChunkIds /\ ChunkInv(mem[c])
  BY <1>1 DEF ChunksInv, In
<1>4. Row(new) = r
  BY DEF SameShape, Row
<1>5. BlocksInv(Put(mem, c, new), after)
  <2>1. after \in SUBSET Blocks(In(mem) \cup {c})
    BY <1>1 DEF BlocksInv, Blocks
  <2>2. /\ \A d \in In(mem) : d # c => BlocksOf(d, after) = BlocksOf(d, blocks)
        /\ BlocksOf(c, after) = BlocksOf(c, blocks) \ {block}
    BY DEF BlocksOf
  <2> HIDE DEF after
  <2>3. Matches(new, BlocksOf(c, after))
    BY <2>2
  <2> QED BY <1>1, <1>2, <2>1, <2>2, <2>3, PutBlocks
<1>6. ListsInv(Put(mem, c, new), Put(lists, r, list))
  BY <1>1, <1>2, <1>4, PutLists
<1>7. /\ ChunksInv(Put(mem, c, new)) /\ FitsMemory(Put(mem, c, new))
  <2> DEFINE put == Put(mem, c, new)
  <2>1. /\ ChunksInv(put) /\ In(put) = In(mem) \cup {c} /\ put[c] = new
        /\ \A d \in ChunkIds : d # c => put[d] = mem[d]
    BY <1>1, <1>2, PutChunk
  <2> HIDE DEF put
  <2>2. In(put) = In(mem) /\ \A d \in In(mem) : d # c => put[d] = mem[d]
    BY <1>2, <2>1 DEF In
  <2>3. /\ BytesOf(put, In(put)) = BytesOf(mem, In(mem)) - If(c \in In(mem), mem[c].memorysize)
                                                         + If(c \in In(put), put[c].memorysize)
        /\ BytesOf(mem, In(mem)) \in Nat
    BY <1>1, <2>1, <2>2, BytesStep
  <2>4. put[c].memorysize = mem[c].memorysize /\ mem[c].memorysize \in Nat
    BY <1>2, <2>1, ChunkFacts DEF SameShape
  <2>5. BytesOf(put, In(put)) = BytesOf(mem, In(mem))
    BY <1>2, <2>2, <2>3, <2>4 DEF If
  <2> QED BY <1>1, <2>1, <2>5 DEF FitsMemory, put
<1> HIDE DEF after, r
<1>8. PlaceInv(Put(mem, c, new), Put(lists, r, list), after)
  BY <1>5, <1>6, <1>7 DEF PlaceInv
<1> QED BY <1>8 DEF after, r

(* A report a chunk of few enough words makes is true.                     *)
LEMMA DeallocKeeps ==
  ASSUME VMInv, NEW block \in live, Dealloc(block)
  PROVE  VMInv'
<1> DEFINE c == block.chunk
           before == memory[c]
           result == ChunkDealloc(before, block.index)
           new == result.chunk
           r == Row(before)
           list == IF full(before) THEN <<c>> \o notfullchunks[r] ELSE notfullchunks[r]
           mem == Put(memory, c, new)
           lists == Put(notfullchunks, r, list)
           listed == [memory |-> mem, lists |-> lists,
                      size |-> emptyBlocksSize, count |-> emptyBlocksCount]
           counted == [memory |-> mem, lists |-> lists,
                       size |-> Plus(emptyBlocksSize, before.memorysize),
                       count |-> Plus(emptyBlocksCount, 1)]
           after == IF result.isnowempty THEN clean(counted, FALSE) ELSE listed
<1>1. /\ ChunksInv(memory) /\ ListsInv(memory, notfullchunks) /\ BlocksInv(memory, live)
      /\ PlaceInv(memory, notfullchunks, live) /\ CountersInv
  BY DEF VMInv, PlaceInv
<1>2. /\ memory' = after.memory /\ notfullchunks' = after.lists
      /\ emptyBlocksSize' = after.size /\ emptyBlocksCount' = after.count
      /\ live' = live \ {block}
      /\ misreported' = IF result.isnowempty # empty(new) THEN Append(misreported, r)
                        ELSE misreported
  BY DEF Dealloc, Store, Row, Put
<1>3. /\ c \in In(memory) /\ c \in ChunkIds /\ block \in BlocksOf(c, live)
      /\ ChunkInv(before) /\ Matches(before, BlocksOf(c, live))
  BY <1>1 DEF BlocksInv, Blocks, BlocksOf, ChunksInv, In
<1>4. /\ before.useCount > 0 /\ block.index \in Used(before) /\ result.isnowempty \in BOOLEAN
      /\ Rows[r].count <= IntBits * WordBits => (result.isnowempty <=> empty(new))
      /\ Matches(new, BlocksOf(c, live) \ {block})
  BY <1>3, MatchesDealloc
<1>5. /\ ChunkInv(new) /\ SameShape(before, new) /\ ~ full(new)
      /\ before.memorysize \in Nat /\ new.memorysize = before.memorysize /\ r \in DOMAIN Rows
  BY <1>3, <1>4, ChunkDeallocFacts, ChunkFacts DEF SameShape
<1>6. PlaceInv(mem, lists, live')
  <2>0. notfullchunks[r] \in Seq(ChunkIds) /\ Once(notfullchunks[r])
        /\ Range(notfullchunks[r]) = WithRoom(memory, r)
    BY <1>1, <1>5 DEF ListsInv
  <2>1. c \in Range(notfullchunks[r]) <=> ~ full(before)
    BY <1>3, <2>0 DEF WithRoom
  <2>2. /\ list \in Seq(ChunkIds) /\ Once(list)
        /\ Range(list) = Range(notfullchunks[r]) \cup {c}
    <3> HIDE DEF c, before, r
    <3>1. CASE full(before)
      BY <1>3, <2>0, <2>1, <3>1, PushFacts
    <3>2. CASE ~ full(before)
      BY <2>0, <2>1, <3>2
    <3> QED BY <3>1, <3>2
  <2>3. Range(list) = Relisted(Range(notfullchunks[r]), c, new)
    BY <1>5, <2>2 DEF Relisted
  <2> HIDE DEF c, result, new, list
  <2>4. PlaceInv(Put(memory, c, new), Put(notfullchunks, Row(memory[c]), list), live \ {block})
    BY <1>1, <1>3, <1>4, <1>5, <2>2, <2>3, DeallocPlace
  <2> QED BY <1>2, <2>4
<1>7. /\ ChunksInv(mem) /\ In(mem) = In(memory) \cup {c} /\ mem[c] = new
      /\ \A d \in ChunkIds : d # c => mem[d] = memory[d]
  BY <1>1, <1>3, <1>5, PutChunk
<1> HIDE DEF c, before, result, new, r, list, mem, lists
<1>8. emptyBlocksSize \in 0 .. SizeWord - 1 /\ emptyBlocksCount \in 0 .. SizeWord - 1
      /\ misreported \in Seq(DOMAIN Rows)
  BY <1>1 DEF CountersInv
<1>9. ASSUME NEW s, s = counted \/ s = listed
      PROVE  /\ PlaceInv(s.memory, s.lists, live')
             /\ s.size \in 0 .. SizeWord - 1 /\ s.count \in 0 .. SizeWord - 1
  <2>1. Plus(emptyBlocksSize, before.memorysize) \in 0 .. SizeWord - 1
        /\ Plus(emptyBlocksCount, 1) \in 0 .. SizeWord - 1
    <3>1. emptyBlocksSize + before.memorysize \in Int /\ emptyBlocksCount + 1 \in Int
      BY <1>5, <1>8, Widths
    <3> QED BY <3>1, Widths, Remainder DEF Plus
  <2> QED BY <1>6, <1>8, <1>9, <2>1
<1>10. /\ PlaceInv(after.memory, after.lists, live')
       /\ after.size \in 0 .. SizeWord - 1 /\ after.count \in 0 .. SizeWord - 1
       /\ result.isnowempty => (Counts(counted) => Counts(after))
  <2>1. CASE result.isnowempty
    <3> PICK s, b : s = counted /\ b = live'
      OBVIOUS
    <3>1. /\ PlaceInv(s.memory, s.lists, b)
          /\ s.size \in 0 .. SizeWord - 1 /\ s.count \in 0 .. SizeWord - 1
      BY <1>9
    <3>2. after = clean(s, FALSE)
      BY <2>1
    <3> HIDE DEF counted, after
    <3>3. /\ PlaceInv(after.memory, after.lists, b)
          /\ after.size \in 0 .. SizeWord - 1 /\ after.count \in 0 .. SizeWord - 1
          /\ Counts(s) => Counts(after)
      BY <3>1, <3>2, CleanFacts
    <3> QED BY <3>3
  <2>2. CASE ~ result.isnowempty
    <3>1. after = listed
      BY <2>2
    <3> HIDE DEF after, listed
    <3> QED BY <1>9, <2>2, <3>1
  <2> QED BY <2>1, <2>2
<1>11. ASSUME Counts(Now), result.isnowempty <=> empty(new) PROVE Counts(Now)'
  <2> DEFINE E == Empties(memory)
             F == Empties(mem)
  <2>1. /\ E \in SUBSET In(memory) /\ F \in SUBSET In(mem) /\ F \ {c} = E \ {c}
        /\ \A d \in E : d # c => mem[d] = memory[d]
    BY <1>7 DEF Empties, In
  <2>2. c \notin E /\ (c \in F <=> empty(new))
    BY <1>3, <1>4, <1>7 DEF Empties, empty, before
  <2> HIDE DEF E, F
  <2>3. /\ BytesOf(memory, E) \in Nat /\ BytesOf(mem, F) \in Nat
        /\ BytesOf(mem, F) = BytesOf(memory, E) - If(c \in E, memory[c].memorysize)
                                                + If(c \in F, mem[c].memorysize)
        /\ Cardinality(E) \in Nat /\ Cardinality(F) \in Nat
        /\ Cardinality(F) = Cardinality(E) - One(c \in E) + One(c \in F)
    BY <1>1, <1>7, <2>1, BytesStep
  <2>4. /\ BytesOf(mem, F) < SizeWord /\ Cardinality(F) < SizeWord
    <3>1. /\ BytesOf(mem, F) <= BytesOf(mem, In(mem)) /\ BytesOf(mem, In(mem)) \in Nat
          /\ Cardinality(F) <= BytesOf(mem, F)
      BY <1>7, <2>1, BytesFacts
    <3>2. BytesOf(mem, In(mem)) < SizeWord
      BY <1>6 DEF PlaceInv, FitsMemory
    <3> QED BY <2>3, <3>1, <3>2, Widths
  <2>5. emptyBlocksSize = BytesOf(memory, E) /\ emptyBlocksCount = Cardinality(E)
    BY <1>11 DEF Counts, Now, E
  <2>6. CASE result.isnowempty
    <3>1. c \in F
      BY <1>11, <2>2, <2>6
    <3>2. /\ BytesOf(mem, F) = emptyBlocksSize + before.memorysize
          /\ Cardinality(F) = emptyBlocksCount + 1
      BY <1>5, <1>7, <2>2, <2>3, <2>5, <3>1 DEF If, One
    <3>3. /\ Plus(emptyBlocksSize, before.memorysize) = BytesOf(mem, F)
          /\ Plus(emptyBlocksCount, 1) = Cardinality(F)
      <4>1. BytesOf(mem, F) \in 0 .. SizeWord - 1 /\ Cardinality(F) \in 0 .. SizeWord - 1
        BY <2>3, <2>4, Widths
      <4> QED BY <3>2, <4>1, SmallIsItself DEF Plus
    <3>4. Counts(counted)
      BY <3>3 DEF Counts, F
    <3>5. Counts(after)
      BY <1>10, <2>6, <3>4
    <3> HIDE DEF after
    <3> QED BY <1>2, <3>5 DEF Counts, Now
  <2>7. CASE ~ result.isnowempty
    <3>1. c \notin F
      BY <1>11, <2>2, <2>7
    <3>2. emptyBlocksSize = BytesOf(mem, F) /\ emptyBlocksCount = Cardinality(F)
      BY <2>2, <2>3, <2>5, <3>1 DEF If, One
    <3>3. Counts(listed)
      BY <3>2 DEF Counts, F
    <3>4. after = listed
      BY <2>7
    <3> HIDE DEF after, listed
    <3> QED BY <1>2, <3>3, <3>4 DEF Counts, Now
  <2> QED BY <2>6, <2>7
<1> HIDE DEF after, listed, counted
<1>12. CASE result.isnowempty # empty(new)
  <2>1. Rows[r].count > IntBits * WordBits
    <3>1. ~ Rows[r].count <= IntBits * WordBits
      BY <1>4, <1>12 DEF empty
    <3> QED BY <1>5, <3>1, RowTypes, Widths
  <2>2. /\ misreported' \in Seq(DOMAIN Rows) /\ Range(misreported') = Range(misreported) \cup {r}
        /\ misreported' # << >>
    BY <1>2, <1>5, <1>8, <1>12, AppendFacts, AppendProperties
  <2>3. CountersInv'
    BY <1>1, <1>2, <1>10, <2>1, <2>2 DEF CountersInv
  <2> QED BY <1>2, <1>10, <2>3 DEF VMInv
<1>13. CASE ~ (result.isnowempty # empty(new))
  <2>1. misreported' = misreported /\ (result.isnowempty <=> empty(new))
    BY <1>2, <1>13
  <2>2. CountersInv'
    BY <1>1, <1>2, <1>10, <1>11, <2>1 DEF CountersInv
  <2> QED BY <1>2, <1>10, <2>2 DEF VMInv
<1> QED BY <1>12, <1>13

-----------------------------------------------------------------------------
(* Every step keeps the invariant.                                         *)

LEMMA CleanKeeps ==
  ASSUME VMInv, NEW force \in BOOLEAN, Clean(force)
  PROVE  VMInv'
<1> PICK s : s = Now
  OBVIOUS
<1> DEFINE after == clean(s, force)
<1>1. /\ s.memory = memory /\ s.lists = notfullchunks
      /\ s.size = emptyBlocksSize /\ s.count = emptyBlocksCount
  BY DEF Now
<1>2. /\ memory' = after.memory /\ notfullchunks' = after.lists
      /\ emptyBlocksSize' = after.size /\ emptyBlocksCount' = after.count
      /\ live' = live /\ misreported' = misreported
  BY DEF Clean, Store
<1>3. /\ PlaceInv(s.memory, s.lists, live)
      /\ s.size \in 0 .. SizeWord - 1 /\ s.count \in 0 .. SizeWord - 1
  BY <1>1 DEF VMInv, CountersInv
<1>4. /\ PlaceInv(after.memory, after.lists, live)
      /\ after.size \in 0 .. SizeWord - 1 /\ after.count \in 0 .. SizeWord - 1
      /\ Counts(s) => Counts(after)
  BY <1>3, CleanFacts
<1> HIDE DEF after
<1>5. PlaceInv(memory', notfullchunks', live')
  BY <1>2, <1>4
<1>6. Counts(Now) => Counts(Now)'
  <2>1. Counts(after) => Counts(Now)'
    BY <1>2 DEF Counts, Now
  <2> QED BY <1>4, <2>1
<1>7. CountersInv'
  BY <1>2, <1>4, <1>6 DEF VMInv, CountersInv
<1> QED BY <1>5, <1>7 DEF VMInv

LEMMA InitKeeps == Init => VMInv
<1> SUFFICES ASSUME Init PROVE VMInv
  OBVIOUS
<1>1. /\ memory = [c \in ChunkIds |-> None] /\ live = {}
      /\ notfullchunks = [r \in DOMAIN Rows |-> << >>]
      /\ emptyBlocksSize = 0 /\ emptyBlocksCount = 0 /\ misreported = << >>
  BY DEF Init
<1>2. In(memory) = {} /\ Empties(memory) = {} /\ \A r \in DOMAIN Rows : WithRoom(memory, r) = {}
  BY <1>1 DEF In, Empties, WithRoom
<1>3. << >> \in Seq(ChunkIds) /\ Once(<< >>) /\ Range(<< >>) = {}
      /\ << >> \in Seq(DOMAIN Rows)
  BY EmptySeq DEF Once, Range
<1>4. ListsInv(memory, notfullchunks)
  BY <1>1, <1>2, <1>3 DEF ListsInv
<1>5. BytesOf(memory, {}) = 0 /\ Cardinality({}) = 0
  BY BytesOfNone
<1>6. ChunksInv(memory) /\ BlocksInv(memory, live) /\ FitsMemory(memory)
  <2>1. memory = [c \in ChunkIds |-> memory[c]]
    BY <1>1
  <2>2. ChunksInv(memory)
    BY <1>2, <2>1 DEF ChunksInv
  <2>3. BlocksInv(memory, live)
    BY <1>1, <1>2 DEF BlocksInv
  <2>4. FitsMemory(memory)
    BY <1>2, <1>5, Widths DEF FitsMemory
  <2> QED BY <2>2, <2>3, <2>4
<1>7. Counts(Now)
  BY <1>1, <1>2, <1>5 DEF Counts, Now
<1>8. CountersInv
  BY <1>1, <1>3, <1>7, Widths DEF CountersInv
<1> QED BY <1>4, <1>6, <1>8 DEF VMInv, PlaceInv

LEMMA NextKeeps == VMInv /\ [Next]_vars => VMInv'
<1> SUFFICES ASSUME VMInv, [Next]_vars PROVE VMInv'
  OBVIOUS
<1>1. ASSUME NEW size \in Sizes, AllocListed(size) PROVE VMInv'
  BY <1>1, AllocListedKeeps
<1>2. ASSUME NEW size \in Sizes, NEW c \in ChunkIds \ InMemory, AllocNew(size, c) PROVE VMInv'
  BY <1>2, AllocNewKeeps
<1>3. ASSUME NEW block \in live, Dealloc(block) PROVE VMInv'
  BY <1>3, DeallocKeeps
<1>4. ASSUME NEW force \in BOOLEAN, Clean(force) PROVE VMInv'
  BY <1>4, CleanKeeps
<1>5. CASE UNCHANGED vars
  BY <1>5 DEF vars, VMInv, CountersInv, Counts, Now
<1> QED BY <1>1, <1>2, <1>3, <1>4, <1>5, Zenon DEF Next

(* Every state satisfies the inductive invariant: chunks, lists, callers'  *)
(* blocks and counters of empty chunks agree, for every table of rows and  *)
(* every address space.                                                    *)
THEOREM VMInductive == Spec => []VMInv
BY InitKeeps, NextKeeps, PTL DEF Spec

-----------------------------------------------------------------------------
(* What it says of each property the runs check.                           *)

(* The indexes of a chunk's blocks are as many as the blocks.              *)
LEMMA IndexesOfBlocks ==
  ASSUME NEW chunk, NEW blocks, Matches(chunk, blocks)
  PROVE  /\ IsFiniteSet(Used(chunk)) /\ chunk.useCount = Cardinality(blocks)
         /\ Cardinality({block.index : block \in blocks}) = Cardinality(blocks)
         /\ Cardinality(Used(chunk)) = Cardinality(blocks)
<1> DEFINE indexes == {block.index : block \in blocks}
           f == [block \in blocks |-> block.index]
<1>1. /\ IsFiniteSet(blocks) /\ indexes = Used(chunk) /\ chunk.useCount = Cardinality(blocks)
      /\ \A a, b \in blocks : a.index = b.index => a = b
  BY DEF Matches
<1>2. f \in Bijection(blocks, indexes)
  <2>1. f \in [blocks -> indexes] /\ \A i \in indexes : \E block \in blocks : f[block] = i
    OBVIOUS
  <2>2. \A a, b \in blocks : f[a] = f[b] => a = b
    BY <1>1
  <2> HIDE DEF f, indexes
  <2> QED BY <2>1, <2>2 DEF Bijection, Injection, Surjection, IsInjective
<1> HIDE DEF f, indexes
<1>3. IsFiniteSet(indexes) /\ Cardinality(indexes) = Cardinality(blocks)
  <2>1. ExistsBijection(blocks, indexes)
    BY <1>2 DEF ExistsBijection
  <2> QED BY <1>1, <2>1, FS_Bijection
<1> QED BY <1>1, <1>3 DEF indexes

(* A chunk has at most as many elements in use as its words have bits.     *)
LEMMA UseCountBound ==
  ASSUME NEW chunk, ChunkInv(chunk), NEW blocks, Matches(chunk, blocks)
  PROVE  chunk.useCount \in 0 .. WordBits * WordBits
<1>1. /\ IsFiniteSet(Used(chunk)) /\ chunk.useCount = Cardinality(Used(chunk))
      /\ chunk.useCount \in Nat
  BY IndexesOfBlocks, ChunkFacts
<1>2. WordBits * WordBits \in Nat \ {0}
  BY Widths, Z3
<1>3. Used(chunk) \subseteq 0 .. WordBits * WordBits - 1
  <2>1. CASE chunk.kind = "Small"
    BY <2>1 DEF Used
  <2>2. CASE chunk.kind # "Small"
    <3>1. 0 \in 0 .. WordBits * WordBits - 1
      BY <1>2
    <3> QED BY <2>2, <3>1 DEF Used
  <2> QED BY <2>1, <2>2
<1>4. /\ IsFiniteSet(0 .. WordBits * WordBits - 1)
      /\ Cardinality(0 .. WordBits * WordBits - 1) = WordBits * WordBits
  <2> PICK n \in Nat \ {0} : n = WordBits * WordBits
    BY <1>2
  <2> PICK last \in Nat : last = n - 1
    OBVIOUS
  <2>1. /\ IsFiniteSet(0 .. last)
        /\ Cardinality(0 .. last) = IF 0 > last THEN 0 ELSE last - 0 + 1
    BY FS_Interval
  <2> QED BY <2>1
<1>5. Cardinality(Used(chunk)) <= WordBits * WordBits
  BY <1>3, <1>4, FS_Subset
<1> QED BY <1>1, <1>2, <1>5

(* A block of a chunk of equal elements is at a 1 bit, and in its memory.  *)
LEMMA BlockInChunk ==
  ASSUME NEW chunk, SmallInv(chunk), NEW i \in Used(chunk)
  PROVE  /\ i % WordBits \in chunk.bitfield64[i \div WordBits]
         /\ (i + 1) * chunk.elementSize <= chunk.memorysize
<1> DEFINE r == Row(chunk)
<1>1. /\ chunk.kind = "Small" /\ r \in DOMAIN Rows /\ Rows[r].count >= WordBits
      /\ chunk.elementSize = Rows[r].max /\ chunk.memorysize = Rows[r].count * Rows[r].max
      /\ chunk.bitusedmask = WordsOf(r)
      /\ \A w \in Bits : chunk.bitfield64[w] # {} => w \in chunk.bitusedmask
  BY DEF SmallInv, SmallChunks
<1> HIDE DEF r
<1>2. /\ i \in 0 .. WordBits * WordBits - 1
      /\ i % WordBits \in chunk.bitfield64[i \div WordBits]
  BY <1>1 DEF Used
<1>3. PICK words \in 1 .. WordBits : Rows[r].count = words * WordBits /\ WordsOf(r) = 0 .. words - 1
  BY <1>1, RowWords
<1>4. PICK w \in Bits, b \in Bits : w = i \div WordBits /\ b = i % WordBits /\ i = w * WordBits + b
  BY <1>2, BitOfIndex
<1>5. w \in 0 .. words - 1
  BY <1>1, <1>2, <1>3, <1>4
<1>6. i + 1 <= Rows[r].count
  <2>1. (words - 1 - w) * WordBits >= 0
    BY <1>5, Widths, Z3
  <2>2. w * WordBits <= words * WordBits - WordBits
    BY <1>5, <2>1, Widths, Z3
  <2>3. b + 1 <= WordBits
    BY Widths DEF Bits
  <2> QED BY <1>3, <1>4, <2>2, <2>3, Widths, Z3
<1>7. (i + 1) * Rows[r].max <= Rows[r].count * Rows[r].max
  <2>1. i + 1 \in Nat /\ Rows[r].count \in Nat /\ Rows[r].max \in Nat
    BY <1>1, <1>2, RowTypes
  <2> PICK n \in Nat, m \in Nat, x \in Nat : n = i + 1 /\ m = Rows[r].count /\ x = Rows[r].max
    BY <2>1
  <2>2. (m - n) * x >= 0
    BY <1>6, Z3
  <2>3. n * x <= m * x
    BY <2>2, Z3
  <2> QED BY <2>3
<1> QED BY <1>1, <1>2, <1>7

LEMMA TypeFromInv == VMInv => TypeOK
<1> SUFFICES ASSUME VMInv PROVE TypeOK
  OBVIOUS
<1>1. ASSUME NEW c \in InMemory PROVE memory[c].useCount \in 0 .. WordBits * WordBits
  <2>1. ChunkInv(memory[c]) /\ Matches(memory[c], BlocksOf(c, live))
    BY DEF VMInv, PlaceInv, ChunksInv, BlocksInv, In, InMemory
  <2> QED BY <2>1, UseCountBound
<1>2. notfullchunks \in [DOMAIN Rows -> Seq(ChunkIds)]
  BY DEF VMInv, PlaceInv, ListsInv
<1> QED BY <1>1, <1>2 DEF VMInv, CountersInv, TypeOK

LEMMA ListsFromInv == VMInv => ListsExact
<1> SUFFICES ASSUME VMInv PROVE ListsExact
  OBVIOUS
<1>1. ASSUME NEW r \in DOMAIN Rows
      PROVE  Once(notfullchunks[r]) /\ Range(notfullchunks[r]) = WithRoom(memory, r)
  BY DEF VMInv, PlaceInv, ListsInv
<1>2. InMemory = In(memory)
  BY DEF InMemory, In
<1>3. ASSUME NEW r \in DOMAIN Rows, NEW i \in 1 .. Cardinality(ChunkIds),
             NEW j \in 1 .. Cardinality(ChunkIds),
             {i, j} \subseteq DOMAIN notfullchunks[r], i # j
      PROVE  notfullchunks[r][i] # notfullchunks[r][j]
  BY <1>1, <1>3 DEF Once
<1>4. \A r \in DOMAIN Rows :
        Range(notfullchunks[r])
          = {c \in InMemory : RowOf(memory[c].elementSize) = r /\ ~ full(memory[c])}
  BY <1>1, <1>2 DEF WithRoom, Row
<1> QED BY <1>3, <1>4 DEF ListsExact

LEMMA BlocksFromInv == VMInv => BlocksInUse
<1> SUFFICES ASSUME VMInv PROVE BlocksInUse
  OBVIOUS
<1>1. ASSUME NEW c \in InMemory
      PROVE  ChunkInv(memory[c]) /\ Matches(memory[c], BlocksOf(c, live))
  BY DEF VMInv, PlaceInv, ChunksInv, BlocksInv, In, InMemory
<1>2. ASSUME NEW block \in live
      PROVE  block.chunk \in InMemory /\ block \in BlocksOf(block.chunk, live)
  BY DEF VMInv, PlaceInv, BlocksInv, Blocks, BlocksOf, In, InMemory
<1>3. ASSUME NEW block \in live, memory[block.chunk].kind = "Small"
      PROVE  LET chunk == memory[block.chunk]
             IN  /\ block.size <= chunk.elementSize
                 /\ (block.index + 1) * chunk.elementSize <= chunk.memorysize
  <2> PICK chunk, blocks : chunk = memory[block.chunk] /\ blocks = BlocksOf(block.chunk, live)
    OBVIOUS
  <2>1. ChunkInv(chunk) /\ Matches(chunk, blocks) /\ block \in blocks /\ chunk.kind = "Small"
    BY <1>1, <1>2, <1>3
  <2>2. /\ SmallInv(chunk) /\ block.index \in Used(chunk)
        /\ block.size <= chunk.elementSize
    BY <2>1, ChunkFacts, MatchesUse DEF Matches
  <2>3. (block.index + 1) * chunk.elementSize <= chunk.memorysize
    BY <2>2, BlockInChunk
  <2> QED BY <2>2, <2>3
<1>4. ASSUME NEW c \in InMemory
      PROVE  LET blocks == {block \in live : block.chunk = c}
             IN  /\ Used(memory[c]) = {block.index : block \in blocks}
                 /\ memory[c].useCount = Cardinality(blocks)
                 /\ Cardinality({block.index : block \in blocks}) = Cardinality(blocks)
  <2> PICK blocks : blocks = BlocksOf(c, live)
    OBVIOUS
  <2>1. blocks = {block \in live : block.chunk = c}
    BY DEF BlocksOf
  <2>2. /\ memory[c].useCount = Cardinality(blocks)
        /\ Cardinality({block.index : block \in blocks}) = Cardinality(blocks)
        /\ Used(memory[c]) = {block.index : block \in blocks}
    BY <1>1, IndexesOfBlocks DEF Matches
  <2> QED BY <2>1, <2>2
<1> QED BY <1>2, <1>3, <1>4 DEF BlocksInUse

LEMMA CountsFromInv == VMInv => EmptyCountsExact
<1> SUFFICES ASSUME VMInv PROVE EmptyCountsExact
  OBVIOUS
<1>1. EmptyChunks = Empties(memory)
  BY DEF EmptyChunks, Empties, InMemory, In
<1> QED BY <1>1 DEF VMInv, CountersInv, Counts, Now, EmptyCountsExact

(* The lists and counters of the machine's memory have their types, and no *)
(* chunk ever has more elements in use than its 64 words of 64 bits.       *)
THEOREM TypeCorrect == Spec => []TypeOK
BY VMInductive, TypeFromInv, PTL

(* Each row lists its chunks with room, every one and each once: alloc,    *)
(* dealloc and clean lose no chunk and list none twice.                    *)
THEOREM ListsCorrect == Spec => []ListsExact
BY VMInductive, ListsFromInv, PTL

(* The elements in use are the callers' blocks, one each: clean frees no   *)
(* chunk under a block, even when the counters it goes by have drifted.    *)
THEOREM BlocksCorrect == Spec => []BlocksInUse
BY VMInductive, BlocksFromInv, PTL

(* The counters clean goes by are those of the empty chunks until a chunk  *)
(* of more words than an int has bits misreports; no other does.           *)
THEOREM CountsCorrect == Spec => []EmptyCountsExact
BY VMInductive, CountsFromInv, PTL

=============================================================================
