----------------------------- MODULE SplitTypes -----------------------------
(***************************************************************************)
(* The tree that cuts a pool of 512 units into blocks of 1 to 32 units,    *)
(* src/VirtualMachineProject/MemoryChunkPool.h: SplitLeaf, SplitMiddle and *)
(* SplitTypes, as operators on the tree's memory.                          *)
(*                                                                         *)
(* A node of kind k (k units) is a byte, an Option and a count of full     *)
(* children, followed by its children; the two options' arrays of children *)
(* overlap in a union.  The memory m is the function from byte offsets to  *)
(* states, so that what one option writes the other reads.  A node is      *)
(* named by its offset and its kind.                                       *)
(*                                                                         *)
(* An operator named X_Y, defined before X, is X with the plausible bug Y  *)
(* seeded in it.  Nothing else uses it.                                    *)
(***************************************************************************)
EXTENDS Integers, Sequences, FiniteSetsExt

CONSTANT Copies     \* Copies[type]: trees in a pool of the type (16, 6, 5, 7, 17)

SOE_Empty == 0
SOE_Option1 == 1
SOE_Option2 == 2
SOE_Reserved == 3
SplitType == [Option : SOE_Empty .. SOE_Reserved, fullChilds : Int]
Blank == [Option |-> SOE_Empty, fullChilds |-> 0]

NoIndex == -1       \* size_t(-1): index arithmetic on it wraps as -1 does

(* Children of each kind: <<kind, number>> under option 1 and option 2.    *)
Split(k1, n1, k2, n2) == <<[kind |-> k1, number |-> n1], [kind |-> k2, number |-> n2]>>
Halves(k) == Split(k, 2, k, 2)
Thirds(k) == Split(k, 3, k, 3)
Leaves == {1, 3, 5, 7, 20, 25}
Middles == {2, 4, 6, 8, 9, 10, 12, 14, 15, 16, 18, 21, 24, 28, 30, 32, 72, 84, 100}
Kinds == Leaves \cup Middles
SplitOf == [k \in Middles |->
  CASE k = 9 -> Thirds(3) [] k = 15 -> Thirds(5) [] k = 21 -> Thirds(7)
    [] k = 18 -> Split(6, 3, 9, 2)
    [] k = 30 -> Split(10, 3, 15, 2)
    [] k = 72 -> Split(18, 4, 24, 3)
    [] k = 84 -> Split(21, 4, 28, 3)
    [] k = 100 -> Split(20, 5, 25, 4)
    [] OTHER -> Halves(k \div 2)]

roundSizeTable == <<1, 2, 3, 4, 5, 6, 7, 8, 9, 10, 12, 12, 14, 14, 15, 16,
                    18, 18, 20, 20, 21, 24, 24, 24, 25, 28, 28, 28, 30, 30, 32, 32>>

(* sizeof of a node: its byte and the larger of its two arrays.            *)
Bytes[k \in Kinds] ==
  IF k \in Leaves THEN 1
  ELSE 1 + Max({SplitOf[k][x].number * Bytes[SplitOf[k][x].kind] : x \in 1 .. 2})

Kind(k, x) == SplitOf[k][x].kind
ChildIndexes(k, x) == 0 .. SplitOf[k][x].number - 1
Child(o, k, x, i) == o + 1 + i * Bytes[Kind(k, x)]
Children(o, k, options) ==
  UNION {{[at |-> Child(o, k, x, i), kind |-> Kind(k, x)] : i \in ChildIndexes(k, x)} :
           x \in options}

Option(m, o) == m[o].Option
isEmpty(m, o) == Option(m, o) = SOE_Empty
isReserved(m, o) == Option(m, o) = SOE_Reserved
isSplit(m, o) == Option(m, o) \in {SOE_Option1, SOE_Option2}
setOption(m, o, option) == [m EXCEPT ![o].Option = option]
addFullChilds(m, o, n) == [m EXCEPT ![o].fullChilds = @ + n]
full(m, o, k) ==
  \/ isReserved(m, o)
  \/ isSplit(m, o) /\ m[o].fullChilds = SplitOf[k][Option(m, o)].number

(* setSplitType1, setSplitType2: the children's own bytes are reset, what  *)
(* lies below them is not.                                                 *)
setSplitType(m, o, k, x) ==
  [a \in DOMAIN m |-> IF \E i \in ChildIndexes(k, x) : a = Child(o, k, x, i)
                     THEN Blank ELSE setOption(m, o, x)[a]]

-----------------------------------------------------------------------------
(* Allocation of a node of _size units.  Each operator returns the memory  *)
(* and the index, in units from the node's first, or NoIndex.              *)

Found(m, index) == [memory |-> m, index |-> index]

(* An alloc in child i, and the parent's count when the child fills up.    *)
InChild_NeverFull(o, k, x, i, before, found) ==
  [found EXCEPT !.index = i * Kind(k, x) + found.index]
InChild_NoStride(o, k, x, i, before, found) ==
  LET c == Child(o, k, x, i)
      filled == ~ full(before, c, Kind(k, x)) /\ full(found.memory, c, Kind(k, x))
  IN  Found(IF filled THEN addFullChilds(found.memory, o, 1) ELSE found.memory, i + found.index)
InChild(o, k, x, i, before, found) ==
  LET c == Child(o, k, x, i)
      filled == ~ full(before, c, Kind(k, x)) /\ full(found.memory, c, Kind(k, x))
  IN  Found(IF filled THEN addFullChilds(found.memory, o, 1) ELSE found.memory,
            i * Kind(k, x) + found.index)

(* What the loops over elements choose: the first.                         *)
First(elements) == CHOOSE e \in elements : \A d \in elements : e.i <= d.i

FirstHit(m, o, k, hits) ==
  IF hits = {} THEN Found(m, NoIndex)
  ELSE InChild(o, k, Option(m, o), First(hits).i, m, First(hits).found)

(* tryAllocIndex: an empty node of exactly the size, without dividing any. *)
tryAllocIndex(m, o, k, _size) ==
  LET try[j \in Kinds] == [at \in Nat |->
        IF isEmpty(m, at) /\ j = _size THEN Found(setOption(m, at, SOE_Reserved), 0)
        ELSE IF j \in Leaves \/ ~ isSplit(m, at) \/ full(m, at, j) THEN Found(m, NoIndex)
        ELSE LET x == Option(m, at)
                 tries == {[i |-> i, found |-> try[Kind(j, x)][Child(at, j, x, i)]] :
                             i \in ChildIndexes(j, x)}
             IN  FirstHit(m, at, j, {t \in tries : t.found.index # NoIndex})]
  IN  try[k][o]

(* The cost of dividing nodes until one has the size; 0 is an empty node   *)
(* of the size, Infinite one that cannot be had (or is a leaf).            *)
Infinite == 1000000
getSplitCost(m, o, k, _size) ==
  LET cost[j \in Kinds] == [at \in Nat |->
        IF j \in Leaves \/ j < _size THEN Infinite
        ELSE IF j = _size THEN (IF isEmpty(m, at) THEN 0 ELSE Infinite)
        ELSE IF isEmpty(m, at)
          THEN LET least == Min({cost[Kind(j, x)][at + 1] : x \in 1 .. 2})
               IN  IF least # Infinite THEN least + j * j
                   ELSE IF \E x \in 1 .. 2 : Kind(j, x) = _size THEN j * j ELSE Infinite
        ELSE IF ~ isSplit(m, at) THEN Infinite
        ELSE LET x == Option(m, at)
             IN  Min({cost[Kind(j, x)][Child(at, j, x, i)] : i \in ChildIndexes(j, x)})]
  IN  cost[k][o]

(* The kinds of a tree's nodes.                                            *)
KindsIn[k \in Kinds] ==
  {k} \cup (IF k \in Leaves THEN {} ELSE UNION {KindsIn[Kind(k, x)] : x \in 1 .. 2})

possibleSplit(k, _size) == k \notin Leaves /\ _size \in KindsIn[k]

(* How allocIndex divides an empty node, 0 when no option yields the size. *)
OptionFor_First(k, _size) == IF possibleSplit(k, _size) THEN SOE_Option1 ELSE 0
OptionFor(k, _size) ==
  CASE Kind(k, 1) = _size -> SOE_Option1
    [] Kind(k, 1) # _size /\ Kind(k, 2) = _size -> SOE_Option2
    [] Kind(k, 1) # _size /\ Kind(k, 2) # _size ->
         IF possibleSplit(Kind(k, 1), _size) THEN SOE_Option1
         ELSE IF possibleSplit(Kind(k, 2), _size) THEN SOE_Option2 ELSE 0

(* The first element of least cost; costs is a set of [i, cost].           *)
Cheapest(costs) ==
  LET possible == {e \in costs : e.cost # Infinite}
  IN  IF possible = {} THEN NoIndex
      ELSE First({e \in possible : \A d \in possible : e.cost <= d.cost}).i

(* Among children: an empty leaf of the size ends the search at once.      *)
ChildToAlloc(m, o, k, x, _size) ==
  LET exact == {i \in ChildIndexes(k, x) : isEmpty(m, Child(o, k, x, i))}
  IN  IF Kind(k, x) = _size /\ Kind(k, x) \in Leaves /\ exact # {} THEN Min(exact)
      ELSE Cheapest({[i |-> i, cost |-> getSplitCost(m, Child(o, k, x, i), Kind(k, x), _size)] :
                       i \in ChildIndexes(k, x)})

(* An alloc divides only what it could not find without, and no leaf.      *)
TriedOr(tried, k, divided) ==
  IF tried.index # NoIndex \/ k \in Leaves THEN tried ELSE divided

allocNode(m, o, k, _size) ==
  LET alloc[j \in Kinds] == [mem \in [DOMAIN m -> SplitType] |-> [at \in Nat |->
        LET option == IF isEmpty(mem, at) THEN OptionFor(j, _size) ELSE Option(mem, at)
            divided == IF isEmpty(mem, at) THEN setSplitType(mem, at, j, option) ELSE mem
            i == ChildToAlloc(divided, at, j, option, _size)
        IN  TriedOr(tryAllocIndex(mem, at, j, _size), j,
              IF option \notin {SOE_Option1, SOE_Option2} THEN Found(mem, NoIndex)
              ELSE IF i = NoIndex THEN Found(divided, NoIndex)
              ELSE InChild(at, j, option, i, divided,
                           alloc[Kind(j, option)][divided][Child(at, j, option, i)]))]]
  IN  alloc[k][m][o]

-----------------------------------------------------------------------------
(* Deallocation: the memory, and the size of the node that was reserved.   *)

setEmptyIfUnused_Keep(m, o, children) == m
setEmptyIfUnused(m, o, children) ==
  IF \A c \in children : isEmpty(m, c.at) THEN setOption(m, o, SOE_Empty) ELSE m

deallocNode(m, o, k, index) ==
  LET free[j \in Kinds] == [at \in Nat |-> [within \in Nat |->
        IF j \in Leaves \/ ~ isSplit(m, at) THEN [memory |-> setOption(m, at, SOE_Empty), size |-> j]
        ELSE LET x == Option(m, at)
                 child == Child(at, j, x, within \div Kind(j, x))
                 freed == free[Kind(j, x)][child][within % Kind(j, x)]
                 counted == IF full(m, child, Kind(j, x)) THEN addFullChilds(freed.memory, at, -1)
                                                           ELSE freed.memory
             IN  [memory |-> setEmptyIfUnused(counted, at, Children(at, j, {x})),
                  size |-> freed.size]]]
  IN  free[k][o][index]

-----------------------------------------------------------------------------
(* Free sizes: first, those an empty node has; second, those a division    *)
(* gives.  A set of sizes is the code's 32 bit word of them.               *)

Firsts(all) == UNION {sizes.first : sizes \in all}
Seconds(all) == UNION {sizes.second : sizes \in all}
Both(all) == [first |-> Firsts(all), second |-> Seconds(all)]
NoSizes == [first |-> {}, second |-> {}]

Bit(k) == IF k <= 32 THEN {k} ELSE {}

(* The loops over a node's children stop once they have read every size of *)
(* the type: what they skip could add none.                                *)
freeSizesOfNode(m, o, k) ==
  LET sizes[j \in Kinds] == [at \in Nat |->
        LET ofChildren(options) == {sizes[c.kind][c.at] : c \in Children(at, j, options)}
            divided == ofChildren({1, 2})
        IN  IF j \in Leaves THEN [first |-> IF isEmpty(m, at) THEN {j} ELSE {}, second |-> {}]
            ELSE IF isEmpty(m, at)
              THEN [first |-> Bit(j), second |-> Firsts(divided) \cup Seconds(divided)]
            ELSE IF isSplit(m, at) THEN Both(ofChildren({Option(m, at)}))
            ELSE NoSizes]
  IN  sizes[k][o]

maxSplitOf(k) == UNION {Bit(kind) : kind \in KindsIn[k]}

(* The code's own test of a tree.                                          *)
nodeCorrect(m, o, k) ==
  LET correct[j \in Kinds] == [at \in Nat |->
        LET each(options) == \A c \in Children(at, j, options) : correct[c.kind][c.at]
            x == Option(m, at)
        IN  IF j \in Leaves THEN m[at].fullChilds = 0 /\ ~ isSplit(m, at)
            ELSE IF ~ isSplit(m, at)
              THEN /\ m[at].fullChilds = 0
                   /\ \A c \in Children(at, j, {1}) : isEmpty(m, c.at)
                   /\ each({1, 2})
            ELSE /\ m[at].fullChilds =
                      Cardinality({i \in ChildIndexes(j, x) : full(m, Child(at, j, x, i), Kind(j, x))})
                 /\ each({x})]
  IN  correct[k][o]

-----------------------------------------------------------------------------
(* Every place a node can be in a tree of kind k, with the options its     *)
(* ancestors must have: a table computed once, apart from the operators    *)
(* that walk the tree.                                                     *)

Shifted(place, bytes, units) ==
  [at |-> bytes + place.at, kind |-> place.kind, unit |-> units + place.unit,
   ancestors |-> {<<bytes + a[1], a[2]>> : a \in place.ancestors}]

(* A place in child i under option x, as a place in the whole.             *)
Under(place, k, x, i) ==
  LET p == Shifted(place, Child(0, k, x, i), i * Kind(k, x))
  IN  [at |-> p.at, kind |-> p.kind, unit |-> p.unit, ancestors |-> {<<0, x>>} \cup p.ancestors]
Top(k) == [at |-> 0, kind |-> k, unit |-> 0, ancestors |-> {}]
PlacesIn[k \in Kinds] ==
  {Top(k)} \cup
  IF k \in Leaves THEN {}
  ELSE UNION {UNION {{Under(place, k, x, i) : place \in PlacesIn[Kind(k, x)]} :
                       i \in ChildIndexes(k, x)} : x \in 1 .. 2}

-----------------------------------------------------------------------------
(* SplitTypes: a pool's type says which arrays of trees its bytes are.     *)

Types == {30, 32, 72, 84, 100}
ASSUME CopiesAssumption == Copies \in [Types -> Nat \ {0}]
Array(k, n) == [kind |-> k, number |-> n]
Arrays(type) ==
  CASE type = 32 -> <<Array(32, Copies[32])>>
    [] type = 84 -> <<Array(84, Copies[84]), Array(8, 1)>>
    [] type = 100 -> <<Array(100, Copies[100]), Array(4, 1), Array(8, 1)>>
    [] type = 72 -> <<Array(72, Copies[72]), Array(8, 1)>>
    [] type = 30 -> <<Array(30, Copies[30]), Array(2, 1)>>

(* Where array j begins, in bytes and in units.                            *)
ByteOffset(arrays, j) ==
  LET bytes == [i \in DOMAIN arrays |-> arrays[i].number * Bytes[arrays[i].kind]]
  IN  MapThenSumSet(LAMBDA i : bytes[i], 1 .. j - 1)
UnitOffset_Trees(arrays, j) == MapThenSumSet(LAMBDA i : arrays[i].number, 1 .. j - 1)
UnitOffset(arrays, j) ==
  LET units == [i \in DOMAIN arrays |-> arrays[i].number * arrays[i].kind]
  IN  MapThenSumSet(LAMBDA i : units[i], 1 .. j - 1)

(* The trees of a pool: first byte, first unit, kind, array, place i in it. *)
TreesOf == [type \in Types |->
  LET arrays == Arrays(type)
  IN  UNION {{[at |-> ByteOffset(arrays, j) + i * Bytes[arrays[j].kind],
               unit |-> UnitOffset(arrays, j) + i * arrays[j].kind,
               kind |-> arrays[j].kind, array |-> j, i |-> i] :
                i \in 0 .. arrays[j].number - 1} : j \in DOMAIN arrays}]
Trees(type) == IF type = 0 THEN {} ELSE TreesOf[type]
PlacesOf == [type \in Types |->
  UNION {{Shifted(place, t.at, t.unit) : place \in PlacesIn[t.kind]} : t \in Trees(type)}]
TreesOfArray(type, j) == {t \in Trees(type) : t.array = j}
TreesSize(type) == LET a == Arrays(type) IN ByteOffset(a, Len(a) + 1)
Units(type) == LET a == Arrays(type) IN UnitOffset(a, Len(a) + 1)
SIZEOF == Max({TreesSize(type) : type \in Types})
BlankMemory == [a \in 0 .. SIZEOF - 1 |-> Blank]

(* allocIndex in one array: any tree without dividing, else the cheapest.  *)
allocInArray(m, trees, _size) ==
  LET tries == {[i |-> t.i, unit |-> t.unit, found |-> tryAllocIndex(m, t.at, t.kind, _size)] :
                  t \in trees}
      hits == {t \in tries : t.found.index # NoIndex}
      cheapest == Cheapest({[i |-> t.i, cost |-> getSplitCost(m, t.at, t.kind, _size)] : t \in trees})
      tree == CHOOSE t \in trees : t.i = cheapest
      Plus(found, unit) == [found EXCEPT !.index = @ + unit]
  IN  IF hits # {} THEN Plus(First(hits).found, First(hits).unit)
      ELSE IF cheapest = NoIndex THEN Found(m, NoIndex)
      ELSE Plus(allocNode(m, tree.at, tree.kind, _size), tree.unit)

(* allocIndex of a pool: its arrays, three at the most, one after another. *)
allocFrom(found, type, j, _size) ==
  IF found.index # NoIndex THEN found
  ELSE allocInArray(found.memory, TreesOfArray(type, j), _size)
allocIndex(m, type, size) ==
  LET k == roundSizeTable[size]
  IN  allocFrom(allocFrom(allocFrom(Found(m, NoIndex), type, 1, k), type, 2, k), type, 3, k)

dealocIndex(m, type, index) ==
  LET tree == CHOOSE t \in Trees(type) : t.unit <= index /\ index < t.unit + t.kind
  IN  deallocNode(m, tree.at, tree.kind, index - tree.unit)

MaxSplits == [type \in Types |-> UNION {maxSplitOf(t.kind) : t \in TreesOf[type]}]
getMaxSplit(type) == IF type = 0 THEN {} ELSE MaxSplits[type]

(* The loop over an array's trees stops after tree i if all sizes of the   *)
(* type are there of one kind: it may miss sizes of the other.  The arrays *)
(* after the first have one tree each.                                     *)
getFreeSizeTypes(m, type) ==
  LET of(trees) == {freeSizesOfNode(m, t.at, t.kind) : t \in trees}
      upTo(i) == {t \in TreesOfArray(type, 1) : t.i <= i}
      Enough(i) == \/ getMaxSplit(type) \subseteq Firsts(of(upTo(i)))
                   \/ getMaxSplit(type) \subseteq Seconds(of(upTo(i)))
      read == {t \in Trees(type) : t.array = 1 => ~ \E i \in 0 .. t.i - 1 : Enough(i)}
  IN  Both(of(read))

(* reset and needReset look at the trees' roots only.                      *)
Roots(type) == {t.at : t \in Trees(type)}
needResetTypes(m, type) ==
  IF type = 0 THEN \E a \in DOMAIN m : m[a] # Blank
  ELSE \E a \in Roots(type) : m[a].Option # SOE_Empty /\ m[a].fullChilds # 0
resetTypes(m, type) ==
  [a \in DOMAIN m |-> IF type = 0 \/ a \in Roots(type) THEN Blank ELSE m[a]]

correctnessTest(m, type) ==
  \A t \in Trees(type) : nodeCorrect(m, t.at, t.kind)
=============================================================================
