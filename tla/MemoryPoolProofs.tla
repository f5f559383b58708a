-------------------------- MODULE MemoryPoolProofs --------------------------
(***************************************************************************)
(* What the operators of the pools do, for every number of copies of the   *)
(* trees.                                                                  *)
(*                                                                         *)
(* A tree is good if, at every place that is there (each ancestor divided  *)
(* by the option the place is under), the node is: not divided with blank  *)
(* memory below it, or divided with the right count of full children, not  *)
(* all of them empty.  Its blocks are its reserved places.  alloc and      *)
(* dealloc keep a tree good, add and remove the one block, and touch only  *)
(* the tree's bytes; the free sizes and the costs agree with what alloc    *)
(* can serve.  A pool is an array of trees that share no byte.             *)
(*                                                                         *)
(* Recursive functions are shown to satisfy their equations first; a proof *)
(* about them is then an induction over the kinds, by size.                *)
(***************************************************************************)
EXTENDS MemoryPool, FiniteFacts

-----------------------------------------------------------------------------
(* Kinds.                                                                  *)

(* What each kind is divided into.                                         *)
LEMMA TheSplits ==
  /\ \A k \in {2, 4, 6, 8, 10, 12, 14, 16, 24, 28, 32} : SplitOf[k] = Halves(k \div 2)
  /\ SplitOf[9] = Thirds(3) /\ SplitOf[15] = Thirds(5) /\ SplitOf[21] = Thirds(7)
  /\ SplitOf[18] = Split(6, 3, 9, 2) /\ SplitOf[30] = Split(10, 3, 15, 2)
  /\ SplitOf[72] = Split(18, 4, 24, 3) /\ SplitOf[84] = Split(21, 4, 28, 3)
  /\ SplitOf[100] = Split(20, 5, 25, 4)
BY DEF SplitOf, Middles

(* Both options divide a node into 2 to 5 smaller nodes that make it up.   *)
LEMMA KindFacts ==
  /\ Kinds \subseteq 1 .. 100 /\ Leaves \subseteq Kinds /\ Middles = Kinds \ Leaves
  /\ \A k \in Middles, x \in 1 .. 2 :
       /\ Kind(k, x) \in Kinds /\ Kind(k, x) < k
       /\ SplitOf[k][x].number \in 2 .. 5
       /\ SplitOf[k][x].number * Kind(k, x) = k
<1>1. Kinds \subseteq 1 .. 100 /\ Leaves \subseteq Kinds /\ Middles = Kinds \ Leaves
  BY DEF Kinds, Leaves, Middles
<1> DEFINE Sound(k, j, number) == j \in Kinds /\ j < k /\ number \in 2 .. 5 /\ number * j = k
<1>2. ASSUME NEW k \in Middles, NEW x \in 1 .. 2
      PROVE  Sound(k, SplitOf[k][x].kind, SplitOf[k][x].number)
  <2>1. \A j, n, l, i :
          /\ Split(j, n, l, i)[x].kind = (IF x = 1 THEN j ELSE l)
          /\ Split(j, n, l, i)[x].number = (IF x = 1 THEN n ELSE i)
    BY DEF Split
  <2>2. CASE k \in {2, 4, 6, 8, 10, 12, 14, 16, 24, 28, 32}
    <3>1. SplitOf[k] = Halves(k \div 2)
      BY <2>2, TheSplits
    <3>2. SplitOf[k][x].kind = k \div 2 /\ SplitOf[k][x].number = 2
      BY <2>1, <3>1 DEF Halves
    <3>3. Sound(k, k \div 2, 2)
      BY <2>2 DEF Kinds, Leaves, Middles
    <3> QED BY <3>2, <3>3
  <2>3. CASE k \in {9, 15, 21}
    <3>1. SplitOf[k] = Thirds(k \div 3)
      BY <2>3, TheSplits
    <3>2. SplitOf[k][x].kind = k \div 3 /\ SplitOf[k][x].number = 3
      BY <2>1, <3>1 DEF Thirds
    <3>3. Sound(k, k \div 3, 3)
      BY <2>3 DEF Kinds, Leaves
    <3> QED BY <3>2, <3>3
  <2>4. CASE k \in {18, 30, 72, 84, 100}
    <3>1. PICK j, n, l, i : /\ SplitOf[k] = Split(j, n, l, i)
                            /\ Sound(k, j, n) /\ Sound(k, l, i)
      BY <2>4, TheSplits DEF Kinds, Leaves, Middles
    <3> QED BY <2>1, <3>1
  <2> QED BY <2>2, <2>3, <2>4 DEF Middles
<1> QED BY <1>1, <1>2 DEF Kind

(* A kind is a number of units.                                            *)
LEMMA KindIsNatural == \A k \in Kinds : k \in Nat /\ k # 0
<1>1. \A k \in 1 .. 100 : k \in Nat /\ k # 0
  OBVIOUS
<1> QED BY <1>1, KindFacts

(* The same of one node.                                                   *)
LEMMA ChildFacts ==
  ASSUME NEW k \in Kinds, k \notin Leaves, NEW x \in 1 .. 2
  PROVE  /\ Kind(k, x) \in Kinds /\ Kind(k, x) < k /\ k \in Nat /\ Kind(k, x) \in Nat \ {0}
         /\ SplitOf[k][x].number \in Nat /\ SplitOf[k][x].number \in 2 .. 5
         /\ SplitOf[k][x].number * Kind(k, x) = k
<1>1. k \in Middles
  BY KindFacts
<1>2. /\ Kind(k, x) \in Kinds /\ Kind(k, x) < k /\ SplitOf[k][x].number \in 2 .. 5
      /\ SplitOf[k][x].number * Kind(k, x) = k
  BY <1>1, KindFacts
<1>3. k \in 1 .. 100 /\ Kind(k, x) \in 1 .. 100
  BY <1>2, KindFacts
<1> QED BY <1>2, <1>3

(* A child is of a smaller kind: what holds of a kind when it holds of the *)
(* smaller ones holds of all.                                              *)
LEMMA KindInduction ==
  ASSUME NEW S, \A k \in Kinds : (\A j \in Kinds : j < k => j \in S) => k \in S
  PROVE  Kinds \subseteq S
<1> DEFINE Bad == Kinds \ S
<1>1. ASSUME Bad # {} PROVE FALSE
  <2>1. Bad \in SUBSET Nat
    <3>1. \A k \in 1 .. 100 : k \in Nat
      OBVIOUS
    <3> QED BY <3>1, KindFacts
  <2>2. Min(Bad) \in Bad /\ \A j \in Bad : Min(Bad) <= j
    BY <1>1, <2>1, MinOfNaturals
  <2>3. \A j \in Kinds : j < Min(Bad) => j \in S
    BY <2>1, <2>2
  <2> QED BY <2>2, <2>3
<1> QED BY <1>1

(* F says of each kind what a function has there, from what the function   *)
(* has at smaller kinds only.                                              *)
Recursive(V, F) ==
  /\ \E v : v \in V
  /\ \A k \in Kinds, f \in [Kinds -> V] : F[k][f] \in V
  /\ \A k \in Kinds, f, g \in [Kinds -> V] :
       (\A j \in Kinds : j < k => f[j] = g[j]) => F[k][f] = F[k][g]

(* A recursive definition on kinds has a solution.                         *)
LEMMA KindRecursion ==
  ASSUME NEW V, NEW F, Recursive(V, F)
  PROVE  \E f \in [Kinds -> V] : \A k \in Kinds : f[k] = F[k][f]
<1> USE DEF Recursive
<1> DEFINE Solves(f, n) == \A k \in Kinds : k < n => f[k] = F[k][f]
           Bad == {n \in Nat : ~ \E f \in [Kinds -> V] : Solves(f, n)}
<1>1. ASSUME Bad # {} PROVE FALSE
  <2>1. PICK n \in Bad : \A j \in Bad : n <= j
    <3>1. Bad \in SUBSET Nat
      OBVIOUS
    <3> HIDE DEF Bad
    <3> QED BY <1>1, <3>1, MinOfNaturals
  <2>2. n # 0
    <3>1. PICK v \in V : TRUE
      OBVIOUS
    <3>2. [k \in Kinds |-> v] \in [Kinds -> V]
      OBVIOUS
    <3>3. Solves([k \in Kinds |-> v], 0)
      BY KindFacts
    <3> QED BY <3>2, <3>3
  <2>3. PICK f \in [Kinds -> V] : Solves(f, n - 1)
    <3>1. n - 1 \in Nat /\ n - 1 \notin Bad
      BY <2>1, <2>2
    <3> QED BY <3>1
  <2> DEFINE g == [f EXCEPT ![n - 1] = F[n - 1][f]]
  <2>4. g \in [Kinds -> V]
    OBVIOUS
  <2>5. ASSUME NEW k \in Kinds, k < n PROVE g[k] = F[k][g]
    <3>1. \A j \in Kinds : j < k => f[j] = g[j]
      BY <2>5, KindFacts
    <3>2. F[k][f] = F[k][g]
      <4> HIDE DEF g
      <4> QED BY <2>4, <3>1
    <3>3. CASE k = n - 1
      BY <3>2, <3>3
    <3>4. CASE k # n - 1
      <4>1. k \in Nat /\ n \in Nat
        BY KindFacts
      <4>2. k < n - 1 /\ g[k] = f[k]
        BY <2>5, <3>4, <4>1
      <4> QED BY <2>3, <3>2, <4>2
    <3> QED BY <3>3, <3>4
  <2> HIDE DEF g
  <2> QED BY <2>1, <2>4, <2>5
<1>2. PICK f \in [Kinds -> V] : Solves(f, 101)
  BY <1>1
<1> QED BY <1>2, KindFacts
(* The larger of two.                                                      *)
LEMMA MaxOfTwo ==
  ASSUME NEW a \in Nat, NEW b \in Nat
  PROVE  Max({a, b}) \in {a, b} /\ a <= Max({a, b}) /\ b <= Max({a, b})
<1>1. \E x \in {a, b} : \A y \in {a, b} : x >= y
  OBVIOUS
<1> QED BY <1>1 DEF Max

(* The bytes of a node, from those of its children.                        *)
SizeOf(k, a, b) == IF k \in Leaves THEN 1
                   ELSE 1 + Max({SplitOf[k][1].number * a, SplitOf[k][2].number * b})

(* Bytes is what its definition says.                                      *)
LEMMA BytesEquation ==
  \A k \in Kinds : Bytes[k] = IF k \in Leaves THEN 1
    ELSE 1 + Max({SplitOf[k][1].number * Bytes[Kind(k, 1)], SplitOf[k][2].number * Bytes[Kind(k, 2)]})
<1> DEFINE F == [k \in Kinds |-> [f \in [Kinds -> Nat] |-> SizeOf(k, f[Kind(k, 1)], f[Kind(k, 2)])]]
<1>1. \A k \in Kinds, f \in [Kinds -> Nat] : F[k][f] \in Nat
  <2> TAKE k \in Kinds, f \in [Kinds -> Nat]
  <2>1. CASE k \in Middles
    <3>1. ASSUME NEW x \in 1 .. 2 PROVE SplitOf[k][x].number \in Nat /\ f[Kind(k, x)] \in Nat
      <4>1. k \notin Leaves
        BY <2>1, KindFacts
      <4> QED BY <4>1, ChildFacts
    <3>2. SplitOf[k][1].number * f[Kind(k, 1)] \in Nat /\ SplitOf[k][2].number * f[Kind(k, 2)] \in Nat
      BY <3>1
    <3> QED BY <3>2, MaxOfTwo DEF SizeOf
  <2>2. CASE k \in Leaves
    BY <2>2 DEF SizeOf
  <2> QED BY <2>1, <2>2, KindFacts
<1>2. \A k \in Kinds, f, g \in [Kinds -> Nat] :
        (\A j \in Kinds : j < k => f[j] = g[j]) => F[k][f] = F[k][g]
  <2> TAKE k \in Kinds, f, g \in [Kinds -> Nat]
  <2> HAVE \A j \in Kinds : j < k => f[j] = g[j]
  <2>1. ASSUME k \notin Leaves, NEW x \in 1 .. 2 PROVE f[Kind(k, x)] = g[Kind(k, x)]
    BY <2>1, ChildFacts
  <2> QED BY <2>1 DEF SizeOf
<1>3. PICK f \in [Kinds -> Nat] : \A k \in Kinds : f[k] = F[k][f]
  <2>1. 0 \in Nat
    OBVIOUS
  <2> HIDE DEF F
  <2>2. Recursive(Nat, F)
    BY <1>1, <1>2, <2>1 DEF Recursive
  <2> QED BY <2>2, KindRecursion
<1>4. \A k \in Kinds : SizeOf(k, f[Kind(k, 1)], f[Kind(k, 2)]) =
        IF k \in Leaves THEN 1
        ELSE 1 + Max({SplitOf[k][x].number * f[SplitOf[k][x].kind] : x \in 1 .. 2})
  <2>1. \A k : {SplitOf[k][x].number * f[SplitOf[k][x].kind] : x \in 1 .. 2} =
        {SplitOf[k][1].number * f[Kind(k, 1)], SplitOf[k][2].number * f[Kind(k, 2)]}
    BY DEF Kind
  <2> QED BY <2>1 DEF SizeOf
<1>5. f = [k \in Kinds |-> IF k \in Leaves THEN 1
           ELSE 1 + Max({SplitOf[k][x].number * f[SplitOf[k][x].kind] : x \in 1 .. 2})]
  BY <1>3, <1>4
<1>6. Bytes = [k \in Kinds |-> IF k \in Leaves THEN 1
           ELSE 1 + Max({SplitOf[k][x].number * Bytes[SplitOf[k][x].kind] : x \in 1 .. 2})]
  BY <1>5 DEF Bytes
<1>7. \A k : {SplitOf[k][x].number * Bytes[SplitOf[k][x].kind] : x \in 1 .. 2} =
        {SplitOf[k][1].number * Bytes[Kind(k, 1)], SplitOf[k][2].number * Bytes[Kind(k, 2)]}
  BY DEF Kind
<1> HIDE DEF Bytes
<1> QED BY <1>6, <1>7

(* A node has its byte and has room for its children under either option.  *)
LEMMA BytesPositive ==
  \A k \in Kinds : Bytes[k] \in Nat \ {0}
<1> DEFINE S == {k \in Kinds : Bytes[k] \in Nat \ {0}}
<1>1. ASSUME NEW k \in Kinds, \A j \in Kinds : j < k => j \in S PROVE k \in S
  <2>1. CASE k \in Leaves
    <3>1. Bytes[k] = 1
      BY <2>1, BytesEquation
    <3> QED BY <3>1
  <2>2. CASE k \notin Leaves
    <3>1. ASSUME NEW x \in 1 .. 2 PROVE SplitOf[k][x].number * Bytes[Kind(k, x)] \in Nat
      <4>1. SplitOf[k][x].number \in Nat /\ Bytes[Kind(k, x)] \in Nat
        BY <1>1, <2>2, ChildFacts
      <4> QED BY <4>1
    <3>2. PICK a \in Nat, b \in Nat : Bytes[k] = 1 + Max({a, b})
      BY <2>2, <3>1, BytesEquation
    <3>3. Max({a, b}) \in Nat
      BY MaxOfTwo
    <3> QED BY <3>2, <3>3
  <2> QED BY <2>1, <2>2
<1>2. Kinds \subseteq S
  <2> HIDE DEF S
  <2> QED BY <1>1, KindInduction
<1> QED BY <1>2

(* A child's bytes lie behind its parent's byte, in order.                 *)
LEMMA ChildBytes ==
  ASSUME NEW k \in Kinds, k \notin Leaves, NEW x \in 1 .. 2, NEW o \in Nat,
         NEW i \in ChildIndexes(k, x)
  PROVE  /\ Bytes[Kind(k, x)] \in Nat \ {0} /\ Bytes[k] \in Nat \ {0}
         /\ Child(o, k, x, i) \in Nat /\ o < Child(o, k, x, i)
         /\ Child(o, k, x, i) = o + Child(0, k, x, i)
         /\ Child(o, k, x, i) + Bytes[Kind(k, x)] <= o + Bytes[k]
         /\ \A j \in ChildIndexes(k, x) :
              j < i => Child(o, k, x, j) + Bytes[Kind(k, x)] <= Child(o, k, x, i)
<1>1. /\ Kind(k, x) \in Kinds /\ SplitOf[k][x].number \in Nat
  BY ChildFacts
<1>2. PICK b \in Nat \ {0} : b = Bytes[Kind(k, x)]
  BY <1>1, BytesPositive
<1>3. PICK n \in Nat : n = SplitOf[k][x].number
  BY <1>1
<1>4. 1 + n * b <= Bytes[k]
  <2>1. ASSUME NEW y \in 1 .. 2 PROVE SplitOf[k][y].number * Bytes[Kind(k, y)] \in Nat
    <3>1. SplitOf[k][y].number \in Nat /\ Bytes[Kind(k, y)] \in Nat
      BY ChildFacts, BytesPositive
    <3> QED BY <3>1
  <2>2. PICK c \in Nat, d \in Nat :
           c = SplitOf[k][1].number * Bytes[Kind(k, 1)] /\ d = SplitOf[k][2].number * Bytes[Kind(k, 2)]
    BY <2>1
  <2>3. Bytes[k] = 1 + Max({c, d})
    BY <2>2, BytesEquation
  <2>4. c <= Max({c, d}) /\ d <= Max({c, d}) /\ Max({c, d}) \in Nat
    BY MaxOfTwo
  <2>5. n * b = c \/ n * b = d
    <3>1. x = 1 \/ x = 2
      OBVIOUS
    <3> QED BY <1>2, <1>3, <2>2, <3>1
  <2> QED BY <2>2, <2>3, <2>4, <2>5
<1>5. i \in Nat /\ i < n /\ \A j \in ChildIndexes(k, x) : j \in Nat
  BY <1>3 DEF ChildIndexes
<1>6. \A j \in Nat : Child(o, k, x, j) = o + 1 + j * b
  BY <1>2 DEF Child
<1>7. i * b \in Nat /\ i * b + b <= n * b /\ n * b \in Nat
  BY <1>5, OneMore
<1>8. ASSUME NEW j \in ChildIndexes(k, x), j < i
      PROVE  Child(o, k, x, j) + b <= Child(o, k, x, i)
  <2>1. j * b + b <= i * b /\ j * b \in Nat
    BY <1>5, <1>8, OneMore
  <2> QED BY <1>5, <1>6, <1>7, <2>1
<1>9. Child(0, k, x, i) = 0 + 1 + i * b
  BY <1>2 DEF Child
<1>10. Bytes[k] \in Nat \ {0}
  BY BytesPositive
<1>11. /\ Child(o, k, x, i) \in Nat /\ o < Child(o, k, x, i)
       /\ Child(o, k, x, i) = o + Child(0, k, x, i)
       /\ Child(o, k, x, i) + b <= o + Bytes[k]
  <2>1. Child(o, k, x, i) = o + 1 + i * b
    BY <1>5, <1>6
  <2>2. PICK p \in Nat : p = i * b
    BY <1>7
  <2>3. p + b <= n * b
    BY <1>7, <2>2
  <2>4. Child(o, k, x, i) = o + 1 + p /\ Child(0, k, x, i) = 0 + 1 + p
    BY <1>9, <2>1, <2>2
  <2>5. p + b + 1 <= Bytes[k]
    BY <1>4, <1>7, <1>10, <2>2, <2>3
  <2> QED BY <1>10, <2>2, <2>4, <2>5
<1> QED BY <1>2, <1>8, <1>10, <1>11
-----------------------------------------------------------------------------
(* Places.                                                                 *)

Place == [at : Nat, kind : Kinds, unit : Nat, ancestors : SUBSET (Nat \X (1 .. 2))]
PlacesOfKind(k, places) ==
  {Top(k)} \cup
  IF k \in Leaves THEN {}
  ELSE UNION {UNION {{Under(place, k, x, i) : place \in places[Kind(k, x)]} :
                       i \in ChildIndexes(k, x)} : x \in 1 .. 2}

(* A place in a child is a place in the whole.                             *)
LEMMA UnderType ==
  ASSUME NEW k \in Kinds, k \notin Leaves, NEW x \in 1 .. 2, NEW i \in ChildIndexes(k, x),
         NEW place \in Place
  PROVE  Under(place, k, x, i) \in Place
<1>1. PICK c \in Nat : c = Child(0, k, x, i)
  BY ChildBytes
<1>2. i \in Nat /\ Kind(k, x) \in Nat
  BY ChildFacts DEF ChildIndexes
<1>3. i * Kind(k, x) \in Nat
  BY <1>2
<1>4. \A a \in place.ancestors : <<c + a[1], a[2]>> \in Nat \X (1 .. 2)
  BY DEF Place
<1>5. {<<0, x>>} \cup {<<c + a[1], a[2]>> : a \in place.ancestors} \in SUBSET (Nat \X (1 .. 2))
  BY <1>4
<1>6. place.at \in Nat /\ place.kind \in Kinds /\ place.unit \in Nat
  BY DEF Place
<1>7. c + place.at \in Nat /\ i * Kind(k, x) + place.unit \in Nat
  BY <1>3, <1>6
<1> QED BY <1>1, <1>5, <1>6, <1>7 DEF Under, Shifted, Place

(* PlacesIn is what its definition says.                                   *)
LEMMA PlacesEquation ==
  \A k \in Kinds : PlacesIn[k] \in SUBSET Place /\ PlacesIn[k] = PlacesOfKind(k, PlacesIn)
<1> DEFINE V == SUBSET Place
           F == [k \in Kinds |-> [f \in [Kinds -> V] |-> PlacesOfKind(k, f)]]
<1>1. ASSUME NEW k \in Kinds, NEW f, \A j \in Kinds : j < k => f[j] \in V
      PROVE  PlacesOfKind(k, f) \in V
  <2>1. Top(k) \in Place
    BY DEF Top, Place
  <2>2. ASSUME k \notin Leaves, NEW x \in 1 .. 2, NEW i \in ChildIndexes(k, x),
               NEW place \in f[Kind(k, x)]
        PROVE  Under(place, k, x, i) \in Place
    <3>1. place \in Place
      BY <1>1, <2>2, ChildFacts
    <3> QED BY <2>2, <3>1, UnderType
  <2> QED BY <2>1, <2>2 DEF PlacesOfKind
<1>2. \A k \in Kinds, f, g \in [Kinds -> V] :
        (\A j \in Kinds : j < k => f[j] = g[j]) => F[k][f] = F[k][g]
  <2> TAKE k \in Kinds, f, g \in [Kinds -> V]
  <2> HAVE \A j \in Kinds : j < k => f[j] = g[j]
  <2>1. ASSUME k \notin Leaves, NEW x \in 1 .. 2 PROVE f[Kind(k, x)] = g[Kind(k, x)]
    BY <2>1, ChildFacts
  <2>2. F[k][f] = PlacesOfKind(k, f) /\ F[k][g] = PlacesOfKind(k, g)
    OBVIOUS
  <2>3. PlacesOfKind(k, f) = PlacesOfKind(k, g)
    BY <2>1 DEF PlacesOfKind
  <2> QED BY <2>2, <2>3
<1>3. PICK f \in [Kinds -> V] : \A k \in Kinds : f[k] = F[k][f]
  <2>1. {} \in V
    OBVIOUS
  <2>2. \A k \in Kinds, f \in [Kinds -> V] : F[k][f] \in V
    <3> TAKE k \in Kinds, f \in [Kinds -> V]
    <3>1. \A j \in Kinds : j < k => f[j] \in V
      OBVIOUS
    <3>2. F[k][f] = PlacesOfKind(k, f)
      OBVIOUS
    <3> HIDE DEF V, F
    <3> QED BY <1>1, <3>1, <3>2
  <2> HIDE DEF V, F
  <2>3. Recursive(V, F)
    BY <1>2, <2>1, <2>2 DEF Recursive
  <2> QED BY <2>3, KindRecursion
<1>4. f = [k \in Kinds |-> PlacesOfKind(k, f)]
  BY <1>3
<1>5. PlacesIn = [k \in Kinds |-> PlacesOfKind(k, PlacesIn)]
  BY <1>4 DEF PlacesIn, PlacesOfKind
<1> DEFINE S == {k \in Kinds : PlacesIn[k] \in V}
<1>6. Kinds \subseteq S
  <2>1. ASSUME NEW k \in Kinds, \A j \in Kinds : j < k => j \in S PROVE k \in S
    <3>1. \A j \in Kinds : j < k => PlacesIn[j] \in V
      BY <2>1
    <3>2. PlacesOfKind(k, PlacesIn) \in V
      <4> HIDE DEF V
      <4> QED BY <1>1, <3>1
    <3> QED BY <1>5, <3>2
  <2> HIDE DEF S
  <2> QED BY <2>1, KindInduction
<1> HIDE DEF PlacesIn
<1> QED BY <1>5, <1>6

(* A place is the whole or lies in a child.                                *)
LEMMA PlaceCases ==
  ASSUME NEW k \in Kinds
  PROVE  /\ Top(k) \in PlacesIn[k]
         /\ k \in Leaves => PlacesIn[k] = {Top(k)}
         /\ k \notin Leaves =>
              /\ \A x \in 1 .. 2 : \A i \in ChildIndexes(k, x) : \A q \in PlacesIn[Kind(k, x)] :
                   Under(q, k, x, i) \in PlacesIn[k]
              /\ \A p \in PlacesIn[k] : p = Top(k) \/
                   \E x \in 1 .. 2 : \E i \in ChildIndexes(k, x) : \E q \in PlacesIn[Kind(k, x)] :
                     p = Under(q, k, x, i)
<1>1. PlacesIn[k] = PlacesOfKind(k, PlacesIn)
  BY PlacesEquation
<1> HIDE DEF PlacesIn
<1> QED BY <1>1 DEF PlacesOfKind

(* A place lies within the bytes and the units of the whole.               *)
LEMMA PlaceBounds ==
  ASSUME NEW k \in Kinds, NEW p \in PlacesIn[k]
  PROVE  /\ p \in Place /\ p.at + Bytes[p.kind] <= Bytes[k] /\ p.unit + p.kind <= k
         /\ \A a \in p.ancestors : a[1] < Bytes[k]
<1> DEFINE Bounded(p_1, j) == /\ p_1.at + Bytes[p_1.kind] <= Bytes[j] /\ p_1.unit + p_1.kind <= j
                              /\ \A a \in p_1.ancestors : a[1] < Bytes[j]
           S == {j \in Kinds : \A q \in PlacesIn[j] : Bounded(q, j)}
<1>1. ASSUME NEW j \in Kinds, \A l \in Kinds : l < j => l \in S PROVE j \in S
  <2>1. Bounded(Top(j), j)
    <3>1. j \in Nat /\ Bytes[j] \in Nat
      BY KindFacts, BytesPositive
    <3> QED BY <3>1 DEF Top
  <2>2. ASSUME j \notin Leaves, NEW x \in 1 .. 2, NEW i \in ChildIndexes(j, x),
               NEW q \in PlacesIn[Kind(j, x)]
        PROVE  Bounded(Under(q, j, x, i), j)
    <3>1. Kind(j, x) \in Kinds /\ Kind(j, x) < j /\ Kind(j, x) \in Nat /\ j \in Nat
      BY <2>2, ChildFacts
    <3>2. q \in Place /\ Bounded(q, Kind(j, x))
      BY <1>1, <3>1, PlacesEquation
    <3>3. PICK c \in Nat : c = Child(0, j, x, i) /\ c + Bytes[Kind(j, x)] <= 0 + Bytes[j] /\ 0 < c
      BY <2>2, ChildBytes
    <3>4. Bytes[Kind(j, x)] \in Nat \ {0} /\ Bytes[j] \in Nat \ {0} /\ Bytes[q.kind] \in Nat
      BY <3>1, <3>2, BytesPositive DEF Place
    <3>5. c + q.at + Bytes[q.kind] <= Bytes[j] /\ \A a \in q.ancestors : c + a[1] < Bytes[j]
      BY <3>2, <3>3, <3>4 DEF Place
    <3>6. i * Kind(j, x) \in Nat /\ i * Kind(j, x) + Kind(j, x) <= j
      <4>1. PICK n \in Nat : n = SplitOf[j][x].number /\ n * Kind(j, x) = j
        BY <2>2, ChildFacts
      <4>2. i \in Nat /\ i + 1 <= n
        BY <4>1 DEF ChildIndexes
      <4> QED BY <3>1, <4>1, <4>2, OneMore
    <3>7. i * Kind(j, x) + q.unit + q.kind <= j
      <4>1. q.unit \in Nat /\ q.kind \in Nat
        BY <3>2, KindIsNatural DEF Place
      <4> QED BY <3>1, <3>2, <3>6, <4>1
    <3> DEFINE u == Under(q, j, x, i)
    <3>8. /\ u.at = c + q.at /\ u.kind = q.kind /\ u.unit = i * Kind(j, x) + q.unit
          /\ u.ancestors = {<<0, x>>} \cup {<<c + a[1], a[2]>> : a \in q.ancestors}
      BY <3>3 DEF Under, Shifted
    <3>9. \A a \in u.ancestors : a[1] < Bytes[j]
      BY <3>4, <3>5, <3>8
    <3> QED BY <3>5, <3>7, <3>8, <3>9
  <2>3. \A q \in PlacesIn[j] : Bounded(q, j)
    <3> HIDE DEF Bounded
    <3> QED BY <2>1, <2>2, PlaceCases
  <2> QED BY <2>3
<1>2. Kinds \subseteq S
  <2> HIDE DEF S
  <2> QED BY <1>1, KindInduction
<1> QED BY <1>2, PlacesEquation
-----------------------------------------------------------------------------
(* What a tree's memory says: which places are there, which are blocks.    *)

Addresses == 0 .. SIZEOF - 1
Memory == [Addresses -> SplitType]
Area(o, k) == o .. o + Bytes[k] - 1
Within(o, k) == o \in Nat /\ Area(o, k) \subseteq Addresses

(* A place is there if each ancestor is divided by the option it is under. *)
Active(m, o, place) == \A a \in place.ancestors : Option(m, o + a[1]) = a[2]

FullOnes(m, o, k, x) == {i \in ChildIndexes(k, x) : full(m, Child(o, k, x, i), Kind(k, x))}
AllEmpty(m, o, k, x) == \A i \in ChildIndexes(k, x) : isEmpty(m, Child(o, k, x, i))

(* A node that is not divided, and one that is.                            *)
Closed(m, o, k) ==
  /\ ~ isSplit(m, o) /\ m[o].fullChilds = 0
  /\ \A a \in Area(o, k) : a # o => m[a] = Blank
Counted(m, o, k, x) ==
  /\ Option(m, o) = x
  /\ m[o].fullChilds = Cardinality(FullOnes(m, o, k, x))
  /\ \A a \in Area(o, k) :
       \/ a = o \/ m[a] = Blank
       \/ \E i \in ChildIndexes(k, x) : a \in Area(Child(o, k, x, i), Kind(k, x))

NodeGood(m, o, k) ==
  IF k \in Leaves \/ ~ isSplit(m, o) THEN Closed(m, o, k)
  ELSE Counted(m, o, k, Option(m, o)) /\ ~ AllEmpty(m, o, k, Option(m, o))

(* Every node that is there is good.                                       *)
Good(m, o, k) ==
  \A place \in PlacesIn[k] : Active(m, o, place) => NodeGood(m, o + place.at, place.kind)

(* The reserved nodes, by their units.                                     *)
Block(at, size) == [ptr |-> at, size |-> size]
ReservedPlaces(m, o, k) ==
  {place \in PlacesIn[k] : Active(m, o, place) /\ isReserved(m, o + place.at)}
Blocks(m, o, k) == {Block(place.unit, place.kind) : place \in ReservedPlaces(m, o, k)}

(* The whole is always there; a place in a child is if the node is divided *)
(* that way and it is there in the child.                                  *)
LEMMA ActiveTop ==
  ASSUME NEW m, NEW o \in Nat, NEW k
  PROVE  Active(m, o, Top(k)) /\ o + Top(k).at = o /\ Top(k).kind = k /\ Top(k).unit = 0
BY DEF Active, Top

LEMMA ActiveUnder ==
  ASSUME NEW m, NEW o \in Nat, NEW k \in Kinds, k \notin Leaves, NEW x \in 1 .. 2,
         NEW i \in ChildIndexes(k, x), NEW q \in PlacesIn[Kind(k, x)]
  PROVE  /\ Active(m, o, Under(q, k, x, i)) <=> Option(m, o) = x /\ Active(m, Child(o, k, x, i), q)
         /\ o + Under(q, k, x, i).at = Child(o, k, x, i) + q.at
         /\ Under(q, k, x, i).kind = q.kind
         /\ Under(q, k, x, i).unit = i * Kind(k, x) + q.unit
<1>1. PICK c \in Nat : c = Child(0, k, x, i) /\ Child(o, k, x, i) = o + c
  BY ChildBytes
<1>2. q \in Place
  BY ChildFacts, PlacesEquation
<1>3. /\ Under(q, k, x, i).at = c + q.at /\ Under(q, k, x, i).kind = q.kind
      /\ Under(q, k, x, i).unit = i * Kind(k, x) + q.unit
      /\ Under(q, k, x, i).ancestors = {<<0, x>>} \cup {<<c + a[1], a[2]>> : a \in q.ancestors}
  BY <1>1 DEF Under, Shifted
<1>4. \A a \in q.ancestors : a[1] \in Nat /\ o + (c + a[1]) = (o + c) + a[1]
  BY <1>2 DEF Place
<1>5. Active(m, o, Under(q, k, x, i)) <=>
        Option(m, o + 0) = x /\ \A a \in q.ancestors : Option(m, o + (c + a[1])) = a[2]
  <2> DEFINE P(a) == Option(m, o + a[1]) = a[2]
  <2>1. Active(m, o, Under(q, k, x, i)) <=> \A a \in Under(q, k, x, i).ancestors : P(a)
    BY DEF Active
  <2>2. (\A a \in Under(q, k, x, i).ancestors : P(a)) <=>
           P(<<0, x>>) /\ \A a \in q.ancestors : P(<<c + a[1], a[2]>>)
    <3> HIDE DEF P
    <3> QED BY <1>3
  <2>3. P(<<0, x>>) <=> Option(m, o + 0) = x
    OBVIOUS
  <2>4. \A a : P(<<c + a[1], a[2]>>) <=> Option(m, o + (c + a[1])) = a[2]
    OBVIOUS
  <2> HIDE DEF P
  <2> QED BY <2>1, <2>2, <2>3, <2>4
<1>6. Active(m, o, Under(q, k, x, i)) <=> Option(m, o) = x /\ Active(m, Child(o, k, x, i), q)
  BY <1>1, <1>4, <1>5 DEF Active
<1>7. o + (c + q.at) = (o + c) + q.at
  BY <1>2 DEF Place
<1> QED BY <1>1, <1>3, <1>6, <1>7

(* The bytes of a place are bytes of the whole.                            *)
LEMMA PlaceArea ==
  ASSUME NEW o \in Nat, NEW k \in Kinds, NEW p \in PlacesIn[k]
  PROVE  /\ o + p.at \in Nat /\ p.kind \in Kinds /\ Area(o + p.at, p.kind) \subseteq Area(o, k)
         /\ o + p.at \in Area(o, k) /\ \A a \in p.ancestors : o + a[1] \in Area(o, k)
<1>1. p \in Place /\ p.at + Bytes[p.kind] <= Bytes[k] /\ \A a \in p.ancestors : a[1] < Bytes[k]
  BY PlaceBounds
<1>2. p.at \in Nat /\ p.kind \in Kinds /\ Bytes[k] \in Nat /\ Bytes[p.kind] \in Nat \ {0}
      /\ \A a \in p.ancestors : a[1] \in Nat
  BY <1>1, BytesPositive DEF Place
<1> QED BY <1>1, <1>2 DEF Area

LEMMA ChildArea ==
  ASSUME NEW o \in Nat, NEW k \in Kinds, k \notin Leaves, NEW x \in 1 .. 2,
         NEW i \in ChildIndexes(k, x)
  PROVE  /\ Child(o, k, x, i) \in Nat /\ Child(o, k, x, i) \in Area(Child(o, k, x, i), Kind(k, x))
         /\ Area(Child(o, k, x, i), Kind(k, x)) \subseteq Area(o, k)
         /\ o \in Area(o, k) /\ o \notin Area(Child(o, k, x, i), Kind(k, x))
         /\ \A j \in ChildIndexes(k, x) : j # i =>
              Area(Child(o, k, x, i), Kind(k, x)) \cap Area(Child(o, k, x, j), Kind(k, x)) = {}
<1>1. /\ Bytes[Kind(k, x)] \in Nat \ {0} /\ Bytes[k] \in Nat \ {0}
      /\ Child(o, k, x, i) \in Nat /\ o < Child(o, k, x, i)
      /\ Child(o, k, x, i) + Bytes[Kind(k, x)] <= o + Bytes[k]
      /\ \A j \in ChildIndexes(k, x) :
           j < i => Child(o, k, x, j) + Bytes[Kind(k, x)] <= Child(o, k, x, i)
  BY ChildBytes
<1>2. ASSUME NEW j \in ChildIndexes(k, x), j # i
      PROVE  Area(Child(o, k, x, i), Kind(k, x)) \cap Area(Child(o, k, x, j), Kind(k, x)) = {}
  <2>1. /\ Child(o, k, x, j) \in Nat
        /\ i < j => Child(o, k, x, i) + Bytes[Kind(k, x)] <= Child(o, k, x, j)
    BY ChildBytes
  <2>2. i < j \/ j < i
    BY <1>2 DEF ChildIndexes
  <2> QED BY <1>1, <2>1, <2>2 DEF Area
<1> QED BY <1>1, <1>2 DEF Area
(* A tree is good if its root and the children under its option are.       *)
LEMMA GoodUnfold ==
  ASSUME NEW m, NEW o \in Nat, NEW k \in Kinds
  PROVE  Good(m, o, k) <=>
           /\ NodeGood(m, o, k)
           /\ k \notin Leaves /\ isSplit(m, o) =>
                \A i \in ChildIndexes(k, Option(m, o)) :
                  Good(m, Child(o, k, Option(m, o), i), Kind(k, Option(m, o)))
<1>1. ASSUME Good(m, o, k) PROVE NodeGood(m, o, k)
  BY <1>1, PlaceCases, ActiveTop DEF Good
<1>2. ASSUME Good(m, o, k), k \notin Leaves, isSplit(m, o), NEW i \in ChildIndexes(k, Option(m, o))
      PROVE  Good(m, Child(o, k, Option(m, o), i), Kind(k, Option(m, o)))
  <2>1. PICK x \in 1 .. 2 : x = Option(m, o)
    BY <1>2 DEF isSplit, SOE_Option1, SOE_Option2
  <2>2. ASSUME NEW q \in PlacesIn[Kind(k, x)], Active(m, Child(o, k, x, i), q)
        PROVE  NodeGood(m, Child(o, k, x, i) + q.at, q.kind)
    <3> DEFINE u == Under(q, k, x, i)
    <3>1. u \in PlacesIn[k]
      BY <1>2, <2>1, PlaceCases
    <3>2. Active(m, o, u) /\ o + u.at = Child(o, k, x, i) + q.at /\ u.kind = q.kind
      BY <1>2, <2>1, <2>2, ActiveUnder
    <3> QED BY <1>2, <3>1, <3>2 DEF Good
  <2>3. Good(m, Child(o, k, x, i), Kind(k, x))
    BY <2>2 DEF Good
  <2> QED BY <2>1, <2>3
<1>3. ASSUME NodeGood(m, o, k),
             k \notin Leaves /\ isSplit(m, o) =>
                \A i \in ChildIndexes(k, Option(m, o)) :
                  Good(m, Child(o, k, Option(m, o), i), Kind(k, Option(m, o))),
             NEW p \in PlacesIn[k], Active(m, o, p)
      PROVE  NodeGood(m, o + p.at, p.kind)
  <2>1. CASE p = Top(k)
    BY <1>3, <2>1, ActiveTop
  <2>2. CASE p # Top(k)
    <3>1. k \notin Leaves
      BY <2>2, PlaceCases
    <3>2. PICK x \in 1 .. 2 : \E i \in ChildIndexes(k, x) : \E q \in PlacesIn[Kind(k, x)] :
                                 p = Under(q, k, x, i)
      BY <2>2, <3>1, PlaceCases
    <3>3. PICK i \in ChildIndexes(k, x), q \in PlacesIn[Kind(k, x)] : p = Under(q, k, x, i)
      BY <3>2
    <3>4. /\ Option(m, o) = x /\ Active(m, Child(o, k, x, i), q)
          /\ o + p.at = Child(o, k, x, i) + q.at /\ p.kind = q.kind
      BY <1>3, <3>1, <3>3, ActiveUnder
    <3>5. isSplit(m, o)
      BY <3>4 DEF isSplit, SOE_Option1, SOE_Option2
    <3>6. Good(m, Child(o, k, x, i), Kind(k, x))
      BY <1>3, <3>1, <3>4, <3>5
    <3> QED BY <3>4, <3>6 DEF Good
  <2> QED BY <2>1, <2>2
<1>4. ASSUME NodeGood(m, o, k),
             k \notin Leaves /\ isSplit(m, o) =>
                \A i \in ChildIndexes(k, Option(m, o)) :
                  Good(m, Child(o, k, Option(m, o), i), Kind(k, Option(m, o)))
      PROVE  Good(m, o, k)
  BY <1>3, <1>4 DEF Good
<1> QED BY <1>1, <1>2, <1>4

(* The blocks of a node that is not divided, and of one that is.           *)
LEMMA BlocksOfWhole ==
  ASSUME NEW m, NEW o \in Nat, NEW k \in Kinds, k \in Leaves \/ ~ isSplit(m, o)
  PROVE  Blocks(m, o, k) = IF isReserved(m, o) THEN {Block(0, k)} ELSE {}
<1>1. \A p \in PlacesIn[k] : Active(m, o, p) => p = Top(k)
  <2> SUFFICES ASSUME NEW p \in PlacesIn[k], Active(m, o, p), p # Top(k) PROVE FALSE
    OBVIOUS
  <2>1. k \notin Leaves
    BY PlaceCases
  <2>2. PICK x \in 1 .. 2 : \E i \in ChildIndexes(k, x) : \E q \in PlacesIn[Kind(k, x)] :
                               p = Under(q, k, x, i)
    BY <2>1, PlaceCases
  <2>3. Option(m, o) = x
    BY <2>1, <2>2, ActiveUnder
  <2> QED BY <2>1, <2>3 DEF isSplit, SOE_Option1, SOE_Option2
<1>2. Top(k) \in PlacesIn[k] /\ Active(m, o, Top(k)) /\ o + Top(k).at = o
      /\ Top(k).kind = k /\ Top(k).unit = 0
  BY ActiveTop, PlaceCases
<1>3. ReservedPlaces(m, o, k) = IF isReserved(m, o) THEN {Top(k)} ELSE {}
  BY <1>1, <1>2 DEF ReservedPlaces
<1> QED BY <1>2, <1>3 DEF Blocks

LEMMA BlocksOfParts ==
  ASSUME NEW m, NEW o \in Nat, NEW k \in Kinds, k \notin Leaves,
         NEW x \in 1 .. 2, Option(m, o) = x
  PROVE  \A b : b \in Blocks(m, o, k) <=>
           \E i \in ChildIndexes(k, x) : \E c \in Blocks(m, Child(o, k, x, i), Kind(k, x)) :
             b = Block(i * Kind(k, x) + c.ptr, c.size)
<1>1. ASSUME NEW p \in ReservedPlaces(m, o, k)
      PROVE  \E i \in ChildIndexes(k, x) : \E c \in Blocks(m, Child(o, k, x, i), Kind(k, x)) :
               Block(p.unit, p.kind) = Block(i * Kind(k, x) + c.ptr, c.size)
  <2>1. p \in PlacesIn[k] /\ Active(m, o, p) /\ isReserved(m, o + p.at)
    BY DEF ReservedPlaces
  <2>2. p # Top(k)
    BY <2>1, ActiveTop DEF isReserved, SOE_Reserved
  <2>3. PICK y \in 1 .. 2 : \E i \in ChildIndexes(k, y) : \E q \in PlacesIn[Kind(k, y)] :
                               p = Under(q, k, y, i)
    BY <2>1, <2>2, PlaceCases
  <2>4. PICK i \in ChildIndexes(k, y), q \in PlacesIn[Kind(k, y)] : p = Under(q, k, y, i)
    BY <2>3
  <2>5. /\ Option(m, o) = y /\ Active(m, Child(o, k, y, i), q)
        /\ o + p.at = Child(o, k, y, i) + q.at /\ p.kind = q.kind
        /\ p.unit = i * Kind(k, y) + q.unit
    BY <2>1, <2>4, ActiveUnder
  <2>6. q \in ReservedPlaces(m, Child(o, k, x, i), Kind(k, x)) /\ x = y
    BY <2>1, <2>4, <2>5 DEF ReservedPlaces
  <2>7. Block(q.unit, q.kind) \in Blocks(m, Child(o, k, x, i), Kind(k, x))
    BY <2>6 DEF Blocks
  <2>8. /\ Block(q.unit, q.kind).ptr = q.unit /\ Block(q.unit, q.kind).size = q.kind
    BY DEF Block
  <2> QED BY <2>4, <2>5, <2>6, <2>7, <2>8
<1>2. ASSUME NEW i \in ChildIndexes(k, x),
             NEW q \in ReservedPlaces(m, Child(o, k, x, i), Kind(k, x))
      PROVE  Block(i * Kind(k, x) + q.unit, q.kind) \in Blocks(m, o, k)
  <2>1. q \in PlacesIn[Kind(k, x)] /\ Active(m, Child(o, k, x, i), q)
        /\ isReserved(m, Child(o, k, x, i) + q.at)
    BY DEF ReservedPlaces
  <2> DEFINE u == Under(q, k, x, i)
  <2>2. u \in PlacesIn[k]
    BY <2>1, PlaceCases
  <2>3. /\ Active(m, o, u) /\ o + u.at = Child(o, k, x, i) + q.at /\ u.kind = q.kind
        /\ u.unit = i * Kind(k, x) + q.unit
    BY <2>1, ActiveUnder
  <2>4. u \in ReservedPlaces(m, o, k)
    BY <2>1, <2>2, <2>3 DEF ReservedPlaces
  <2> HIDE DEF u
  <2> QED BY <2>3, <2>4 DEF Blocks
<1>3. \A q : Block(q.unit, q.kind).ptr = q.unit /\ Block(q.unit, q.kind).size = q.kind
  BY DEF Block
<1>4. ASSUME NEW b \in Blocks(m, o, k)
      PROVE  \E i \in ChildIndexes(k, x) : \E c \in Blocks(m, Child(o, k, x, i), Kind(k, x)) :
               b = Block(i * Kind(k, x) + c.ptr, c.size)
  <2>1. PICK p \in ReservedPlaces(m, o, k) : b = Block(p.unit, p.kind)
    BY DEF Blocks
  <2> QED BY <1>1, <2>1
<1>5. ASSUME NEW i \in ChildIndexes(k, x), NEW c \in Blocks(m, Child(o, k, x, i), Kind(k, x))
      PROVE  Block(i * Kind(k, x) + c.ptr, c.size) \in Blocks(m, o, k)
  <2>1. PICK q \in ReservedPlaces(m, Child(o, k, x, i), Kind(k, x)) : c = Block(q.unit, q.kind)
    BY DEF Blocks
  <2> QED BY <1>2, <1>3, <2>1
<1> QED BY <1>4, <1>5

-----------------------------------------------------------------------------
(* What is outside a node's bytes does not matter to it.                   *)

Same(m, n, o, k) == \A a \in Area(o, k) : m[a] = n[a]

LEMMA NodeGoodLocal ==
  ASSUME NEW m, NEW n, NEW o \in Nat, NEW k \in Kinds, Same(m, n, o, k), NodeGood(m, o, k)
  PROVE  NodeGood(n, o, k)
<1>1. o \in Area(o, k)
  BY BytesPositive DEF Area
<1>2. m[o] = n[o]
  BY <1>1 DEF Same
<1>3. isSplit(m, o) <=> isSplit(n, o)
  BY <1>2 DEF isSplit, Option
<1>4. Option(m, o) = Option(n, o)
  BY <1>2 DEF Option
<1>5. ASSUME k \in Leaves \/ ~ isSplit(m, o) PROVE NodeGood(n, o, k)
  BY <1>2, <1>3, <1>5 DEF NodeGood, Closed, Same
<1>6. ASSUME k \notin Leaves, isSplit(m, o) PROVE NodeGood(n, o, k)
  <2>1. PICK x \in 1 .. 2 : x = Option(m, o)
    BY <1>6 DEF isSplit, SOE_Option1, SOE_Option2
  <2>2. \A i \in ChildIndexes(k, x) : m[Child(o, k, x, i)] = n[Child(o, k, x, i)]
    BY <1>6, ChildArea DEF Same
  <2>3. FullOnes(m, o, k, x) = FullOnes(n, o, k, x)
    BY <2>2 DEF FullOnes, full, isReserved, isSplit, Option
  <2>4. AllEmpty(m, o, k, x) <=> AllEmpty(n, o, k, x)
    BY <2>2 DEF AllEmpty, isEmpty, Option
  <2>5. Counted(m, o, k, x) /\ ~ AllEmpty(m, o, k, x)
    BY <1>6, <2>1 DEF NodeGood
  <2>6. Counted(n, o, k, x)
    BY <1>2, <1>4, <2>1, <2>3, <2>5 DEF Counted, Same
  <2> QED BY <1>3, <1>4, <1>6, <2>1, <2>4, <2>5, <2>6 DEF NodeGood
<1> QED BY <1>5, <1>6

LEMMA Locality ==
  ASSUME NEW m, NEW n, NEW o \in Nat, NEW k \in Kinds, Same(m, n, o, k)
  PROVE  /\ Good(m, o, k) => Good(n, o, k)
         /\ Blocks(m, o, k) = Blocks(n, o, k)
         /\ m[o] = n[o]
         /\ \A p \in PlacesIn[k] : /\ Active(m, o, p) <=> Active(n, o, p)
                                   /\ Option(m, o + p.at) = Option(n, o + p.at)
<1>1. \A a \in Area(o, k) : m[a] = n[a]
  BY DEF Same
<1>2. ASSUME NEW p \in PlacesIn[k]
      PROVE  /\ Active(m, o, p) <=> Active(n, o, p)
             /\ Same(m, n, o + p.at, p.kind) /\ o + p.at \in Nat /\ p.kind \in Kinds
             /\ m[o + p.at] = n[o + p.at]
  BY <1>1, PlaceArea DEF Same, Active, Option
<1>3. ASSUME Good(m, o, k), NEW p \in PlacesIn[k], Active(n, o, p)
      PROVE  NodeGood(n, o + p.at, p.kind)
  <2>1. Active(m, o, p)
    BY <1>2, <1>3
  <2>2. NodeGood(m, o + p.at, p.kind)
    BY <1>3, <2>1 DEF Good
  <2>3. Same(m, n, o + p.at, p.kind) /\ o + p.at \in Nat /\ p.kind \in Kinds
    BY <1>2
  <2> QED BY <2>2, <2>3, NodeGoodLocal
<1>4. ReservedPlaces(m, o, k) = ReservedPlaces(n, o, k)
  BY <1>2 DEF ReservedPlaces, isReserved, Option
<1>5. m[o] = n[o]
  <2>1. o \in Area(o, k)
    BY BytesPositive DEF Area
  <2> QED BY <1>1, <2>1
<1>6. Good(m, o, k) => Good(n, o, k)
  BY <1>3 DEF Good
<1>7. Blocks(m, o, k) = Blocks(n, o, k)
  BY <1>4 DEF Blocks
<1>8. \A p \in PlacesIn[k] : /\ Active(m, o, p) <=> Active(n, o, p)
                             /\ Option(m, o + p.at) = Option(n, o + p.at)
  BY <1>2 DEF Option
<1> QED BY <1>5, <1>6, <1>7, <1>8
-----------------------------------------------------------------------------
(* Blocks of one tree lie in its units and do not overlap.                 *)

Before(b, c) == b.ptr + b.size <= c.ptr
BlocksInOrder(k, blocks) ==
  /\ \A b \in blocks : b.ptr \in Nat /\ b.size \in Kinds /\ b.ptr + b.size <= k
  /\ \A b, c \in blocks : b = c \/ Before(b, c) \/ Before(c, b)

LEMMA TreeBlocksApart ==
  ASSUME NEW m, NEW o \in Nat, NEW k \in Kinds
  PROVE  BlocksInOrder(k, Blocks(m, o, k))
<1> DEFINE S == {j \in Kinds : \A n : \A a \in Nat : BlocksInOrder(j, Blocks(n, a, j))}
<1>1. ASSUME NEW j \in Kinds, \A l \in Kinds : l < j => l \in S, NEW n, NEW a \in Nat
      PROVE  BlocksInOrder(j, Blocks(n, a, j))
  <2>1. CASE j \in Leaves \/ ~ isSplit(n, a)
    <3>1. \A b \in Blocks(n, a, j) : b = Block(0, j)
      BY <2>1, BlocksOfWhole
    <3>2. Block(0, j).ptr = 0 /\ Block(0, j).size = j /\ j \in Nat
      BY KindFacts DEF Block
    <3> QED BY <3>1, <3>2 DEF BlocksInOrder
  <2>2. CASE j \notin Leaves /\ isSplit(n, a)
    <3>1. PICK x \in 1 .. 2 : Option(n, a) = x
      BY <2>2 DEF isSplit, SOE_Option1, SOE_Option2
    <3>2. PICK l \in Kinds : l = Kind(j, x) /\ l < j /\ l \in Nat \ {0} /\ j \in Nat
      BY <2>2, ChildFacts
    <3>3. PICK number \in Nat : number = SplitOf[j][x].number /\ number * l = j
      BY <2>2, <3>2, ChildFacts
    <3> DEFINE sub(i) == Blocks(n, Child(a, j, x, i), l)
    <3>4. ASSUME NEW i \in ChildIndexes(j, x) PROVE BlocksInOrder(l, sub(i))
      <4>1. Child(a, j, x, i) \in Nat
        BY <2>2, ChildArea
      <4> QED BY <1>1, <3>2, <4>1
    <3>5. ASSUME NEW b \in Blocks(n, a, j)
          PROVE  \E i \in ChildIndexes(j, x) : \E c \in sub(i) : b = Block(i * l + c.ptr, c.size)
      BY <2>2, <3>1, <3>2, BlocksOfParts
    <3>6. ASSUME NEW i \in ChildIndexes(j, x)
          PROVE  i \in Nat /\ i * l \in Nat /\ i * l + l <= j
                 /\ \A h \in ChildIndexes(j, x) : h < i => h * l + l <= i * l
      <4>1. i \in Nat /\ i + 1 <= number /\ \A h \in ChildIndexes(j, x) : h \in Nat
        BY <3>3 DEF ChildIndexes
      <4>2. ASSUME NEW h \in ChildIndexes(j, x), h < i PROVE h * l + l <= i * l
        <5>1. h \in Nat /\ h + 1 <= i /\ l \in Nat
          BY <3>2, <4>1, <4>2
        <5> QED BY <4>1, <5>1, OneMore
      <4> QED BY <3>2, <3>3, <4>1, <4>2, OneMore
    <3>7. \A p, q : Block(p, q).ptr = p /\ Block(p, q).size = q
      BY DEF Block
    <3>8. ASSUME NEW b \in Blocks(n, a, j)
          PROVE  b.ptr \in Nat /\ b.size \in Kinds /\ b.ptr + b.size <= j
      <4>1. PICK i \in ChildIndexes(j, x) : \E c \in sub(i) : b = Block(i * l + c.ptr, c.size)
        BY <3>5
      <4>2. PICK c \in sub(i) : b = Block(i * l + c.ptr, c.size)
        BY <4>1
      <4>3. c.ptr \in Nat /\ c.size \in Kinds /\ c.ptr + c.size <= l
        BY <3>4 DEF BlocksInOrder
      <4>4. c.size \in Nat
        BY <4>3, KindIsNatural
      <4>5. b.ptr = i * l + c.ptr /\ b.size = c.size
        BY <3>7, <4>2
      <4> QED BY <3>2, <3>6, <4>3, <4>4, <4>5
    <3>9. ASSUME NEW b \in Blocks(n, a, j), NEW d \in Blocks(n, a, j)
          PROVE  b = d \/ Before(b, d) \/ Before(d, b)
      <4>1. PICK i \in ChildIndexes(j, x) : \E c \in sub(i) : b = Block(i * l + c.ptr, c.size)
        BY <3>5
      <4>2. PICK c \in sub(i) : b = Block(i * l + c.ptr, c.size)
        BY <4>1
      <4>3. PICK h \in ChildIndexes(j, x) : \E e \in sub(h) : d = Block(h * l + e.ptr, e.size)
        BY <3>5
      <4>4. PICK e \in sub(h) : d = Block(h * l + e.ptr, e.size)
        BY <4>3
      <4>5. /\ c.ptr \in Nat /\ c.size \in Kinds /\ c.ptr + c.size <= l
            /\ e.ptr \in Nat /\ e.size \in Kinds /\ e.ptr + e.size <= l
        BY <3>4 DEF BlocksInOrder
      <4>6. c.size \in Nat /\ e.size \in Nat
        BY <4>5, KindIsNatural
      <4>7. /\ b.ptr = i * l + c.ptr /\ b.size = c.size /\ d.ptr = h * l + e.ptr /\ d.size = e.size
        BY <3>7, <4>2, <4>4
      <4>8. CASE i = h
        <5>1. c = e \/ Before(c, e) \/ Before(e, c)
          BY <3>4, <4>8 DEF BlocksInOrder
        <5>2. i * l \in Nat
          BY <3>6
        <5> QED BY <4>2, <4>4, <4>5, <4>6, <4>7, <4>8, <5>1, <5>2 DEF Before
      <4>9. CASE i < h
        <5>1. i * l \in Nat /\ h * l \in Nat /\ i * l + l <= h * l
          BY <3>6, <4>9
        <5> QED BY <3>2, <4>5, <4>6, <4>7, <5>1 DEF Before
      <4>10. CASE h < i
        <5>1. i * l \in Nat /\ h * l \in Nat /\ h * l + l <= i * l
          BY <3>6, <4>10
        <5> QED BY <3>2, <4>5, <4>6, <4>7, <5>1 DEF Before
      <4>11. i \in Nat /\ h \in Nat
        BY <3>6
      <4> QED BY <4>8, <4>9, <4>10, <4>11
    <3> QED BY <3>8, <3>9 DEF BlocksInOrder
  <2> QED BY <2>1, <2>2
<1>2. Kinds \subseteq S
  <2>1. ASSUME NEW j \in Kinds, \A l \in Kinds : l < j => l \in S PROVE j \in S
    BY <1>1, <2>1
  <2> HIDE DEF S
  <2> QED BY <2>1, KindInduction
<1> QED BY <1>2

-----------------------------------------------------------------------------
(* Nodes that are not divided.                                             *)

IsBlank(m, o, k) == \A a \in Area(o, k) : m[a] = Blank

LEMMA BlankIsGood ==
  ASSUME NEW m, NEW o \in Nat, NEW k \in Kinds, IsBlank(m, o, k)
  PROVE  Closed(m, o, k) /\ isEmpty(m, o) /\ Good(m, o, k) /\ Blocks(m, o, k) = {}
<1>1. o \in Area(o, k)
  BY BytesPositive DEF Area
<1>2. m[o] = Blank
  BY <1>1 DEF IsBlank
<1>3. isEmpty(m, o) /\ ~ isSplit(m, o) /\ ~ isReserved(m, o) /\ m[o].fullChilds = 0
  BY <1>2 DEF Blank, isEmpty, isSplit, isReserved, Option, SOE_Empty, SOE_Option1, SOE_Option2,
              SOE_Reserved
<1>4. Closed(m, o, k)
  BY <1>3 DEF Closed, IsBlank
<1>5. Good(m, o, k)
  BY <1>3, <1>4, GoodUnfold DEF NodeGood
<1>6. Blocks(m, o, k) = {}
  BY <1>3, BlocksOfWhole
<1> QED BY <1>3, <1>4, <1>5, <1>6

(* The children of a node that is not divided are blank.                   *)
LEMMA ClosedChildren ==
  ASSUME NEW m, NEW o \in Nat, NEW k \in Kinds, k \notin Leaves, Closed(m, o, k),
         NEW x \in 1 .. 2, NEW i \in ChildIndexes(k, x)
  PROVE  IsBlank(m, Child(o, k, x, i), Kind(k, x))
BY ChildArea DEF Closed, IsBlank

(* A good node that is not divided is closed; empty, it is blank.          *)
LEMMA GoodCases ==
  ASSUME NEW m \in Memory, NEW o, NEW k \in Kinds, Within(o, k), Good(m, o, k)
  PROVE  /\ o \in Nat /\ o \in Addresses /\ m[o] \in SplitType
         /\ Option(m, o) \in 0 .. 3
         /\ isEmpty(m, o) \/ isReserved(m, o) \/ isSplit(m, o)
         /\ isSplit(m, o) => k \notin Leaves /\ Option(m, o) \in 1 .. 2
         /\ ~ isSplit(m, o) => Closed(m, o, k)
         /\ isEmpty(m, o) => IsBlank(m, o, k)
<1>1. o \in Nat /\ o \in Area(o, k) /\ o \in Addresses
  BY BytesPositive DEF Area, Within
<1>2. m[o] \in SplitType
  BY <1>1 DEF Memory
<1>3. Option(m, o) \in 0 .. 3 /\ m[o] = [Option |-> Option(m, o), fullChilds |-> m[o].fullChilds]
  BY <1>2 DEF SplitType, Option, SOE_Empty, SOE_Reserved
<1>4. isEmpty(m, o) \/ isReserved(m, o) \/ isSplit(m, o)
  BY <1>3 DEF isEmpty, isReserved, isSplit, SOE_Empty, SOE_Reserved, SOE_Option1, SOE_Option2
<1>5. NodeGood(m, o, k)
  BY <1>1, GoodUnfold
<1>6. isSplit(m, o) => k \notin Leaves /\ Option(m, o) \in 1 .. 2
  BY <1>5 DEF NodeGood, Closed, isSplit, SOE_Option1, SOE_Option2
<1>7. ~ isSplit(m, o) => Closed(m, o, k)
  BY <1>5 DEF NodeGood
<1>8. ASSUME isEmpty(m, o) PROVE IsBlank(m, o, k)
  <2>1. ~ isSplit(m, o) /\ Option(m, o) = SOE_Empty
    BY <1>8 DEF isEmpty, isSplit, SOE_Empty, SOE_Option1, SOE_Option2
  <2>2. m[o].fullChilds = 0
    BY <1>7, <2>1 DEF Closed
  <2>3. m[o] = Blank
    BY <1>3, <2>1, <2>2 DEF Blank
  <2> QED BY <1>7, <2>1, <2>3 DEF Closed, IsBlank
<1> QED BY <1>1, <1>2, <1>3, <1>4, <1>6, <1>7, <1>8
-----------------------------------------------------------------------------
(* A divided node, one of whose children changes.                          *)

Ready(m, o, k, x) ==
  /\ Counted(m, o, k, x)
  /\ \A i \in ChildIndexes(k, x) : Good(m, Child(o, k, x, i), Kind(k, x))

LEMMA ReadyIsGood ==
  ASSUME NEW m, NEW o \in Nat, NEW k \in Kinds, k \notin Leaves, NEW x \in 1 .. 2
  PROVE  /\ Good(m, o, k) /\ Option(m, o) = x => Ready(m, o, k, x) /\ ~ AllEmpty(m, o, k, x)
         /\ Ready(m, o, k, x) /\ ~ AllEmpty(m, o, k, x) => Good(m, o, k)
<1>1. Option(m, o) = x => isSplit(m, o)
  BY DEF isSplit, SOE_Option1, SOE_Option2
<1>2. Ready(m, o, k, x) => Option(m, o) = x
  BY DEF Ready, Counted
<1>3. Option(m, o) = x =>
        (Good(m, o, k) <=> Counted(m, o, k, x) /\ ~ AllEmpty(m, o, k, x)
           /\ \A i \in ChildIndexes(k, x) : Good(m, Child(o, k, x, i), Kind(k, x)))
  BY <1>1, GoodUnfold DEF NodeGood
<1> QED BY <1>2, <1>3 DEF Ready

(* The children are finitely many.                                         *)
LEMMA ChildCount ==
  ASSUME NEW k \in Kinds, k \notin Leaves, NEW x \in 1 .. 2, NEW S \in SUBSET ChildIndexes(k, x)
  PROVE  /\ IsFiniteSet(S) /\ Cardinality(S) \in Nat
         /\ Cardinality(S) <= SplitOf[k][x].number
         /\ Cardinality(S) = SplitOf[k][x].number => S = ChildIndexes(k, x)
<1>1. PICK n \in Nat : n = SplitOf[k][x].number
  BY ChildFacts
<1>2. IsFiniteSet(0 .. n - 1) /\ Cardinality(0 .. n - 1) = n
  BY FS_Interval
<1>3. ChildIndexes(k, x) = 0 .. n - 1
  BY <1>1 DEF ChildIndexes
<1>4. S \in SUBSET (0 .. n - 1)
  BY <1>3
<1>5. IsFiniteSet(S) /\ Cardinality(S) <= Cardinality(0 .. n - 1)
      /\ (Cardinality(0 .. n - 1) = Cardinality(S) => 0 .. n - 1 = S)
  BY <1>2, <1>4, FS_Subset
<1>6. Cardinality(S) \in Nat
  BY <1>5, FS_CardinalityType
<1> QED BY <1>1, <1>2, <1>3, <1>5, <1>6

(* A divided node is full if all its children are.                         *)
LEMMA FullNode ==
  ASSUME NEW m, NEW o, NEW k \in Kinds, k \notin Leaves, NEW x \in 1 .. 2, Counted(m, o, k, x)
  PROVE  full(m, o, k) <=> \A i \in ChildIndexes(k, x) : full(m, Child(o, k, x, i), Kind(k, x))
<1>1. FullOnes(m, o, k, x) \in SUBSET ChildIndexes(k, x)
  BY DEF FullOnes
<1>2. Option(m, o) = x /\ m[o].fullChilds = Cardinality(FullOnes(m, o, k, x))
  BY DEF Counted
<1>3. full(m, o, k) <=> Cardinality(FullOnes(m, o, k, x)) = SplitOf[k][x].number
  BY <1>2 DEF full, isReserved, isSplit, SOE_Reserved, SOE_Option1, SOE_Option2
<1>4. full(m, o, k) => FullOnes(m, o, k, x) = ChildIndexes(k, x)
  BY <1>1, <1>3, ChildCount
<1>5. FullOnes(m, o, k, x) = ChildIndexes(k, x) => full(m, o, k)
  <2>1. PICK n \in Nat : n = SplitOf[k][x].number
    BY ChildFacts
  <2>2. Cardinality(ChildIndexes(k, x)) = n
    BY <2>1, FS_Interval DEF ChildIndexes
  <2> QED BY <1>3, <2>1, <2>2
<1> QED BY <1>4, <1>5 DEF FullOnes

LEMMA ChildChanged ==
  ASSUME NEW m, NEW n, NEW o \in Nat, NEW k \in Kinds, k \notin Leaves, NEW x \in 1 .. 2,
         NEW i \in ChildIndexes(k, x), Ready(m, o, k, x),
         \A a \in Area(o, k) : a = o \/ a \in Area(Child(o, k, x, i), Kind(k, x)) \/ n[a] = m[a],
         Option(n, o) = x, Good(n, Child(o, k, x, i), Kind(k, x))
  PROVE  /\ \A j \in ChildIndexes(k, x) :
              /\ Good(n, Child(o, k, x, j), Kind(k, x))
              /\ j # i => /\ Blocks(n, Child(o, k, x, j), Kind(k, x)) =
                               Blocks(m, Child(o, k, x, j), Kind(k, x))
                          /\ n[Child(o, k, x, j)] = m[Child(o, k, x, j)]
                          /\ j \in FullOnes(n, o, k, x) <=> j \in FullOnes(m, o, k, x)
         /\ n[o].fullChilds = Cardinality(FullOnes(n, o, k, x)) => Ready(n, o, k, x)
<1>1. ASSUME NEW j \in ChildIndexes(k, x), j # i
      PROVE  /\ Good(n, Child(o, k, x, j), Kind(k, x))
             /\ Blocks(n, Child(o, k, x, j), Kind(k, x)) = Blocks(m, Child(o, k, x, j), Kind(k, x))
             /\ n[Child(o, k, x, j)] = m[Child(o, k, x, j)]
  <2>1. /\ Area(Child(o, k, x, j), Kind(k, x)) \subseteq Area(o, k)
        /\ o \notin Area(Child(o, k, x, j), Kind(k, x)) /\ Child(o, k, x, j) \in Nat
        /\ Area(Child(o, k, x, j), Kind(k, x)) \cap Area(Child(o, k, x, i), Kind(k, x)) = {}
    BY <1>1, ChildArea
  <2>2. Same(m, n, Child(o, k, x, j), Kind(k, x))
    BY <2>1 DEF Same
  <2>3. Kind(k, x) \in Kinds /\ Good(m, Child(o, k, x, j), Kind(k, x))
    BY ChildFacts DEF Ready
  <2> QED BY <2>1, <2>2, <2>3, Locality
<1>2. \A j \in ChildIndexes(k, x) : Good(n, Child(o, k, x, j), Kind(k, x))
  BY <1>1
<1>3. \A j \in ChildIndexes(k, x) : j # i => (j \in FullOnes(n, o, k, x) <=> j \in FullOnes(m, o, k, x))
  BY <1>1 DEF FullOnes, full, isReserved, isSplit, Option
<1>4. ASSUME n[o].fullChilds = Cardinality(FullOnes(n, o, k, x)) PROVE Ready(n, o, k, x)
  <2>1. \A a \in Area(o, k) :
          \/ a = o \/ n[a] = Blank
          \/ \E j \in ChildIndexes(k, x) : a \in Area(Child(o, k, x, j), Kind(k, x))
    BY DEF Ready, Counted
  <2> QED BY <1>2, <1>4, <2>1 DEF Ready, Counted
<1> QED BY <1>1, <1>2, <1>3, <1>4

-----------------------------------------------------------------------------
(* alloc in a child.                                                       *)

(* found is m with a block more in the node.                               *)
ServedIn(m, o, k, size, found) ==
  /\ found.memory \in Memory /\ found.index \in Nat
  /\ \A a \in Addresses : a \in Area(o, k) \/ found.memory[a] = m[a]
  /\ Good(found.memory, o, k) /\ ~ isEmpty(found.memory, o) /\ ~ full(m, o, k)
  /\ Block(found.index, size) \notin Blocks(m, o, k)
  /\ Blocks(found.memory, o, k) = Blocks(m, o, k) \cup {Block(found.index, size)}

LEMMA InChildServes ==
  ASSUME NEW m \in Memory, NEW o, NEW k \in Kinds, k \notin Leaves, Within(o, k),
         NEW x \in 1 .. 2, Ready(m, o, k, x), NEW i \in ChildIndexes(k, x), NEW size, NEW found,
         ServedIn(m, Child(o, k, x, i), Kind(k, x), size, found)
  PROVE  ServedIn(m, o, k, size, InChild(o, k, x, i, m, found))
<1> DEFINE c == Child(o, k, x, i)
           l == Kind(k, x)
           kept == found.memory
           filled == ~ full(m, c, l) /\ full(kept, c, l)
           n == IF filled THEN addFullChilds(kept, o, 1) ELSE kept
           index == i * l + found.index
<1>1. /\ o \in Nat /\ o \in Area(o, k) /\ Area(o, k) \subseteq Addresses
      /\ c \in Nat /\ Area(c, l) \subseteq Area(o, k) /\ o \notin Area(c, l) /\ c \in Area(c, l)
      /\ l \in Kinds /\ l \in Nat /\ i \in Nat
  BY ChildArea, ChildFacts DEF Within, ChildIndexes
<1>2. /\ kept \in Memory /\ found.index \in Nat /\ Good(kept, c, l) /\ ~ isEmpty(kept, c)
      /\ ~ full(m, c, l) /\ Block(found.index, size) \notin Blocks(m, c, l)
      /\ Blocks(kept, c, l) = Blocks(m, c, l) \cup {Block(found.index, size)}
      /\ \A a \in Addresses : a \in Area(c, l) \/ kept[a] = m[a]
  BY DEF ServedIn
<1>3. m[o] \in SplitType /\ kept[o] = m[o] /\ Option(m, o) = x
  BY <1>1, <1>2 DEF Memory, Ready, Counted
<1>4. /\ n \in Memory
      /\ \A a \in Addresses : a # o => n[a] = kept[a]
      /\ n[o] = [Option |-> m[o].Option,
                 fullChilds |-> m[o].fullChilds + (IF filled THEN 1 ELSE 0)]
  <2>1. kept[o] = [Option |-> m[o].Option, fullChilds |-> m[o].fullChilds] /\ m[o].fullChilds \in Int
        /\ m[o].Option \in SOE_Empty .. SOE_Reserved
    BY <1>3 DEF SplitType
  <2>2. CASE filled
    <3>1. n = [kept EXCEPT ![o] = [Option |-> m[o].Option, fullChilds |-> m[o].fullChilds + 1]]
      BY <1>1, <1>2, <2>1, <2>2 DEF addFullChilds, Memory
    <3>2. [Option |-> m[o].Option, fullChilds |-> m[o].fullChilds + 1] \in SplitType
      BY <2>1 DEF SplitType
    <3> HIDE DEF n, filled, kept
    <3> QED BY <1>1, <1>2, <2>2, <3>1, <3>2 DEF Memory
  <2>3. CASE ~ filled
    <3>1. n = kept
      BY <2>3
    <3> HIDE DEF n, filled, kept
    <3> QED BY <1>1, <1>2, <2>1, <2>3, <3>1
  <2> QED BY <2>2, <2>3
<1>5. Option(n, o) = x
  BY <1>3, <1>4 DEF Option
<1>6. /\ Good(n, c, l) /\ Blocks(n, c, l) = Blocks(kept, c, l) /\ n[c] = kept[c]
  <2>1. Same(kept, n, c, l)
    BY <1>1, <1>4 DEF Same
  <2>2. n[c] = kept[c]
    BY <1>1, <1>4
  <2>3. kept \in Memory /\ n \in Memory /\ Good(kept, c, l) /\ Within(c, l)
    BY <1>1, <1>2, <1>4 DEF Within
  <2> HIDE DEF n, kept, c, l
  <2>4. Good(n, c, l) /\ Blocks(n, c, l) = Blocks(kept, c, l)
    BY <1>1, <2>1, <2>3, Locality
  <2> QED BY <2>2, <2>4
<1>7. \A a \in Area(o, k) : a = o \/ a \in Area(c, l) \/ n[a] = m[a]
  BY <1>1, <1>2, <1>4
<1>8. /\ \A j \in ChildIndexes(k, x) :
           j # i => /\ Blocks(n, Child(o, k, x, j), l) = Blocks(m, Child(o, k, x, j), l)
                    /\ j \in FullOnes(n, o, k, x) <=> j \in FullOnes(m, o, k, x)
      /\ n[o].fullChilds = Cardinality(FullOnes(n, o, k, x)) => Ready(n, o, k, x)
  <2>1. Good(n, c, l)
    BY <1>6
  <2> HIDE DEF n
  <2> QED BY <1>1, <1>5, <2>1, <1>7, ChildChanged
<1>9. full(n, c, l) <=> full(kept, c, l)
  BY <1>6 DEF full, isReserved, isSplit, Option
<1>10. n[o].fullChilds = Cardinality(FullOnes(n, o, k, x))
  <2> DEFINE old == FullOnes(m, o, k, x)
             new == FullOnes(n, o, k, x)
  <2>1. i \notin old /\ (i \in new <=> full(kept, c, l)) /\ filled <=> full(kept, c, l)
    BY <1>2, <1>9 DEF FullOnes
  <2>2. new = IF filled THEN old \cup {i} ELSE old
    <3>1. old \subseteq ChildIndexes(k, x) /\ new \subseteq ChildIndexes(k, x)
      BY DEF FullOnes
    <3>2. \A j \in ChildIndexes(k, x) : j # i => (j \in new <=> j \in old)
      BY <1>8
    <3>3. (i \in new <=> filled) /\ i \notin old
      BY <1>2, <1>9 DEF FullOnes
    <3> HIDE DEF new, old, filled
    <3> QED BY <3>1, <3>2, <3>3
  <2>3. IsFiniteSet(old) /\ Cardinality(old) \in Nat
    <3>1. old \in SUBSET ChildIndexes(k, x)
      BY DEF FullOnes
    <3> QED BY <3>1, ChildCount
  <2>4. Cardinality(old \cup {i}) = Cardinality(old) + 1 /\ Cardinality(old) \in Nat
    <3>1. i \notin old
      BY <1>2 DEF FullOnes
    <3> QED BY <2>3, <3>1, FS_AddElement
  <2>5. m[o].fullChilds = Cardinality(old)
    BY DEF Ready, Counted
  <2>6. n[o].fullChilds = Cardinality(old) + (IF filled THEN 1 ELSE 0)
    BY <1>4, <2>5
  <2>7. Cardinality(new) = Cardinality(old) + (IF filled THEN 1 ELSE 0)
    <3> HIDE DEF old, new, filled
    <3>1. CASE filled
      BY <2>2, <2>4, <3>1
    <3>2. CASE ~ filled
      BY <2>2, <2>4, <3>2
    <3> QED BY <3>1, <3>2
  <2>8. new = FullOnes(n, o, k, x)
    OBVIOUS
  <2> HIDE DEF old, new, filled, n
  <2> HIDE DEF old, new, filled, n
  <2> QED BY <2>6, <2>7, <2>8
<1>11. ~ isEmpty(n, c)
  BY <1>2, <1>6 DEF isEmpty, Option
<1>12. Good(n, o, k)
  <2>1. Ready(n, o, k, x)
    BY <1>8, <1>10
  <2>2. ~ AllEmpty(n, o, k, x)
    BY <1>11 DEF AllEmpty
  <2> HIDE DEF n
  <2> QED BY <1>1, <2>1, <2>2, ReadyIsGood
<1>13. ~ isEmpty(n, o)
  BY <1>5 DEF isEmpty, SOE_Empty
<1>14. ~ full(m, o, k)
  BY <1>2, FullNode DEF Ready
<1>15. /\ Block(index, size) \notin Blocks(m, o, k)
       /\ Blocks(n, o, k) = Blocks(m, o, k) \cup {Block(index, size)}
  <2>1. \A b : b \in Blocks(m, o, k) <=>
           \E j \in ChildIndexes(k, x) : \E d \in Blocks(m, Child(o, k, x, j), l) :
             b = Block(j * l + d.ptr, d.size)
    BY <1>1, <1>3, BlocksOfParts
  <2>2. \A b : b \in Blocks(n, o, k) <=>
           \E j \in ChildIndexes(k, x) : \E d \in Blocks(n, Child(o, k, x, j), l) :
             b = Block(j * l + d.ptr, d.size)
    <3> HIDE DEF n
    <3> QED BY <1>1, <1>5, BlocksOfParts
  <2>3. \A p, q : Block(p, q).ptr = p /\ Block(p, q).size = q
    BY DEF Block
  <2>4. Blocks(n, c, l) = Blocks(m, c, l) \cup {Block(found.index, size)}
    BY <1>2, <1>6
  <2>5. ASSUME Block(index, size) \in Blocks(m, o, k) PROVE FALSE
    <3>1. PICK j \in ChildIndexes(k, x) : \E d \in Blocks(m, Child(o, k, x, j), l) :
                 Block(index, size) = Block(j * l + d.ptr, d.size)
      BY <2>1, <2>5
    <3>2. PICK d \in Blocks(m, Child(o, k, x, j), l) : Block(index, size) = Block(j * l + d.ptr, d.size)
      BY <3>1
    <3>3. i * l + found.index = j * l + d.ptr /\ size = d.size
      BY <2>3, <3>2
    <3>4. BlocksInOrder(l, Blocks(m, Child(o, k, x, j), l)) /\ BlocksInOrder(l, Blocks(kept, c, l))
      <4>1. Child(o, k, x, j) \in Nat
        BY <1>1, ChildArea
      <4> QED BY <1>1, <4>1, TreeBlocksApart
    <3>5. d.ptr \in Nat /\ d.size \in Nat \ {0} /\ d.ptr + d.size <= l
      BY <3>4, KindFacts DEF BlocksInOrder
    <3>6. found.index + size <= l /\ d \in Blocks(m, Child(o, k, x, j), l)
      <4>1. Block(found.index, size) \in Blocks(kept, c, l)
        BY <1>2
      <4> QED BY <2>3, <3>4, <4>1 DEF BlocksInOrder
    <3>7. j = i
      <4>1. j \in Nat
        BY DEF ChildIndexes
      <4>2. j < i => j * l + l <= i * l
        BY <1>1, <4>1, OneMore
      <4>3. i < j => i * l + l <= j * l
        BY <1>1, <4>1, OneMore
      <4>4. i * l \in Nat /\ j * l \in Nat
        BY <1>1, <4>1
      <4> QED BY <1>1, <1>2, <3>3, <3>5, <3>6, <4>1, <4>2, <4>3, <4>4
    <3>8. d = Block(found.index, size)
      <4>1. d.ptr = found.index
        <5>1. i * l \in Nat
          BY <1>1
        <5> QED BY <1>2, <3>3, <3>5, <3>7, <5>1
      <4>2. PICK p, q : d = Block(p, q)
        BY <3>2 DEF Blocks
      <4> QED BY <2>3, <3>3, <4>1, <4>2
    <3> QED BY <1>2, <3>2, <3>7, <3>8
  <2>6. ASSUME NEW b PROVE b \in Blocks(n, o, k) <=> b \in Blocks(m, o, k) \/ b = Block(index, size)
    <3>1. ASSUME NEW j \in ChildIndexes(k, x), j # i
          PROVE  Blocks(n, Child(o, k, x, j), l) = Blocks(m, Child(o, k, x, j), l)
      BY <1>8, <3>1
    <3>2. \A d : d \in Blocks(n, c, l) <=> d \in Blocks(m, c, l) \/ d = Block(found.index, size)
      BY <2>4
    <3> HIDE DEF n, l
    <3> QED BY <2>1, <2>2, <2>3, <3>1, <3>2
  <2> HIDE DEF n
  <2> QED BY <2>5, <2>6
<1>16. InChild(o, k, x, i, m, found) = [memory |-> n, index |-> index]
  BY DEF InChild, Found
<1>17. index \in Nat
  BY <1>1, <1>2
<1>18. \A a \in Addresses : a \in Area(o, k) \/ n[a] = m[a]
  BY <1>1, <1>2, <1>4
<1> HIDE DEF n, index
<1> QED BY <1>4, <1>12, <1>13, <1>14, <1>15, <1>16, <1>17, <1>18 DEF ServedIn
-----------------------------------------------------------------------------
(* tryAllocIndex.                                                          *)

Results == [memory : Memory, index : Int]

(* The element with the least number.                                      *)
LEMMA FirstOf ==
  ASSUME NEW S, S # {}, \A e \in S : e.i \in Nat
  PROVE  First(S) \in S /\ \A e \in S : First(S).i <= e.i
<1>1. {e.i : e \in S} \in SUBSET Nat /\ {e.i : e \in S} # {}
  OBVIOUS
<1>2. PICK e \in S : \A d \in S : e.i <= d.i
  <2>1. Min({e.i : e \in S}) \in {e.i : e \in S} /\ \A y \in {e.i : e \in S} : Min({e.i : e \in S}) <= y
    BY <1>1, MinOfNaturals
  <2> QED BY <2>1
<1> QED BY <1>2 DEF First

(* What it does at a node, from what it does at smaller ones.              *)
TryAt(m, at, j, _size, try) ==
  IF isEmpty(m, at) /\ j = _size THEN Found(setOption(m, at, SOE_Reserved), 0)
  ELSE IF j \in Leaves \/ ~ isSplit(m, at) \/ full(m, at, j) THEN Found(m, NoIndex)
  ELSE LET x == Option(m, at)
           tries == {[i |-> i, found |-> try[Kind(j, x)][Child(at, j, x, i)]] :
                       i \in ChildIndexes(j, x)}
           hits == {t \in tries : t.found.index # NoIndex}
       IN  IF hits = {} THEN Found(m, NoIndex)
           ELSE InChild(at, j, x, First(hits).i, m, First(hits).found)

(* n is m with the state s at o.                                           *)
Updated(m, n, o, s) == n \in Memory /\ \A a \in Addresses : n[a] = IF a = o THEN s ELSE m[a]

LEMMA SetOptionType ==
  ASSUME NEW m \in Memory, NEW o, NEW option \in 0 .. 3
  PROVE  Updated(m, setOption(m, o, option), o, [Option |-> option, fullChilds |-> m[o].fullChilds])
<1>1. \A s \in SplitType : [s EXCEPT !.Option = option] = [Option |-> option, fullChilds |-> s.fullChilds]
                           /\ [Option |-> option, fullChilds |-> s.fullChilds] \in SplitType
  BY DEF SplitType, SOE_Empty, SOE_Reserved
<1>2. setOption(m, o, option) = [a \in Addresses |-> IF a = o THEN [m[o] EXCEPT !.Option = option] ELSE m[a]]
  BY DEF setOption, Memory
<1>3. \A a \in Addresses : m[a] \in SplitType
  BY DEF Memory
<1> QED BY <1>1, <1>2, <1>3 DEF Memory, Updated

LEMMA AddFullType ==
  ASSUME NEW m \in Memory, NEW o, NEW d \in Int
  PROVE  Updated(m, addFullChilds(m, o, d), o, [Option |-> m[o].Option, fullChilds |-> m[o].fullChilds + d])
<1>1. \A s \in SplitType : [s EXCEPT !.fullChilds = @ + d] = [Option |-> s.Option, fullChilds |-> s.fullChilds + d]
                           /\ [Option |-> s.Option, fullChilds |-> s.fullChilds + d] \in SplitType
  BY DEF SplitType, SOE_Empty, SOE_Reserved
<1>2. addFullChilds(m, o, d) = [a \in Addresses |-> IF a = o THEN [m[o] EXCEPT !.fullChilds = @ + d] ELSE m[a]]
  BY DEF addFullChilds, Memory
<1>3. \A a \in Addresses : m[a] \in SplitType
  BY DEF Memory
<1> QED BY <1>1, <1>2, <1>3 DEF Memory, Updated

LEMMA InChildType ==
  ASSUME NEW m, NEW o, NEW k \in Kinds, k \notin Leaves, NEW x \in 1 .. 2,
         NEW i \in ChildIndexes(k, x), NEW found \in Results
  PROVE  InChild(o, k, x, i, m, found) \in Results
<1>1. i \in Int /\ Kind(k, x) \in Int
  BY ChildFacts DEF ChildIndexes
<1>2. found.memory \in Memory /\ found.index \in Int
  BY DEF Results
<1>3. i * Kind(k, x) + found.index \in Int
  BY <1>1, <1>2
<1>4. addFullChilds(found.memory, o, 1) \in Memory
  <2>1. \A d \in Int : addFullChilds(found.memory, o, d) \in Memory
    BY <1>2, AddFullType DEF Updated
  <2> QED BY <2>1
<1> QED BY <1>2, <1>3, <1>4 DEF InChild, Found, Results

(* tryAllocIndex is what its definition says.                              *)
LEMMA TryEquation ==
  ASSUME NEW m \in Memory, NEW _size
  PROVE  \E try \in [Kinds -> [Nat -> Results]] :
           \A k \in Kinds, o \in Nat :
             /\ tryAllocIndex(m, o, k, _size) = try[k][o]
             /\ try[k][o] = TryAt(m, o, k, _size, try)
<1> DEFINE V == [Nat -> Results]
           F == [k \in Kinds |-> [f \in [Kinds -> V] |-> [at \in Nat |-> TryAt(m, at, k, _size, f)]]]
<1>1. ASSUME NEW k \in Kinds, NEW f \in [Kinds -> V], NEW at \in Nat
      PROVE  TryAt(m, at, k, _size, f) \in Results
  <2>1. Found(m, NoIndex) \in Results
    BY DEF Found, Results, NoIndex
  <2>2. Found(setOption(m, at, SOE_Reserved), 0) \in Results
    <3>1. \A option \in 0 .. 3 : setOption(m, at, option) \in Memory
      BY SetOptionType DEF Updated
    <3> QED BY <3>1 DEF Found, Results, SOE_Reserved
  <2>3. ASSUME k \notin Leaves, isSplit(m, at)
        PROVE  LET x == Option(m, at)
                   tries == {[i |-> i, found |-> f[Kind(k, x)][Child(at, k, x, i)]] :
                               i \in ChildIndexes(k, x)}
                   hits == {t \in tries : t.found.index # NoIndex}
               IN  hits # {} => InChild(at, k, x, First(hits).i, m, First(hits).found) \in Results
    <3>1. PICK x \in 1 .. 2 : x = Option(m, at)
      BY <2>3 DEF isSplit, SOE_Option1, SOE_Option2
    <3> DEFINE tries == {[i |-> i, found |-> f[Kind(k, x)][Child(at, k, x, i)]] :
                           i \in ChildIndexes(k, x)}
               hits == {t \in tries : t.found.index # NoIndex}
    <3>2. ASSUME NEW t \in tries PROVE t.i \in ChildIndexes(k, x) /\ t.found \in Results
      <4>1. PICK i \in ChildIndexes(k, x) : t = [i |-> i, found |-> f[Kind(k, x)][Child(at, k, x, i)]]
        OBVIOUS
      <4>2. Child(at, k, x, i) \in Nat /\ Kind(k, x) \in Kinds
        BY <2>3, ChildBytes, ChildFacts
      <4>3. f[Kind(k, x)][Child(at, k, x, i)] \in Results
        BY <4>2
      <4> QED BY <4>1, <4>3
    <3>3. \A t \in hits : t.i \in Nat
      BY <3>2 DEF ChildIndexes
    <3>4. ASSUME hits # {} PROVE InChild(at, k, x, First(hits).i, m, First(hits).found) \in Results
      <4>1. First(hits) \in hits
        <5> HIDE DEF hits
        <5> QED BY <3>3, <3>4, FirstOf
      <4>2. First(hits) \in tries
        BY <4>1
      <4>3. First(hits).i \in ChildIndexes(k, x) /\ First(hits).found \in Results
        <5> HIDE DEF hits, tries
        <5> QED BY <3>2, <4>2
      <4> HIDE DEF hits
      <4> QED BY <2>3, <4>3, InChildType
    <3> QED BY <3>1, <3>4
  <2> QED BY <2>1, <2>2, <2>3 DEF TryAt
<1>2. \A k \in Kinds, f \in [Kinds -> V] : F[k][f] \in V
  BY <1>1
<1>3. ASSUME NEW k \in Kinds, NEW f, NEW g, NEW at \in Nat, \A j \in Kinds : j < k => f[j] = g[j]
      PROVE  TryAt(m, at, k, _size, f) = TryAt(m, at, k, _size, g)
  <2>1. ASSUME k \notin Leaves, isSplit(m, at) PROVE f[Kind(k, Option(m, at))] = g[Kind(k, Option(m, at))]
    <3>1. Option(m, at) \in 1 .. 2
      BY <2>1 DEF isSplit, SOE_Option1, SOE_Option2
    <3> QED BY <1>3, <2>1, <3>1, ChildFacts
  <2> QED BY <2>1 DEF TryAt
<1>4. \A k \in Kinds, f, g \in [Kinds -> V] :
        (\A j \in Kinds : j < k => f[j] = g[j]) => F[k][f] = F[k][g]
  <2> HIDE DEF V
  <2> QED BY <1>3
<1>5. PICK f \in [Kinds -> V] : \A k \in Kinds : f[k] = F[k][f]
  <2>1. \E v : v \in V
    <3>1. Found(m, 0) \in Results
      BY DEF Found, Results
    <3>2. [at \in Nat |-> Found(m, 0)] \in V
      BY <3>1
    <3> HIDE DEF V
    <3> QED BY <3>2
  <2> HIDE DEF V, F
  <2>2. Recursive(V, F)
    BY <1>2, <1>4, <2>1 DEF Recursive
  <2> QED BY <2>2, KindRecursion
<1> DEFINE body(f_1) == [j \in Kinds |-> [at \in Nat |-> TryAt(m, at, j, _size, f_1)]]
           try == CHOOSE f_1 : f_1 = body(f_1)
<1>6. f = body(f)
  <2> HIDE DEF V
  <2> QED BY <1>5
<1>7. try = body(try)
  BY <1>6
<1>8. \A k \in Kinds, o \in Nat : tryAllocIndex(m, o, k, _size) = try[k][o]
  BY DEF tryAllocIndex, TryAt, FirstHit
<1>9. try = f
  <2> DEFINE S == {k \in Kinds : try[k] = f[k]}
  <2>1. ASSUME NEW k \in Kinds, \A j \in Kinds : j < k => j \in S PROVE k \in S
    <3>1. \A at \in Nat : TryAt(m, at, k, _size, try) = TryAt(m, at, k, _size, f)
      <4> HIDE DEF try
      <4> QED BY <1>3, <2>1
    <3> HIDE DEF try
    <3> QED BY <1>6, <1>7, <3>1
  <2>2. Kinds \subseteq S
    <3> HIDE DEF S
    <3> QED BY <2>1, KindInduction
  <2> HIDE DEF try
  <2> QED BY <1>6, <1>7, <2>2
<1>10. try \in [Kinds -> V] /\ \A k \in Kinds, o \in Nat : try[k][o] = TryAt(m, o, k, _size, try)
  <2> HIDE DEF try, V
  <2> QED BY <1>7, <1>9
<1> HIDE DEF try
<1> QED BY <1>8, <1>10
(* A child lies in the memory if its parent does.                          *)
LEMMA ChildWithin ==
  ASSUME NEW o, NEW k \in Kinds, k \notin Leaves, Within(o, k), NEW x \in 1 .. 2,
         NEW i \in ChildIndexes(k, x)
  PROVE  Within(Child(o, k, x, i), Kind(k, x)) /\ Kind(k, x) \in Kinds /\ Kind(k, x) < k
<1>1. o \in Nat /\ Area(o, k) \subseteq Addresses
  BY DEF Within
<1>2. Child(o, k, x, i) \in Nat /\ Area(Child(o, k, x, i), Kind(k, x)) \subseteq Area(o, k)
  BY <1>1, ChildArea
<1> QED BY <1>1, <1>2, ChildFacts DEF Within

(* An empty node becomes a block.                                          *)
LEMMA WholeServes ==
  ASSUME NEW m \in Memory, NEW k \in Kinds, NEW o, Within(o, k), Good(m, o, k), isEmpty(m, o)
  PROVE  ServedIn(m, o, k, k, Found(setOption(m, o, SOE_Reserved), 0))
<1> DEFINE n == setOption(m, o, SOE_Reserved)
<1>1. /\ o \in Nat /\ o \in Addresses /\ IsBlank(m, o, k) /\ o \in Area(o, k)
  BY GoodCases, BytesPositive DEF Area
<1>2. /\ n \in Memory /\ n[o] = [Option |-> SOE_Reserved, fullChilds |-> m[o].fullChilds]
      /\ \A a \in Addresses : a # o => n[a] = m[a]
  <2>1. \A option \in 0 .. 3 :
          Updated(m, setOption(m, o, option), o, [Option |-> option, fullChilds |-> m[o].fullChilds])
    BY SetOptionType
  <2>2. Updated(m, n, o, [Option |-> SOE_Reserved, fullChilds |-> m[o].fullChilds])
    BY <2>1 DEF SOE_Reserved
  <2> HIDE DEF n
  <2> QED BY <1>1, <2>2 DEF Updated
<1>3. m[o] = Blank
  BY <1>1 DEF IsBlank
<1> HIDE DEF n
<1>4. Option(n, o) = SOE_Reserved /\ n[o].fullChilds = 0
  BY <1>2, <1>3 DEF Option, Blank
<1>5. isReserved(n, o) /\ ~ isEmpty(n, o) /\ ~ isSplit(n, o)
  BY <1>4 DEF isReserved, isEmpty, isSplit, SOE_Reserved, SOE_Empty, SOE_Option1, SOE_Option2
<1>6. Area(o, k) \subseteq Addresses
  BY DEF Within
<1>7. Closed(n, o, k)
  BY <1>1, <1>2, <1>4, <1>5, <1>6 DEF Closed, IsBlank
<1>8. Good(n, o, k)
  BY <1>1, <1>5, <1>7, GoodUnfold DEF NodeGood
<1>9. Blocks(n, o, k) = {Block(0, k)}
  BY <1>1, <1>5, BlocksOfWhole
<1>10. Blocks(m, o, k) = {}
  BY <1>1, BlankIsGood
<1>11. ~ full(m, o, k)
  BY <1>3 DEF full, isReserved, isSplit, Option, Blank, SOE_Reserved, SOE_Empty, SOE_Option1, SOE_Option2
<1>12. Found(n, 0).memory = n /\ Found(n, 0).index = 0
  BY DEF Found
<1>13. ServedIn(m, o, k, k, Found(n, 0))
  BY <1>1, <1>2, <1>5, <1>8, <1>9, <1>10, <1>11, <1>12 DEF ServedIn
<1> QED BY <1>13 DEF n

(* tryAllocIndex finds no node, or makes one a block.                      *)
Tried(m, o, k, _size, found) ==
  IF found.index = NoIndex THEN found.memory = m ELSE ServedIn(m, o, k, _size, found)

LEMMA TryServes ==
  ASSUME NEW m \in Memory, NEW _size, NEW k \in Kinds, NEW o, Within(o, k), Good(m, o, k)
  PROVE  /\ Tried(m, o, k, _size, tryAllocIndex(m, o, k, _size))
         /\ isEmpty(m, o) /\ k = _size => tryAllocIndex(m, o, k, _size).index # NoIndex
<1>1. PICK try \in [Kinds -> [Nat -> Results]] :
        \A j \in Kinds, a \in Nat :
          /\ tryAllocIndex(m, a, j, _size) = try[j][a]
          /\ try[j][a] = TryAt(m, a, j, _size, try)
  BY TryEquation
<1> DEFINE Right(j, a) == Within(a, j) /\ Good(m, a, j) => Tried(m, a, j, _size, try[j][a])
           S == {j \in Kinds : \A a \in Nat : Right(j, a)}
<1>2. \A n, index : Found(n, index).memory = n /\ Found(n, index).index = index
  BY DEF Found
<1>3. ASSUME NEW j \in Kinds, \A l \in Kinds : l < j => l \in S,
             NEW a \in Nat, Within(a, j), Good(m, a, j)
      PROVE  Tried(m, a, j, _size, try[j][a])
  <2>1. try[j][a] = TryAt(m, a, j, _size, try)
    BY <1>1
  <2>2. Tried(m, a, j, _size, Found(m, NoIndex))
    BY <1>2 DEF Tried
  <2>3. CASE isEmpty(m, a) /\ j = _size
    <3>1. ServedIn(m, a, j, j, Found(setOption(m, a, SOE_Reserved), 0))
      BY <1>3, <2>3, WholeServes
    <3>2. try[j][a] = Found(setOption(m, a, SOE_Reserved), 0)
      BY <2>1, <2>3 DEF TryAt
    <3> QED BY <1>2, <2>3, <3>1, <3>2 DEF Tried, NoIndex
  <2>4. CASE ~ (isEmpty(m, a) /\ j = _size) /\ (j \in Leaves \/ ~ isSplit(m, a) \/ full(m, a, j))
    BY <2>1, <2>2, <2>4 DEF TryAt
  <2>5. CASE ~ (isEmpty(m, a) /\ j = _size) /\ ~ (j \in Leaves \/ ~ isSplit(m, a) \/ full(m, a, j))
    <3>1. PICK x \in 1 .. 2 : x = Option(m, a)
      BY <2>5 DEF isSplit, SOE_Option1, SOE_Option2
    <3> DEFINE tries == {[i |-> i, found |-> try[Kind(j, x)][Child(a, j, x, i)]] :
                           i \in ChildIndexes(j, x)}
               hits == {t \in tries : t.found.index # NoIndex}
    <3>2. try[j][a] = IF hits = {} THEN Found(m, NoIndex)
                      ELSE InChild(a, j, x, First(hits).i, m, First(hits).found)
      BY <2>1, <2>5, <3>1 DEF TryAt
    <3>3. ASSUME NEW t \in hits
          PROVE  /\ t.i \in ChildIndexes(j, x)
                 /\ ServedIn(m, Child(a, j, x, t.i), Kind(j, x), _size, t.found)
      <4>1. PICK i \in ChildIndexes(j, x) : t = [i |-> i, found |-> try[Kind(j, x)][Child(a, j, x, i)]]
        OBVIOUS
      <4>2. t.found.index # NoIndex
        OBVIOUS
      <4>3. t.i = i /\ t.found = try[Kind(j, x)][Child(a, j, x, i)]
        BY <4>1
      <4>4. Within(Child(a, j, x, i), Kind(j, x)) /\ Kind(j, x) \in Kinds /\ Kind(j, x) < j
        BY <1>3, <2>5, ChildWithin
      <4>5. Good(m, Child(a, j, x, i), Kind(j, x))
        BY <1>3, <2>5, <3>1, ReadyIsGood DEF Ready
      <4>6. Tried(m, Child(a, j, x, i), Kind(j, x), _size, try[Kind(j, x)][Child(a, j, x, i)])
        <5>1. Child(a, j, x, i) \in Nat
          BY <4>4 DEF Within
        <5> QED BY <1>3, <4>4, <4>5, <5>1
      <4> HIDE DEF hits, tries
      <4> QED BY <4>2, <4>3, <4>6 DEF Tried
    <3>4. CASE hits = {}
      BY <2>2, <3>2, <3>4
    <3>5. CASE hits # {}
      <4>1. First(hits) \in hits
        <5>1. \A t \in hits : t.i \in Nat
          BY <3>3 DEF ChildIndexes
        <5> HIDE DEF hits
        <5> QED BY <3>5, <5>1, FirstOf
      <4>2. PICK t \in hits : t = First(hits)
        BY <4>1
      <4> HIDE DEF hits
      <4>3. Ready(m, a, j, x)
        BY <1>3, <2>5, <3>1, ReadyIsGood
      <4>4. ServedIn(m, a, j, _size, InChild(a, j, x, t.i, m, t.found))
        BY <1>3, <2>5, <3>3, <4>3, InChildServes
      <4>5. try[j][a] = InChild(a, j, x, t.i, m, t.found)
        BY <3>2, <3>5, <4>2
      <4>6. try[j][a].index # NoIndex
        BY <4>4, <4>5 DEF ServedIn, NoIndex
      <4> QED BY <4>4, <4>5, <4>6 DEF Tried
    <3> QED BY <3>4, <3>5
  <2> QED BY <2>3, <2>4, <2>5
<1>4. Kinds \subseteq S
  <2>1. ASSUME NEW j \in Kinds, \A l \in Kinds : l < j => l \in S PROVE j \in S
    BY <1>3, <2>1
  <2> HIDE DEF S
  <2> QED BY <2>1, KindInduction
<1>5. o \in Nat
  BY DEF Within
<1>6. ASSUME isEmpty(m, o), k = _size PROVE try[k][o].index = 0
  <2>1. TryAt(m, o, k, _size, try) = Found(setOption(m, o, SOE_Reserved), 0)
    BY <1>6 DEF TryAt
  <2>2. try[k][o] = TryAt(m, o, k, _size, try)
    BY <1>1, <1>5
  <2> QED BY <1>2, <2>1, <2>2
<1> QED BY <1>1, <1>4, <1>5, <1>6 DEF NoIndex
-----------------------------------------------------------------------------
(* getSplitCost.                                                           *)

CostAt(m, at, j, _size, cost) ==
  IF j \in Leaves \/ j < _size THEN Infinite
  ELSE IF j = _size THEN (IF isEmpty(m, at) THEN 0 ELSE Infinite)
  ELSE IF isEmpty(m, at)
    THEN LET least == Min({cost[Kind(j, x)][at + 1] : x \in 1 .. 2})
         IN  IF least # Infinite THEN least + j * j
             ELSE IF \E x \in 1 .. 2 : Kind(j, x) = _size THEN j * j ELSE Infinite
  ELSE IF ~ isSplit(m, at) THEN Infinite
  ELSE LET x == Option(m, at)
       IN  Min({cost[Kind(j, x)][Child(at, j, x, i)] : i \in ChildIndexes(j, x)})

(* The least cost of a node's children of both options, or of one option.  *)
LEMMA LeastCost ==
  ASSUME NEW k \in Kinds, k \notin Leaves, NEW f \in [Kinds -> [Nat -> Nat]], NEW at \in Nat
  PROVE  /\ Min({f[Kind(k, y)][at + 1] : y \in 1 .. 2}) \in Nat
         /\ \A x \in 1 .. 2 :
              /\ f[Kind(k, x)][at + 1] \in Nat
              /\ Min({f[Kind(k, y)][at + 1] : y \in 1 .. 2}) <= f[Kind(k, x)][at + 1]
         /\ \E x \in 1 .. 2 : Min({f[Kind(k, y)][at + 1] : y \in 1 .. 2}) = f[Kind(k, x)][at + 1]
<1> DEFINE costs == {f[Kind(k, y)][at + 1] : y \in 1 .. 2}
<1>1. ASSUME NEW y \in 1 .. 2 PROVE f[Kind(k, y)][at + 1] \in Nat
  <2>1. Kind(k, y) \in Kinds
    BY ChildFacts
  <2> QED BY <2>1
<1>2. costs \in SUBSET Nat /\ costs # {}
  BY <1>1
<1>3. Min(costs) \in costs /\ \A c \in costs : Min(costs) <= c
  <2> HIDE DEF costs
  <2> QED BY <1>2, MinOfNaturals
<1> QED BY <1>1, <1>3

CostsBelow(f, at, k, x) == {f[Kind(k, x)][Child(at, k, x, i)] : i \in ChildIndexes(k, x)}
LEMMA LeastChildCost ==
  ASSUME NEW k \in Kinds, k \notin Leaves, NEW f \in [Kinds -> [Nat -> Nat]], NEW at \in Nat,
         NEW x \in 1 .. 2
  PROVE  /\ Min(CostsBelow(f, at, k, x)) \in Nat
         /\ \A i \in ChildIndexes(k, x) :
              /\ f[Kind(k, x)][Child(at, k, x, i)] \in Nat
              /\ Min(CostsBelow(f, at, k, x))
                   <= f[Kind(k, x)][Child(at, k, x, i)]
         /\ \E i \in ChildIndexes(k, x) :
              Min(CostsBelow(f, at, k, x))
                = f[Kind(k, x)][Child(at, k, x, i)]
<1> DEFINE costs == CostsBelow(f, at, k, x)
<1>1. ASSUME NEW i \in ChildIndexes(k, x) PROVE f[Kind(k, x)][Child(at, k, x, i)] \in Nat
  <2>1. Kind(k, x) \in Kinds /\ Child(at, k, x, i) \in Nat
    BY ChildFacts, ChildArea
  <2> QED BY <2>1
<1>2. 0 \in ChildIndexes(k, x)
  <2>1. PICK n \in 2 .. 5 : n = SplitOf[k][x].number
    BY ChildFacts
  <2> QED BY <2>1 DEF ChildIndexes
<1>3. costs \in SUBSET Nat /\ costs # {}
  BY <1>1, <1>2 DEF CostsBelow
<1>4. Min(costs) \in costs /\ \A c \in costs : Min(costs) <= c
  <2> HIDE DEF costs
  <2> QED BY <1>3, MinOfNaturals
<1> QED BY <1>1, <1>4 DEF CostsBelow

LEMMA SquareIsNatural ==
  ASSUME NEW k \in Kinds
  PROVE  k * k \in Nat /\ k * k <= 10000
<1>1. k \in 1 .. 100
  BY KindFacts
<1>2. k * k <= 100 * k
  BY <1>1, Z3
<1> QED BY <1>1, <1>2, Z3

(* getSplitCost is what its definition says.                               *)
IsCost(m, _size, cost) ==
  /\ cost \in [Kinds -> [Nat -> Nat]]
  /\ \A k \in Kinds, o \in Nat :
       /\ getSplitCost(m, o, k, _size) = cost[k][o]
       /\ cost[k][o] = CostAt(m, o, k, _size, cost)
LEMMA CostEquation ==
  ASSUME NEW m, NEW _size
  PROVE  \E cost : IsCost(m, _size, cost)
<1> DEFINE V == [Nat -> Nat]
           F == [k \in Kinds |-> [f \in [Kinds -> V] |-> [at \in Nat |-> CostAt(m, at, k, _size, f)]]]
<1>1. ASSUME NEW k \in Kinds, NEW f \in [Kinds -> V], NEW at \in Nat
      PROVE  CostAt(m, at, k, _size, f) \in Nat
  <2>1. k * k \in Nat /\ Infinite \in Nat /\ 0 \in Nat
    BY SquareIsNatural DEF Infinite
  <2>2. ASSUME k \notin Leaves PROVE Min({f[Kind(k, x)][at + 1] : x \in 1 .. 2}) \in Nat
    BY <1>1, <2>2, LeastCost
  <2>3. ASSUME k \notin Leaves, isSplit(m, at)
        PROVE  Min({f[Kind(k, Option(m, at))][Child(at, k, Option(m, at), i)] :
                      i \in ChildIndexes(k, Option(m, at))}) \in Nat
    <3>1. PICK x \in 1 .. 2 : x = Option(m, at)
      BY <2>3 DEF isSplit, SOE_Option1, SOE_Option2
    <3>2. Min(CostsBelow(f, at, k, x)) \in Nat
      BY <2>3, LeastChildCost
    <3> QED BY <3>1, <3>2 DEF CostsBelow
  <2>4. \A c \in Nat : c + k * k \in Nat
    BY <2>1
  <2> HIDE DEF V
  <2> QED BY <2>1, <2>2, <2>3, <2>4 DEF CostAt
<1>2. \A k \in Kinds, f \in [Kinds -> V] : F[k][f] \in V
  BY <1>1
<1>3. ASSUME NEW k \in Kinds, NEW f, NEW g, NEW at \in Nat, \A j \in Kinds : j < k => f[j] = g[j]
      PROVE  CostAt(m, at, k, _size, f) = CostAt(m, at, k, _size, g)
  <2>1. ASSUME k \notin Leaves, NEW x \in 1 .. 2 PROVE f[Kind(k, x)] = g[Kind(k, x)]
    BY <1>3, <2>1, ChildFacts
  <2>2. isSplit(m, at) => Option(m, at) \in 1 .. 2
    BY DEF isSplit, SOE_Option1, SOE_Option2
  <2>3. k \notin Leaves => {f[Kind(k, x)][at + 1] : x \in 1 .. 2} = {g[Kind(k, x)][at + 1] : x \in 1 .. 2}
    BY <2>1
  <2> QED BY <2>1, <2>2, <2>3 DEF CostAt
<1>4. \A k \in Kinds, f, g \in [Kinds -> V] :
        (\A j \in Kinds : j < k => f[j] = g[j]) => F[k][f] = F[k][g]
  <2> HIDE DEF V
  <2> QED BY <1>3
<1>5. PICK f \in [Kinds -> V] : \A k \in Kinds : f[k] = F[k][f]
  <2>1. [at \in Nat |-> 0] \in V
    OBVIOUS
  <2> HIDE DEF V, F
  <2>2. Recursive(V, F)
    BY <1>2, <1>4, <2>1 DEF Recursive
  <2> QED BY <2>2, KindRecursion
<1> DEFINE body(f_1) == [j \in Kinds |-> [at \in Nat |-> CostAt(m, at, j, _size, f_1)]]
           cost == CHOOSE f_1 : f_1 = body(f_1)
<1>6. f = body(f)
  <2> HIDE DEF V
  <2> QED BY <1>5
<1>7. cost = body(cost)
  BY <1>6
<1>8. \A k \in Kinds, o \in Nat : getSplitCost(m, o, k, _size) = cost[k][o]
  BY DEF getSplitCost, CostAt
<1>9. cost = f
  <2> DEFINE S == {k \in Kinds : cost[k] = f[k]}
  <2>1. ASSUME NEW k \in Kinds, \A j \in Kinds : j < k => j \in S PROVE k \in S
    <3>1. \A at \in Nat : CostAt(m, at, k, _size, cost) = CostAt(m, at, k, _size, f)
      <4> HIDE DEF cost
      <4> QED BY <1>3, <2>1
    <3> HIDE DEF cost
    <3> QED BY <1>6, <1>7, <3>1
  <2>2. Kinds \subseteq S
    <3> HIDE DEF S
    <3> QED BY <2>1, KindInduction
  <2> HIDE DEF cost
  <2> QED BY <1>6, <1>7, <2>2
<1>10. cost \in [Kinds -> V] /\ \A k \in Kinds, o \in Nat : cost[k][o] = CostAt(m, o, k, _size, cost)
  <2> HIDE DEF cost, V
  <2> QED BY <1>7, <1>9
<1> HIDE DEF cost
<1>11. IsCost(m, _size, cost)
  BY <1>8, <1>10 DEF IsCost
<1> QED BY <1>11

(* KindsIn is what its definition says: kinds up to the node's own.        *)
KindsAt(k, kindsIn) ==
  {k} \cup (IF k \in Leaves THEN {} ELSE UNION {kindsIn[Kind(k, x)] : x \in 1 .. 2})
LEMMA KindsEquation ==
  \A k \in Kinds : /\ KindsIn[k] = KindsAt(k, KindsIn)
                   /\ KindsIn[k] \in SUBSET Kinds /\ \A j \in KindsIn[k] : j <= k
<1> DEFINE V == SUBSET Kinds
           F == [k \in Kinds |-> [f \in [Kinds -> V] |-> KindsAt(k, f)]]
<1>1. ASSUME NEW k \in Kinds, NEW f \in [Kinds -> V] PROVE KindsAt(k, f) \in V
  <2>1. ASSUME k \notin Leaves, NEW x \in 1 .. 2 PROVE f[Kind(k, x)] \in V
    <3>1. Kind(k, x) \in Kinds
      BY <2>1, ChildFacts
    <3> HIDE DEF V
    <3> QED BY <3>1
  <2> QED BY <2>1 DEF KindsAt
<1>2. ASSUME NEW k \in Kinds, NEW f, NEW g, \A j \in Kinds : j < k => f[j] = g[j]
      PROVE  KindsAt(k, f) = KindsAt(k, g)
  <2>1. ASSUME k \notin Leaves, NEW x \in 1 .. 2 PROVE f[Kind(k, x)] = g[Kind(k, x)]
    BY <1>2, <2>1, ChildFacts
  <2> QED BY <2>1 DEF KindsAt
<1>3. PICK f \in [Kinds -> V] : \A k \in Kinds : f[k] = F[k][f]
  <2>1. {} \in V
    OBVIOUS
  <2>2. \A k \in Kinds, g \in [Kinds -> V] : F[k][g] \in V
    BY <1>1
  <2>3. \A k \in Kinds, g, h \in [Kinds -> V] :
          (\A j \in Kinds : j < k => g[j] = h[j]) => F[k][g] = F[k][h]
    <3> HIDE DEF V
    <3> QED BY <1>2
  <2> HIDE DEF V, F
  <2>4. Recursive(V, F)
    BY <2>1, <2>2, <2>3 DEF Recursive
  <2> QED BY <2>4, KindRecursion
<1>4. f = [k \in Kinds |-> KindsAt(k, f)]
  <2> HIDE DEF V
  <2> QED BY <1>3
<1>5. KindsIn = [k \in Kinds |-> KindsAt(k, KindsIn)]
  BY <1>4 DEF KindsIn, KindsAt
<1> HIDE DEF KindsIn
<1> DEFINE S == {k \in Kinds : KindsIn[k] \in SUBSET Kinds /\ \A j \in KindsIn[k] : j <= k}
<1>6. ASSUME NEW k \in Kinds, \A j \in Kinds : j < k => j \in S PROVE k \in S
  <2>1. k \in Nat /\ k <= k
    BY KindIsNatural
  <2>2. ASSUME k \notin Leaves, NEW x \in 1 .. 2, NEW j \in KindsIn[Kind(k, x)]
        PROVE  j \in Kinds /\ j <= k
    <3>1. Kind(k, x) \in Kinds /\ Kind(k, x) < k
      BY <2>2, ChildFacts
    <3>2. j \in Kinds /\ j <= Kind(k, x)
      BY <1>6, <2>2, <3>1
    <3>3. j \in Nat /\ Kind(k, x) \in Nat
      BY <3>1, <3>2, KindIsNatural
    <3> QED BY <2>1, <3>1, <3>2, <3>3
  <2>3. KindsIn[k] = KindsAt(k, KindsIn)
    BY <1>5
  <2>4. \A j \in KindsIn[k] : j \in Kinds /\ j <= k
    BY <2>1, <2>2, <2>3 DEF KindsAt
  <2> QED BY <2>4
<1>7. Kinds \subseteq S
  <2> HIDE DEF S
  <2> QED BY <1>6, KindInduction
<1> QED BY <1>5, <1>7
(* A kind is among those of a tree if it is the tree's or a child's.       *)
LEMMA KindsInCases ==
  ASSUME NEW k \in Kinds
  PROVE  /\ k \in KindsIn[k]
         /\ k \in Leaves => KindsIn[k] = {k}
         /\ k \notin Leaves =>
              /\ \A x \in 1 .. 2 : \A j \in KindsIn[Kind(k, x)] : j \in KindsIn[k]
              /\ \A j \in KindsIn[k] : j = k \/ \E x \in 1 .. 2 : j \in KindsIn[Kind(k, x)]
<1>1. KindsIn[k] = KindsAt(k, KindsIn)
  BY KindsEquation
<1> HIDE DEF KindsIn
<1> QED BY <1>1 DEF KindsAt

(* A cost that is not Infinite is far below it, and the tree has a node of *)
(* the size.                                                               *)
Affordable(k, _size, cost) ==
  cost # Infinite => /\ cost <= 10000 * (k - 1) /\ k \notin Leaves /\ _size \in KindsIn[k]

LEMMA FiniteCost ==
  ASSUME NEW m, NEW _size \in Nat, NEW k \in Kinds, NEW o \in Nat
  PROVE  Affordable(k, _size, getSplitCost(m, o, k, _size))
<1>0. PICK cost : IsCost(m, _size, cost)
  BY CostEquation
<1>1. /\ cost \in [Kinds -> [Nat -> Nat]]
      /\ \A j \in Kinds, a \in Nat :
           /\ getSplitCost(m, a, j, _size) = cost[j][a]
           /\ cost[j][a] = CostAt(m, a, j, _size, cost)
  BY <1>0 DEF IsCost
<1> DEFINE S == {j \in Kinds : \A a \in Nat : Affordable(j, _size, cost[j][a])}
<1>2. ASSUME NEW j \in Kinds, \A l \in Kinds : l < j => l \in S, NEW a \in Nat
      PROVE  Affordable(j, _size, cost[j][a])
  <2>1. cost[j][a] = CostAt(m, a, j, _size, cost)
    BY <1>1
  <2>2. CASE j \in Leaves \/ j < _size
    BY <2>1, <2>2 DEF CostAt, Affordable
  <2>3. CASE ~ (j \in Leaves \/ j < _size) /\ j = _size
    <3>1. cost[j][a] \in {0, Infinite}
      BY <2>1, <2>3 DEF CostAt
    <3>2. _size \in KindsIn[j] /\ j \in 1 .. 100
      BY <2>3, KindsInCases, KindFacts
    <3>3. 0 <= 10000 * (j - 1)
      BY <3>2
    <3> QED BY <2>3, <3>1, <3>2, <3>3 DEF Affordable
  <2>4. CASE ~ (j \in Leaves \/ j < _size) /\ j # _size
    <3>1. j \in 2 .. 100 /\ j * j \in Nat /\ j * j <= 10000
      <4>1. j # 1
        BY <2>4 DEF Leaves
      <4> QED BY <4>1, KindFacts, SquareIsNatural
    <3>2. ASSUME NEW x \in 1 .. 2, NEW c \in Nat, c # Infinite,
                 Affordable(Kind(j, x), _size, c)
          PROVE  /\ c <= 10000 * (j - 2) /\ _size \in KindsIn[j]
      <4>1. Kind(j, x) \in Nat /\ Kind(j, x) <= j - 1
        BY <2>4, <3>1, ChildFacts
      <4>2. c <= 10000 * (Kind(j, x) - 1) /\ _size \in KindsIn[Kind(j, x)]
        BY <3>2 DEF Affordable
      <4> QED BY <2>4, <3>1, <4>1, <4>2, KindsInCases
    <3>3. ASSUME NEW x \in 1 .. 2, NEW at \in Nat
          PROVE  Affordable(Kind(j, x), _size, cost[Kind(j, x)][at])
      BY <1>2, <2>4, ChildFacts
    <3>4. CASE isEmpty(m, a)
      <4> DEFINE least == Min({cost[Kind(j, x)][a + 1] : x \in 1 .. 2})
      <4>1. cost[j][a] = IF least # Infinite THEN least + j * j
                         ELSE IF \E x \in 1 .. 2 : Kind(j, x) = _size THEN j * j ELSE Infinite
        BY <2>1, <2>4, <3>4 DEF CostAt
      <4>2. PICK x \in 1 .. 2 : least = cost[Kind(j, x)][a + 1]
        BY <1>1, <2>4, LeastCost
      <4>3. least \in Nat
        BY <1>1, <2>4, LeastCost
      <4> HIDE DEF least
      <4>4. CASE least # Infinite
        <5>1. Affordable(Kind(j, x), _size, least)
          BY <3>3, <4>2
        <5>2. least <= 10000 * (j - 2) /\ _size \in KindsIn[j]
          BY <3>2, <4>3, <4>4, <5>1
        <5>3. least + j * j <= 10000 * (j - 1)
          BY <3>1, <4>3, <5>2
        <5> QED BY <2>4, <4>1, <4>4, <5>2, <5>3 DEF Affordable
      <4>5. CASE least = Infinite
        <5>1. CASE \E y \in 1 .. 2 : Kind(j, y) = _size
          <6>1. PICK y \in 1 .. 2 : Kind(j, y) = _size
            BY <5>1
          <6>2. _size \in KindsIn[Kind(j, y)]
            BY <2>4, <6>1, ChildFacts, KindsInCases
          <6>3. _size \in KindsIn[j]
            BY <2>4, <6>2, KindsInCases
          <6>4. j * j <= 10000 * (j - 1)
            BY <3>1
          <6> QED BY <2>4, <4>1, <4>5, <5>1, <6>3, <6>4 DEF Affordable
        <5>2. CASE ~ \E y \in 1 .. 2 : Kind(j, y) = _size
          BY <4>1, <4>5, <5>2 DEF Affordable
        <5> QED BY <5>1, <5>2
      <4> QED BY <4>4, <4>5
    <3>5. CASE ~ isEmpty(m, a) /\ isSplit(m, a)
      <4>1. PICK x \in 1 .. 2 : x = Option(m, a)
        BY <3>5 DEF isSplit, SOE_Option1, SOE_Option2
      <4>2. cost[j][a] = Min(CostsBelow(cost, a, j, x))
        BY <2>1, <2>4, <3>5, <4>1 DEF CostAt, CostsBelow
      <4>3. PICK i \in ChildIndexes(j, x) :
              Min(CostsBelow(cost, a, j, x)) = cost[Kind(j, x)][Child(a, j, x, i)]
        BY <1>1, <2>4, LeastChildCost
      <4>4. cost[j][a] \in Nat
        BY <1>1
      <4>5. Affordable(Kind(j, x), _size, cost[j][a])
        <5>1. Child(a, j, x, i) \in Nat
          BY <2>4, ChildArea
        <5> QED BY <3>3, <4>2, <4>3, <5>1
      <4>6. ASSUME cost[j][a] # Infinite
            PROVE  cost[j][a] <= 10000 * (j - 2) /\ _size \in KindsIn[j]
        BY <3>2, <4>4, <4>5, <4>6
      <4>7. cost[j][a] <= 10000 * (j - 2) => cost[j][a] <= 10000 * (j - 1)
        BY <3>1, <4>4
      <4> QED BY <2>4, <4>6, <4>7 DEF Affordable
    <3>6. CASE ~ isEmpty(m, a) /\ ~ isSplit(m, a)
      BY <2>1, <2>4, <3>6 DEF CostAt, Affordable
    <3> QED BY <3>4, <3>5, <3>6
  <2> QED BY <2>2, <2>3, <2>4
<1>3. Kinds \subseteq S
  <2>1. ASSUME NEW j \in Kinds, \A l \in Kinds : l < j => l \in S PROVE j \in S
    BY <1>2, <2>1
  <2> HIDE DEF S
  <2> QED BY <2>1, KindInduction
<1> QED BY <1>1, <1>3

(* A blank node that can be divided for the size has a cost.               *)
LEMMA BlankCost ==
  ASSUME NEW m, NEW _size \in Nat, NEW k \in Kinds, NEW o \in Nat,
         IsBlank(m, o, k), possibleSplit(k, _size)
  PROVE  getSplitCost(m, o, k, _size) # Infinite
<1>0. PICK cost : IsCost(m, _size, cost)
  BY CostEquation
<1>1. /\ cost \in [Kinds -> [Nat -> Nat]]
      /\ \A j \in Kinds, a \in Nat :
           /\ getSplitCost(m, a, j, _size) = cost[j][a]
           /\ cost[j][a] = CostAt(m, a, j, _size, cost)
  BY <1>0 DEF IsCost
<1> DEFINE Right(j, a) == IsBlank(m, a, j) /\ possibleSplit(j, _size) => cost[j][a] # Infinite
           S == {j \in Kinds : \A a \in Nat : Right(j, a)}
<1>2. ASSUME NEW j \in Kinds, \A l \in Kinds : l < j => l \in S, NEW a \in Nat,
             IsBlank(m, a, j), possibleSplit(j, _size)
      PROVE  cost[j][a] # Infinite
  <2>1. cost[j][a] = CostAt(m, a, j, _size, cost)
    BY <1>1
  <2>2. j \notin Leaves /\ _size \in KindsIn[j] /\ isEmpty(m, a) /\ _size <= j /\ j \in Nat
    BY <1>2, BlankIsGood, KindsEquation, KindIsNatural DEF possibleSplit
  <2>3. ~ (j \in Leaves \/ j < _size)
    BY <2>2
  <2>4. CASE j = _size
    BY <2>1, <2>2, <2>3, <2>4 DEF CostAt, Infinite
  <2>5. CASE j # _size
    <3> DEFINE least == Min({cost[Kind(j, x)][a + 1] : x \in 1 .. 2})
    <3>1. cost[j][a] = IF least # Infinite THEN least + j * j
                       ELSE IF \E x \in 1 .. 2 : Kind(j, x) = _size THEN j * j ELSE Infinite
      BY <2>1, <2>2, <2>3, <2>5 DEF CostAt
    <3>2. PICK y \in 1 .. 2 : least = cost[Kind(j, y)][a + 1]
      BY <1>1, <2>2, LeastCost
    <3>3. least \in Nat /\ \A x \in 1 .. 2 : cost[Kind(j, x)][a + 1] \in Nat /\ least <= cost[Kind(j, x)][a + 1]
      BY <1>1, <2>2, LeastCost
    <3> HIDE DEF least
    <3>4. j * j \in Nat /\ j * j <= 10000
      BY SquareIsNatural
    <3>5. ASSUME NEW x \in 1 .. 2
          PROVE  /\ Kind(j, x) \in Kinds /\ Kind(j, x) < j /\ Kind(j, x) <= 99
                 /\ Affordable(Kind(j, x), _size, cost[Kind(j, x)][a + 1])
                 /\ IsBlank(m, a + 1, Kind(j, x))
      <4>1. Kind(j, x) \in Kinds /\ Kind(j, x) < j /\ Kind(j, x) \in Nat
        BY <2>2, ChildFacts
      <4>2. j <= 100
        <5>1. j \in 1 .. 100
          BY KindFacts
        <5> QED BY <5>1
      <4>3. 0 \in ChildIndexes(j, x) /\ Child(a, j, x, 0) = a + 1
        <5>1. PICK n \in 2 .. 5 : n = SplitOf[j][x].number
          BY <2>2, ChildFacts
        <5>2. Bytes[Kind(j, x)] \in Nat
          BY <4>1, BytesPositive
        <5> QED BY <5>1, <5>2 DEF ChildIndexes, Child
      <4>4. IsBlank(m, a + 1, Kind(j, x))
        <5>1. Closed(m, a, j)
          BY <1>2, BlankIsGood
        <5>2. IsBlank(m, Child(a, j, x, 0), Kind(j, x))
          BY <2>2, <4>3, <5>1, ClosedChildren
        <5> QED BY <4>3, <5>2
      <4>5. Affordable(Kind(j, x), _size, cost[Kind(j, x)][a + 1])
        <5>1. a + 1 \in Nat
          OBVIOUS
        <5> QED BY <1>1, <4>1, <5>1, FiniteCost
      <4> QED BY <2>2, <4>1, <4>2, <4>4, <4>5
    <3>6. CASE least # Infinite
      <4>1. least <= 10000 * (Kind(j, y) - 1)
        BY <3>2, <3>5, <3>6 DEF Affordable
      <4>2. Kind(j, y) \in Nat /\ Kind(j, y) <= 99
        BY <3>5, KindIsNatural
      <4>3. least + j * j # 1000000
        BY <3>3, <3>4, <4>1, <4>2
      <4> QED BY <3>1, <3>6, <4>3 DEF Infinite
    <3>7. CASE least = Infinite
      <4>1. PICK x \in 1 .. 2 : _size \in KindsIn[Kind(j, x)]
        BY <2>2, <2>5, KindsInCases
      <4>2. CASE Kind(j, x) \in Leaves
        <5>1. Kind(j, x) = _size
          BY <3>5, <4>1, <4>2, KindsInCases
        <5> QED BY <3>1, <3>4, <3>7, <5>1 DEF Infinite
      <4>3. CASE Kind(j, x) \notin Leaves
        <5>1. possibleSplit(Kind(j, x), _size)
          BY <4>1, <4>3 DEF possibleSplit
        <5>2. cost[Kind(j, x)][a + 1] # Infinite
          <6>1. a + 1 \in Nat
            OBVIOUS
          <6> QED BY <1>2, <3>5, <5>1, <6>1
        <5>3. cost[Kind(j, x)][a + 1] <= 10000 * (Kind(j, x) - 1)
          BY <3>5, <5>2 DEF Affordable
        <5>4. Kind(j, x) \in Nat /\ Kind(j, x) <= 99
          BY <3>5, KindIsNatural
        <5>5. least < 1000000
          BY <3>3, <5>3, <5>4
        <5> QED BY <3>7, <5>5 DEF Infinite
      <4> QED BY <4>2, <4>3
    <3> QED BY <3>6, <3>7
  <2> QED BY <2>4, <2>5
<1>3. Kinds \subseteq S
  <2>1. ASSUME NEW j \in Kinds, \A l \in Kinds : l < j => l \in S PROVE j \in S
    BY <1>2, <2>1
  <2> HIDE DEF S
  <2> QED BY <2>1, KindInduction
<1> QED BY <1>1, <1>3
-----------------------------------------------------------------------------
(* allocNode.                                                              *)

(* The least cost chosen from, if any is not Infinite.                     *)
LEMMA CheapestOf ==
  ASSUME NEW S, \A e \in S : e.i \in Nat /\ e.cost \in Nat
  PROVE  \/ Cheapest(S) = NoIndex /\ \A e \in S : e.cost = Infinite
         \/ \E e \in S : e.i = Cheapest(S) /\ e.cost # Infinite
<1> DEFINE possible == {e \in S : e.cost # Infinite}
           least == {e \in possible : \A d \in possible : e.cost <= d.cost}
<1>1. CASE possible = {}
  BY <1>1 DEF Cheapest
<1>2. CASE possible # {}
  <2>1. {e.cost : e \in possible} \in SUBSET Nat /\ {e.cost : e \in possible} # {}
    BY <1>2
  <2>2. PICK e \in possible : \A d \in possible : e.cost <= d.cost
    <3>1. /\ Min({e.cost : e \in possible}) \in {e.cost : e \in possible}
          /\ \A y \in {e.cost : e \in possible} : Min({e.cost : e \in possible}) <= y
      <4> HIDE DEF possible
      <4> QED BY <2>1, MinOfNaturals
    <3> QED BY <3>1
  <2>3. least # {} /\ \A d \in least : d.i \in Nat
    BY <2>2
  <2>4. First(least) \in least
    <3> HIDE DEF least
    <3> QED BY <2>3, FirstOf
  <2>5. Cheapest(S) = First(least).i
    BY <1>2 DEF Cheapest
  <2>6. First(least) \in S /\ First(least).cost # Infinite
    BY <2>4
  <2> HIDE DEF least
  <2> QED BY <2>5, <2>6
<1> QED BY <1>1, <1>2

(* The child chosen is one that has the size or can be divided for it.     *)
Suits(m, o, k, _size) ==
  \/ k = _size /\ k \in Leaves /\ isEmpty(m, o)
  \/ getSplitCost(m, o, k, _size) # Infinite

LEMMA ChosenChild ==
  ASSUME NEW m, NEW o \in Nat, NEW k \in Kinds, k \notin Leaves, NEW x \in 1 .. 2, NEW _size
  PROVE  IF \E j \in ChildIndexes(k, x) : Suits(m, Child(o, k, x, j), Kind(k, x), _size)
         THEN /\ ChildToAlloc(m, o, k, x, _size) \in ChildIndexes(k, x)
              /\ Suits(m, Child(o, k, x, ChildToAlloc(m, o, k, x, _size)), Kind(k, x), _size)
         ELSE ChildToAlloc(m, o, k, x, _size) = NoIndex
<1> DEFINE exact == {i \in ChildIndexes(k, x) : isEmpty(m, Child(o, k, x, i))}
           cost(i) == getSplitCost(m, Child(o, k, x, i), Kind(k, x), _size)
           costs == {[i |-> i, cost |-> cost(i)] : i \in ChildIndexes(k, x)}
           chosen == ChildToAlloc(m, o, k, x, _size)
<1>1. \A i \in ChildIndexes(k, x) : cost(i) \in Nat /\ i \in Nat
  <2>1. PICK f : IsCost(m, _size, f)
    BY CostEquation
  <2> TAKE i \in ChildIndexes(k, x)
  <2>2. Child(o, k, x, i) \in Nat /\ Kind(k, x) \in Kinds
    BY ChildArea, ChildFacts
  <2>3. f[Kind(k, x)][Child(o, k, x, i)] \in Nat
    BY <2>1, <2>2 DEF IsCost
  <2>4. cost(i) = f[Kind(k, x)][Child(o, k, x, i)]
    BY <2>1, <2>2 DEF IsCost
  <2> QED BY <2>3, <2>4 DEF ChildIndexes
<1>2. CASE Kind(k, x) = _size /\ Kind(k, x) \in Leaves /\ exact # {}
  <2>1. chosen = Min(exact)
    BY <1>2 DEF ChildToAlloc
  <2>2. exact \in SUBSET Nat
    BY <1>1
  <2>3. Min(exact) \in exact
    <3> HIDE DEF exact
    <3> QED BY <1>2, <2>2, MinOfNaturals
  <2>4. chosen \in ChildIndexes(k, x) /\ isEmpty(m, Child(o, k, x, chosen))
    <3> HIDE DEF chosen
    <3> QED BY <2>1, <2>3
  <2> QED BY <1>2, <2>4 DEF Suits
<1>3. CASE ~ (Kind(k, x) = _size /\ Kind(k, x) \in Leaves /\ exact # {})
  <2>1. chosen = Cheapest(costs)
    BY <1>3 DEF ChildToAlloc
  <2>2. \A e \in costs : e.i \in Nat /\ e.cost \in Nat
    <3> HIDE DEF cost
    <3> QED BY <1>1
  <2>3. \/ chosen = NoIndex /\ \A e \in costs : e.cost = Infinite
        \/ \E e \in costs : e.i = chosen /\ e.cost # Infinite
    <3> HIDE DEF costs, chosen
    <3> QED BY <2>1, <2>2, CheapestOf
  <2>4. \A i \in ChildIndexes(k, x) : Suits(m, Child(o, k, x, i), Kind(k, x), _size) <=> cost(i) # Infinite
    BY <1>3 DEF Suits
  <2>5. \/ chosen = NoIndex /\ \A i \in ChildIndexes(k, x) : cost(i) = Infinite
        \/ chosen \in ChildIndexes(k, x) /\ cost(chosen) # Infinite
    <3>1. \A i \in ChildIndexes(k, x) : [i |-> i, cost |-> cost(i)] \in costs
      OBVIOUS
    <3>2. \A e \in costs : e.i \in ChildIndexes(k, x) /\ e.cost = cost(e.i)
      <4> TAKE e \in costs
      <4>1. PICK i \in ChildIndexes(k, x) : e = [i |-> i, cost |-> cost(i)]
        OBVIOUS
      <4> HIDE DEF cost, costs
      <4> QED BY <4>1
    <3>3. \A i \in ChildIndexes(k, x) : [i |-> i, cost |-> cost(i)].cost = cost(i)
      OBVIOUS
    <3> HIDE DEF cost, costs, chosen
    <3>4. CASE chosen = NoIndex /\ \A e \in costs : e.cost = Infinite
      BY <3>1, <3>3, <3>4
    <3>5. CASE \E e \in costs : e.i = chosen /\ e.cost # Infinite
      BY <3>2, <3>5
    <3> QED BY <2>3, <3>4, <3>5
  <2> HIDE DEF cost, chosen
  <2>6. CASE chosen = NoIndex /\ \A i \in ChildIndexes(k, x) : cost(i) = Infinite
    <3>1. ~ \E j \in ChildIndexes(k, x) : Suits(m, Child(o, k, x, j), Kind(k, x), _size)
      BY <2>4, <2>6
    <3> QED BY <2>6, <3>1 DEF chosen
  <2>7. CASE chosen \in ChildIndexes(k, x) /\ cost(chosen) # Infinite
    <3>1. Suits(m, Child(o, k, x, chosen), Kind(k, x), _size)
      BY <2>4, <2>7
    <3> QED BY <2>7, <3>1 DEF chosen
  <2> QED BY <2>5, <2>6, <2>7
<1> QED BY <1>2, <1>3

LEMMA SetSplitType ==
  ASSUME NEW m \in Memory, NEW o, NEW k, NEW x \in 1 .. 2
  PROVE  /\ setSplitType(m, o, k, x) \in Memory
         /\ \A a \in Addresses : (\E i \in ChildIndexes(k, x) : a = Child(o, k, x, i)) =>
              setSplitType(m, o, k, x)[a] = Blank
         /\ \A a \in Addresses : ~ (\E i \in ChildIndexes(k, x) : a = Child(o, k, x, i)) =>
              setSplitType(m, o, k, x)[a] = setOption(m, o, x)[a]
<1>1. DOMAIN m = Addresses
  BY DEF Memory
<1>2. setOption(m, o, x) \in Memory
  <2>1. x \in 0 .. 3
    OBVIOUS
  <2> QED BY <2>1, SetOptionType DEF Updated
<1>3. Blank \in SplitType
  BY DEF Blank, SplitType, SOE_Empty, SOE_Reserved
<1> QED BY <1>1, <1>2, <1>3 DEF setSplitType, Memory

(* What it does at a node, from what it does at smaller ones.              *)
AllocAt(mem, at, j, _size, alloc) ==
  LET tried == tryAllocIndex(mem, at, j, _size)
      option == IF isEmpty(mem, at) THEN OptionFor(j, _size) ELSE Option(mem, at)
      divided == IF isEmpty(mem, at) THEN setSplitType(mem, at, j, option) ELSE mem
      i == ChildToAlloc(divided, at, j, option, _size)
  IN  IF tried.index # NoIndex \/ j \in Leaves THEN tried
      ELSE IF option \notin {SOE_Option1, SOE_Option2} THEN Found(mem, NoIndex)
      ELSE IF i = NoIndex THEN Found(divided, NoIndex)
      ELSE InChild(at, j, option, i, divided,
                   alloc[Kind(j, option)][divided][Child(at, j, option, i)])

IsAlloc(_size, alloc) ==
  /\ alloc \in [Kinds -> [Memory -> [Nat -> Results]]]
  /\ \A k \in Kinds, m \in Memory, o \in Nat :
       /\ allocNode(m, o, k, _size) = alloc[k][m][o]
       /\ alloc[k][m][o] = AllocAt(m, o, k, _size, alloc)

LEMMA TryType ==
  ASSUME NEW m \in Memory, NEW _size, NEW k \in Kinds, NEW o \in Nat
  PROVE  tryAllocIndex(m, o, k, _size) \in Results
<1>1. PICK try \in [Kinds -> [Nat -> Results]] : \A j \in Kinds, a \in Nat :
        /\ tryAllocIndex(m, a, j, _size) = try[j][a]
        /\ try[j][a] = TryAt(m, a, j, _size, try)
  BY TryEquation
<1> QED BY <1>1

LEMMA AllocEquation ==
  ASSUME NEW _size
  PROVE  \E alloc : IsAlloc(_size, alloc)
<1> DEFINE V == [Memory -> [Nat -> Results]]
           F == [k \in Kinds |-> [f \in [Kinds -> V] |->
                   [mem \in Memory |-> [at \in Nat |-> AllocAt(mem, at, k, _size, f)]]]]
<1>1. ASSUME NEW k \in Kinds, NEW f \in [Kinds -> V], NEW mem \in Memory, NEW at \in Nat
      PROVE  AllocAt(mem, at, k, _size, f) \in Results
  <2> DEFINE option == IF isEmpty(mem, at) THEN OptionFor(k, _size) ELSE Option(mem, at)
             divided == IF isEmpty(mem, at) THEN setSplitType(mem, at, k, option) ELSE mem
             i == ChildToAlloc(divided, at, k, option, _size)
  <2>1. tryAllocIndex(mem, at, k, _size) \in Results
    BY TryType
  <2>2. Found(mem, NoIndex) \in Results
    BY DEF Found, Results, NoIndex
  <2>3. ASSUME k \notin Leaves, option \in {SOE_Option1, SOE_Option2}
        PROVE  /\ Found(divided, NoIndex) \in Results
               /\ i # NoIndex => InChild(at, k, option, i, divided,
                                   f[Kind(k, option)][divided][Child(at, k, option, i)]) \in Results
    <3>1. PICK x \in 1 .. 2 : x = option
      BY <2>3 DEF SOE_Option1, SOE_Option2
    <3>2. setSplitType(mem, at, k, x) \in Memory
      BY SetSplitType
    <3>3. divided \in Memory
      BY <3>1, <3>2
    <3>4. Found(divided, NoIndex) \in Results
      <4> HIDE DEF divided
      <4> QED BY <3>3 DEF Found, Results, NoIndex
    <3> HIDE DEF divided, option
    <3>5. ASSUME i # NoIndex PROVE i \in ChildIndexes(k, x)
      BY <2>3, <3>1, <3>5, ChosenChild
    <3>6. ASSUME i # NoIndex
          PROVE  InChild(at, k, option, i, divided,
                         f[Kind(k, option)][divided][Child(at, k, option, i)]) \in Results
      <4>1. PICK c \in ChildIndexes(k, x) : c = i
        BY <3>5, <3>6
      <4>2. Kind(k, x) \in Kinds /\ Child(at, k, x, c) \in Nat
        BY <2>3, ChildFacts, ChildArea
      <4>3. f[Kind(k, x)] \in V
        BY <4>2
      <4>4. f[Kind(k, x)][divided][Child(at, k, x, c)] \in Results
        BY <3>3, <4>2, <4>3
      <4>5. InChild(at, k, x, c, divided, f[Kind(k, x)][divided][Child(at, k, x, c)]) \in Results
        <5> HIDE DEF V
        <5> QED BY <2>3, <4>4, InChildType
      <4> QED BY <3>1, <4>1, <4>5
    <3> QED BY <3>4, <3>6
  <2>4. AllocAt(mem, at, k, _size, f) =
          IF tryAllocIndex(mem, at, k, _size).index # NoIndex \/ k \in Leaves
            THEN tryAllocIndex(mem, at, k, _size)
          ELSE IF option \notin {SOE_Option1, SOE_Option2} THEN Found(mem, NoIndex)
          ELSE IF i = NoIndex THEN Found(divided, NoIndex)
          ELSE InChild(at, k, option, i, divided,
                       f[Kind(k, option)][divided][Child(at, k, option, i)])
    BY DEF AllocAt
  <2> HIDE DEF V, option, divided, i
  <2> QED BY <2>1, <2>2, <2>3, <2>4
<1>2. \A k \in Kinds, f \in [Kinds -> V] : F[k][f] \in V
  BY <1>1
<1>3. ASSUME NEW k \in Kinds, NEW f, NEW g, NEW mem, NEW at, \A j \in Kinds : j < k => f[j] = g[j]
      PROVE  AllocAt(mem, at, k, _size, f) = AllocAt(mem, at, k, _size, g)
  <2>1. ASSUME k \notin Leaves, NEW x \in {SOE_Option1, SOE_Option2} PROVE f[Kind(k, x)] = g[Kind(k, x)]
    <3>1. x \in 1 .. 2
      BY DEF SOE_Option1, SOE_Option2
    <3> QED BY <1>3, <2>1, <3>1, ChildFacts
  <2> QED BY <2>1 DEF AllocAt
<1>4. \A k \in Kinds, f, g \in [Kinds -> V] :
        (\A j \in Kinds : j < k => f[j] = g[j]) => F[k][f] = F[k][g]
  <2> HIDE DEF V
  <2> QED BY <1>3
<1>5. PICK f \in [Kinds -> V] : \A k \in Kinds : f[k] = F[k][f]
  <2>1. \E v : v \in V
    <3>1. ASSUME NEW mem \in Memory PROVE Found(mem, 0) \in Results
      BY DEF Found, Results
    <3>2. [mem \in Memory |-> [at \in Nat |-> Found(mem, 0)]] \in V
      BY <3>1
    <3> HIDE DEF V
    <3> QED BY <3>2
  <2> HIDE DEF V, F
  <2>2. Recursive(V, F)
    BY <1>2, <1>4, <2>1 DEF Recursive
  <2> QED BY <2>2, KindRecursion
<1> DEFINE body(f_1) == [j \in Kinds |-> [mem \in Memory |-> [at \in Nat |->
                           AllocAt(mem, at, j, _size, f_1)]]]
           alloc == CHOOSE f_1 : f_1 = body(f_1)
<1>6. f = body(f)
  <2> HIDE DEF V
  <2> QED BY <1>5
<1>7. alloc = body(alloc)
  BY <1>6
<1>8. \A k \in Kinds, m \in Memory, o \in Nat : allocNode(m, o, k, _size) = alloc[k][m][o]
  <2>1. \A m \in Memory : [DOMAIN m -> SplitType] = Memory
    BY DEF Memory
  <2> QED BY <2>1 DEF allocNode, AllocAt, TriedOr
<1>9. alloc = f
  <2> DEFINE S == {k \in Kinds : alloc[k] = f[k]}
  <2>1. ASSUME NEW k \in Kinds, \A j \in Kinds : j < k => j \in S PROVE k \in S
    <3>1. \A mem \in Memory, at \in Nat :
            AllocAt(mem, at, k, _size, alloc) = AllocAt(mem, at, k, _size, f)
      <4> HIDE DEF alloc
      <4> QED BY <1>3, <2>1
    <3> HIDE DEF alloc
    <3>2. alloc[k] = [mem \in Memory |-> [at \in Nat |-> AllocAt(mem, at, k, _size, alloc)]]
      BY <1>7
    <3>3. f[k] = [mem \in Memory |-> [at \in Nat |-> AllocAt(mem, at, k, _size, f)]]
      BY <1>6
    <3>4. \A mem \in Memory : [at \in Nat |-> AllocAt(mem, at, k, _size, alloc)] =
                                [at \in Nat |-> AllocAt(mem, at, k, _size, f)]
      BY <3>1
    <3>5. alloc[k] = f[k]
      BY <3>2, <3>3, <3>4
    <3> QED BY <3>5
  <2>2. Kinds \subseteq S
    <3> HIDE DEF S
    <3> QED BY <2>1, KindInduction
  <2> HIDE DEF alloc
  <2> QED BY <1>6, <1>7, <2>2
<1>10. alloc \in [Kinds -> V] /\ \A k \in Kinds, m \in Memory, o \in Nat :
         alloc[k][m][o] = AllocAt(m, o, k, _size, alloc)
  <2> HIDE DEF alloc, V
  <2> QED BY <1>7, <1>9
<1> HIDE DEF alloc
<1>11. IsAlloc(_size, alloc)
  BY <1>8, <1>10 DEF IsAlloc
<1> QED BY <1>11
(* Dividing an empty node: its children are blank, and there is no block.  *)
LEMMA Divided ==
  ASSUME NEW m \in Memory, NEW k \in Kinds, k \notin Leaves, NEW o, Within(o, k), Good(m, o, k),
         isEmpty(m, o), NEW x \in 1 .. 2
  PROVE  /\ setSplitType(m, o, k, x) \in Memory
         /\ Ready(setSplitType(m, o, k, x), o, k, x)
         /\ \A i \in ChildIndexes(k, x) :
              IsBlank(setSplitType(m, o, k, x), Child(o, k, x, i), Kind(k, x))
         /\ \A a \in Addresses : a # o => setSplitType(m, o, k, x)[a] = m[a]
         /\ Blocks(setSplitType(m, o, k, x), o, k) = {} /\ Blocks(m, o, k) = {} /\ ~ full(m, o, k)
<1> DEFINE d == setSplitType(m, o, k, x)
           s == setOption(m, o, x)
<1>1. /\ o \in Nat /\ o \in Addresses /\ IsBlank(m, o, k) /\ o \in Area(o, k)
      /\ Area(o, k) \subseteq Addresses
  BY GoodCases, BytesPositive DEF Area, Within
<1>2. /\ s[o] = [Option |-> x, fullChilds |-> m[o].fullChilds]
      /\ \A a \in Addresses : a # o => s[a] = m[a]
  <2>1. x \in 0 .. 3
    OBVIOUS
  <2>2. \A option \in 0 .. 3 :
          Updated(m, setOption(m, o, option), o, [Option |-> option, fullChilds |-> m[o].fullChilds])
    BY SetOptionType
  <2>3. Updated(m, s, o, [Option |-> x, fullChilds |-> m[o].fullChilds])
    BY <2>1, <2>2
  <2> HIDE DEF s
  <2> QED BY <1>1, <2>3 DEF Updated
<1>3. /\ d \in Memory
      /\ \A a \in Addresses : (\E i \in ChildIndexes(k, x) : a = Child(o, k, x, i)) => d[a] = Blank
      /\ \A a \in Addresses : ~ (\E i \in ChildIndexes(k, x) : a = Child(o, k, x, i)) => d[a] = s[a]
  BY SetSplitType
<1> HIDE DEF d, s
<1>4. ASSUME NEW i \in ChildIndexes(k, x)
      PROVE  /\ Child(o, k, x, i) # o /\ Child(o, k, x, i) \in Area(o, k)
             /\ Area(Child(o, k, x, i), Kind(k, x)) \subseteq Area(o, k)
             /\ o \notin Area(Child(o, k, x, i), Kind(k, x)) /\ Child(o, k, x, i) \in Nat
  BY <1>1, ChildArea
<1>5. \A a \in Addresses : a # o => d[a] = m[a]
  <2> SUFFICES ASSUME NEW a \in Addresses, a # o PROVE d[a] = m[a]
    OBVIOUS
  <2>1. CASE \E i \in ChildIndexes(k, x) : a = Child(o, k, x, i)
    <3>1. a \in Area(o, k)
      BY <1>4, <2>1
    <3> QED BY <1>1, <1>3, <2>1, <3>1 DEF IsBlank
  <2>2. CASE ~ \E i \in ChildIndexes(k, x) : a = Child(o, k, x, i)
    BY <1>2, <1>3, <2>2
  <2> QED BY <2>1, <2>2
<1>6. d[o] = [Option |-> x, fullChilds |-> 0]
  <2>1. d[o] = s[o]
    BY <1>1, <1>3, <1>4
  <2>2. m[o] = Blank
    BY <1>1 DEF IsBlank
  <2> QED BY <1>2, <2>1, <2>2 DEF Blank
<1>7. ASSUME NEW i \in ChildIndexes(k, x)
      PROVE  IsBlank(d, Child(o, k, x, i), Kind(k, x))
  BY <1>1, <1>4, <1>5 DEF IsBlank
<1>8. ASSUME NEW i \in ChildIndexes(k, x)
      PROVE  /\ Good(d, Child(o, k, x, i), Kind(k, x))
             /\ ~ full(d, Child(o, k, x, i), Kind(k, x))
             /\ Blocks(d, Child(o, k, x, i), Kind(k, x)) = {}
  <2>1. /\ Good(d, Child(o, k, x, i), Kind(k, x)) /\ isEmpty(d, Child(o, k, x, i))
        /\ Blocks(d, Child(o, k, x, i), Kind(k, x)) = {}
    BY <1>4, <1>7, ChildFacts, BlankIsGood
  <2>2. ~ full(d, Child(o, k, x, i), Kind(k, x))
    BY <2>1 DEF full, isReserved, isSplit, isEmpty, SOE_Reserved, SOE_Empty, SOE_Option1, SOE_Option2
  <2> QED BY <2>1, <2>2
<1>9. Counted(d, o, k, x)
  <2>1. FullOnes(d, o, k, x) = {}
    BY <1>8 DEF FullOnes
  <2>2. d[o].fullChilds = Cardinality(FullOnes(d, o, k, x)) /\ Option(d, o) = x
    BY <1>6, <2>1, FS_EmptySet DEF Option
  <2>3. \A a \in Area(o, k) : a = o \/ d[a] = Blank
    BY <1>1, <1>5 DEF IsBlank
  <2> QED BY <2>2, <2>3 DEF Counted
<1>10. Ready(d, o, k, x)
  BY <1>8, <1>9 DEF Ready
<1>11. Blocks(d, o, k) = {}
  <2>1. \A b : b \in Blocks(d, o, k) <=>
           \E i \in ChildIndexes(k, x) : \E c \in Blocks(d, Child(o, k, x, i), Kind(k, x)) :
             b = Block(i * Kind(k, x) + c.ptr, c.size)
    <3>1. Option(d, o) = x
      BY <1>9 DEF Counted
    <3> QED BY <1>1, <3>1, BlocksOfParts
  <2>2. \A b : b \notin Blocks(d, o, k)
    BY <1>8, <2>1
  <2> QED BY <2>2
<1>12. Blocks(m, o, k) = {}
  BY <1>1, BlankIsGood
<1>13. ~ full(m, o, k)
  BY DEF full, isReserved, isSplit, isEmpty, SOE_Reserved, SOE_Empty, SOE_Option1, SOE_Option2
<1> QED BY <1>3, <1>5, <1>7, <1>10, <1>11, <1>12, <1>13 DEF d

(* A blank node with the size in its tree suits.                           *)
LEMMA BlankSuits ==
  ASSUME NEW m, NEW _size \in Nat, NEW k \in Kinds, NEW o \in Nat,
         IsBlank(m, o, k), k = _size \/ possibleSplit(k, _size)
  PROVE  Suits(m, o, k, _size)
<1>1. CASE k = _size /\ k \in Leaves
  BY <1>1, BlankIsGood DEF Suits
<1>2. CASE k = _size /\ k \notin Leaves
  <2>1. possibleSplit(k, _size)
    BY <1>2, KindsInCases DEF possibleSplit
  <2> QED BY <2>1, BlankCost DEF Suits
<1>3. CASE possibleSplit(k, _size)
  BY <1>3, BlankCost DEF Suits
<1> QED BY <1>1, <1>2, <1>3

(* The option chosen for an empty node that has a cost has the size.       *)
LEMMA OptionSuits ==
  ASSUME NEW _size \in Nat, NEW k \in Kinds, k \notin Leaves, k # _size, _size \in KindsIn[k]
  PROVE  /\ OptionFor(k, _size) \in 1 .. 2
         /\ \/ Kind(k, OptionFor(k, _size)) = _size
            \/ possibleSplit(Kind(k, OptionFor(k, _size)), _size)
<1>1. PICK x \in 1 .. 2 : _size \in KindsIn[Kind(k, x)]
  BY KindsInCases
<1>2. Kind(k, x) \in Kinds
  BY ChildFacts
<1>3. Kind(k, x) # _size => possibleSplit(Kind(k, x), _size)
  BY <1>1, <1>2, KindsInCases DEF possibleSplit
<1>4. x = 1 \/ x = 2
  OBVIOUS
<1>5. CASE Kind(k, 1) = _size
  BY <1>5 DEF OptionFor, SOE_Option1
<1>6. CASE Kind(k, 1) # _size /\ Kind(k, 2) = _size
  BY <1>6 DEF OptionFor, SOE_Option2
<1>7. CASE Kind(k, 1) # _size /\ Kind(k, 2) # _size
  <2>1. possibleSplit(Kind(k, 1), _size) \/ possibleSplit(Kind(k, 2), _size)
    BY <1>3, <1>4, <1>7
  <2>2. OptionFor(k, _size) = IF possibleSplit(Kind(k, 1), _size) THEN SOE_Option1
                              ELSE IF possibleSplit(Kind(k, 2), _size) THEN SOE_Option2 ELSE 0
    BY <1>7 DEF OptionFor
  <2> QED BY <2>1, <2>2 DEF SOE_Option1, SOE_Option2
<1> QED BY <1>5, <1>6, <1>7

(* A node that suits is served, by one block more in it.                   *)
LEMMA AllocNodeServes ==
  ASSUME NEW m \in Memory, NEW _size \in Nat, NEW k \in Kinds, NEW o, Within(o, k),
         Good(m, o, k), Suits(m, o, k, _size)
  PROVE  ServedIn(m, o, k, _size, allocNode(m, o, k, _size))
<1>1. PICK alloc : IsAlloc(_size, alloc)
  BY AllocEquation
<1> DEFINE Right(n, j, a) == Within(a, j) /\ Good(n, a, j) /\ Suits(n, a, j, _size)
                               => ServedIn(n, a, j, _size, alloc[j][n][a])
           S == {j \in Kinds : \A n \in Memory, a \in Nat : Right(n, j, a)}
<1>2. ASSUME NEW j \in Kinds, \A l \in Kinds : l < j => l \in S, NEW n \in Memory, NEW a \in Nat,
             Within(a, j), Good(n, a, j), Suits(n, a, j, _size)
      PROVE  ServedIn(n, a, j, _size, alloc[j][n][a])
  <2> DEFINE tried == tryAllocIndex(n, a, j, _size)
             option == IF isEmpty(n, a) THEN OptionFor(j, _size) ELSE Option(n, a)
             divided == IF isEmpty(n, a) THEN setSplitType(n, a, j, option) ELSE n
             i == ChildToAlloc(divided, a, j, option, _size)
  <2>1. alloc[j][n][a] =
          IF tried.index # NoIndex \/ j \in Leaves THEN tried
          ELSE IF option \notin {SOE_Option1, SOE_Option2} THEN Found(n, NoIndex)
          ELSE IF i = NoIndex THEN Found(divided, NoIndex)
          ELSE InChild(a, j, option, i, divided,
                       alloc[Kind(j, option)][divided][Child(a, j, option, i)])
    <3>1. alloc[j][n][a] = AllocAt(n, a, j, _size, alloc)
      BY <1>1 DEF IsAlloc
    <3> QED BY <3>1 DEF AllocAt
  <2>2. /\ tried.index # NoIndex => ServedIn(n, a, j, _size, tried)
        /\ isEmpty(n, a) /\ j = _size => tried.index # NoIndex
    BY <1>2, TryServes DEF Tried
  <2> HIDE DEF tried
  <2>3. CASE tried.index # NoIndex
    BY <2>1, <2>2, <2>3
  <2>4. CASE tried.index = NoIndex
    <3>0. getSplitCost(n, a, j, _size) # Infinite
      BY <1>2, <2>2, <2>4 DEF Suits
    <3>1. j \notin Leaves /\ _size \in KindsIn[j] /\ ~ (isEmpty(n, a) /\ j = _size)
      BY <2>2, <2>4, <3>0, FiniteCost DEF Affordable
    <3>2. PICK cost : IsCost(n, _size, cost)
      BY CostEquation
    <3>3. CostAt(n, a, j, _size, cost) # Infinite /\ cost \in [Kinds -> [Nat -> Nat]]
      BY <3>0, <3>2 DEF IsCost
    <3>4. /\ option \in 1 .. 2 /\ divided \in Memory /\ Ready(divided, a, j, option)
          /\ \E c \in ChildIndexes(j, option) : Suits(divided, Child(a, j, option, c), Kind(j, option), _size)
          /\ \A f : ServedIn(divided, a, j, _size, f) => ServedIn(n, a, j, _size, f)
      <4>1. CASE isEmpty(n, a)
        <5>1. /\ option \in 1 .. 2
              /\ Kind(j, option) = _size \/ possibleSplit(Kind(j, option), _size)
          BY <3>1, <4>1, OptionSuits
        <5>2. PICK x \in 1 .. 2 : x = option
          BY <5>1
        <5>3. divided = setSplitType(n, a, j, x)
          BY <4>1, <5>2
        <5> HIDE DEF divided, option
        <5>4. /\ divided \in Memory /\ Ready(divided, a, j, x)
              /\ \A c \in ChildIndexes(j, x) : IsBlank(divided, Child(a, j, x, c), Kind(j, x))
              /\ \A b \in Addresses : b # a => divided[b] = n[b]
              /\ Blocks(divided, a, j) = {} /\ Blocks(n, a, j) = {} /\ ~ full(n, a, j)
          BY <1>2, <3>1, <4>1, <5>3, Divided
        <5>5. 0 \in ChildIndexes(j, x)
          <6>1. PICK number \in 2 .. 5 : number = SplitOf[j][x].number
            BY <3>1, ChildFacts
          <6> QED BY <6>1 DEF ChildIndexes
        <5>6. Suits(divided, Child(a, j, x, 0), Kind(j, x), _size)
          <6>1. Child(a, j, x, 0) \in Nat /\ Kind(j, x) \in Kinds
            BY <3>1, <5>5, ChildArea, ChildFacts
          <6> QED BY <5>1, <5>2, <5>4, <5>5, <6>1, BlankSuits
        <5>7. ASSUME NEW f, ServedIn(divided, a, j, _size, f) PROVE ServedIn(n, a, j, _size, f)
          <6>1. a \in Area(a, j)
            BY BytesPositive DEF Area
          <6> QED BY <5>4, <5>7, <6>1 DEF ServedIn
        <5> QED BY <5>2, <5>4, <5>5, <5>6, <5>7
      <4>2. CASE ~ isEmpty(n, a)
        <5>1. isSplit(n, a) /\ ~ j < _size /\ j # _size
          BY <3>1, <3>3, <4>2 DEF CostAt
        <5>2. PICK x \in 1 .. 2 : x = Option(n, a)
          BY <5>1 DEF isSplit, SOE_Option1, SOE_Option2
        <5>3. option = x /\ divided = n
          BY <4>2, <5>2
        <5> HIDE DEF divided, option
        <5>4. Ready(n, a, j, x)
          BY <1>2, <3>1, <5>2, ReadyIsGood
        <5>5. Min(CostsBelow(cost, a, j, x)) # Infinite
          BY <3>1, <3>3, <4>2, <5>1, <5>2 DEF CostAt, CostsBelow
        <5>6. PICK c \in ChildIndexes(j, x) :
                Min(CostsBelow(cost, a, j, x)) = cost[Kind(j, x)][Child(a, j, x, c)]
          BY <3>1, <3>3, LeastChildCost
        <5>7. Suits(n, Child(a, j, x, c), Kind(j, x), _size)
          <6>1. Child(a, j, x, c) \in Nat /\ Kind(j, x) \in Kinds
            BY <3>1, ChildArea, ChildFacts
          <6> QED BY <3>2, <5>5, <5>6, <6>1 DEF IsCost, Suits
        <5> QED BY <1>2, <5>3, <5>4, <5>7
      <4> QED BY <4>1, <4>2
    <3> HIDE DEF option, divided
    <3>5. /\ i \in ChildIndexes(j, option)
          /\ Suits(divided, Child(a, j, option, i), Kind(j, option), _size)
      BY <3>1, <3>4, ChosenChild
    <3>6. i # NoIndex
      BY <3>5 DEF ChildIndexes, NoIndex
    <3> HIDE DEF i
    <3>7. /\ Within(Child(a, j, option, i), Kind(j, option)) /\ Kind(j, option) \in Kinds
          /\ Kind(j, option) < j
      BY <1>2, <3>1, <3>4, <3>5, ChildWithin
    <3>8. Good(divided, Child(a, j, option, i), Kind(j, option))
      BY <3>4, <3>5 DEF Ready
    <3>9. ServedIn(divided, Child(a, j, option, i), Kind(j, option), _size,
                 alloc[Kind(j, option)][divided][Child(a, j, option, i)])
      <4>1. Child(a, j, option, i) \in Nat
        BY <3>7 DEF Within
      <4> QED BY <1>2, <3>4, <3>5, <3>7, <3>8, <4>1
    <3>10. ServedIn(divided, a, j, _size,
                  InChild(a, j, option, i, divided,
                          alloc[Kind(j, option)][divided][Child(a, j, option, i)]))
      BY <1>2, <3>1, <3>4, <3>5, <3>9, InChildServes
    <3>11. option \in {SOE_Option1, SOE_Option2}
      BY <3>4 DEF SOE_Option1, SOE_Option2
    <3> QED BY <2>1, <2>4, <3>1, <3>4, <3>6, <3>10, <3>11
  <2> QED BY <2>3, <2>4
<1>3. Kinds \subseteq S
  <2>1. ASSUME NEW j \in Kinds, \A l \in Kinds : l < j => l \in S PROVE j \in S
    BY <1>2, <2>1
  <2> HIDE DEF S
  <2> QED BY <2>1, KindInduction
<1>4. o \in Nat
  BY DEF Within
<1> QED BY <1>1, <1>3, <1>4 DEF IsAlloc
-----------------------------------------------------------------------------
(* deallocNode.                                                            *)

Frees == [memory : Memory, size : Kinds]

(* setEmptyIfUnused, and the count of full children before it.             *)
Uncounted(m, o, k, x, i, memory) ==
  IF full(m, Child(o, k, x, i), Kind(k, x)) THEN addFullChilds(memory, o, -1) ELSE memory
FreeAt(m, at, j, within, free) ==
  IF j \in Leaves \/ ~ isSplit(m, at) THEN [memory |-> setOption(m, at, SOE_Empty), size |-> j]
  ELSE LET x == Option(m, at)
           i == within \div Kind(j, x)
           freed == free[Kind(j, x)][Child(at, j, x, i)][within % Kind(j, x)]
       IN  [memory |-> setEmptyIfUnused(Uncounted(m, at, j, x, i, freed.memory), at,
                                        Children(at, j, {x})),
            size |-> freed.size]

IsFree(m, free) ==
  /\ free \in [Kinds -> [Nat -> [Nat -> Frees]]]
  /\ \A k \in Kinds, o \in Nat, index \in Nat :
       /\ deallocNode(m, o, k, index) = free[k][o][index]
       /\ free[k][o][index] = FreeAt(m, o, k, index, free)

LEMMA UncountedType ==
  ASSUME NEW m, NEW o, NEW k, NEW x, NEW i, NEW memory \in Memory, NEW children
  PROVE  /\ Uncounted(m, o, k, x, i, memory) \in Memory
         /\ setEmptyIfUnused(memory, o, children) \in Memory
<1>1. \A d \in Int : addFullChilds(memory, o, d) \in Memory
  BY AddFullType DEF Updated
<1>2. \A option \in 0 .. 3 : setOption(memory, o, option) \in Memory
  BY SetOptionType DEF Updated
<1> QED BY <1>1, <1>2 DEF Uncounted, setEmptyIfUnused, SOE_Empty

LEMMA FreeEquation ==
  ASSUME NEW m \in Memory
  PROVE  \E free : IsFree(m, free)
<1> DEFINE V == [Nat -> [Nat -> Frees]]
           F == [k \in Kinds |-> [f \in [Kinds -> V] |->
                   [at \in Nat |-> [within \in Nat |-> FreeAt(m, at, k, within, f)]]]]
<1>1. ASSUME NEW k \in Kinds, NEW f \in [Kinds -> V], NEW at \in Nat, NEW within \in Nat
      PROVE  FreeAt(m, at, k, within, f) \in Frees
  <2>1. CASE k \in Leaves \/ ~ isSplit(m, at)
    <3>1. \A option \in 0 .. 3 : setOption(m, at, option) \in Memory
      BY SetOptionType DEF Updated
    <3>2. setOption(m, at, SOE_Empty) \in Memory
      BY <3>1 DEF SOE_Empty
    <3> QED BY <2>1, <3>2 DEF FreeAt, Frees
  <2>2. CASE ~ (k \in Leaves \/ ~ isSplit(m, at))
    <3>1. PICK x \in 1 .. 2 : x = Option(m, at)
      BY <2>2 DEF isSplit, SOE_Option1, SOE_Option2
    <3>2. Kind(k, x) \in Kinds /\ Kind(k, x) \in Nat \ {0} /\ Bytes[Kind(k, x)] \in Nat
      BY <2>2, ChildFacts, BytesPositive
    <3>3. PICK i \in Nat, r \in Nat : i = within \div Kind(k, x) /\ r = within % Kind(k, x)
      <4>1. ASSUME NEW l \in Nat \ {0} PROVE \E i \in Nat, r \in Nat : i = within \div l /\ r = within % l
        <5>1. within \div l \in Nat /\ within % l \in Nat
          <6>1. PICK q \in Nat, p \in 0 .. l - 1 : q = within \div l /\ p = within % l /\ within = q * l + p
            BY Division
          <6>2. p \in Nat
            OBVIOUS
          <6> QED BY <6>1, <6>2
        <5> QED BY <5>1
      <4> QED BY <3>2, <4>1
    <3>4. Child(at, k, x, i) \in Nat
      <4>1. i * Bytes[Kind(k, x)] \in Nat
        BY <3>2
      <4> QED BY <4>1 DEF Child
    <3>5. PICK freed \in Frees : freed = f[Kind(k, x)][Child(at, k, x, i)][r]
      BY <3>2, <3>4
    <3>6. freed.memory \in Memory /\ freed.size \in Kinds
      BY DEF Frees
    <3>7. setEmptyIfUnused(Uncounted(m, at, k, x, i, freed.memory), at, Children(at, k, {x})) \in Memory
      BY <3>6, UncountedType
    <3>8. FreeAt(m, at, k, within, f) =
            [memory |-> setEmptyIfUnused(Uncounted(m, at, k, x, i, freed.memory), at, Children(at, k, {x})),
             size |-> freed.size]
      BY <2>2, <3>1, <3>3, <3>5 DEF FreeAt
    <3> QED BY <3>6, <3>7, <3>8 DEF Frees
  <2> QED BY <2>1, <2>2
<1>2. \A k \in Kinds, f \in [Kinds -> V] : F[k][f] \in V
  BY <1>1
<1>3. ASSUME NEW k \in Kinds, NEW f, NEW g, NEW at, NEW within, \A j \in Kinds : j < k => f[j] = g[j]
      PROVE  FreeAt(m, at, k, within, f) = FreeAt(m, at, k, within, g)
  <2>1. ASSUME k \notin Leaves, isSplit(m, at) PROVE f[Kind(k, Option(m, at))] = g[Kind(k, Option(m, at))]
    <3>1. Option(m, at) \in 1 .. 2
      BY <2>1 DEF isSplit, SOE_Option1, SOE_Option2
    <3> QED BY <1>3, <2>1, <3>1, ChildFacts
  <2> QED BY <2>1 DEF FreeAt
<1>4. \A k \in Kinds, f, g \in [Kinds -> V] :
        (\A j \in Kinds : j < k => f[j] = g[j]) => F[k][f] = F[k][g]
  <2> HIDE DEF V
  <2> QED BY <1>3
<1>5. PICK f \in [Kinds -> V] : \A k \in Kinds : f[k] = F[k][f]
  <2>1. \E v : v \in V
    <3>1. [memory |-> m, size |-> 1] \in Frees
      BY KindFacts DEF Frees, Leaves
    <3>2. [at \in Nat |-> [within \in Nat |-> [memory |-> m, size |-> 1]]] \in V
      BY <3>1
    <3> HIDE DEF V
    <3> QED BY <3>2
  <2> HIDE DEF V, F
  <2>2. Recursive(V, F)
    BY <1>2, <1>4, <2>1 DEF Recursive
  <2> QED BY <2>2, KindRecursion
<1> DEFINE body(f_1) == [j \in Kinds |-> [at \in Nat |-> [within \in Nat |->
                           FreeAt(m, at, j, within, f_1)]]]
           free == CHOOSE f_1 : f_1 = body(f_1)
<1>6. f = body(f)
  <2> HIDE DEF V
  <2> QED BY <1>5
<1>7. free = body(free)
  BY <1>6
<1>8. \A k \in Kinds, o \in Nat, index \in Nat : deallocNode(m, o, k, index) = free[k][o][index]
  BY DEF deallocNode, FreeAt, Uncounted
<1>9. free = f
  <2> DEFINE S == {k \in Kinds : free[k] = f[k]}
  <2>1. ASSUME NEW k \in Kinds, \A j \in Kinds : j < k => j \in S PROVE k \in S
    <3>1. \A at \in Nat, within \in Nat : FreeAt(m, at, k, within, free) = FreeAt(m, at, k, within, f)
      <4> HIDE DEF free
      <4> QED BY <1>3, <2>1
    <3> HIDE DEF free
    <3>2. free[k] = [at \in Nat |-> [within \in Nat |-> FreeAt(m, at, k, within, free)]]
      BY <1>7
    <3>3. f[k] = [at \in Nat |-> [within \in Nat |-> FreeAt(m, at, k, within, f)]]
      BY <1>6
    <3>4. \A at \in Nat : [within \in Nat |-> FreeAt(m, at, k, within, free)] =
                          [within \in Nat |-> FreeAt(m, at, k, within, f)]
      BY <3>1
    <3>5. free[k] = f[k]
      BY <3>2, <3>3, <3>4
    <3> QED BY <3>5
  <2>2. Kinds \subseteq S
    <3> HIDE DEF S
    <3> QED BY <2>1, KindInduction
  <2> HIDE DEF free
  <2> QED BY <1>6, <1>7, <2>2
<1>10. free \in [Kinds -> V] /\ \A k \in Kinds, o \in Nat, index \in Nat :
         free[k][o][index] = FreeAt(m, o, k, index, free)
  <2> HIDE DEF free, V
  <2> QED BY <1>7, <1>9
<1> HIDE DEF free
<1>11. IsFree(m, free)
  BY <1>8, <1>10 DEF IsFree
<1> QED BY <1>11
(* freed is m without the block b of the node.                             *)
Freed(m, o, k, b, freed) ==
  /\ freed.memory \in Memory /\ freed.size = b.size
  /\ \A a \in Addresses : a \in Area(o, k) \/ freed.memory[a] = m[a]
  /\ Good(freed.memory, o, k) /\ ~ full(freed.memory, o, k)
  /\ Blocks(freed.memory, o, k) = Blocks(m, o, k) \ {b}

LEMMA WholeFrees ==
  ASSUME NEW m \in Memory, NEW k \in Kinds, NEW o, Within(o, k), Good(m, o, k),
         k \in Leaves \/ ~ isSplit(m, o), NEW b \in Blocks(m, o, k)
  PROVE  /\ b = Block(0, k)
         /\ Freed(m, o, k, b, [memory |-> setOption(m, o, SOE_Empty), size |-> k])
<1> DEFINE n == setOption(m, o, SOE_Empty)
           freed == [memory |-> n, size |-> k]
<1>1. /\ o \in Nat /\ o \in Addresses /\ o \in Area(o, k) /\ Area(o, k) \subseteq Addresses
      /\ ~ isSplit(m, o) /\ Closed(m, o, k)
  BY GoodCases, BytesPositive DEF Area, Within
<1>2. Blocks(m, o, k) = {Block(0, k)} /\ b = Block(0, k)
  BY <1>1, BlocksOfWhole
<1>3. /\ n \in Memory /\ n[o] = [Option |-> SOE_Empty, fullChilds |-> m[o].fullChilds]
      /\ \A a \in Addresses : a # o => n[a] = m[a]
  <2>1. \A option \in 0 .. 3 :
          Updated(m, setOption(m, o, option), o, [Option |-> option, fullChilds |-> m[o].fullChilds])
    BY SetOptionType
  <2>2. Updated(m, n, o, [Option |-> SOE_Empty, fullChilds |-> m[o].fullChilds])
    BY <2>1 DEF SOE_Empty
  <2> HIDE DEF n
  <2> QED BY <1>1, <2>2 DEF Updated
<1> HIDE DEF n
<1>4. IsBlank(n, o, k)
  BY <1>1, <1>3 DEF IsBlank, Closed, Blank
<1>5. Good(n, o, k) /\ Blocks(n, o, k) = {} /\ isEmpty(n, o)
  BY <1>1, <1>4, BlankIsGood
<1>6. ~ full(n, o, k)
  BY <1>5 DEF full, isReserved, isSplit, isEmpty, SOE_Reserved, SOE_Empty, SOE_Option1, SOE_Option2
<1>7. freed.memory = n /\ freed.size = k /\ Block(0, k).size = k
  BY DEF Block
<1> HIDE DEF freed
<1>8. \A a \in Addresses : a \in Area(o, k) \/ n[a] = m[a]
  BY <1>1, <1>3
<1>9. Freed(m, o, k, b, freed)
  BY <1>2, <1>3, <1>5, <1>6, <1>7, <1>8 DEF Freed
<1> QED BY <1>2, <1>9 DEF n, freed

(* Units of different children are different.                              *)
LEMMA OneChild ==
  ASSUME NEW l \in Kinds, NEW B, NEW C, BlocksInOrder(l, B), BlocksInOrder(l, C),
         NEW b \in B, NEW c \in C, NEW i \in Nat, NEW j \in Nat,
         i * l + b.ptr = j * l + c.ptr
  PROVE  i = j /\ b.ptr = c.ptr
<1>1. /\ b.ptr \in Nat /\ b.size \in Kinds /\ b.ptr + b.size <= l
      /\ c.ptr \in Nat /\ c.size \in Kinds /\ c.ptr + c.size <= l
  BY DEF BlocksInOrder
<1>2. b.size \in Nat \ {0} /\ c.size \in Nat \ {0} /\ l \in Nat
  BY <1>1, KindIsNatural
<1>3. b.ptr < l /\ c.ptr < l
  BY <1>1, <1>2
<1>4. i * l \in Nat /\ j * l \in Nat
  BY <1>2
<1>5. ~ i < j
  <2>1. i < j => i * l + l <= j * l
    BY <1>2, OneMore
  <2> QED BY <1>1, <1>2, <1>3, <1>4, <2>1
<1>6. ~ j < i
  <2>1. j < i => j * l + l <= i * l
    BY <1>2, OneMore
  <2> QED BY <1>1, <1>2, <1>3, <1>4, <2>1
<1>7. i = j
  BY <1>5, <1>6
<1>8. b.ptr = c.ptr
  <2>1. i * l + b.ptr = i * l + c.ptr
    BY <1>7
  <2> QED BY <1>1, <1>4, <2>1
<1> QED BY <1>7, <1>8

(* A block freed in a child.                                               *)
LEMMA InChildFrees ==
  ASSUME NEW m \in Memory, NEW o, NEW k \in Kinds, k \notin Leaves, Within(o, k),
         NEW x \in 1 .. 2, Ready(m, o, k, x), NEW i \in ChildIndexes(k, x),
         NEW b \in Blocks(m, Child(o, k, x, i), Kind(k, x)), NEW freed,
         Freed(m, Child(o, k, x, i), Kind(k, x), b, freed)
  PROVE  Freed(m, o, k, Block(i * Kind(k, x) + b.ptr, b.size),
               [memory |-> setEmptyIfUnused(Uncounted(m, o, k, x, i, freed.memory), o,
                                            Children(o, k, {x})),
                size |-> freed.size])
<1> DEFINE c == Child(o, k, x, i)
           l == Kind(k, x)
           kept == freed.memory
           n == Uncounted(m, o, k, x, i, kept)
           e == setEmptyIfUnused(n, o, Children(o, k, {x}))
           block == Block(i * l + b.ptr, b.size)
<1>1. /\ o \in Nat /\ o \in Area(o, k) /\ Area(o, k) \subseteq Addresses
      /\ c \in Nat /\ Area(c, l) \subseteq Area(o, k) /\ o \notin Area(c, l) /\ c \in Area(c, l)
      /\ l \in Kinds /\ l \in Nat /\ i \in Nat
  BY ChildArea, ChildFacts DEF Within, ChildIndexes
<1>2. /\ kept \in Memory /\ freed.size = b.size /\ Good(kept, c, l) /\ ~ full(kept, c, l)
      /\ Blocks(kept, c, l) = Blocks(m, c, l) \ {b}
      /\ \A a \in Addresses : a \in Area(c, l) \/ kept[a] = m[a]
  BY DEF Freed
<1>3. kept[o] = m[o] /\ Option(m, o) = x /\ o \in Addresses
  BY <1>1, <1>2 DEF Ready, Counted
<1>4. m[o] \in SplitType /\ m[o].fullChilds \in Int
      /\ m[o] = [Option |-> m[o].Option, fullChilds |-> m[o].fullChilds + 0]
  <2>1. m[o] \in SplitType
    BY <1>3 DEF Memory
  <2> QED BY <2>1 DEF SplitType
<1>5. Updated(kept, n, o, [Option |-> m[o].Option,
                           fullChilds |-> m[o].fullChilds + (IF full(m, c, l) THEN -1 ELSE 0)])
  <2>1. CASE full(m, c, l)
    <3>1. \A d \in Int : Updated(kept, addFullChilds(kept, o, d), o,
                                 [Option |-> kept[o].Option, fullChilds |-> kept[o].fullChilds + d])
      BY <1>2, AddFullType
    <3>2. n = addFullChilds(kept, o, -1)
      BY <2>1 DEF Uncounted
    <3> HIDE DEF n, kept
    <3> QED BY <1>3, <2>1, <3>1, <3>2
  <2>2. CASE ~ full(m, c, l)
    <3>1. n = kept
      BY <2>2 DEF Uncounted
    <3> HIDE DEF n, kept
    <3> QED BY <1>2, <1>3, <1>4, <2>2, <3>1 DEF Updated
  <2> QED BY <2>1, <2>2
<1> HIDE DEF n, kept
<1>6. /\ n \in Memory /\ \A a \in Addresses : a # o => n[a] = kept[a]
      /\ n[o].Option = m[o].Option
      /\ n[o].fullChilds = m[o].fullChilds + (IF full(m, c, l) THEN -1 ELSE 0)
  BY <1>1, <1>3, <1>5 DEF Updated
<1>7. Option(n, o) = x
  BY <1>3, <1>6 DEF Option
<1>8. /\ Good(n, c, l) /\ Blocks(n, c, l) = Blocks(kept, c, l) /\ n[c] = kept[c]
  <2>1. Same(kept, n, c, l)
    BY <1>1, <1>6 DEF Same
  <2>2. c \in Nat /\ l \in Kinds /\ Good(kept, c, l)
    BY <1>1, <1>2
  <2> HIDE DEF c, l
  <2> QED BY <2>1, <2>2, Locality
<1>9. \A a \in Area(o, k) : a = o \/ a \in Area(c, l) \/ n[a] = m[a]
  BY <1>1, <1>2, <1>6
<1>10. /\ \A j \in ChildIndexes(k, x) :
            /\ Good(n, Child(o, k, x, j), l)
            /\ j # i => /\ Blocks(n, Child(o, k, x, j), l) = Blocks(m, Child(o, k, x, j), l)
                        /\ j \in FullOnes(n, o, k, x) <=> j \in FullOnes(m, o, k, x)
       /\ n[o].fullChilds = Cardinality(FullOnes(n, o, k, x)) => Ready(n, o, k, x)
  <2>1. Good(n, c, l)
    BY <1>8
  <2> QED BY <1>1, <1>7, <2>1, <1>9, ChildChanged
<1>11. ~ full(n, c, l)
  BY <1>2, <1>8 DEF full, isReserved, isSplit, Option
<1>12. n[o].fullChilds = Cardinality(FullOnes(n, o, k, x))
  <2> DEFINE old == FullOnes(m, o, k, x)
             new == FullOnes(n, o, k, x)
  <2>1. i \notin new /\ (i \in old <=> full(m, c, l))
    BY <1>11 DEF FullOnes
  <2>2. old = IF full(m, c, l) THEN new \cup {i} ELSE new
    <3>1. old \subseteq ChildIndexes(k, x) /\ new \subseteq ChildIndexes(k, x)
      BY DEF FullOnes
    <3>2. \A j \in ChildIndexes(k, x) : j # i => (j \in new <=> j \in old)
      BY <1>10
    <3> HIDE DEF new, old
    <3> QED BY <2>1, <3>1, <3>2
  <2>3. IsFiniteSet(new) /\ Cardinality(new) \in Nat
    <3>1. new \in SUBSET ChildIndexes(k, x)
      BY DEF FullOnes
    <3> QED BY <3>1, ChildCount
  <2>4. Cardinality(new \cup {i}) = Cardinality(new) + 1
    BY <2>1, <2>3, FS_AddElement
  <2>5. m[o].fullChilds = Cardinality(old)
    BY DEF Ready, Counted
  <2>6. Cardinality(old) = Cardinality(new) + (IF full(m, c, l) THEN 1 ELSE 0)
    <3> HIDE DEF new, old
    <3>1. CASE full(m, c, l)
      BY <2>2, <2>4, <3>1
    <3>2. CASE ~ full(m, c, l)
      BY <2>2, <2>3, <3>2
    <3> QED BY <3>1, <3>2
  <2>7. n[o].fullChilds = Cardinality(new)
    <3> HIDE DEF new, old
    <3> QED BY <1>6, <2>3, <2>5, <2>6
  <2> QED BY <2>7
<1>13. Ready(n, o, k, x)
  BY <1>10, <1>12
<1>14. Blocks(n, o, k) = Blocks(m, o, k) \ {block}
  <2>1. \A d : d \in Blocks(m, o, k) <=>
           \E j \in ChildIndexes(k, x) : \E f \in Blocks(m, Child(o, k, x, j), l) :
             d = Block(j * l + f.ptr, f.size)
    BY <1>1, <1>3, BlocksOfParts
  <2>2. \A d : d \in Blocks(n, o, k) <=>
           \E j \in ChildIndexes(k, x) : \E f \in Blocks(n, Child(o, k, x, j), l) :
             d = Block(j * l + f.ptr, f.size)
    BY <1>1, <1>7, BlocksOfParts
  <2>3. \A p, q : Block(p, q).ptr = p /\ Block(p, q).size = q
    BY DEF Block
  <2>4. Blocks(n, c, l) = Blocks(m, c, l) \ {b}
    BY <1>2, <1>8
  <2>5. ASSUME NEW j \in ChildIndexes(k, x), NEW f \in Blocks(m, Child(o, k, x, j), l),
               Block(j * l + f.ptr, f.size) = block
        PROVE  j = i /\ f = b
    <3>1. j * l + f.ptr = i * l + b.ptr /\ f.size = b.size
      BY <2>3, <2>5
    <3>2. BlocksInOrder(l, Blocks(m, Child(o, k, x, j), l)) /\ BlocksInOrder(l, Blocks(m, c, l))
      <4>1. Child(o, k, x, j) \in Nat
        BY <1>1, ChildArea
      <4> QED BY <1>1, <4>1, TreeBlocksApart
    <3>3. j \in Nat
      BY DEF ChildIndexes
    <3>4. j = i /\ f.ptr = b.ptr
      <4>1. /\ b \in Blocks(m, c, l) /\ f \in Blocks(m, Child(o, k, x, j), l)
            /\ l \in Kinds /\ i \in Nat /\ i * l + b.ptr = j * l + f.ptr
        BY <1>1, <3>1
      <4> HIDE DEF l, c
      <4> QED BY <3>2, <3>3, <4>1, OneChild
    <3>5. PICK p, q : f = Block(p, q)
      BY DEF Blocks
    <3>6. PICK r, s : b = Block(r, s)
      BY DEF Blocks
    <3> QED BY <2>3, <3>1, <3>4, <3>5, <3>6
  <2>6. ASSUME NEW j \in ChildIndexes(k, x), NEW f
        PROVE  f \in Blocks(n, Child(o, k, x, j), l) <=>
                 f \in Blocks(m, Child(o, k, x, j), l) /\ Block(j * l + f.ptr, f.size) # block
    <3>1. CASE j = i
      BY <2>4, <2>5, <3>1
    <3>2. CASE j # i
      <4>1. Blocks(n, Child(o, k, x, j), l) = Blocks(m, Child(o, k, x, j), l)
        BY <1>10, <3>2
      <4> QED BY <2>5, <3>2, <4>1
    <3> QED BY <3>1, <3>2
  <2>7. ASSUME NEW d PROVE d \in Blocks(n, o, k) <=> d \in Blocks(m, o, k) /\ d # block
    <3> HIDE DEF l, block
    <3> QED BY <2>1, <2>2, <2>6
  <2> QED BY <2>7
<1>15. (\A d \in Children(o, k, {x}) : isEmpty(n, d.at)) <=> AllEmpty(n, o, k, x)
  <2>1. \A j \in ChildIndexes(k, x) : [at |-> Child(o, k, x, j), kind |-> l] \in Children(o, k, {x})
    BY DEF Children
  <2>2. \A d \in Children(o, k, {x}) : \E j \in ChildIndexes(k, x) : d = [at |-> Child(o, k, x, j), kind |-> l]
    BY DEF Children
  <2>3. \A j : [at |-> Child(o, k, x, j), kind |-> l].at = Child(o, k, x, j)
    OBVIOUS
  <2> QED BY <2>1, <2>2, <2>3 DEF AllEmpty
<1>16. /\ e \in Memory /\ Good(e, o, k) /\ ~ full(e, o, k)
       /\ \A a \in Addresses : a \in Area(o, k) \/ e[a] = n[a]
       /\ Blocks(e, o, k) = Blocks(n, o, k)
  <2>1. CASE ~ AllEmpty(n, o, k, x)
    <3>1. e = n
      BY <1>15, <2>1 DEF setEmptyIfUnused
    <3>2. Good(n, o, k)
      BY <1>1, <1>13, <2>1, ReadyIsGood
    <3>3. ~ full(n, o, k)
      BY <1>11, <1>13, FullNode DEF Ready
    <3> HIDE DEF e
    <3> QED BY <1>6, <3>1, <3>2, <3>3
  <2>2. CASE AllEmpty(n, o, k, x)
    <3>1. e = setOption(n, o, SOE_Empty)
      BY <1>15, <2>2 DEF setEmptyIfUnused
    <3> HIDE DEF e
    <3>2. ASSUME NEW j \in ChildIndexes(k, x)
          PROVE  IsBlank(n, Child(o, k, x, j), l)
      <4>1. isEmpty(n, Child(o, k, x, j)) /\ Good(n, Child(o, k, x, j), l)
        BY <1>10, <2>2 DEF AllEmpty
      <4>2. Within(Child(o, k, x, j), l) /\ l \in Kinds
        BY ChildWithin
      <4> QED BY <1>6, <4>1, <4>2, GoodCases
    <3>3. \A a \in Area(o, k) : a # o => n[a] = Blank
      BY <1>13, <3>2 DEF Ready, Counted, IsBlank
    <3>4. FullOnes(n, o, k, x) = {}
      <4>1. \A j \in ChildIndexes(k, x) : ~ full(n, Child(o, k, x, j), l)
        BY <2>2 DEF AllEmpty, full, isReserved, isSplit, isEmpty, SOE_Reserved, SOE_Empty, SOE_Option1, SOE_Option2
      <4> QED BY <4>1 DEF FullOnes
    <3>5. n[o].fullChilds = 0
      BY <1>12, <3>4, FS_EmptySet
    <3>6. Updated(n, e, o, Blank)
      <4>1. \A option \in 0 .. 3 :
              Updated(n, setOption(n, o, option), o, [Option |-> option, fullChilds |-> n[o].fullChilds])
        BY <1>6, SetOptionType
      <4> QED BY <3>1, <3>5, <4>1 DEF SOE_Empty, Blank
    <3>7. IsBlank(e, o, k) /\ e \in Memory
      BY <1>1, <3>3, <3>6 DEF IsBlank, Updated
    <3>8. Good(e, o, k) /\ Blocks(e, o, k) = {} /\ isEmpty(e, o)
      BY <1>1, <3>7, BlankIsGood
    <3>9. ~ full(e, o, k)
      BY <3>8 DEF full, isReserved, isSplit, isEmpty, SOE_Reserved, SOE_Empty, SOE_Option1, SOE_Option2
    <3>10. Blocks(n, o, k) = {}
      <4>1. \A d : d \in Blocks(n, o, k) <=>
               \E j \in ChildIndexes(k, x) : \E f \in Blocks(n, Child(o, k, x, j), l) :
                 d = Block(j * l + f.ptr, f.size)
        BY <1>1, <1>7, BlocksOfParts
      <4>2. \A j \in ChildIndexes(k, x) : Blocks(n, Child(o, k, x, j), l) = {}
        BY <1>1, <3>2, ChildArea, BlankIsGood
      <4> QED BY <4>1, <4>2
    <3>11. \A a \in Addresses : a \in Area(o, k) \/ e[a] = n[a]
      BY <1>1, <3>6 DEF Updated
    <3> QED BY <3>7, <3>8, <3>9, <3>10, <3>11
  <2> QED BY <2>1, <2>2
<1>17. \A a \in Addresses : a \in Area(o, k) \/ e[a] = m[a]
  BY <1>1, <1>2, <1>6, <1>16
<1>18. block.size = b.size
  BY DEF Block
<1>19. [memory |-> e, size |-> freed.size].memory = e /\ [memory |-> e, size |-> freed.size].size = b.size
  BY <1>2
<1>20. Freed(m, o, k, block, [memory |-> e, size |-> freed.size])
  <2> HIDE DEF e, block
  <2> QED BY <1>14, <1>16, <1>17, <1>18, <1>19 DEF Freed
<1> QED BY <1>20 DEF n, kept

(* A block of the tree is freed.                                           *)
LEMMA DeallocFrees ==
  ASSUME NEW m \in Memory, NEW k \in Kinds, NEW o, Within(o, k), Good(m, o, k),
         NEW b \in Blocks(m, o, k)
  PROVE  Freed(m, o, k, b, deallocNode(m, o, k, b.ptr))
<1>1. PICK free : IsFree(m, free)
  BY FreeEquation
<1> DEFINE Right(j, a) == Within(a, j) /\ Good(m, a, j) =>
                            \A c \in Blocks(m, a, j) : Freed(m, a, j, c, free[j][a][c.ptr])
           S == {j \in Kinds : \A a \in Nat : Right(j, a)}
<1>2. ASSUME NEW j \in Kinds, \A l \in Kinds : l < j => l \in S, NEW a \in Nat,
             Within(a, j), Good(m, a, j), NEW c \in Blocks(m, a, j)
      PROVE  Freed(m, a, j, c, free[j][a][c.ptr])
  <2>1. c.ptr \in Nat
    BY TreeBlocksApart DEF BlocksInOrder
  <2>2. free[j][a][c.ptr] = FreeAt(m, a, j, c.ptr, free)
    BY <1>1, <2>1 DEF IsFree
  <2>3. CASE j \in Leaves \/ ~ isSplit(m, a)
    <3>1. FreeAt(m, a, j, c.ptr, free) = [memory |-> setOption(m, a, SOE_Empty), size |-> j]
      BY <2>3 DEF FreeAt
    <3> QED BY <1>2, <2>2, <2>3, <3>1, WholeFrees
  <2>4. CASE ~ (j \in Leaves \/ ~ isSplit(m, a))
    <3>1. PICK x \in 1 .. 2 : x = Option(m, a)
      BY <2>4 DEF isSplit, SOE_Option1, SOE_Option2
    <3>2. PICK l \in Nat \ {0} : l = Kind(j, x) /\ l \in Kinds /\ l < j
      BY <2>4, ChildFacts
    <3>3. PICK i \in ChildIndexes(j, x) : \E d \in Blocks(m, Child(a, j, x, i), l) :
                 c = Block(i * l + d.ptr, d.size)
      BY <2>4, <3>1, <3>2, BlocksOfParts
    <3>4. PICK d \in Blocks(m, Child(a, j, x, i), l) : c = Block(i * l + d.ptr, d.size)
      BY <3>3
    <3>5. Within(Child(a, j, x, i), l) /\ Child(a, j, x, i) \in Nat /\ Ready(m, a, j, x)
      BY <1>2, <2>4, <3>1, <3>2, ChildWithin, ReadyIsGood DEF Within
    <3>6. Good(m, Child(a, j, x, i), l)
      BY <3>2, <3>5 DEF Ready
    <3>7. c.ptr = i * l + d.ptr /\ d.ptr \in 0 .. l - 1 /\ i \in Nat
      <4>1. BlocksInOrder(l, Blocks(m, Child(a, j, x, i), l))
        BY <3>2, <3>5, TreeBlocksApart
      <4>2. d.ptr \in Nat /\ d.size \in Kinds /\ d.ptr + d.size <= l
        BY <4>1 DEF BlocksInOrder
      <4>3. d.size \in Nat \ {0}
        BY <4>2, KindIsNatural
      <4>4. c.ptr = i * l + d.ptr
        BY <3>4 DEF Block
      <4> QED BY <4>2, <4>3, <4>4 DEF ChildIndexes
    <3>8. c.ptr \div l = i /\ c.ptr % l = d.ptr
      <4>1. PICK p \in Int, q \in 0 .. l - 1 : p = i /\ q = d.ptr
        BY <3>7
      <4>2. c.ptr = p * l + q
        BY <3>7, <4>1
      <4>3. c.ptr \div l = p
        BY <2>1, <4>2, OneQuotient
      <4>4. c.ptr % l = q
        BY <2>1, <4>2, OneRemainder
      <4> QED BY <4>1, <4>3, <4>4
    <3>9. Freed(m, Child(a, j, x, i), l, d, free[l][Child(a, j, x, i)][d.ptr])
      BY <1>2, <3>2, <3>5, <3>6
    <3> DEFINE freed == free[l][Child(a, j, x, i)][d.ptr]
    <3>10. FreeAt(m, a, j, c.ptr, free) =
             [memory |-> setEmptyIfUnused(Uncounted(m, a, j, x, i, freed.memory), a, Children(a, j, {x})),
              size |-> freed.size]
      BY <2>4, <3>1, <3>2, <3>8 DEF FreeAt
    <3>11. Freed(m, a, j, Block(i * l + d.ptr, d.size),
             [memory |-> setEmptyIfUnused(Uncounted(m, a, j, x, i, freed.memory), a, Children(a, j, {x})),
              size |-> freed.size])
      <4> HIDE DEF freed
      <4>1. Freed(m, Child(a, j, x, i), Kind(j, x), d, freed)
        BY <3>2, <3>9 DEF freed
      <4>2. d \in Blocks(m, Child(a, j, x, i), Kind(j, x))
        BY <3>2
      <4> QED BY <1>2, <2>4, <3>2, <3>5, <4>1, <4>2, InChildFrees
    <3> HIDE DEF freed
    <3> QED BY <2>2, <3>4, <3>10, <3>11
  <2> QED BY <2>3, <2>4
<1>3. Kinds \subseteq S
  <2>1. ASSUME NEW j \in Kinds, \A l \in Kinds : l < j => l \in S PROVE j \in S
    BY <1>2, <2>1
  <2> HIDE DEF S
  <2> QED BY <2>1, KindInduction
<1>4. o \in Nat /\ b.ptr \in Nat
  BY TreeBlocksApart DEF Within, BlocksInOrder
<1>5. Freed(m, o, k, b, free[k][o][b.ptr])
  BY <1>3, <1>4
<1>6. deallocNode(m, o, k, b.ptr) = free[k][o][b.ptr]
  BY <1>1, <1>4 DEF IsFree
<1> QED BY <1>5, <1>6

-----------------------------------------------------------------------------
(* What a good tree is as a whole.                                         *)

(* A tree without blocks is empty.                                         *)
LEMMA NoBlocksIsEmpty ==
  ASSUME NEW m \in Memory, NEW k \in Kinds, NEW o, Within(o, k), Good(m, o, k),
         Blocks(m, o, k) = {}
  PROVE  IsBlank(m, o, k)
<1> DEFINE S == {j \in Kinds : \A a \in Nat :
                   Within(a, j) /\ Good(m, a, j) /\ Blocks(m, a, j) = {} => isEmpty(m, a)}
<1>1. ASSUME NEW j \in Kinds, \A l \in Kinds : l < j => l \in S,
             NEW a \in Nat, Within(a, j), Good(m, a, j), Blocks(m, a, j) = {}, ~ isEmpty(m, a)
      PROVE  FALSE
  <2>1. isReserved(m, a) \/ isSplit(m, a)
    BY <1>1, GoodCases
  <2>2. CASE ~ isSplit(m, a)
    BY <1>1, <2>1, <2>2, BlocksOfWhole
  <2>3. CASE isSplit(m, a)
    <3>1. j \notin Leaves /\ Option(m, a) \in 1 .. 2
      BY <1>1, <2>3, GoodCases
    <3>2. PICK x \in 1 .. 2 : Option(m, a) = x
      BY <3>1
    <3>3. Ready(m, a, j, x) /\ ~ AllEmpty(m, a, j, x)
      BY <1>1, <3>1, <3>2, ReadyIsGood
    <3>4. PICK i \in ChildIndexes(j, x) : ~ isEmpty(m, Child(a, j, x, i))
      BY <3>3 DEF AllEmpty
    <3>5. Within(Child(a, j, x, i), Kind(j, x)) /\ Kind(j, x) \in Kinds /\ Kind(j, x) < j
      BY <1>1, <3>1, ChildWithin
    <3>6. Good(m, Child(a, j, x, i), Kind(j, x))
      BY <3>3 DEF Ready
    <3>7. Child(a, j, x, i) \in Nat
      BY <3>5 DEF Within
    <3>8. Blocks(m, Child(a, j, x, i), Kind(j, x)) # {}
      BY <1>1, <3>4, <3>5, <3>6, <3>7
    <3>9. PICK c \in Blocks(m, Child(a, j, x, i), Kind(j, x)) : TRUE
      BY <3>8
    <3>10. Block(i * Kind(j, x) + c.ptr, c.size) \in Blocks(m, a, j)
      BY <3>1, <3>2, <3>9, BlocksOfParts
    <3> QED BY <1>1, <3>10
  <2> QED BY <2>2, <2>3
<1>2. Kinds \subseteq S
  <2>1. ASSUME NEW j \in Kinds, \A l \in Kinds : l < j => l \in S PROVE j \in S
    BY <1>1, <2>1
  <2> HIDE DEF S
  <2> QED BY <2>1, KindInduction
<1>3. o \in Nat
  BY DEF Within
<1>4. isEmpty(m, o)
  BY <1>2, <1>3
<1> QED BY <1>4, GoodCases

(* A node has at most five children that are full.                         *)
LEMMA CountsAreSmall ==
  ASSUME NEW m \in Memory, NEW k \in Kinds, NEW o, Within(o, k), Good(m, o, k)
  PROVE  \A b \in Area(o, k) : m[b].fullChilds \in 0 .. 5
<1> DEFINE S == {j \in Kinds : \A a \in Nat : Within(a, j) /\ Good(m, a, j) =>
                                 \A b \in Area(a, j) : m[b].fullChilds \in 0 .. 5}
<1>1. ASSUME NEW j \in Kinds, \A l \in Kinds : l < j => l \in S,
             NEW a \in Nat, Within(a, j), Good(m, a, j), NEW b \in Area(a, j)
      PROVE  m[b].fullChilds \in 0 .. 5
  <2>1. Blank.fullChilds = 0
    BY DEF Blank
  <2>2. CASE ~ isSplit(m, a)
    <3>1. Closed(m, a, j)
      BY <1>1, <2>2, GoodCases
    <3>2. m[b].fullChilds = 0
      BY <1>1, <2>1, <3>1 DEF Closed
    <3> QED BY <3>2
  <2>3. CASE isSplit(m, a)
    <3>1. j \notin Leaves /\ Option(m, a) \in 1 .. 2
      BY <1>1, <2>3, GoodCases
    <3>2. PICK x \in 1 .. 2 : Option(m, a) = x
      BY <3>1
    <3>3. Ready(m, a, j, x)
      BY <1>1, <3>1, <3>2, ReadyIsGood
    <3>4. m[a].fullChilds = Cardinality(FullOnes(m, a, j, x))
      BY <3>3 DEF Ready, Counted
    <3>5. FullOnes(m, a, j, x) \in SUBSET ChildIndexes(j, x)
      BY DEF FullOnes
    <3>6. m[a].fullChilds \in 0 .. 5
      <4>1. Cardinality(FullOnes(m, a, j, x)) \in Nat
            /\ Cardinality(FullOnes(m, a, j, x)) <= SplitOf[j][x].number
        BY <3>1, <3>5, ChildCount
      <4>2. SplitOf[j][x].number \in 2 .. 5
        BY <3>1, ChildFacts
      <4> QED BY <3>4, <4>1, <4>2
    <3>7. CASE b = a \/ m[b] = Blank
      BY <2>1, <3>6, <3>7
    <3>8. CASE \E i \in ChildIndexes(j, x) : b \in Area(Child(a, j, x, i), Kind(j, x))
      <4>1. PICK i \in ChildIndexes(j, x) : b \in Area(Child(a, j, x, i), Kind(j, x))
        BY <3>8
      <4>2. Within(Child(a, j, x, i), Kind(j, x)) /\ Kind(j, x) \in Kinds /\ Kind(j, x) < j
        BY <1>1, <3>1, ChildWithin
      <4>3. Good(m, Child(a, j, x, i), Kind(j, x)) /\ Child(a, j, x, i) \in Nat
        BY <3>3, <4>2 DEF Ready, Within
      <4> QED BY <1>1, <4>1, <4>2, <4>3
    <3> QED BY <1>1, <3>3, <3>7, <3>8 DEF Ready, Counted
  <2> QED BY <2>2, <2>3
<1>2. Kinds \subseteq S
  <2>1. ASSUME NEW j \in Kinds, \A l \in Kinds : l < j => l \in S PROVE j \in S
    BY <1>1, <2>1
  <2> HIDE DEF S
  <2> QED BY <2>1, KindInduction
<1>3. o \in Nat
  BY DEF Within
<1> QED BY <1>2, <1>3

(* The kinds of the places in a tree.                                      *)
LEMMA PlaceKinds ==
  \A k \in Kinds : {p.kind : p \in PlacesIn[k]} = KindsIn[k]
<1> DEFINE S == {k \in Kinds : {p.kind : p \in PlacesIn[k]} = KindsIn[k]}
<1>1. ASSUME NEW k \in Kinds, \A j \in Kinds : j < k => j \in S PROVE k \in S
  <2>1. ASSUME NEW p \in PlacesIn[k] PROVE p.kind \in KindsIn[k]
    <3>1. CASE p = Top(k)
      BY <3>1, KindsInCases DEF Top
    <3>2. CASE p # Top(k)
      <4>1. k \notin Leaves
        BY <3>2, PlaceCases
      <4>2. PICK x \in 1 .. 2 : \E i \in ChildIndexes(k, x) : \E q \in PlacesIn[Kind(k, x)] :
                     p = Under(q, k, x, i)
        BY <3>2, <4>1, PlaceCases
      <4>3. PICK i \in ChildIndexes(k, x) : \E q \in PlacesIn[Kind(k, x)] : p = Under(q, k, x, i)
        BY <4>2
      <4>4. PICK q \in PlacesIn[Kind(k, x)] : p = Under(q, k, x, i)
        BY <4>3
      <4>5. p.kind = q.kind
        BY <4>4 DEF Under, Shifted
      <4>6. Kind(k, x) \in Kinds /\ Kind(k, x) < k
        BY <4>1, ChildFacts
      <4>7. q.kind \in KindsIn[Kind(k, x)]
        BY <1>1, <4>6
      <4> QED BY <4>1, <4>5, <4>7, KindsInCases
    <3> QED BY <3>1, <3>2
  <2>2. ASSUME NEW j \in KindsIn[k] PROVE \E p \in PlacesIn[k] : p.kind = j
    <3>1. CASE j = k
      <4>1. Top(k) \in PlacesIn[k] /\ Top(k).kind = k
        BY PlaceCases DEF Top
      <4> QED BY <3>1, <4>1
    <3>2. CASE j # k
      <4>1. k \notin Leaves
        BY <3>2, KindsInCases
      <4>2. PICK x \in 1 .. 2 : j \in KindsIn[Kind(k, x)]
        BY <3>2, <4>1, KindsInCases
      <4>3. Kind(k, x) \in Kinds /\ Kind(k, x) < k
        BY <4>1, ChildFacts
      <4>4. PICK q \in PlacesIn[Kind(k, x)] : q.kind = j
        BY <1>1, <4>2, <4>3
      <4>5. 0 \in ChildIndexes(k, x)
        BY <4>1, ChildFacts DEF ChildIndexes
      <4>6. Under(q, k, x, 0) \in PlacesIn[k]
        BY <4>1, <4>5, PlaceCases
      <4>7. Under(q, k, x, 0).kind = j
        BY <4>4 DEF Under, Shifted
      <4> QED BY <4>6, <4>7
    <3> QED BY <3>1, <3>2
  <2> QED BY <2>1, <2>2
<1> HIDE DEF S
<1>2. Kinds \subseteq S
  BY <1>1, KindInduction
<1> QED BY <1>2 DEF S

-----------------------------------------------------------------------------
(* What a tree can serve.                                                  *)

(* A free place of the size, under nodes divided for it or not at all.     *)
FreeFor(m, o, place) ==
  /\ isEmpty(m, o + place.at)
  /\ \A a \in place.ancestors : Option(m, o + a[1]) \in {SOE_Empty, a[2]}
FitsIn(m, o, k, size) == \E place \in PlacesIn[k] : place.kind = size /\ FreeFor(m, o, place)

LEMMA FreeForUnder ==
  ASSUME NEW m, NEW o \in Nat, NEW k \in Kinds, k \notin Leaves, NEW x \in 1 .. 2,
         NEW i \in ChildIndexes(k, x), NEW q \in PlacesIn[Kind(k, x)]
  PROVE  /\ FreeFor(m, o, Under(q, k, x, i)) <=>
              Option(m, o) \in {SOE_Empty, x} /\ FreeFor(m, Child(o, k, x, i), q)
         /\ Under(q, k, x, i).kind = q.kind
<1> DEFINE u == Under(q, k, x, i)
           c == Child(0, k, x, i)
           shift == {<<c + a[1], a[2]>> : a \in q.ancestors}
<1>1. /\ u.at = c + q.at /\ u.kind = q.kind /\ u.ancestors = {<<0, x>>} \cup shift
  BY DEF Under, Shifted
<1>2. Child(o, k, x, i) = o + c /\ c \in Nat
  <2>1. Child(o, k, x, i) = o + Child(0, k, x, i)
    BY ChildBytes
  <2>2. \A n \in Nat : Child(n, k, x, i) \in Nat
    BY ChildBytes
  <2> QED BY <2>1, <2>2
<1>3. Kind(k, x) \in Kinds
  BY ChildFacts
<1>4. q.at \in Nat /\ \A a \in q.ancestors : a[1] \in Nat
  BY <1>3, PlaceBounds DEF Place
<1>5. o + u.at = Child(o, k, x, i) + q.at
  BY <1>1, <1>2, <1>4
<1>6. \A a \in q.ancestors : o + (c + a[1]) = Child(o, k, x, i) + a[1]
  BY <1>2, <1>4
<1>7. (\A a \in u.ancestors : Option(m, o + a[1]) \in {SOE_Empty, a[2]}) <=>
        /\ Option(m, o) \in {SOE_Empty, x}
        /\ \A a \in q.ancestors : Option(m, Child(o, k, x, i) + a[1]) \in {SOE_Empty, a[2]}
  <2> DEFINE T(a) == Option(m, o + a[1]) \in {SOE_Empty, a[2]}
  <2>1. T(<<0, x>>) <=> Option(m, o) \in {SOE_Empty, x}
    <3>1. o + 0 = o
      OBVIOUS
    <3> QED BY <3>1
  <2>2. ASSUME NEW a \in q.ancestors
        PROVE  T(<<c + a[1], a[2]>>) <=> Option(m, Child(o, k, x, i) + a[1]) \in {SOE_Empty, a[2]}
    <3> HIDE DEF c
    <3> QED BY <1>6
  <2>3. (\A a \in u.ancestors : T(a)) <=> T(<<0, x>>) /\ \A a \in q.ancestors : T(<<c + a[1], a[2]>>)
    <3> HIDE DEF c, T, u
    <3> QED BY <1>1
  <2> HIDE DEF c, u
  <2>4. (\A a \in u.ancestors : T(a)) <=>
          /\ Option(m, o) \in {SOE_Empty, x}
          /\ \A a \in q.ancestors : Option(m, Child(o, k, x, i) + a[1]) \in {SOE_Empty, a[2]}
    <3> HIDE DEF T
    <3> QED BY <2>1, <2>2, <2>3
  <2> QED BY <2>4
<1> HIDE DEF u
<1> QED BY <1>1, <1>5, <1>7 DEF FreeFor, u

LEMMA FitsCases ==
  ASSUME NEW m \in Memory, NEW k \in Kinds, NEW o, Within(o, k), Good(m, o, k), NEW size
  PROVE  /\ isEmpty(m, o) => (FitsIn(m, o, k, size) <=> size \in KindsIn[k])
         /\ isReserved(m, o) => ~ FitsIn(m, o, k, size)
         /\ isSplit(m, o) =>
              (FitsIn(m, o, k, size) <=>
                 \E i \in ChildIndexes(k, Option(m, o)) :
                   FitsIn(m, Child(o, k, Option(m, o), i), Kind(k, Option(m, o)), size))
<1>0. o \in Nat
  BY DEF Within
<1>1. ASSUME isEmpty(m, o) PROVE FitsIn(m, o, k, size) <=> size \in KindsIn[k]
  <2>1. IsBlank(m, o, k)
    BY <1>1, GoodCases
  <2>2. ASSUME NEW p \in PlacesIn[k] PROVE FreeFor(m, o, p)
    <3>1. o + p.at \in Area(o, k) /\ \A a \in p.ancestors : o + a[1] \in Area(o, k)
      BY <1>0, PlaceArea
    <3> QED BY <2>1, <3>1 DEF FreeFor, IsBlank, isEmpty, Option, Blank
  <2>3. {p.kind : p \in PlacesIn[k]} = KindsIn[k]
    BY PlaceKinds
  <2> QED BY <2>2, <2>3 DEF FitsIn
<1>2. ASSUME isReserved(m, o), FitsIn(m, o, k, size) PROVE FALSE
  <2>1. PICK p \in PlacesIn[k] : FreeFor(m, o, p)
    BY <1>2 DEF FitsIn
  <2>2. Option(m, o) = 3
    BY <1>2 DEF isReserved, SOE_Reserved
  <2>3. CASE p = Top(k)
    <3>1. o + p.at = o
      BY <1>0, <2>3, ActiveTop
    <3> QED BY <2>1, <2>2, <3>1 DEF FreeFor, isEmpty, SOE_Empty
  <2>4. CASE p # Top(k)
    <3>1. k \notin Leaves
      BY <2>4, PlaceCases
    <3>2. PICK x \in 1 .. 2 : \E i \in ChildIndexes(k, x) : \E q \in PlacesIn[Kind(k, x)] :
                   p = Under(q, k, x, i)
      BY <2>4, <3>1, PlaceCases
    <3>3. Option(m, o) \in {SOE_Empty, x}
      BY <1>0, <2>1, <3>1, <3>2, FreeForUnder
    <3> QED BY <2>2, <3>3 DEF SOE_Empty
  <2> QED BY <2>3, <2>4
<1>3. ASSUME isSplit(m, o)
      PROVE  FitsIn(m, o, k, size) <=>
               \E i \in ChildIndexes(k, Option(m, o)) :
                 FitsIn(m, Child(o, k, Option(m, o), i), Kind(k, Option(m, o)), size)
  <2>1. k \notin Leaves /\ Option(m, o) \in 1 .. 2
    BY <1>3, GoodCases
  <2>2. PICK y \in 1 .. 2 : Option(m, o) = y
    BY <2>1
  <2>3. ASSUME NEW p \in PlacesIn[k], p.kind = size, FreeFor(m, o, p)
        PROVE  \E i \in ChildIndexes(k, y) : FitsIn(m, Child(o, k, y, i), Kind(k, y), size)
    <3>1. p # Top(k)
      <4>1. ASSUME p = Top(k) PROVE FALSE
        <5>1. o + p.at = o
          BY <1>0, <4>1, ActiveTop
        <5>2. isEmpty(m, o)
          BY <2>3, <5>1 DEF FreeFor
        <5> QED BY <2>2, <5>2 DEF isEmpty, SOE_Empty
      <4> QED BY <4>1
    <3>2. PICK x \in 1 .. 2 : \E i \in ChildIndexes(k, x) : \E q \in PlacesIn[Kind(k, x)] :
                   p = Under(q, k, x, i)
      BY <2>1, <3>1, PlaceCases
    <3>3. PICK i \in ChildIndexes(k, x) : \E q \in PlacesIn[Kind(k, x)] : p = Under(q, k, x, i)
      BY <3>2
    <3>4. PICK q \in PlacesIn[Kind(k, x)] : p = Under(q, k, x, i)
      BY <3>3
    <3>5. /\ Option(m, o) \in {SOE_Empty, x} /\ FreeFor(m, Child(o, k, x, i), q)
          /\ p.kind = q.kind
      BY <1>0, <2>1, <2>3, <3>4, FreeForUnder
    <3>6. x = y
      BY <2>2, <3>5 DEF SOE_Empty
    <3> QED BY <2>3, <3>5, <3>6 DEF FitsIn
  <2>4. ASSUME NEW i \in ChildIndexes(k, y), FitsIn(m, Child(o, k, y, i), Kind(k, y), size)
        PROVE  FitsIn(m, o, k, size)
    <3>1. PICK q \in PlacesIn[Kind(k, y)] : q.kind = size /\ FreeFor(m, Child(o, k, y, i), q)
      BY <2>4 DEF FitsIn
    <3>2. FreeFor(m, o, Under(q, k, y, i)) /\ Under(q, k, y, i).kind = size
      BY <1>0, <2>1, <2>2, <3>1, FreeForUnder
    <3>3. Under(q, k, y, i) \in PlacesIn[k]
      BY <2>1, PlaceCases
    <3> QED BY <3>2, <3>3 DEF FitsIn
  <2> QED BY <2>2, <2>3, <2>4 DEF FitsIn
<1> QED BY <1>1, <1>2, <1>3

(* A tree can serve the sizes it has a free place for, and no others.      *)
Serves(m, o, k, _size) ==
  \/ tryAllocIndex(m, o, k, _size).index # NoIndex
  \/ getSplitCost(m, o, k, _size) # Infinite
LEMMA ServesWhatFits ==
  ASSUME NEW m \in Memory, NEW _size \in Nat, NEW k \in Kinds, NEW o, Within(o, k), Good(m, o, k)
  PROVE  Serves(m, o, k, _size) <=> FitsIn(m, o, k, _size)
<1>1. PICK try \in [Kinds -> [Nat -> Results]] :
        \A j \in Kinds, a \in Nat :
          /\ tryAllocIndex(m, a, j, _size) = try[j][a]
          /\ try[j][a] = TryAt(m, a, j, _size, try)
  BY TryEquation
<1>2. PICK cost : IsCost(m, _size, cost)
  BY CostEquation
<1>3. \A n, index : Found(n, index).memory = n /\ Found(n, index).index = index
  BY DEF Found
<1> DEFINE Right(j, a) == Within(a, j) /\ Good(m, a, j) =>
                            (Serves(m, a, j, _size) <=> FitsIn(m, a, j, _size))
           S == {j \in Kinds : \A a \in Nat : Right(j, a)}
<1>4. ASSUME NEW j \in Kinds, \A l \in Kinds : l < j => l \in S,
             NEW a \in Nat, Within(a, j), Good(m, a, j)
      PROVE  Serves(m, a, j, _size) <=> FitsIn(m, a, j, _size)
  <2>1. tryAllocIndex(m, a, j, _size) = TryAt(m, a, j, _size, try)
    BY <1>1
  <2>2. getSplitCost(m, a, j, _size) = CostAt(m, a, j, _size, cost)
    BY <1>2 DEF IsCost
  <2>3. isEmpty(m, a) \/ isReserved(m, a) \/ isSplit(m, a)
    BY <1>4, GoodCases
  <2>4. CASE isEmpty(m, a)
    <3>1. IsBlank(m, a, j)
      BY <1>4, <2>4, GoodCases
    <3>2. FitsIn(m, a, j, _size) <=> _size \in KindsIn[j]
      BY <1>4, <2>4, FitsCases
    <3>3. CASE _size = j
      <4>1. tryAllocIndex(m, a, j, _size).index # NoIndex
        BY <1>4, <2>4, <3>3, TryServes
      <4> QED BY <3>2, <3>3, <4>1, KindsInCases DEF Serves
    <3>4. CASE _size # j
      <4>1. ~ isSplit(m, a)
        BY <2>4 DEF isSplit, isEmpty, SOE_Empty, SOE_Option1, SOE_Option2
      <4>2. tryAllocIndex(m, a, j, _size).index = NoIndex
        BY <1>3, <2>1, <3>4, <4>1 DEF TryAt
      <4>3. getSplitCost(m, a, j, _size) # Infinite => _size \in KindsIn[j]
        BY FiniteCost DEF Affordable
      <4>4. _size \in KindsIn[j] => getSplitCost(m, a, j, _size) # Infinite
        <5>1. _size \in KindsIn[j] => possibleSplit(j, _size)
          BY <3>4, KindsInCases DEF possibleSplit
        <5> QED BY <3>1, <5>1, BlankCost
      <4> QED BY <3>2, <4>2, <4>3, <4>4 DEF Serves
    <3> QED BY <3>3, <3>4
  <2>5. CASE isReserved(m, a)
    <3>1. ~ isSplit(m, a) /\ ~ isEmpty(m, a)
      BY <2>5 DEF isReserved, isSplit, isEmpty, SOE_Empty, SOE_Option1, SOE_Option2, SOE_Reserved
    <3>2. tryAllocIndex(m, a, j, _size).index = NoIndex
      BY <1>3, <2>1, <3>1 DEF TryAt
    <3>3. getSplitCost(m, a, j, _size) = Infinite
      BY <2>2, <3>1 DEF CostAt
    <3>4. ~ FitsIn(m, a, j, _size)
      BY <1>4, <2>5, FitsCases
    <3> QED BY <3>2, <3>3, <3>4 DEF Serves
  <2>6. CASE isSplit(m, a)
    <3>1. j \notin Leaves /\ Option(m, a) \in 1 .. 2
      BY <1>4, <2>6, GoodCases
    <3>2. PICK x \in 1 .. 2 : Option(m, a) = x
      BY <3>1
    <3>3. Ready(m, a, j, x)
      BY <1>4, <3>1, <3>2, ReadyIsGood
    <3>4. ~ isEmpty(m, a)
      BY <2>6 DEF isSplit, isEmpty, SOE_Empty, SOE_Option1, SOE_Option2
    <3>5. FitsIn(m, a, j, _size) <=>
            \E i \in ChildIndexes(j, x) : FitsIn(m, Child(a, j, x, i), Kind(j, x), _size)
      BY <1>4, <2>6, <3>2, FitsCases
    <3>6. ASSUME NEW i \in ChildIndexes(j, x)
          PROVE  /\ Child(a, j, x, i) \in Nat /\ Within(Child(a, j, x, i), Kind(j, x))
                 /\ Kind(j, x) \in Kinds /\ Good(m, Child(a, j, x, i), Kind(j, x))
                 /\ Serves(m, Child(a, j, x, i), Kind(j, x), _size) <=>
                      FitsIn(m, Child(a, j, x, i), Kind(j, x), _size)
      <4>1. Within(Child(a, j, x, i), Kind(j, x)) /\ Kind(j, x) \in Kinds /\ Kind(j, x) < j
        BY <1>4, <3>1, ChildWithin
      <4>2. Good(m, Child(a, j, x, i), Kind(j, x)) /\ Child(a, j, x, i) \in Nat
        BY <3>3, <4>1 DEF Ready, Within
      <4> QED BY <1>4, <4>1, <4>2
    <3> DEFINE tries == {[i |-> i, found |-> try[Kind(j, x)][Child(a, j, x, i)]] :
                           i \in ChildIndexes(j, x)}
               hits == {t \in tries : t.found.index # NoIndex}
    <3>7. tryAllocIndex(m, a, j, _size) =
            IF full(m, a, j) \/ hits = {} THEN Found(m, NoIndex)
            ELSE InChild(a, j, x, First(hits).i, m, First(hits).found)
      BY <2>1, <2>6, <3>1, <3>2, <3>4 DEF TryAt
    <3>8. getSplitCost(m, a, j, _size) =
            IF j < _size \/ j = _size THEN Infinite ELSE Min(CostsBelow(cost, a, j, x))
      BY <2>2, <2>6, <3>1, <3>2, <3>4 DEF CostAt, CostsBelow
    <3>9. ASSUME Serves(m, a, j, _size)
          PROVE  \E i \in ChildIndexes(j, x) : Serves(m, Child(a, j, x, i), Kind(j, x), _size)
      <4>1. CASE tryAllocIndex(m, a, j, _size).index # NoIndex
        <5>1. hits # {}
          BY <1>3, <3>7, <4>1
        <5>2. PICK t \in hits : TRUE
          BY <5>1
        <5>3. PICK i \in ChildIndexes(j, x) : t = [i |-> i, found |-> try[Kind(j, x)][Child(a, j, x, i)]]
          BY <5>2
        <5>4. tryAllocIndex(m, Child(a, j, x, i), Kind(j, x), _size).index # NoIndex
          BY <1>1, <3>6, <5>2, <5>3
        <5> QED BY <5>4 DEF Serves
      <4>2. CASE getSplitCost(m, a, j, _size) # Infinite
        <5>1. Min(CostsBelow(cost, a, j, x)) # Infinite
          BY <3>8, <4>2
        <5>2. cost \in [Kinds -> [Nat -> Nat]]
          BY <1>2 DEF IsCost
        <5>3. PICK i \in ChildIndexes(j, x) :
                Min(CostsBelow(cost, a, j, x)) = cost[Kind(j, x)][Child(a, j, x, i)]
          BY <3>1, <5>2, LeastChildCost, ZenonT(30)
        <5>4. getSplitCost(m, Child(a, j, x, i), Kind(j, x), _size) # Infinite
          BY <1>2, <3>6, <5>1, <5>3 DEF IsCost
        <5> QED BY <5>4 DEF Serves
      <4> QED BY <3>9, <4>1, <4>2 DEF Serves
    <3>10. ASSUME NEW i \in ChildIndexes(j, x), Serves(m, Child(a, j, x, i), Kind(j, x), _size)
           PROVE  Serves(m, a, j, _size)
      <4>1. CASE tryAllocIndex(m, Child(a, j, x, i), Kind(j, x), _size).index # NoIndex
        <5>1. Tried(m, Child(a, j, x, i), Kind(j, x), _size,
                    tryAllocIndex(m, Child(a, j, x, i), Kind(j, x), _size))
          BY <3>6, TryServes
        <5>2. ~ full(m, Child(a, j, x, i), Kind(j, x))
          BY <4>1, <5>1 DEF Tried, ServedIn
        <5>3. ~ full(m, a, j)
          BY <3>1, <3>3, <5>2, FullNode DEF Ready
        <5> DEFINE u == [i |-> i, found |-> try[Kind(j, x)][Child(a, j, x, i)]]
        <5>4. u \in hits
          <6>1. try[Kind(j, x)][Child(a, j, x, i)].index # NoIndex
            BY <1>1, <3>6, <4>1
          <6> QED BY <6>1
        <5>5. ASSUME NEW t \in hits
              PROVE  t.i \in ChildIndexes(j, x) /\ t.i \in Nat /\ t.found.index \in Nat
          <6>1. PICK l \in ChildIndexes(j, x) : t = [i |-> l, found |-> try[Kind(j, x)][Child(a, j, x, l)]]
            OBVIOUS
          <6>2. t.found = tryAllocIndex(m, Child(a, j, x, l), Kind(j, x), _size) /\ t.i = l
            BY <1>1, <3>6, <6>1
          <6>3. Tried(m, Child(a, j, x, l), Kind(j, x), _size, t.found)
            BY <3>6, <6>2, TryServes
          <6>4. t.found.index # NoIndex
            OBVIOUS
          <6> HIDE DEF hits, tries
          <6>5. t.found.index \in Nat
            BY <6>3, <6>4 DEF Tried, ServedIn
          <6> QED BY <6>2, <6>5 DEF ChildIndexes
        <5> HIDE DEF hits, u, tries
        <5>6. First(hits) \in hits
          BY <5>4, <5>5, FirstOf
        <5>7. First(hits).i \in Nat /\ First(hits).found.index \in Nat
          BY <5>5, <5>6
        <5>8. tryAllocIndex(m, a, j, _size) = InChild(a, j, x, First(hits).i, m, First(hits).found)
          BY <3>7, <5>3, <5>4
        <5>9. \A f : InChild(a, j, x, First(hits).i, m, f).index = First(hits).i * Kind(j, x) + f.index
          BY <1>3 DEF InChild
        <5>10. First(hits).i * Kind(j, x) \in Nat
          <6>1. Kind(j, x) \in Nat
            BY <3>1, ChildFacts
          <6> QED BY <5>7, <6>1
        <5> QED BY <5>7, <5>8, <5>9, <5>10 DEF Serves, NoIndex
      <4>2. CASE getSplitCost(m, Child(a, j, x, i), Kind(j, x), _size) # Infinite
        <5>1. /\ _size \in KindsIn[Kind(j, x)] /\ Kind(j, x) \in Kinds
              /\ getSplitCost(m, Child(a, j, x, i), Kind(j, x), _size) <= 10000 * (Kind(j, x) - 1)
          BY <3>6, <4>2, FiniteCost DEF Affordable
        <5>2. _size <= Kind(j, x) /\ Kind(j, x) < j /\ j \in 1 .. 100 /\ Kind(j, x) \in Nat
          BY <3>1, <5>1, KindsEquation, ChildFacts, KindFacts
        <5>3. ~ (j < _size \/ j = _size)
          BY <5>2
        <5>4. cost \in [Kinds -> [Nat -> Nat]]
          BY <1>2 DEF IsCost
        <5>5. /\ Min(CostsBelow(cost, a, j, x)) \in Nat
              /\ Min(CostsBelow(cost, a, j, x)) <= cost[Kind(j, x)][Child(a, j, x, i)]
              /\ cost[Kind(j, x)][Child(a, j, x, i)] \in Nat
          BY <3>1, <5>4, LeastChildCost
        <5>6. cost[Kind(j, x)][Child(a, j, x, i)] = getSplitCost(m, Child(a, j, x, i), Kind(j, x), _size)
          BY <1>2, <3>6 DEF IsCost
        <5>7. Min(CostsBelow(cost, a, j, x)) # Infinite
          BY <5>1, <5>2, <5>5, <5>6 DEF Infinite
        <5> QED BY <3>8, <5>3, <5>7 DEF Serves
      <4> QED BY <3>10, <4>1, <4>2 DEF Serves
    <3> HIDE DEF hits, tries
    <3> QED BY <3>5, <3>6, <3>9, <3>10
  <2> QED BY <2>3, <2>4, <2>5, <2>6
<1>5. Kinds \subseteq S
  <2>1. ASSUME NEW j \in Kinds, \A l \in Kinds : l < j => l \in S PROVE j \in S
    BY <1>4, <2>1
  <2> HIDE DEF S
  <2> QED BY <2>1, KindInduction
<1>6. o \in Nat
  BY DEF Within
<1> QED BY <1>5, <1>6

-----------------------------------------------------------------------------
(* Free sizes.                                                             *)

LEMMA ChildrenFacts ==
  ASSUME NEW o \in Nat, NEW k \in Kinds, k \notin Leaves, NEW options \in SUBSET (1 .. 2)
  PROVE  /\ \A c \in Children(o, k, options) :
              /\ c.kind \in Kinds /\ c.kind < k /\ c.at \in Nat
              /\ \E x \in options : \E i \in ChildIndexes(k, x) :
                   c.at = Child(o, k, x, i) /\ c.kind = Kind(k, x)
         /\ \A x \in options : \A i \in ChildIndexes(k, x) :
              [at |-> Child(o, k, x, i), kind |-> Kind(k, x)] \in Children(o, k, options)
<1>1. ASSUME NEW c \in Children(o, k, options)
      PROVE  /\ c.kind \in Kinds /\ c.kind < k /\ c.at \in Nat
             /\ \E x \in options : \E i \in ChildIndexes(k, x) :
                  c.at = Child(o, k, x, i) /\ c.kind = Kind(k, x)
  <2>1. PICK x \in options : \E i \in ChildIndexes(k, x) : c = [at |-> Child(o, k, x, i), kind |-> Kind(k, x)]
    BY DEF Children
  <2>2. PICK i \in ChildIndexes(k, x) : c = [at |-> Child(o, k, x, i), kind |-> Kind(k, x)]
    BY <2>1
  <2>3. c.at = Child(o, k, x, i) /\ c.kind = Kind(k, x)
    BY <2>2
  <2>4. Child(o, k, x, i) \in Nat /\ Kind(k, x) \in Kinds /\ Kind(k, x) < k
    BY ChildBytes, ChildFacts
  <2> QED BY <2>3, <2>4
<1>2. ASSUME NEW x \in options, NEW i \in ChildIndexes(k, x)
      PROVE  [at |-> Child(o, k, x, i), kind |-> Kind(k, x)] \in Children(o, k, options)
  BY DEF Children
<1> QED BY <1>1, <1>2

FreeSizes == [first : SUBSET Nat, second : SUBSET Nat]
All(sizes) == sizes.first \cup sizes.second
OfChildren(at, k, options, sizes) == {sizes[c.kind][c.at] : c \in Children(at, k, options)}
SizesAt(m, at, k, sizes) ==
  IF k \in Leaves THEN [first |-> IF isEmpty(m, at) THEN {k} ELSE {}, second |-> {}]
  ELSE IF isEmpty(m, at)
    THEN [first |-> Bit(k), second |-> Firsts(OfChildren(at, k, {1, 2}, sizes))
                                         \cup Seconds(OfChildren(at, k, {1, 2}, sizes))]
  ELSE IF isSplit(m, at) THEN Both(OfChildren(at, k, {Option(m, at)}, sizes))
  ELSE NoSizes

(* freeSizesOfNode is what its definition says.                            *)
IsSizes(m, sizes) ==
  /\ sizes \in [Kinds -> [Nat -> FreeSizes]]
  /\ \A k \in Kinds, o \in Nat :
       /\ freeSizesOfNode(m, o, k) = sizes[k][o]
       /\ sizes[k][o] = SizesAt(m, o, k, sizes)
LEMMA SizesEquation ==
  ASSUME NEW m
  PROVE  \E sizes : IsSizes(m, sizes)
<1> DEFINE V == [Nat -> FreeSizes]
           F == [k \in Kinds |-> [f \in [Kinds -> V] |-> [at \in Nat |-> SizesAt(m, at, k, f)]]]
<1>1. ASSUME NEW k \in Kinds, NEW f \in [Kinds -> V], NEW at \in Nat
      PROVE  SizesAt(m, at, k, f) \in FreeSizes
  <2>1. ASSUME NEW S, \A s \in S : s \in FreeSizes PROVE Firsts(S) \in SUBSET Nat /\ Seconds(S) \in SUBSET Nat
    BY <2>1 DEF Firsts, Seconds, FreeSizes
  <2>2. ASSUME k \notin Leaves, NEW options \in SUBSET (1 .. 2)
        PROVE  /\ Firsts(OfChildren(at, k, options, f)) \in SUBSET Nat
               /\ Seconds(OfChildren(at, k, options, f)) \in SUBSET Nat
    <3>1. \A c \in Children(at, k, options) : f[c.kind][c.at] \in FreeSizes
      BY <1>1, <2>2, ChildrenFacts
    <3>2. \A s \in OfChildren(at, k, options, f) : s \in FreeSizes
      BY <3>1 DEF OfChildren
    <3> QED BY <2>1, <3>2
  <2>3. isSplit(m, at) => {Option(m, at)} \in SUBSET (1 .. 2)
    BY DEF isSplit, SOE_Option1, SOE_Option2
  <2>4. {1, 2} \in SUBSET (1 .. 2)
    OBVIOUS
  <2>5. k \in Nat /\ Bit(k) \in SUBSET Nat
    BY KindIsNatural DEF Bit
  <2> HIDE DEF V
  <2>6. CASE k \in Leaves
    BY <2>5, <2>6 DEF SizesAt, FreeSizes
  <2>7. CASE k \notin Leaves /\ isEmpty(m, at)
    BY <2>2, <2>4, <2>5, <2>7 DEF SizesAt, FreeSizes
  <2>8. CASE k \notin Leaves /\ ~ isEmpty(m, at) /\ isSplit(m, at)
    BY <2>2, <2>3, <2>8 DEF SizesAt, FreeSizes, Both
  <2>9. CASE k \notin Leaves /\ ~ isEmpty(m, at) /\ ~ isSplit(m, at)
    BY <2>9 DEF SizesAt, FreeSizes, NoSizes
  <2> QED BY <2>6, <2>7, <2>8, <2>9
<1>2. \A k \in Kinds, f \in [Kinds -> V] : F[k][f] \in V
  BY <1>1
<1>3. ASSUME NEW k \in Kinds, NEW f, NEW g, NEW at \in Nat, \A j \in Kinds : j < k => f[j] = g[j]
      PROVE  SizesAt(m, at, k, f) = SizesAt(m, at, k, g)
  <2>1. ASSUME k \notin Leaves, NEW options \in SUBSET (1 .. 2)
        PROVE  OfChildren(at, k, options, f) = OfChildren(at, k, options, g)
    <3>1. \A c \in Children(at, k, options) : f[c.kind] = g[c.kind]
      BY <1>3, <2>1, ChildrenFacts
    <3> QED BY <3>1 DEF OfChildren
  <2>2. isSplit(m, at) => {Option(m, at)} \in SUBSET (1 .. 2)
    BY DEF isSplit, SOE_Option1, SOE_Option2
  <2>3. {1, 2} \in SUBSET (1 .. 2)
    OBVIOUS
  <2> QED BY <2>1, <2>2, <2>3 DEF SizesAt
<1>4. \A k \in Kinds, f, g \in [Kinds -> V] :
        (\A j \in Kinds : j < k => f[j] = g[j]) => F[k][f] = F[k][g]
  <2> HIDE DEF V
  <2> QED BY <1>3
<1>5. PICK f \in [Kinds -> V] : \A k \in Kinds : f[k] = F[k][f]
  <2>1. [at \in Nat |-> NoSizes] \in V
    BY DEF NoSizes, FreeSizes
  <2> HIDE DEF V, F
  <2>2. Recursive(V, F)
    BY <1>2, <1>4, <2>1 DEF Recursive
  <2> QED BY <2>2, KindRecursion
<1> DEFINE body(f_1) == [j \in Kinds |-> [at \in Nat |-> SizesAt(m, at, j, f_1)]]
           sizes == CHOOSE f_1 : f_1 = body(f_1)
<1>6. f = body(f)
  <2> HIDE DEF V
  <2> QED BY <1>5
<1>7. sizes = body(sizes)
  BY <1>6
<1>8. \A k \in Kinds, o \in Nat : freeSizesOfNode(m, o, k) = sizes[k][o]
  BY DEF freeSizesOfNode, SizesAt, OfChildren
<1>9. sizes = f
  <2> DEFINE S == {k \in Kinds : sizes[k] = f[k]}
  <2>1. ASSUME NEW k \in Kinds, \A j \in Kinds : j < k => j \in S PROVE k \in S
    <3>1. \A at \in Nat : SizesAt(m, at, k, sizes) = SizesAt(m, at, k, f)
      <4> HIDE DEF sizes
      <4> QED BY <1>3, <2>1
    <3> HIDE DEF sizes
    <3> QED BY <1>6, <1>7, <3>1
  <2>2. Kinds \subseteq S
    <3> HIDE DEF S
    <3> QED BY <2>1, KindInduction
  <2> HIDE DEF sizes
  <2> QED BY <1>6, <1>7, <2>2
<1>10. sizes \in [Kinds -> V] /\ \A k \in Kinds, o \in Nat : sizes[k][o] = SizesAt(m, o, k, sizes)
  <2> HIDE DEF sizes, V
  <2> QED BY <1>7, <1>9
<1> HIDE DEF sizes
<1>11. IsSizes(m, sizes)
  BY <1>8, <1>10 DEF IsSizes
<1> QED BY <1>11

(* The free sizes of a tree are those up to 32 it has a free place for.    *)
Fitting(m, o, k) == {size \in Kinds : size <= 32 /\ FitsIn(m, o, k, size)}
LEMMA SizesThatFit ==
  ASSUME NEW m \in Memory, NEW k \in Kinds, NEW o, Within(o, k), Good(m, o, k)
  PROVE  All(freeSizesOfNode(m, o, k)) = Fitting(m, o, k)
<1>1. PICK sizes : IsSizes(m, sizes)
  BY SizesEquation
<1> DEFINE S == {j \in Kinds : \A a \in Nat :
                   Within(a, j) /\ Good(m, a, j) => All(sizes[j][a]) = Fitting(m, a, j)}
<1>2. ASSUME NEW A PROVE All(Both(A)) = Firsts(A) \cup Seconds(A)
  BY DEF All, Both
<1>3. ASSUME NEW j \in Kinds, \A l \in Kinds : l < j => l \in S,
             NEW a \in Nat, Within(a, j), Good(m, a, j)
      PROVE  All(sizes[j][a]) = Fitting(m, a, j)
  <2>1. sizes[j][a] = SizesAt(m, a, j, sizes)
    BY <1>1 DEF IsSizes
  <2>2. isEmpty(m, a) \/ isReserved(m, a) \/ isSplit(m, a)
    BY <1>3, GoodCases
  <2>3. j \in Nat /\ (j \in Leaves => j <= 32)
    BY KindIsNatural DEF Leaves
  <2>4. CASE isReserved(m, a)
    <3>1. ~ isSplit(m, a) /\ ~ isEmpty(m, a)
      BY <2>4 DEF isReserved, isSplit, isEmpty, SOE_Empty, SOE_Option1, SOE_Option2, SOE_Reserved
    <3>2. sizes[j][a] = NoSizes
      BY <2>1, <3>1 DEF SizesAt, NoSizes
    <3>3. Fitting(m, a, j) = {}
      BY <1>3, <2>4, FitsCases DEF Fitting
    <3> QED BY <3>2, <3>3 DEF All, NoSizes
  <2>5. CASE isEmpty(m, a)
    <3>1. Fitting(m, a, j) = {size \in KindsIn[j] : size <= 32}
      <4>1. \A size : FitsIn(m, a, j, size) <=> size \in KindsIn[j]
        BY <1>3, <2>5, FitsCases
      <4>2. KindsIn[j] \subseteq Kinds
        BY KindsEquation
      <4> QED BY <4>1, <4>2 DEF Fitting
    <3>2. CASE j \in Leaves
      <4>1. KindsIn[j] = {j}
        BY <3>2, KindsInCases
      <4>2. sizes[j][a] = [first |-> {j}, second |-> {}]
        BY <2>1, <2>5, <3>2 DEF SizesAt
      <4> QED BY <2>3, <3>1, <3>2, <4>1, <4>2 DEF All
    <3>3. CASE j \notin Leaves
      <4> DEFINE parts == OfChildren(a, j, {1, 2}, sizes)
      <4>1. sizes[j][a] = [first |-> Bit(j), second |-> Firsts(parts) \cup Seconds(parts)]
        BY <2>1, <2>5, <3>3 DEF SizesAt
      <4>2. ASSUME NEW x \in 1 .. 2, NEW i \in ChildIndexes(j, x)
            PROVE  All(sizes[Kind(j, x)][Child(a, j, x, i)]) = {size \in KindsIn[Kind(j, x)] : size <= 32}
        <5>1. Closed(m, a, j)
          BY <1>3, <2>5, GoodCases DEF isEmpty, isSplit, SOE_Empty, SOE_Option1, SOE_Option2
        <5>2. IsBlank(m, Child(a, j, x, i), Kind(j, x))
          BY <3>3, <5>1, ClosedChildren
        <5>3. Within(Child(a, j, x, i), Kind(j, x)) /\ Kind(j, x) \in Kinds /\ Kind(j, x) < j
          BY <1>3, <3>3, ChildWithin
        <5>4. Child(a, j, x, i) \in Nat
          BY <5>3 DEF Within
        <5>5. isEmpty(m, Child(a, j, x, i)) /\ Good(m, Child(a, j, x, i), Kind(j, x))
          BY <5>2, <5>3, <5>4, BlankIsGood
        <5>6. All(sizes[Kind(j, x)][Child(a, j, x, i)]) = Fitting(m, Child(a, j, x, i), Kind(j, x))
          BY <1>3, <5>3, <5>4, <5>5
        <5>7. \A size : FitsIn(m, Child(a, j, x, i), Kind(j, x), size) <=> size \in KindsIn[Kind(j, x)]
          BY <5>3, <5>5, FitsCases
        <5>8. KindsIn[Kind(j, x)] \subseteq Kinds
          BY <5>3, KindsEquation
        <5> QED BY <5>6, <5>7, <5>8 DEF Fitting
      <4>3. {1, 2} \in SUBSET (1 .. 2)
        OBVIOUS
      <4>4. ASSUME NEW size \in Firsts(parts) \cup Seconds(parts)
            PROVE  size \in KindsIn[j] /\ size <= 32
        <5>1. PICK s \in parts : size \in All(s)
          BY DEF Firsts, Seconds, All
        <5>2. PICK c \in Children(a, j, {1, 2}) : s = sizes[c.kind][c.at]
          BY <5>1 DEF OfChildren
        <5>3. PICK x \in 1 .. 2 : \E i \in ChildIndexes(j, x) :
                   c.at = Child(a, j, x, i) /\ c.kind = Kind(j, x)
          BY <3>3, <4>3, ChildrenFacts
        <5>4. PICK i \in ChildIndexes(j, x) : c.at = Child(a, j, x, i) /\ c.kind = Kind(j, x)
          BY <5>3
        <5>5. size \in KindsIn[Kind(j, x)] /\ size <= 32
          BY <4>2, <5>1, <5>2, <5>4
        <5> QED BY <3>3, <5>5, KindsInCases
      <4>5. ASSUME NEW size \in KindsIn[j], size <= 32, size # j
            PROVE  size \in Firsts(parts) \cup Seconds(parts)
        <5>1. PICK x \in 1 .. 2 : size \in KindsIn[Kind(j, x)]
          BY <3>3, <4>5, KindsInCases
        <5>2. 0 \in ChildIndexes(j, x)
          BY <3>3, ChildFacts DEF ChildIndexes
        <5>3. size \in All(sizes[Kind(j, x)][Child(a, j, x, 0)])
          BY <4>2, <4>5, <5>1, <5>2
        <5>4. [at |-> Child(a, j, x, 0), kind |-> Kind(j, x)] \in Children(a, j, {1, 2})
          BY <3>3, <4>3, <5>2, ChildrenFacts
        <5>5. sizes[Kind(j, x)][Child(a, j, x, 0)] \in parts
          BY <5>4 DEF OfChildren
        <5> HIDE DEF parts
        <5> QED BY <5>3, <5>5 DEF All, Firsts, Seconds
      <4>6. j \in KindsIn[j] /\ \A size \in KindsIn[j] : size \in Nat
        BY KindsInCases, KindsEquation, KindIsNatural
      <4> HIDE DEF parts
      <4>7. All(sizes[j][a]) = Bit(j) \cup Firsts(parts) \cup Seconds(parts)
        BY <4>1 DEF All
      <4> QED BY <2>3, <3>1, <4>4, <4>5, <4>6, <4>7 DEF Bit
    <3> QED BY <3>2, <3>3
  <2>6. CASE isSplit(m, a)
    <3>1. j \notin Leaves /\ Option(m, a) \in 1 .. 2
      BY <1>3, <2>6, GoodCases
    <3>2. PICK x \in 1 .. 2 : Option(m, a) = x
      BY <3>1
    <3>3. Ready(m, a, j, x)
      BY <1>3, <3>1, <3>2, ReadyIsGood
    <3>4. ~ isEmpty(m, a)
      BY <2>6 DEF isSplit, isEmpty, SOE_Empty, SOE_Option1, SOE_Option2
    <3> DEFINE parts == OfChildren(a, j, {x}, sizes)
    <3>5. All(sizes[j][a]) = Firsts(parts) \cup Seconds(parts)
      BY <1>2, <2>1, <2>6, <3>1, <3>2, <3>4 DEF SizesAt
    <3>6. \A size : FitsIn(m, a, j, size) <=>
            \E i \in ChildIndexes(j, x) : FitsIn(m, Child(a, j, x, i), Kind(j, x), size)
      BY <1>3, <2>6, <3>2, FitsCases
    <3>7. ASSUME NEW i \in ChildIndexes(j, x)
          PROVE  All(sizes[Kind(j, x)][Child(a, j, x, i)]) = Fitting(m, Child(a, j, x, i), Kind(j, x))
      <4>1. Within(Child(a, j, x, i), Kind(j, x)) /\ Kind(j, x) \in Kinds /\ Kind(j, x) < j
        BY <1>3, <3>1, ChildWithin
      <4>2. Good(m, Child(a, j, x, i), Kind(j, x)) /\ Child(a, j, x, i) \in Nat
        BY <3>3, <4>1 DEF Ready, Within
      <4> QED BY <1>3, <4>1, <4>2
    <3>8. {x} \in SUBSET (1 .. 2)
      OBVIOUS
    <3>9. ASSUME NEW size \in Firsts(parts) \cup Seconds(parts) PROVE size \in Fitting(m, a, j)
      <4>1. PICK s \in parts : size \in All(s)
        BY DEF Firsts, Seconds, All
      <4>2. PICK c \in Children(a, j, {x}) : s = sizes[c.kind][c.at]
        BY <4>1 DEF OfChildren
      <4>3. PICK i \in ChildIndexes(j, x) : c.at = Child(a, j, x, i) /\ c.kind = Kind(j, x)
        BY <3>1, <3>8, ChildrenFacts
      <4>4. size \in Fitting(m, Child(a, j, x, i), Kind(j, x))
        BY <3>7, <4>1, <4>2, <4>3
      <4> QED BY <3>6, <4>4 DEF Fitting
    <3>10. ASSUME NEW size \in Fitting(m, a, j) PROVE size \in Firsts(parts) \cup Seconds(parts)
      <4>1. PICK i \in ChildIndexes(j, x) : FitsIn(m, Child(a, j, x, i), Kind(j, x), size)
        BY <3>6 DEF Fitting
      <4>2. size \in All(sizes[Kind(j, x)][Child(a, j, x, i)])
        BY <3>7, <4>1 DEF Fitting
      <4>3. [at |-> Child(a, j, x, i), kind |-> Kind(j, x)] \in Children(a, j, {x})
        BY <3>1, <3>8, ChildrenFacts
      <4>4. PICK c \in Children(a, j, {x}) : c = [at |-> Child(a, j, x, i), kind |-> Kind(j, x)]
        BY <4>3
      <4>5. c.at = Child(a, j, x, i) /\ c.kind = Kind(j, x)
        BY <4>4
      <4>6. sizes[c.kind][c.at] \in parts
        BY DEF OfChildren
      <4> HIDE DEF parts
      <4> QED BY <4>2, <4>5, <4>6 DEF All, Firsts, Seconds
    <3> HIDE DEF parts
    <3> QED BY <3>5, <3>9, <3>10
  <2> QED BY <2>2, <2>4, <2>5, <2>6
<1>4. Kinds \subseteq S
  <2>1. ASSUME NEW j \in Kinds, \A l \in Kinds : l < j => l \in S PROVE j \in S
    BY <1>3, <2>1
  <2> HIDE DEF S
  <2> QED BY <2>1, KindInduction
<1>5. o \in Nat
  BY DEF Within
<1>6. freeSizesOfNode(m, o, k) = sizes[k][o]
  BY <1>1, <1>5 DEF IsSizes
<1> QED BY <1>4, <1>5, <1>6

-----------------------------------------------------------------------------
(* The code's own test.                                                    *)

Each(at, k, options, correct) == \A c \in Children(at, k, options) : correct[c.kind][c.at]
CorrectAt(m, at, k, correct) ==
  IF k \in Leaves THEN m[at].fullChilds = 0 /\ ~ isSplit(m, at)
  ELSE IF ~ isSplit(m, at)
    THEN /\ m[at].fullChilds = 0
         /\ \A c \in Children(at, k, {1}) : isEmpty(m, c.at)
         /\ Each(at, k, {1, 2}, correct)
  ELSE /\ m[at].fullChilds = Cardinality(FullOnes(m, at, k, Option(m, at)))
       /\ Each(at, k, {Option(m, at)}, correct)

(* nodeCorrect is what its definition says.                                *)
IsCorrect(m, correct) ==
  /\ correct \in [Kinds -> [Nat -> BOOLEAN]]
  /\ \A k \in Kinds, o \in Nat :
       /\ nodeCorrect(m, o, k) = correct[k][o]
       /\ correct[k][o] = CorrectAt(m, o, k, correct)
LEMMA CorrectEquation ==
  ASSUME NEW m
  PROVE  \E correct : IsCorrect(m, correct)
<1> DEFINE V == [Nat -> BOOLEAN]
           F == [k \in Kinds |-> [f \in [Kinds -> V] |-> [at \in Nat |-> CorrectAt(m, at, k, f)]]]
<1>1. ASSUME NEW k, NEW f, NEW at
      PROVE  CorrectAt(m, at, k, f) \in BOOLEAN
  BY Zenon DEF CorrectAt, Each
<1>2. \A k \in Kinds, f \in [Kinds -> V] : F[k][f] \in V
  BY <1>1
<1>3. ASSUME NEW k \in Kinds, NEW f, NEW g, NEW at \in Nat, \A j \in Kinds : j < k => f[j] = g[j]
      PROVE  CorrectAt(m, at, k, f) = CorrectAt(m, at, k, g)
  <2>1. ASSUME k \notin Leaves, NEW options \in SUBSET (1 .. 2)
        PROVE  Each(at, k, options, f) = Each(at, k, options, g)
    <3>1. \A c \in Children(at, k, options) : f[c.kind] = g[c.kind]
      BY <1>3, <2>1, ChildrenFacts
    <3> QED BY <3>1, Zenon DEF Each
  <2>2. isSplit(m, at) => {Option(m, at)} \in SUBSET (1 .. 2)
    BY DEF isSplit, SOE_Option1, SOE_Option2
  <2>3. {1, 2} \in SUBSET (1 .. 2)
    OBVIOUS
  <2>4. k \notin Leaves => Each(at, k, {1, 2}, f) = Each(at, k, {1, 2}, g)
    BY <2>1, <2>3
  <2>5. k \notin Leaves /\ isSplit(m, at) => Each(at, k, {Option(m, at)}, f) = Each(at, k, {Option(m, at)}, g)
    BY <2>1, <2>2
  <2> QED BY <2>4, <2>5, Zenon DEF CorrectAt
<1>4. \A k \in Kinds, f, g \in [Kinds -> V] :
        (\A j \in Kinds : j < k => f[j] = g[j]) => F[k][f] = F[k][g]
  <2> HIDE DEF V
  <2> QED BY <1>3
<1>5. PICK f \in [Kinds -> V] : \A k \in Kinds : f[k] = F[k][f]
  <2>1. [at \in Nat |-> TRUE] \in V
    OBVIOUS
  <2> HIDE DEF V, F
  <2>2. Recursive(V, F)
    BY <1>2, <1>4, <2>1 DEF Recursive
  <2> QED BY <2>2, KindRecursion
<1> DEFINE body(f_1) == [j \in Kinds |-> [at \in Nat |-> CorrectAt(m, at, j, f_1)]]
           correct == CHOOSE f_1 : f_1 = body(f_1)
<1>6. f = body(f)
  <2> HIDE DEF V
  <2> QED BY <1>5
<1>7. correct = body(correct)
  BY <1>6
<1>8. \A k \in Kinds, o \in Nat : nodeCorrect(m, o, k) = correct[k][o]
  BY DEF nodeCorrect, CorrectAt, Each, FullOnes
<1>9. correct = f
  <2> DEFINE S == {k \in Kinds : correct[k] = f[k]}
  <2>1. ASSUME NEW k \in Kinds, \A j \in Kinds : j < k => j \in S PROVE k \in S
    <3>1. \A at \in Nat : CorrectAt(m, at, k, correct) = CorrectAt(m, at, k, f)
      <4> HIDE DEF correct
      <4> QED BY <1>3, <2>1
    <3> HIDE DEF correct
    <3>2. correct[k] = [at \in Nat |-> CorrectAt(m, at, k, correct)]
      BY <1>7, Zenon
    <3>3. f[k] = [at \in Nat |-> CorrectAt(m, at, k, f)]
      BY <1>6, Zenon
    <3>4. [at \in Nat |-> CorrectAt(m, at, k, correct)] = [at \in Nat |-> CorrectAt(m, at, k, f)]
      BY <3>1, Zenon
    <3> QED BY <3>2, <3>3, <3>4
  <2>2. Kinds \subseteq S
    <3> HIDE DEF S
    <3> QED BY <2>1, KindInduction
  <2> HIDE DEF correct
  <2> QED BY <1>6, <1>7, <2>2
<1>10. correct \in [Kinds -> V] /\ \A k \in Kinds, o \in Nat : correct[k][o] = CorrectAt(m, o, k, correct)
  <2>1. correct \in [Kinds -> V]
    BY <1>9
  <2>2. \A k \in Kinds, o \in Nat : correct[k][o] = CorrectAt(m, o, k, correct)
    <3> HIDE DEF correct
    <3>1. SUFFICES ASSUME NEW k \in Kinds, NEW o \in Nat
                   PROVE  correct[k][o] = CorrectAt(m, o, k, correct)
      OBVIOUS
    <3>2. correct[k] = [at \in Nat |-> CorrectAt(m, at, k, correct)]
      BY <1>7, Zenon
    <3> QED BY <3>2, Zenon
  <2> QED BY <2>1, <2>2
<1> HIDE DEF correct
<1>11. IsCorrect(m, correct)
  BY <1>8, <1>10, Zenon DEF IsCorrect
<1> QED BY <1>11

(* A good tree passes it.                                                  *)
LEMMA GoodIsCorrect ==
  ASSUME NEW m \in Memory, NEW k \in Kinds, NEW o, Within(o, k), Good(m, o, k)
  PROVE  nodeCorrect(m, o, k)
<1>1. PICK correct : IsCorrect(m, correct)
  BY CorrectEquation
<1> DEFINE S == {j \in Kinds : \A a \in Nat : Within(a, j) /\ Good(m, a, j) => correct[j][a]}
<1>2. ASSUME NEW j \in Kinds, \A l \in Kinds : l < j => l \in S,
             NEW a \in Nat, Within(a, j), Good(m, a, j)
      PROVE  correct[j][a]
  <2>1. correct[j][a] = CorrectAt(m, a, j, correct)
    BY <1>1 DEF IsCorrect
  <2>2. ASSUME NEW x \in 1 .. 2, NEW i \in ChildIndexes(j, x), j \notin Leaves,
               Good(m, Child(a, j, x, i), Kind(j, x))
        PROVE  correct[Kind(j, x)][Child(a, j, x, i)]
    <3>1. Within(Child(a, j, x, i), Kind(j, x)) /\ Kind(j, x) \in Kinds /\ Kind(j, x) < j
      BY <1>2, <2>2, ChildWithin
    <3>2. Child(a, j, x, i) \in Nat
      BY <3>1 DEF Within
    <3> QED BY <1>2, <2>2, <3>1, <3>2
  <2>3. CASE ~ isSplit(m, a)
    <3>1. Closed(m, a, j)
      BY <1>2, <2>3, GoodCases
    <3>2. m[a].fullChilds = 0
      BY <3>1 DEF Closed
    <3>3. CASE j \in Leaves
      BY <2>1, <2>3, <3>2, <3>3, Zenon DEF CorrectAt
    <3>4. CASE j \notin Leaves
      <4>1. ASSUME NEW x \in 1 .. 2, NEW i \in ChildIndexes(j, x)
            PROVE  isEmpty(m, Child(a, j, x, i)) /\ Good(m, Child(a, j, x, i), Kind(j, x))
        <5>1. IsBlank(m, Child(a, j, x, i), Kind(j, x))
          BY <3>1, <3>4, ClosedChildren
        <5>2. Within(Child(a, j, x, i), Kind(j, x)) /\ Kind(j, x) \in Kinds
          BY <1>2, <3>4, ChildWithin
        <5> QED BY <5>1, <5>2, BlankIsGood DEF Within
      <4>2. {1, 2} \in SUBSET (1 .. 2) /\ {1} \in SUBSET (1 .. 2)
        OBVIOUS
      <4>3. \A c \in Children(a, j, {1}) : isEmpty(m, c.at)
        <5>1. SUFFICES ASSUME NEW c \in Children(a, j, {1}) PROVE isEmpty(m, c.at)
          OBVIOUS
        <5>2. PICK x \in {1} : \E i \in ChildIndexes(j, x) : c.at = Child(a, j, x, i) /\ c.kind = Kind(j, x)
          BY <3>4, <4>2, ChildrenFacts
        <5>3. x \in 1 .. 2
          BY <5>2
        <5> QED BY <4>1, <5>2, <5>3
      <4>4. Each(a, j, {1, 2}, correct)
        <5>1. SUFFICES ASSUME NEW c \in Children(a, j, {1, 2}) PROVE correct[c.kind][c.at]
          BY Zenon DEF Each
        <5>2. PICK x \in 1 .. 2 : \E i \in ChildIndexes(j, x) : c.at = Child(a, j, x, i) /\ c.kind = Kind(j, x)
          BY <3>4, <4>2, ChildrenFacts
        <5>3. PICK i \in ChildIndexes(j, x) : c.at = Child(a, j, x, i) /\ c.kind = Kind(j, x)
          BY <5>2
        <5>4. correct[Kind(j, x)][Child(a, j, x, i)]
          BY <2>2, <3>4, <4>1
        <5> QED BY <5>3, <5>4
      <4> QED BY <2>1, <2>3, <3>2, <3>4, <4>3, <4>4, Zenon DEF CorrectAt
    <3> QED BY <3>3, <3>4
  <2>4. CASE isSplit(m, a)
    <3>1. j \notin Leaves /\ Option(m, a) \in 1 .. 2
      BY <1>2, <2>4, GoodCases
    <3>2. PICK x \in 1 .. 2 : Option(m, a) = x
      BY <3>1
    <3>3. Ready(m, a, j, x)
      BY <1>2, <3>1, <3>2, ReadyIsGood
    <3>4. m[a].fullChilds = Cardinality(FullOnes(m, a, j, Option(m, a)))
      BY <3>2, <3>3 DEF Ready, Counted
    <3>5. {x} \in SUBSET (1 .. 2)
      OBVIOUS
    <3>6. Each(a, j, {x}, correct)
      <4>1. SUFFICES ASSUME NEW c \in Children(a, j, {x}) PROVE correct[c.kind][c.at]
        BY Zenon DEF Each
      <4>2. PICK y \in {x} : \E i \in ChildIndexes(j, y) : c.at = Child(a, j, y, i) /\ c.kind = Kind(j, y)
        BY <3>1, <3>5, ChildrenFacts
      <4>3. PICK i \in ChildIndexes(j, x) : c.at = Child(a, j, x, i) /\ c.kind = Kind(j, x)
        BY <4>2
      <4>4. correct[Kind(j, x)][Child(a, j, x, i)]
        BY <2>2, <3>1, <3>3 DEF Ready
      <4> QED BY <4>3, <4>4
    <3>7. CorrectAt(m, a, j, correct)
      BY <2>4, <3>1, <3>2, <3>4, <3>6, Zenon DEF CorrectAt
    <3> QED BY <2>1, <3>7
  <2> QED BY <2>3, <2>4
<1>3. Kinds \subseteq S
  <2>1. ASSUME NEW j \in Kinds, \A l \in Kinds : l < j => l \in S PROVE j \in S
    BY <1>2, <2>1
  <2> HIDE DEF S
  <2> QED BY <2>1, KindInduction
<1>4. o \in Nat
  BY DEF Within
<1>5. nodeCorrect(m, o, k) = correct[k][o]
  BY <1>1, <1>4 DEF IsCorrect
<1> QED BY <1>3, <1>4, <1>5

-----------------------------------------------------------------------------
(* Where a pool's trees lie.                                               *)

LEMMA SumOfPrefix ==
  ASSUME NEW f, NEW n \in Nat, \A x \in 1 .. n : f[x] \in Nat,
         NEW i \in 1 .. n, NEW j \in i + 1 .. n + 1
  PROVE  /\ SumOf(f, 1 .. i - 1) \in Nat /\ SumOf(f, 1 .. j - 1) \in Nat
         /\ SumOf(f, 1 .. i - 1) + f[i] <= SumOf(f, 1 .. j - 1)
<1> DEFINE S == 1 .. i - 1
           T == i + 1 .. j - 1
<1>1. IsFiniteSet(S) /\ IsFiniteSet(T) /\ IsFiniteSet(S \cup {i})
  <2>1. IsFiniteSet(S) /\ IsFiniteSet(T)
    BY FS_Interval
  <2> QED BY <2>1, FS_AddElement
<1>2. 1 .. j - 1 = (S \cup {i}) \cup T /\ (S \cup {i}) \cap T = {} /\ i \notin S
  OBVIOUS
<1>3. \A x \in (S \cup {i}) \cup T : f[x] \in Nat
  OBVIOUS
<1> HIDE DEF S, T
<1>4. SumOf(f, (S \cup {i}) \cup T) = SumOf(f, S \cup {i}) + SumOf(f, T)
  BY <1>1, <1>2, <1>3, SumUnion
<1>5. SumOf(f, S \cup {i}) = f[i] + SumOf(f, S)
  BY <1>1, <1>2, <1>3, SumAdd
<1>6. SumOf(f, S) \in Nat /\ SumOf(f, T) \in Nat /\ f[i] \in Nat
  BY <1>1, <1>3, SumType
<1>7. SumOf(f, 1 .. j - 1) = SumOf(f, (S \cup {i}) \cup T)
  BY <1>2
<1>8. SumOf(f, 1 .. i - 1) = SumOf(f, S)
  BY DEF S
<1>9. SumOf(f, S) + f[i] <= SumOf(f, (S \cup {i}) \cup T) /\ SumOf(f, (S \cup {i}) \cup T) \in Nat
  BY <1>4, <1>5, <1>6
<1> QED BY <1>6, <1>7, <1>8, <1>9

(* The arrays of a type: one, two or three, none of them empty.            *)
AreArrays(arrays) ==
  /\ Len(arrays) \in 1 .. 3 /\ DOMAIN arrays = 1 .. Len(arrays)
  /\ \A j \in 1 .. Len(arrays) : arrays[j].kind \in Kinds /\ arrays[j].number \in Nat \ {0}
LEMMA ArraysFacts ==
  ASSUME NEW type \in Types
  PROVE  AreArrays(Arrays(type))
<1>1. Copies[type] \in Nat \ {0}
  BY CopiesAssumption
<1>2. \A k, n : Array(k, n).kind = k /\ Array(k, n).number = n
  BY DEF Array
<1>3. {30, 32, 72, 84, 100, 8, 4, 2} \subseteq Kinds
  BY DEF Kinds, Leaves, Middles
<1>4. ASSUME NEW a, a.kind \in Kinds, a.number \in Nat \ {0} PROVE AreArrays(<<a>>)
  BY <1>4 DEF AreArrays
<1>5. ASSUME NEW a, a.kind \in Kinds, a.number \in Nat \ {0}, NEW b, b.kind \in Kinds, b.number \in Nat \ {0}
      PROVE  AreArrays(<<a, b>>)
  BY <1>5 DEF AreArrays
<1>6. ASSUME NEW a, a.kind \in Kinds, a.number \in Nat \ {0}, NEW b, b.kind \in Kinds, b.number \in Nat \ {0},
             NEW c, c.kind \in Kinds, c.number \in Nat \ {0}
      PROVE  AreArrays(<<a, b, c>>)
  BY <1>6 DEF AreArrays
<1>7. CASE type = 32
  <2>1. Arrays(type) = <<Array(32, Copies[32])>>
    BY <1>7 DEF Arrays
  <2> QED BY <1>1, <1>2, <1>3, <1>4, <1>7, <2>1
<1>8. CASE type = 84
  <2>1. Arrays(type) = <<Array(84, Copies[84]), Array(8, 1)>>
    BY <1>8 DEF Arrays
  <2> QED BY <1>1, <1>2, <1>3, <1>5, <1>8, <2>1
<1>9. CASE type = 100
  <2>1. Arrays(type) = <<Array(100, Copies[100]), Array(4, 1), Array(8, 1)>>
    BY <1>9 DEF Arrays
  <2> QED BY <1>1, <1>2, <1>3, <1>6, <1>9, <2>1
<1>10. CASE type = 72
  <2>1. Arrays(type) = <<Array(72, Copies[72]), Array(8, 1)>>
    BY <1>10 DEF Arrays
  <2> QED BY <1>1, <1>2, <1>3, <1>5, <1>10, <2>1
<1>11. CASE type = 30
  <2>1. Arrays(type) = <<Array(30, Copies[30]), Array(2, 1)>>
    BY <1>11 DEF Arrays
  <2> QED BY <1>1, <1>2, <1>3, <1>5, <1>11, <2>1
<1> QED BY <1>7, <1>8, <1>9, <1>10, <1>11 DEF Types

(* An array ends where the next begins, or before.                         *)
LEMMA Offsets ==
  ASSUME NEW arrays, AreArrays(arrays), NEW i \in 1 .. Len(arrays), NEW j \in i + 1 .. Len(arrays) + 1
  PROVE  /\ ByteOffset(arrays, i) \in Nat /\ ByteOffset(arrays, j) \in Nat
         /\ ByteOffset(arrays, i) + arrays[i].number * Bytes[arrays[i].kind] <= ByteOffset(arrays, j)
         /\ UnitOffset(arrays, i) \in Nat /\ UnitOffset(arrays, j) \in Nat
         /\ UnitOffset(arrays, i) + arrays[i].number * arrays[i].kind <= UnitOffset(arrays, j)
<1> DEFINE bytes == [l \in DOMAIN arrays |-> arrays[l].number * Bytes[arrays[l].kind]]
           units == [l \in DOMAIN arrays |-> arrays[l].number * arrays[l].kind]
<1>1. Len(arrays) \in Nat
  BY DEF AreArrays
<1>2. ASSUME NEW a \in Nat, NEW b \in Nat PROVE a * b \in Nat
  BY <1>2
<1>3. ASSUME NEW l \in 1 .. Len(arrays)
      PROVE  /\ bytes[l] = arrays[l].number * Bytes[arrays[l].kind] /\ bytes[l] \in Nat
             /\ units[l] = arrays[l].number * arrays[l].kind /\ units[l] \in Nat
  <2>1. l \in DOMAIN arrays /\ arrays[l].number \in Nat /\ arrays[l].kind \in Kinds
    BY DEF AreArrays
  <2>2. Bytes[arrays[l].kind] \in Nat /\ arrays[l].kind \in Nat
    BY <2>1, BytesPositive, KindIsNatural
  <2> QED BY <1>2, <2>1, <2>2
<1>4. \A l : ByteOffset(arrays, l) = SumOf(bytes, 1 .. l - 1)
  BY DEF ByteOffset, SumOf
<1>5. \A l : UnitOffset(arrays, l) = SumOf(units, 1 .. l - 1)
  BY DEF UnitOffset, SumOf
<1> HIDE DEF bytes, units
<1>6. /\ SumOf(bytes, 1 .. i - 1) \in Nat /\ SumOf(bytes, 1 .. j - 1) \in Nat
      /\ SumOf(bytes, 1 .. i - 1) + bytes[i] <= SumOf(bytes, 1 .. j - 1)
  BY <1>1, <1>3, SumOfPrefix
<1>7. /\ SumOf(units, 1 .. i - 1) \in Nat /\ SumOf(units, 1 .. j - 1) \in Nat
      /\ SumOf(units, 1 .. i - 1) + units[i] <= SumOf(units, 1 .. j - 1)
  BY <1>1, <1>3, SumOfPrefix
<1> QED BY <1>3, <1>4, <1>5, <1>6, <1>7

(* What is known of a tree of a pool.                                      *)
TreeIn(arrays, t, j, i) ==
  /\ j \in 1 .. Len(arrays) /\ i \in 0 .. arrays[j].number - 1
  /\ t = [at |-> ByteOffset(arrays, j) + i * Bytes[arrays[j].kind],
          unit |-> UnitOffset(arrays, j) + i * arrays[j].kind,
          kind |-> arrays[j].kind, array |-> j, i |-> i]
LEMMA TreesAre ==
  ASSUME NEW type \in Types
  PROVE  \A t : t \in Trees(type) <=>
            \E j \in 1 .. Len(Arrays(type)) : \E i \in 0 .. Arrays(type)[j].number - 1 :
              TreeIn(Arrays(type), t, j, i)
<1>1. Trees(type) = TreesOf[type]
  BY DEF Trees, Types
<1>2. DOMAIN Arrays(type) = 1 .. Len(Arrays(type))
  BY ArraysFacts DEF AreArrays
<1> QED BY <1>1, <1>2 DEF TreesOf, TreeIn

(* a + p lies before b, in steps of n.                                     *)
LEMMA TreesStride ==
  ASSUME NEW arrays, AreArrays(arrays), NEW t, NEW j, NEW i, TreeIn(arrays, t, j, i)
  PROVE  /\ t.at \in Nat /\ t.unit \in Nat /\ t.kind \in Kinds /\ t.array = j /\ t.i = i /\ i \in Nat
         /\ t.kind = arrays[j].kind /\ j \in 1 .. Len(arrays)
         /\ ByteOffset(arrays, j) <= t.at /\ UnitOffset(arrays, j) <= t.unit
         /\ \A l \in j + 1 .. Len(arrays) + 1 :
              /\ t.at + Bytes[t.kind] <= ByteOffset(arrays, l)
              /\ t.unit + t.kind <= UnitOffset(arrays, l)
         /\ \A u, n : TreeIn(arrays, u, j, n) /\ i < n =>
              t.at + Bytes[t.kind] <= u.at /\ t.unit + t.kind <= u.unit
<1> DEFINE k == arrays[j].kind
           n == arrays[j].number
<1>1. /\ j \in 1 .. Len(arrays) /\ i \in Nat /\ i + 1 <= n /\ n \in Nat /\ k \in Kinds
      /\ t.at = ByteOffset(arrays, j) + i * Bytes[k] /\ t.unit = UnitOffset(arrays, j) + i * k
      /\ t.kind = k /\ t.array = j /\ t.i = i
  BY DEF TreeIn, AreArrays
<1>2. Bytes[k] \in Nat /\ k \in Nat
  BY <1>1, BytesPositive, KindIsNatural
<1> HIDE DEF k
<1>3. \A l \in j + 1 .. Len(arrays) + 1 :
        /\ ByteOffset(arrays, j) \in Nat /\ ByteOffset(arrays, l) \in Nat
        /\ ByteOffset(arrays, j) + n * Bytes[k] <= ByteOffset(arrays, l)
        /\ UnitOffset(arrays, j) \in Nat /\ UnitOffset(arrays, l) \in Nat
        /\ UnitOffset(arrays, j) + n * k <= UnitOffset(arrays, l)
  BY <1>1, Offsets DEF k
<1>4. Len(arrays) + 1 \in j + 1 .. Len(arrays) + 1
  BY <1>1 DEF AreArrays
<1>5. ByteOffset(arrays, j) \in Nat /\ UnitOffset(arrays, j) \in Nat
  BY <1>3, <1>4
<1> HIDE DEF n
<1>6. i * Bytes[k] + Bytes[k] <= n * Bytes[k] /\ i * k + k <= n * k
  BY <1>1, <1>2, OneMore
<1>7. ASSUME NEW a \in Nat, NEW b \in Nat PROVE a * b \in Nat
  BY <1>7
<1>8. i * Bytes[k] \in Nat /\ i * k \in Nat /\ n * Bytes[k] \in Nat /\ n * k \in Nat
  BY <1>1, <1>2, <1>7
<1>9. t.at \in Nat /\ t.unit \in Nat /\ ByteOffset(arrays, j) <= t.at /\ UnitOffset(arrays, j) <= t.unit
  BY <1>1, <1>5, <1>8
<1>12. ASSUME NEW o \in Nat, NEW a \in Nat, NEW b \in Nat, NEW c \in Nat, NEW d \in Nat,
              a + b <= c, o + c <= d
       PROVE  (o + a) + b <= d
  BY <1>12
<1>10. ASSUME NEW l \in j + 1 .. Len(arrays) + 1
       PROVE  t.at + Bytes[k] <= ByteOffset(arrays, l) /\ t.unit + k <= UnitOffset(arrays, l)
  <2>1. (ByteOffset(arrays, j) + i * Bytes[k]) + Bytes[k] <= ByteOffset(arrays, l)
    BY <1>2, <1>3, <1>6, <1>8, <1>12, SMTT(30)
  <2>2. (UnitOffset(arrays, j) + i * k) + k <= UnitOffset(arrays, l)
    BY <1>2, <1>3, <1>6, <1>8, <1>12, SMTT(30)
  <2> QED BY <1>1, <2>1, <2>2
<1>11. ASSUME NEW u, NEW p, TreeIn(arrays, u, j, p), i < p
       PROVE  t.at + Bytes[k] <= u.at /\ t.unit + k <= u.unit
  <2>1. /\ p \in Nat /\ u.at = ByteOffset(arrays, j) + p * Bytes[k]
        /\ u.unit = UnitOffset(arrays, j) + p * k
    BY <1>1, <1>11 DEF TreeIn, AreArrays, k
  <2>2. i + 1 <= p
    BY <1>1, <1>11, <2>1
  <2>3. i * Bytes[k] + Bytes[k] <= p * Bytes[k] /\ i * k + k <= p * k
    BY <1>1, <1>2, <2>1, <2>2, OneMore
  <2>4. p * Bytes[k] \in Nat /\ p * k \in Nat
    BY <1>2, <1>7, <2>1
  <2>5. ASSUME NEW o \in Nat, NEW a \in Nat, NEW b \in Nat, NEW c \in Nat, a + b <= c
        PROVE  (o + a) + b <= o + c
    BY <2>5
  <2>6. (ByteOffset(arrays, j) + i * Bytes[k]) + Bytes[k] <= ByteOffset(arrays, j) + p * Bytes[k]
    BY <1>2, <1>5, <1>8, <2>3, <2>4, <2>5
  <2>7. (UnitOffset(arrays, j) + i * k) + k <= UnitOffset(arrays, j) + p * k
    BY <1>2, <1>5, <1>8, <2>3, <2>4, <2>5
  <2> QED BY <1>1, <2>1, <2>6, <2>7
<1> QED BY <1>1, <1>9, <1>10, <1>11 DEF k

(* The largest type's trees are SIZEOF bytes.                              *)
LEMMA SizeOfPool ==
  SIZEOF \in Nat /\ \A type \in Types : TreesSize(type) \in Nat /\ TreesSize(type) <= SIZEOF
<1>1. ASSUME NEW type \in Types PROVE TreesSize(type) \in Nat
  <2>1. AreArrays(Arrays(type))
    BY ArraysFacts
  <2>2. 1 \in 1 .. Len(Arrays(type)) /\ Len(Arrays(type)) + 1 \in 1 + 1 .. Len(Arrays(type)) + 1
    BY <2>1 DEF AreArrays
  <2> QED BY <2>1, <2>2, Offsets DEF TreesSize
<1> DEFINE S == {TreesSize(type) : type \in Types}
<1>2. \E y \in S : \A z \in S : z <= y
  <2>1. ASSUME NEW a \in Nat, NEW b \in Nat, NEW c \in Nat, NEW d \in Nat, NEW e \in Nat
        PROVE  \E y \in {a, b, c, d, e} : \A z \in {a, b, c, d, e} : z <= y
    BY <2>1
  <2>2. S = {TreesSize(30), TreesSize(32), TreesSize(72), TreesSize(84), TreesSize(100)}
    BY DEF Types
  <2>3. /\ TreesSize(30) \in Nat /\ TreesSize(32) \in Nat /\ TreesSize(72) \in Nat
        /\ TreesSize(84) \in Nat /\ TreesSize(100) \in Nat
    BY <1>1 DEF Types
  <2> HIDE DEF S
  <2> QED BY <2>1, <2>2, <2>3
<1>3. PICK y \in S : \A z \in S : z <= y
  BY <1>2
<1>4. S \subseteq Nat
  BY <1>1
<1> HIDE DEF S
<1>5. Max(S) \in S /\ \A z \in S : z <= Max(S)
  <2>1. \A z \in S : y >= z
    BY <1>3, <1>4
  <2> QED BY <1>4, <2>1 DEF Max
<1>6. SIZEOF = Max(S)
  BY DEF SIZEOF, S
<1> QED BY <1>1, <1>4, <1>5, <1>6 DEF S

LEMMA TreeFacts ==
  ASSUME NEW type \in Types \cup {0}, NEW t \in Trees(type)
  PROVE  /\ type \in Types
         /\ t.at \in Nat /\ t.unit \in Nat /\ t.kind \in Kinds /\ t.kind \in Nat \ {0} /\ t.i \in Nat
         /\ t.array \in 1 .. 3 /\ Within(t.at, t.kind)
         /\ Units(type) \in Nat /\ t.unit + t.kind <= Units(type)
<1>1. type \in Types
  BY DEF Trees
<1> DEFINE a == Arrays(type)
<1>2. AreArrays(a)
  BY <1>1, ArraysFacts
<1>3. PICK j \in 1 .. Len(a) : \E i \in 0 .. a[j].number - 1 : TreeIn(a, t, j, i)
  BY <1>1, TreesAre
<1>4. PICK i \in 0 .. a[j].number - 1 : TreeIn(a, t, j, i)
  BY <1>3
<1> HIDE DEF a
<1>5. Len(a) + 1 \in j + 1 .. Len(a) + 1
  BY <1>2 DEF AreArrays
<1>6. /\ t.at \in Nat /\ t.unit \in Nat /\ t.kind \in Kinds /\ t.array = j /\ t.i = i /\ i \in Nat
      /\ t.at + Bytes[t.kind] <= ByteOffset(a, Len(a) + 1)
      /\ t.unit + t.kind <= UnitOffset(a, Len(a) + 1)
  BY <1>2, <1>4, <1>5, TreesStride
<1>7. TreesSize(type) = ByteOffset(a, Len(a) + 1) /\ Units(type) = UnitOffset(a, Len(a) + 1)
  BY DEF TreesSize, Units, a
<1>8. TreesSize(type) \in Nat /\ TreesSize(type) <= SIZEOF /\ SIZEOF \in Nat
  BY <1>1, SizeOfPool
<1>9. UnitOffset(a, Len(a) + 1) \in Nat
  BY <1>2, <1>5, Offsets
<1>10. Within(t.at, t.kind)
  <2>1. Bytes[t.kind] \in Nat
    BY <1>6, BytesPositive
  <2>2. t.at + Bytes[t.kind] <= SIZEOF
    BY <1>6, <1>7, <1>8, <2>1
  <2> QED BY <1>6, <1>8, <2>1, <2>2 DEF Within, Area, Addresses
<1>11. t.array \in 1 .. 3
  BY <1>2, <1>3, <1>6 DEF AreArrays
<1>12. t.kind \in Nat \ {0}
  BY <1>6, KindIsNatural
<1> QED BY <1>1, <1>6, <1>7, <1>9, <1>10, <1>11, <1>12

(* Two trees share no byte and no unit.                                    *)
Ahead(t, u) == t.at + Bytes[t.kind] <= u.at /\ t.unit + t.kind <= u.unit
LEMMA TreesApart ==
  ASSUME NEW type \in Types \cup {0}, NEW t \in Trees(type), NEW u \in Trees(type), t # u
  PROVE  /\ Ahead(t, u) \/ Ahead(u, t)
         /\ ~ (t.array = u.array /\ t.i = u.i)
<1>1. type \in Types
  BY TreeFacts
<1> DEFINE a == Arrays(type)
<1>2. AreArrays(a)
  BY <1>1, ArraysFacts
<1>3. PICK j \in 1 .. Len(a) : \E i \in 0 .. a[j].number - 1 : TreeIn(a, t, j, i)
  BY <1>1, TreesAre
<1>4. PICK i \in 0 .. a[j].number - 1 : TreeIn(a, t, j, i)
  BY <1>3
<1>5. PICK l \in 1 .. Len(a) : \E n \in 0 .. a[l].number - 1 : TreeIn(a, u, l, n)
  BY <1>1, TreesAre
<1>6. PICK n \in 0 .. a[l].number - 1 : TreeIn(a, u, l, n)
  BY <1>5
<1> HIDE DEF a
<1>7. Len(a) \in 1 .. 3
  BY <1>2 DEF AreArrays
<1>8. /\ t.at \in Nat /\ t.unit \in Nat /\ t.kind \in Kinds /\ t.array = j /\ t.i = i /\ i \in Nat
      /\ u.at \in Nat /\ u.unit \in Nat /\ u.kind \in Kinds /\ u.array = l /\ u.i = n /\ n \in Nat
      /\ ByteOffset(a, j) <= t.at /\ UnitOffset(a, j) <= t.unit
      /\ ByteOffset(a, l) <= u.at /\ UnitOffset(a, l) <= u.unit
      /\ Bytes[t.kind] \in Nat /\ Bytes[u.kind] \in Nat /\ t.kind \in Nat /\ u.kind \in Nat
  <2>1. /\ t.at \in Nat /\ t.unit \in Nat /\ t.kind \in Kinds /\ t.array = j /\ t.i = i /\ i \in Nat
        /\ ByteOffset(a, j) <= t.at /\ UnitOffset(a, j) <= t.unit
    BY <1>2, <1>4, TreesStride
  <2>2. /\ u.at \in Nat /\ u.unit \in Nat /\ u.kind \in Kinds /\ u.array = l /\ u.i = n /\ n \in Nat
        /\ ByteOffset(a, l) <= u.at /\ UnitOffset(a, l) <= u.unit
    BY <1>2, <1>6, TreesStride
  <2> QED BY <2>1, <2>2, BytesPositive, KindIsNatural
<1>9. CASE j = l
  <2>1. i # n
    BY <1>4, <1>6, <1>9 DEF TreeIn
  <2>2. i < n => Ahead(t, u)
    BY <1>2, <1>4, <1>6, <1>9, TreesStride DEF Ahead
  <2>3. n < i => Ahead(u, t)
    BY <1>2, <1>4, <1>6, <1>9, TreesStride DEF Ahead
  <2> QED BY <1>8, <2>1, <2>2, <2>3
<1>10. CASE j < l
  <2>1. l \in j + 1 .. Len(a) + 1
    BY <1>7, <1>10
  <2>2. t.at + Bytes[t.kind] <= ByteOffset(a, l) /\ t.unit + t.kind <= UnitOffset(a, l)
    BY <1>2, <1>4, <2>1, TreesStride
  <2>3. ByteOffset(a, l) \in Nat /\ UnitOffset(a, l) \in Nat
    BY <1>2, <2>1, Offsets
  <2>4. t.at + Bytes[t.kind] <= u.at
    BY <1>8, <2>2, <2>3
  <2>5. t.unit + t.kind <= u.unit
    BY <1>8, <2>2, <2>3
  <2> QED BY <1>8, <1>10, <2>4, <2>5 DEF Ahead
<1>11. CASE l < j
  <2>1. j \in l + 1 .. Len(a) + 1
    BY <1>7, <1>11
  <2>2. u.at + Bytes[u.kind] <= ByteOffset(a, j) /\ u.unit + u.kind <= UnitOffset(a, j)
    BY <1>2, <1>6, <2>1, TreesStride
  <2>3. ByteOffset(a, j) \in Nat /\ UnitOffset(a, j) \in Nat
    BY <1>2, <2>1, Offsets
  <2>4. u.at + Bytes[u.kind] <= t.at
    BY <1>8, <2>2, <2>3
  <2>5. u.unit + u.kind <= t.unit
    BY <1>8, <2>2, <2>3
  <2> QED BY <1>8, <1>11, <2>4, <2>5 DEF Ahead
<1>12. j \in Nat /\ l \in Nat
  OBVIOUS
<1> QED BY <1>9, <1>10, <1>11, <1>12

(* Their bytes in the memory.                                              *)
TreeArea(t) == Area(t.at, t.kind)
LEMMA TreeAreas ==
  ASSUME NEW type \in Types \cup {0}, NEW t \in Trees(type)
  PROVE  /\ TreeArea(t) \subseteq Addresses /\ t.at \in TreeArea(t)
         /\ \A u \in Trees(type) : u # t => TreeArea(t) \cap TreeArea(u) = {}
<1>1. /\ t.at \in Nat /\ t.kind \in Kinds /\ Within(t.at, t.kind)
  BY TreeFacts
<1>2. Bytes[t.kind] \in Nat \ {0}
  BY <1>1, BytesPositive
<1>3. ASSUME NEW u \in Trees(type), u # t PROVE TreeArea(t) \cap TreeArea(u) = {}
  <2>1. u.at \in Nat /\ u.kind \in Kinds
    BY TreeFacts
  <2>2. Bytes[u.kind] \in Nat
    BY <2>1, BytesPositive
  <2>3. t.at + Bytes[t.kind] <= u.at \/ u.at + Bytes[u.kind] <= t.at
    BY <1>3, TreesApart DEF Ahead
  <2> QED BY <1>1, <1>2, <2>1, <2>2, <2>3 DEF TreeArea, Area
<1> QED BY <1>1, <1>2, <1>3 DEF TreeArea, Within, Area

-----------------------------------------------------------------------------
(* A pool's memory, and the blocks in it.                                  *)

PoolGood(m, type) ==
  /\ m \in Memory
  /\ \A t \in Trees(type) : Good(m, t.at, t.kind)
  /\ \A a \in Addresses : m[a] = Blank \/ \E t \in Trees(type) : a \in TreeArea(t)
TreeBlocks(m, t) == {Block(t.unit + b.ptr, b.size) : b \in Blocks(m, t.at, t.kind)}
PoolBlocks(m, type) == UNION {TreeBlocks(m, t) : t \in Trees(type)}

LEMMA TreeBlockBounds ==
  ASSUME NEW type \in Types \cup {0}, NEW t \in Trees(type), NEW m, NEW b \in TreeBlocks(m, t)
  PROVE  /\ b.ptr \in Nat /\ b.size \in Kinds /\ b.size \in Nat \ {0}
         /\ t.unit <= b.ptr /\ b.ptr + b.size <= t.unit + t.kind
         /\ \E c \in Blocks(m, t.at, t.kind) : b.ptr = t.unit + c.ptr /\ b.size = c.size /\ c.ptr \in Nat
<1>1. PICK c \in Blocks(m, t.at, t.kind) : b = Block(t.unit + c.ptr, c.size)
  BY DEF TreeBlocks
<1>2. b.ptr = t.unit + c.ptr /\ b.size = c.size
  BY <1>1 DEF Block
<1>3. t.at \in Nat /\ t.unit \in Nat /\ t.kind \in Kinds /\ t.kind \in Nat
  BY TreeFacts
<1>4. c.ptr \in Nat /\ c.size \in Kinds /\ c.ptr + c.size <= t.kind
  BY <1>3, TreeBlocksApart DEF BlocksInOrder
<1>5. c.size \in Nat \ {0}
  BY <1>4, KindIsNatural
<1>6. b.ptr + b.size <= t.unit + t.kind
  BY <1>2, <1>3, <1>4, <1>5
<1> QED BY <1>2, <1>3, <1>4, <1>5, <1>6

(* The blocks of a pool are apart and in its units.                        *)
LEMMA PoolBlocksApart ==
  ASSUME NEW type \in Types \cup {0}, NEW m
  PROVE  /\ \A b \in PoolBlocks(m, type) :
              /\ b.ptr \in Nat /\ b.size \in Kinds /\ b.size \in Nat \ {0}
              /\ type \in Types /\ Units(type) \in Nat /\ b.ptr + b.size <= Units(type)
              /\ b = Block(b.ptr, b.size)
         /\ \A b, c \in PoolBlocks(m, type) : b = c \/ Before(b, c) \/ Before(c, b)
<1>1. ASSUME NEW b \in PoolBlocks(m, type)
      PROVE  /\ b.ptr \in Nat /\ b.size \in Kinds /\ b.size \in Nat \ {0}
             /\ type \in Types /\ Units(type) \in Nat /\ b.ptr + b.size <= Units(type)
             /\ b = Block(b.ptr, b.size)
  <2>1. PICK t \in Trees(type) : b \in TreeBlocks(m, t)
    BY DEF PoolBlocks
  <2>2. /\ b.ptr \in Nat /\ b.size \in Kinds /\ b.size \in Nat \ {0}
        /\ b.ptr + b.size <= t.unit + t.kind
    BY <2>1, TreeBlockBounds
  <2>3. /\ type \in Types /\ Units(type) \in Nat /\ t.unit + t.kind <= Units(type)
        /\ t.unit \in Nat /\ t.kind \in Nat
    BY TreeFacts
  <2>4. b = Block(b.ptr, b.size)
    BY <2>1 DEF TreeBlocks, Block
  <2>5. b.ptr + b.size <= Units(type)
    BY <2>2, <2>3
  <2> QED BY <2>2, <2>3, <2>4, <2>5
<1>2. ASSUME NEW b \in PoolBlocks(m, type), NEW c \in PoolBlocks(m, type)
      PROVE  b = c \/ Before(b, c) \/ Before(c, b)
  <2>1. PICK t \in Trees(type) : b \in TreeBlocks(m, t)
    BY DEF PoolBlocks
  <2>2. PICK u \in Trees(type) : c \in TreeBlocks(m, u)
    BY DEF PoolBlocks
  <2>3. /\ t.unit \in Nat /\ t.kind \in Nat /\ u.unit \in Nat /\ u.kind \in Nat
        /\ t.at \in Nat /\ t.kind \in Kinds
    BY TreeFacts
  <2>4. /\ b.ptr \in Nat /\ b.size \in Nat /\ t.unit <= b.ptr /\ b.ptr + b.size <= t.unit + t.kind
    BY <2>1, TreeBlockBounds
  <2>5. /\ c.ptr \in Nat /\ c.size \in Nat /\ u.unit <= c.ptr /\ c.ptr + c.size <= u.unit + u.kind
    BY <2>2, TreeBlockBounds
  <2>6. CASE t # u
    <3>1. t.unit + t.kind <= u.unit \/ u.unit + u.kind <= t.unit
      BY <2>6, TreesApart DEF Ahead
    <3> QED BY <2>3, <2>4, <2>5, <3>1 DEF Before
  <2>7. CASE t = u
    <3>1. PICK d \in Blocks(m, t.at, t.kind) : b = Block(t.unit + d.ptr, d.size)
      BY <2>1 DEF TreeBlocks
    <3>2. PICK e \in Blocks(m, t.at, t.kind) : c = Block(t.unit + e.ptr, e.size)
      BY <2>2, <2>7 DEF TreeBlocks
    <3>3. d.ptr \in Nat /\ d.size \in Kinds /\ e.ptr \in Nat /\ e.size \in Kinds
          /\ (d = e \/ Before(d, e) \/ Before(e, d))
      BY <2>3, TreeBlocksApart DEF BlocksInOrder
    <3>4. d.size \in Nat /\ e.size \in Nat
      BY <3>3, KindIsNatural
    <3>5. b.ptr = t.unit + d.ptr /\ b.size = d.size /\ c.ptr = t.unit + e.ptr /\ c.size = e.size
      BY <3>1, <3>2 DEF Block
    <3>6. Before(d, e) => Before(b, c)
      BY <2>3, <3>3, <3>4, <3>5 DEF Before
    <3>7. Before(e, d) => Before(c, b)
      BY <2>3, <3>3, <3>4, <3>5 DEF Before
    <3>8. d = e => b = c
      BY <3>1, <3>2
    <3> QED BY <3>3, <3>6, <3>7, <3>8
  <2> QED BY <2>6, <2>7
<1> QED BY <1>1, <1>2

(* A pool without blocks is blank.                                         *)
LEMMA NoBlocksIsBlank ==
  ASSUME NEW type \in Types \cup {0}, NEW m, PoolGood(m, type), PoolBlocks(m, type) = {}
  PROVE  m = BlankMemory
<1>1. ASSUME NEW a \in Addresses PROVE m[a] = Blank
  <2>1. CASE \E t \in Trees(type) : a \in TreeArea(t)
    <3>1. PICK t \in Trees(type) : a \in TreeArea(t)
      BY <2>1
    <3>2. TreeBlocks(m, t) = {}
      BY DEF PoolBlocks
    <3>3. Blocks(m, t.at, t.kind) = {}
      BY <3>2 DEF TreeBlocks
    <3>4. t.kind \in Kinds /\ Within(t.at, t.kind)
      BY TreeFacts
    <3>5. IsBlank(m, t.at, t.kind)
      BY <3>3, <3>4, NoBlocksIsEmpty DEF PoolGood
    <3> QED BY <3>1, <3>5 DEF IsBlank, TreeArea
  <2> QED BY <2>1 DEF PoolGood
<1>2. m = [a \in Addresses |-> m[a]]
  BY DEF PoolGood, Memory
<1> QED BY <1>1, <1>2 DEF BlankMemory, Addresses

LEMMA BlankPool ==
  ASSUME NEW type \in Types \cup {0}
  PROVE  PoolGood(BlankMemory, type) /\ PoolBlocks(BlankMemory, type) = {}
<1>1. \A a \in Addresses : BlankMemory[a] = Blank
  BY DEF BlankMemory, Addresses
<1>2. BlankMemory \in Memory
  <2>1. Blank \in SplitType
    BY DEF Blank, SplitType, SOE_Empty, SOE_Reserved
  <2> QED BY <2>1 DEF BlankMemory, Memory, Addresses
<1>3. ASSUME NEW t \in Trees(type)
      PROVE  Good(BlankMemory, t.at, t.kind) /\ TreeBlocks(BlankMemory, t) = {}
  <2>1. t.at \in Nat /\ t.kind \in Kinds
    BY TreeFacts
  <2>2. IsBlank(BlankMemory, t.at, t.kind)
    BY <1>1, TreeAreas DEF IsBlank, TreeArea
  <2>3. Good(BlankMemory, t.at, t.kind) /\ Blocks(BlankMemory, t.at, t.kind) = {}
    BY <2>1, <2>2, BlankIsGood
  <2> QED BY <2>3 DEF TreeBlocks
<1> QED BY <1>1, <1>2, <1>3 DEF PoolGood, PoolBlocks

-----------------------------------------------------------------------------
(* Allocation in a pool.                                                   *)

PoolServed(m, type, size, found) ==
  /\ PoolGood(found.memory, type) /\ found.index \in Nat
  /\ Block(found.index, size) \notin PoolBlocks(m, type)
  /\ PoolBlocks(found.memory, type) = PoolBlocks(m, type) \cup {Block(found.index, size)}
PoolTried(m, type, size, found) ==
  IF found.index = NoIndex THEN found.memory = m ELSE PoolServed(m, type, size, found)

(* What changes in one tree, changes nothing else.                         *)
LEMMA OneTree ==
  ASSUME NEW type \in Types \cup {0}, NEW t \in Trees(type), NEW m, PoolGood(m, type),
         NEW n \in Memory, \A a \in Addresses : a \in TreeArea(t) \/ n[a] = m[a],
         Good(n, t.at, t.kind)
  PROVE  /\ PoolGood(n, type)
         /\ \A u \in Trees(type) : u # t => TreeBlocks(n, u) = TreeBlocks(m, u)
<1>1. ASSUME NEW u \in Trees(type), u # t
      PROVE  Good(n, u.at, u.kind) /\ TreeBlocks(n, u) = TreeBlocks(m, u)
  <2>1. u.at \in Nat /\ u.kind \in Kinds
    BY TreeFacts
  <2>2. TreeArea(u) \subseteq Addresses /\ TreeArea(t) \cap TreeArea(u) = {}
    BY <1>1, TreeAreas
  <2>3. Same(m, n, u.at, u.kind)
    BY <2>2 DEF Same, TreeArea
  <2>4. Good(m, u.at, u.kind)
    BY DEF PoolGood
  <2>5. Good(n, u.at, u.kind) /\ Blocks(m, u.at, u.kind) = Blocks(n, u.at, u.kind)
    BY <2>1, <2>3, <2>4, Locality
  <2> QED BY <2>5 DEF TreeBlocks
<1>2. \A a \in Addresses : n[a] = Blank \/ \E u \in Trees(type) : a \in TreeArea(u)
  BY DEF PoolGood
<1> QED BY <1>1, <1>2 DEF PoolGood

LEMMA TreeServes ==
  ASSUME NEW type \in Types \cup {0}, NEW t \in Trees(type), NEW m, PoolGood(m, type),
         NEW size, NEW found, ServedIn(m, t.at, t.kind, size, found)
  PROVE  PoolServed(m, type, size, Found(found.memory, found.index + t.unit))
<1> DEFINE n == found.memory
           b == Block(found.index, size)
           c == Block(found.index + t.unit, size)
<1>1. /\ n \in Memory /\ found.index \in Nat
      /\ \A a \in Addresses : a \in TreeArea(t) \/ n[a] = m[a]
      /\ Good(n, t.at, t.kind)
      /\ b \notin Blocks(m, t.at, t.kind)
      /\ Blocks(n, t.at, t.kind) = Blocks(m, t.at, t.kind) \cup {b}
  BY DEF ServedIn, TreeArea
<1> HIDE DEF n
<1>2. PoolGood(n, type) /\ \A u \in Trees(type) : u # t => TreeBlocks(n, u) = TreeBlocks(m, u)
  BY <1>1, OneTree
<1>3. t.unit \in Nat /\ t.at \in Nat /\ t.kind \in Kinds
  BY TreeFacts
<1>4. b.ptr = found.index /\ b.size = size /\ c.ptr = found.index + t.unit /\ c.size = size
  BY DEF Block
<1>5. t.unit + b.ptr = found.index + t.unit
  BY <1>1, <1>3, <1>4
<1>6. TreeBlocks(n, t) = TreeBlocks(m, t) \cup {c}
  <2>1. c = Block(t.unit + b.ptr, b.size)
    BY <1>4, <1>5
  <2> HIDE DEF b, c
  <2> QED BY <1>1, <2>1 DEF TreeBlocks
<1>7. PoolBlocks(n, type) = PoolBlocks(m, type) \cup {c}
  <2> HIDE DEF c
  <2> QED BY <1>2, <1>6 DEF PoolBlocks
<1>8. c \notin PoolBlocks(m, type)
  <2>1. SUFFICES ASSUME c \in PoolBlocks(m, type) PROVE FALSE
    OBVIOUS
  <2>2. PICK u \in Trees(type) : c \in TreeBlocks(m, u)
    BY <2>1 DEF PoolBlocks
  <2>3. c \in TreeBlocks(n, t)
    BY <1>6
  <2>4. /\ c.ptr \in Nat /\ c.size \in Nat \ {0} /\ u.unit <= c.ptr /\ c.ptr + c.size <= u.unit + u.kind
    BY <2>2, TreeBlockBounds
  <2>5. /\ t.unit <= c.ptr /\ c.ptr + c.size <= t.unit + t.kind
    BY <2>3, TreeBlockBounds
  <2>6. u.unit \in Nat /\ u.kind \in Nat /\ t.kind \in Nat
    BY TreeFacts
  <2>7. u = t
    <3>1. ASSUME u # t PROVE FALSE
      <4>1. t.unit + t.kind <= u.unit \/ u.unit + u.kind <= t.unit
        BY <3>1, TreesApart DEF Ahead
      <4> HIDE DEF c
      <4> QED BY <1>3, <2>4, <2>5, <2>6, <4>1
    <3> QED BY <3>1
  <2>8. PICK d \in Blocks(m, t.at, t.kind) : c.ptr = t.unit + d.ptr /\ c.size = d.size /\ d.ptr \in Nat
    BY <2>2, <2>7, TreeBlockBounds
  <2>9. d.ptr = found.index /\ d.size = size
    <3>1. c.ptr = found.index + t.unit /\ c.size = size
      BY <1>4
    <3>2. ASSUME NEW p \in Nat, NEW q \in Nat, NEW r \in Nat, p + q = q + r PROVE p = r
      BY <3>2
    <3> HIDE DEF c, b
    <3>3. found.index + t.unit = t.unit + d.ptr
      BY <2>8, <3>1
    <3>4. found.index = d.ptr
      BY <1>1, <1>3, <2>8, <3>2, <3>3
    <3> QED BY <2>8, <3>1, <3>4
  <2>10. d = Block(d.ptr, d.size)
    BY DEF Blocks, Block
  <2> QED BY <1>1, <2>9, <2>10
<1>9. Found(n, found.index + t.unit).memory = n /\ Found(n, found.index + t.unit).index = found.index + t.unit
  BY DEF Found
<1>10. found.index + t.unit \in Nat
  BY <1>1, <1>3
<1> QED BY <1>2, <1>7, <1>8, <1>9, <1>10 DEF PoolServed, n

LEMMA AllocType ==
  ASSUME NEW m \in Memory, NEW _size, NEW k \in Kinds, NEW o \in Nat
  PROVE  allocNode(m, o, k, _size) \in Results
<1>1. PICK alloc : IsAlloc(_size, alloc)
  BY AllocEquation
<1> QED BY <1>1 DEF IsAlloc

LEMMA CostType ==
  ASSUME NEW m, NEW _size, NEW k \in Kinds, NEW o \in Nat
  PROVE  getSplitCost(m, o, k, _size) \in Nat
<1>1. PICK cost : IsCost(m, _size, cost)
  BY CostEquation
<1> QED BY <1>1 DEF IsCost

(* A result moved by some units.                                           *)
Plus(found, unit) == [found EXCEPT !.index = @ + unit]
LEMMA PlusIs ==
  ASSUME NEW found \in Results, NEW unit
  PROVE  Plus(found, unit) = Found(found.memory, found.index + unit)
BY DEF Plus, Results, Found

LEMMA ArrayServes ==
  ASSUME NEW type \in Types \cup {0}, NEW m, PoolGood(m, type), NEW size \in Nat, NEW j
  PROVE  /\ PoolTried(m, type, size, allocInArray(m, TreesOfArray(type, j), size))
         /\ allocInArray(m, TreesOfArray(type, j), size).index # NoIndex <=>
              \E t \in TreesOfArray(type, j) : Serves(m, t.at, t.kind, size)
<1> DEFINE trees == TreesOfArray(type, j)
           tries == {[i |-> t.i, unit |-> t.unit, found |-> tryAllocIndex(m, t.at, t.kind, size)] :
                       t \in trees}
           hits == {t \in tries : t.found.index # NoIndex}
           costs == {[i |-> t.i, cost |-> getSplitCost(m, t.at, t.kind, size)] : t \in trees}
           cheapest == Cheapest(costs)
           tree == CHOOSE t \in trees : t.i = cheapest
           result == allocInArray(m, trees, size)
<1>1. result = IF hits # {} THEN Plus(First(hits).found, First(hits).unit)
               ELSE IF cheapest = NoIndex THEN Found(m, NoIndex)
               ELSE Plus(allocNode(m, tree.at, tree.kind, size), tree.unit)
  BY DEF allocInArray, Plus
<1>2. m \in Memory
  BY DEF PoolGood
<1>3. ASSUME NEW t \in trees
      PROVE  /\ t \in Trees(type) /\ t.at \in Nat /\ t.unit \in Nat /\ t.kind \in Kinds /\ t.i \in Nat
             /\ Within(t.at, t.kind) /\ Good(m, t.at, t.kind)
  <2>1. t \in Trees(type)
    BY DEF TreesOfArray
  <2> QED BY <2>1, TreeFacts DEF PoolGood
<1>4. ASSUME NEW h \in hits
      PROVE  /\ h.i \in Nat
             /\ \E t \in trees : /\ h.unit = t.unit /\ h.found = tryAllocIndex(m, t.at, t.kind, size)
                                 /\ h.found.index # NoIndex
  <2>1. PICK t \in trees : h = [i |-> t.i, unit |-> t.unit, found |-> tryAllocIndex(m, t.at, t.kind, size)]
    OBVIOUS
  <2>2. h.found.index # NoIndex
    OBVIOUS
  <2>3. h.i = t.i /\ h.unit = t.unit /\ h.found = tryAllocIndex(m, t.at, t.kind, size)
    BY <2>1
  <2> HIDE DEF hits, trees, tries
  <2> QED BY <1>3, <2>2, <2>3
<1>5. ASSUME NEW t \in trees, tryAllocIndex(m, t.at, t.kind, size).index # NoIndex PROVE hits # {}
  <2> DEFINE h == [i |-> t.i, unit |-> t.unit, found |-> tryAllocIndex(m, t.at, t.kind, size)]
  <2>1. h \in tries /\ h.found.index # NoIndex
    BY <1>5
  <2> HIDE DEF h, tries
  <2> QED BY <2>1
<1>6. \A e \in costs : e.i \in Nat /\ e.cost \in Nat
  <2>1. \A t \in trees : getSplitCost(m, t.at, t.kind, size) \in Nat /\ t.i \in Nat
    <3> HIDE DEF trees
    <3> QED BY <1>3, CostType
  <2> HIDE DEF trees
  <2> QED BY <2>1
<1>7. \/ cheapest = NoIndex /\ \A e \in costs : e.cost = Infinite
      \/ \E e \in costs : e.i = cheapest /\ e.cost # Infinite
  <2> HIDE DEF costs
  <2> QED BY <1>6, CheapestOf
<1>8. CASE hits # {}
  <2>1. First(hits) \in hits
    <3> HIDE DEF hits
    <3> QED BY <1>4, <1>8, FirstOf
  <2>2. PICK t \in trees :
          /\ First(hits).unit = t.unit /\ First(hits).found = tryAllocIndex(m, t.at, t.kind, size)
          /\ First(hits).found.index # NoIndex
    <3> HIDE DEF hits
    <3> QED BY <1>4, <2>1
  <2> DEFINE found == tryAllocIndex(m, t.at, t.kind, size)
  <2>3. found \in Results
    <3> HIDE DEF trees
    <3> QED BY <1>2, <1>3, TryType
  <2>4. result = Plus(found, t.unit)
    <3> HIDE DEF hits, trees, result
    <3> QED BY <1>1, <1>8, <2>2
  <2>5. found.index # NoIndex
    BY <2>2
  <2>6. ServedIn(m, t.at, t.kind, size, found)
    <3>1. Tried(m, t.at, t.kind, size, found)
      <4> HIDE DEF trees
      <4> QED BY <1>2, <1>3, TryServes
    <3> QED BY <2>5, <3>1 DEF Tried
  <2> HIDE DEF found, trees, hits, result
  <2>7. result = Found(found.memory, found.index + t.unit)
    BY <2>3, <2>4, PlusIs
  <2>8. PoolServed(m, type, size, result)
    BY <1>3, <2>6, <2>7, TreeServes
  <2>9. result.index # NoIndex
    BY <2>8 DEF PoolServed, NoIndex
  <2>10. Serves(m, t.at, t.kind, size)
    BY <2>5 DEF Serves, found
  <2> QED BY <2>8, <2>9, <2>10 DEF PoolTried, result, trees
<1>9. CASE hits = {} /\ cheapest = NoIndex
  <2>1. \A t \in trees : getSplitCost(m, t.at, t.kind, size) = Infinite
    <3>1. \A e \in costs : e.cost = Infinite
      <4>1. ASSUME NEW e \in costs, e.i = cheapest PROVE FALSE
        <5> HIDE DEF costs, cheapest
        <5> QED BY <1>6, <1>9, <4>1 DEF NoIndex
      <4> HIDE DEF costs
      <4> QED BY <1>7, <4>1
    <3>2. ASSUME NEW t \in trees PROVE getSplitCost(m, t.at, t.kind, size) = Infinite
      <4>1. [i |-> t.i, cost |-> getSplitCost(m, t.at, t.kind, size)] \in costs
        OBVIOUS
      <4>2. [i |-> t.i, cost |-> getSplitCost(m, t.at, t.kind, size)].cost = Infinite
        <5> HIDE DEF costs
        <5> QED BY <3>1, <4>1
      <4> QED BY <4>2
    <3> QED BY <3>2
  <2>2. result = Found(m, NoIndex)
    <3> HIDE DEF hits, cheapest, result
    <3> QED BY <1>1, <1>9
  <2>3. result.index = NoIndex /\ result.memory = m
    <3> HIDE DEF result
    <3> QED BY <2>2 DEF Found
  <2>4. \A t \in trees : ~ Serves(m, t.at, t.kind, size)
    <3> HIDE DEF hits, trees
    <3> QED BY <1>5, <1>9, <2>1 DEF Serves
  <2> HIDE DEF result, trees
  <2> QED BY <2>3, <2>4 DEF PoolTried, result, trees
<1>10. CASE hits = {} /\ cheapest # NoIndex
  <2>1. PICK e \in costs : e.i = cheapest /\ e.cost # Infinite
    BY <1>7, <1>10
  <2>2. PICK t \in trees : e = [i |-> t.i, cost |-> getSplitCost(m, t.at, t.kind, size)]
    BY <2>1
  <2>3. t.i = cheapest /\ getSplitCost(m, t.at, t.kind, size) # Infinite
    <3> HIDE DEF cheapest, costs, trees
    <3> QED BY <2>1, <2>2
  <2>4. tree \in trees /\ tree.i = cheapest
    <3> HIDE DEF cheapest, trees
    <3> QED BY <2>3
  <2>5. tree = t
    <3>1. tree \in Trees(type) /\ t \in Trees(type) /\ tree.array = j /\ t.array = j
      <4> HIDE DEF tree
      <4> QED BY <2>4 DEF TreesOfArray
    <3> HIDE DEF tree, cheapest
    <3> QED BY <2>3, <2>4, <3>1, TreesApart
  <2> DEFINE found == allocNode(m, t.at, t.kind, size)
  <2>6. found \in Results
    <3> HIDE DEF trees
    <3> QED BY <1>2, <1>3, AllocType
  <2>7. ServedIn(m, t.at, t.kind, size, found)
    <3>1. Suits(m, t.at, t.kind, size)
      BY <2>3 DEF Suits
    <3> HIDE DEF trees
    <3> QED BY <1>2, <1>3, <3>1, AllocNodeServes
  <2>8. result = Plus(found, t.unit)
    <3> HIDE DEF hits, trees, result, cheapest, tree
    <3> QED BY <1>1, <1>10, <2>5
  <2> HIDE DEF found, trees, hits, result, cheapest, tree
  <2>9. result = Found(found.memory, found.index + t.unit)
    BY <2>6, <2>8, PlusIs
  <2>10. PoolServed(m, type, size, result)
    BY <1>3, <2>7, <2>9, TreeServes
  <2>11. result.index # NoIndex
    BY <2>10 DEF PoolServed, NoIndex
  <2>12. Serves(m, t.at, t.kind, size)
    BY <2>3 DEF Serves
  <2> QED BY <2>10, <2>11, <2>12 DEF PoolTried, result, trees
<1> QED BY <1>8, <1>9, <1>10

(* alloc serves a size if a tree of the pool can.                          *)
LEMMA PoolServes ==
  ASSUME NEW type \in Types \cup {0}, NEW m, PoolGood(m, type), NEW size \in 1 .. 32,
         roundSizeTable[size] \in Nat
  PROVE  /\ PoolTried(m, type, roundSizeTable[size], allocIndex(m, type, size))
         /\ allocIndex(m, type, size).index # NoIndex <=>
              \E t \in Trees(type) : Serves(m, t.at, t.kind, roundSizeTable[size])
<1> DEFINE k == roundSizeTable[size]
           From(found, j) == allocFrom(found, type, j, k)
           Can(j) == \E t \in TreesOfArray(type, j) : Serves(m, t.at, t.kind, k)
<1>1. allocIndex(m, type, size) = From(From(From(Found(m, NoIndex), 1), 2), 3)
  BY DEF allocIndex
<1> HIDE DEF k
<1>2. k \in Nat
  BY DEF k
<1>3. ASSUME NEW found, PoolTried(m, type, k, found), NEW j
      PROVE  /\ PoolTried(m, type, k, From(found, j))
             /\ From(found, j).index # NoIndex <=> found.index # NoIndex \/ Can(j)
  <2>1. CASE found.index # NoIndex
    BY <1>3, <2>1 DEF allocFrom
  <2>2. CASE found.index = NoIndex
    <3>1. found.memory = m
      BY <1>3, <2>2 DEF PoolTried
    <3>2. From(found, j) = allocInArray(m, TreesOfArray(type, j), k)
      BY <2>2, <3>1 DEF allocFrom
    <3> HIDE DEF From
    <3>3. /\ PoolTried(m, type, k, allocInArray(m, TreesOfArray(type, j), k))
          /\ allocInArray(m, TreesOfArray(type, j), k).index # NoIndex <=> Can(j)
      BY <1>2, ArrayServes
    <3> QED BY <2>2, <3>2, <3>3
  <2> QED BY <2>1, <2>2
<1>4. PoolTried(m, type, k, Found(m, NoIndex)) /\ Found(m, NoIndex).index = NoIndex
  BY DEF PoolTried, Found
<1> HIDE DEF From
<1>5. PoolTried(m, type, k, From(Found(m, NoIndex), 1)) /\ (From(Found(m, NoIndex), 1).index # NoIndex <=> Can(1))
  BY <1>3, <1>4
<1> DEFINE one == From(Found(m, NoIndex), 1)
<1> HIDE DEF one
<1>6. PoolTried(m, type, k, one) /\ (one.index # NoIndex <=> Can(1))
  BY <1>5 DEF one
<1>7. PoolTried(m, type, k, From(one, 2)) /\ (From(one, 2).index # NoIndex <=> Can(1) \/ Can(2))
  BY <1>3, <1>6
<1> DEFINE two == From(one, 2)
<1> HIDE DEF two
<1>8. PoolTried(m, type, k, two) /\ (two.index # NoIndex <=> Can(1) \/ Can(2))
  BY <1>7 DEF two
<1>9. PoolTried(m, type, k, From(two, 3)) /\ (From(two, 3).index # NoIndex <=> Can(1) \/ Can(2) \/ Can(3))
  BY <1>3, <1>8
<1>10. allocIndex(m, type, size) = From(two, 3)
  BY <1>1 DEF one, two
<1>11. Can(1) \/ Can(2) \/ Can(3) <=> \E t \in Trees(type) : Serves(m, t.at, t.kind, k)
  <2>1. ASSUME NEW t \in Trees(type) PROVE \E j \in 1 .. 3 : t \in TreesOfArray(type, j)
    <3>1. t.array \in 1 .. 3
      BY TreeFacts
    <3> QED BY <3>1 DEF TreesOfArray
  <2>2. \A j : TreesOfArray(type, j) \subseteq Trees(type)
    BY DEF TreesOfArray
  <2>3. \A t \in Trees(type) : t \in TreesOfArray(type, 1) \/ t \in TreesOfArray(type, 2) \/ t \in TreesOfArray(type, 3)
    <3>1. \A j \in 1 .. 3 : j = 1 \/ j = 2 \/ j = 3
      OBVIOUS
    <3> QED BY <2>1, <3>1
  <2> QED BY <2>2, <2>3
<1> HIDE DEF Can
<1> QED BY <1>9, <1>10, <1>11 DEF k

-----------------------------------------------------------------------------
(* Deallocation in a pool.                                                 *)

LEMMA PoolFrees ==
  ASSUME NEW type \in Types \cup {0}, NEW m, PoolGood(m, type), NEW b \in PoolBlocks(m, type)
  PROVE  /\ dealocIndex(m, type, b.ptr).size = b.size
         /\ PoolGood(dealocIndex(m, type, b.ptr).memory, type)
         /\ PoolBlocks(dealocIndex(m, type, b.ptr).memory, type) = PoolBlocks(m, type) \ {b}
<1>1. PICK t \in Trees(type) : b \in TreeBlocks(m, t)
  BY DEF PoolBlocks
<1>2. /\ b.ptr \in Nat /\ b.size \in Nat \ {0}
      /\ t.unit <= b.ptr /\ b.ptr + b.size <= t.unit + t.kind
  BY <1>1, TreeBlockBounds
<1>3. /\ t.at \in Nat /\ t.unit \in Nat /\ t.kind \in Kinds /\ t.kind \in Nat \ {0} /\ Within(t.at, t.kind)
      /\ Good(m, t.at, t.kind) /\ m \in Memory
  BY TreeFacts DEF PoolGood
<1>4. PICK c \in Blocks(m, t.at, t.kind) : b = Block(t.unit + c.ptr, c.size)
  BY <1>1 DEF TreeBlocks
<1>5. b.ptr = t.unit + c.ptr /\ b.size = c.size /\ c = Block(c.ptr, c.size) /\ c.ptr \in Nat
  <2>1. c = Block(c.ptr, c.size)
    BY DEF Blocks, Block
  <2>2. c.ptr \in Nat
    BY <1>3, TreeBlocksApart DEF BlocksInOrder
  <2> QED BY <1>4, <2>1, <2>2 DEF Block
<1> DEFINE tree == CHOOSE u \in Trees(type) : u.unit <= b.ptr /\ b.ptr < u.unit + u.kind
<1>6. ASSUME NEW u \in Trees(type), u.unit <= b.ptr, b.ptr < u.unit + u.kind PROVE u = t
  <2>1. u.unit \in Nat /\ u.kind \in Nat
    BY TreeFacts
  <2>2. u # t => t.unit + t.kind <= u.unit \/ u.unit + u.kind <= t.unit
    BY TreesApart DEF Ahead
  <2> QED BY <1>2, <1>3, <1>6, <2>1, <2>2
<1>7. b.ptr < t.unit + t.kind
  BY <1>2, <1>3
<1>8. tree = t
  <2>1. tree \in Trees(type) /\ tree.unit <= b.ptr /\ b.ptr < tree.unit + tree.kind
    BY <1>2, <1>7
  <2> HIDE DEF tree
  <2> QED BY <1>6, <2>1
<1> DEFINE freed == deallocNode(m, t.at, t.kind, c.ptr)
           n == freed.memory
<1>9. dealocIndex(m, type, b.ptr) = freed
  <2>1. dealocIndex(m, type, b.ptr) = deallocNode(m, tree.at, tree.kind, b.ptr - tree.unit)
    BY DEF dealocIndex
  <2>2. b.ptr - t.unit = c.ptr
    BY <1>3, <1>5
  <2> HIDE DEF tree
  <2> QED BY <1>8, <2>1, <2>2
<1> HIDE DEF tree
<1>10. Freed(m, t.at, t.kind, c, freed)
  BY <1>3, DeallocFrees
<1> HIDE DEF freed
<1>11. /\ n \in Memory /\ freed.size = c.size
       /\ \A a \in Addresses : a \in TreeArea(t) \/ n[a] = m[a]
       /\ Good(n, t.at, t.kind) /\ Blocks(n, t.at, t.kind) = Blocks(m, t.at, t.kind) \ {c}
  BY <1>10 DEF Freed, TreeArea
<1> HIDE DEF n
<1>12. PoolGood(n, type) /\ \A u \in Trees(type) : u # t => TreeBlocks(n, u) = TreeBlocks(m, u)
  BY <1>11, OneTree
<1>13. TreeBlocks(n, t) = TreeBlocks(m, t) \ {b}
  <2>1. ASSUME NEW d \in Blocks(m, t.at, t.kind), Block(t.unit + d.ptr, d.size) = b PROVE d = c
    <3>1. d = Block(d.ptr, d.size)
      BY DEF Blocks, Block
    <3>2. d.ptr \in Nat
      BY <1>3, TreeBlocksApart DEF BlocksInOrder
    <3>3. t.unit + d.ptr = t.unit + c.ptr /\ d.size = c.size
      BY <1>4, <2>1 DEF Block
    <3>4. d.ptr = c.ptr
      BY <1>3, <1>5, <3>2, <3>3
    <3> QED BY <1>5, <3>1, <3>3, <3>4
  <2> QED BY <1>4, <1>11, <2>1 DEF TreeBlocks
<1>14. ASSUME NEW u \in Trees(type), u # t PROVE b \notin TreeBlocks(m, u)
  <2>1. u.unit \in Nat /\ u.kind \in Nat
    BY TreeFacts
  <2>2. t.unit + t.kind <= u.unit \/ u.unit + u.kind <= t.unit
    BY <1>14, TreesApart DEF Ahead
  <2>3. b \in TreeBlocks(m, u) => u.unit <= b.ptr /\ b.ptr + b.size <= u.unit + u.kind
    BY TreeBlockBounds
  <2> QED BY <1>2, <1>3, <2>1, <2>2, <2>3
<1>15. PoolBlocks(n, type) = PoolBlocks(m, type) \ {b}
  BY <1>12, <1>13, <1>14 DEF PoolBlocks
<1>16. freed.memory = n
  BY DEF n
<1> QED BY <1>5, <1>9, <1>11, <1>12, <1>15, <1>16

-----------------------------------------------------------------------------
(* Free sizes of a pool.                                                   *)

PoolFitting(m, type) ==
  {size \in Kinds : size <= 32 /\ \E t \in Trees(type) : FitsIn(m, t.at, t.kind, size)}

LEMMA FittingIsPossible ==
  ASSUME NEW type \in Types \cup {0}, NEW m, NEW t \in Trees(type)
  PROVE  Fitting(m, t.at, t.kind) \subseteq getMaxSplit(type)
<1>1. SUFFICES ASSUME NEW size \in Fitting(m, t.at, t.kind) PROVE size \in getMaxSplit(type)
  OBVIOUS
<1>2. t.kind \in Kinds /\ type \in Types
  BY TreeFacts
<1>3. size <= 32 /\ FitsIn(m, t.at, t.kind, size)
  BY DEF Fitting
<1>4. size \in KindsIn[t.kind]
  <2>1. PICK p \in PlacesIn[t.kind] : p.kind = size
    BY <1>3 DEF FitsIn
  <2> QED BY <1>2, <2>1, PlaceKinds
<1>5. size \in maxSplitOf(t.kind)
  BY <1>3, <1>4 DEF maxSplitOf, Bit
<1>6. 0 \notin Types
  BY DEF Types
<1>7. getMaxSplit(type) = UNION {maxSplitOf(u.kind) : u \in Trees(type)}
  BY <1>2, <1>6 DEF getMaxSplit, MaxSplits, Trees
<1> QED BY <1>5, <1>7

LEMMA PoolSizes ==
  ASSUME NEW type \in Types \cup {0}, NEW m, PoolGood(m, type)
  PROVE  /\ All(getFreeSizeTypes(m, type)) = PoolFitting(m, type)
         /\ PoolFitting(m, type) \subseteq getMaxSplit(type)
<1> DEFINE of(trees) == {freeSizesOfNode(m, t.at, t.kind) : t \in trees}
           upTo(i) == {t \in TreesOfArray(type, 1) : t.i <= i}
           Enough(i) == \/ getMaxSplit(type) \subseteq Firsts(of(upTo(i)))
                        \/ getMaxSplit(type) \subseteq Seconds(of(upTo(i)))
           read == {t \in Trees(type) : t.array = 1 => ~ \E i \in 0 .. t.i - 1 : Enough(i)}
<1>1. getFreeSizeTypes(m, type) = Both(of(read))
  BY DEF getFreeSizeTypes
<1>2. All(getFreeSizeTypes(m, type)) = Firsts(of(read)) \cup Seconds(of(read))
  <2> HIDE DEF of, read
  <2> QED BY <1>1 DEF All, Both
<1>3. ASSUME NEW t \in Trees(type)
      PROVE  /\ All(freeSizesOfNode(m, t.at, t.kind)) = Fitting(m, t.at, t.kind)
             /\ Fitting(m, t.at, t.kind) \subseteq getMaxSplit(type) /\ t.i \in Nat
  <2>1. t.kind \in Kinds /\ Within(t.at, t.kind) /\ t.i \in Nat
    BY TreeFacts
  <2>2. m \in Memory /\ Good(m, t.at, t.kind)
    BY DEF PoolGood
  <2> QED BY <2>1, <2>2, SizesThatFit, FittingIsPossible
<1>4. ASSUME NEW size, NEW trees
      PROVE  size \in Firsts(of(trees)) \cup Seconds(of(trees)) <=>
               \E t \in trees : size \in All(freeSizesOfNode(m, t.at, t.kind))
  BY DEF Firsts, Seconds, All
<1> HIDE DEF of
<1>5. \A size : size \in PoolFitting(m, type) <=> \E t \in Trees(type) : size \in Fitting(m, t.at, t.kind)
  BY DEF PoolFitting, Fitting
<1>6. ASSUME NEW size \in Firsts(of(read)) \cup Seconds(of(read)) PROVE size \in PoolFitting(m, type)
  <2>1. PICK t \in read : size \in All(freeSizesOfNode(m, t.at, t.kind))
    <3> HIDE DEF read
    <3> QED BY <1>4
  <2>2. t \in Trees(type)
    OBVIOUS
  <2> QED BY <1>3, <1>5, <2>1, <2>2
<1>7. ASSUME NEW size \in PoolFitting(m, type) PROVE size \in Firsts(of(read)) \cup Seconds(of(read))
  <2>1. PICK t \in Trees(type) : size \in Fitting(m, t.at, t.kind)
    BY <1>5
  <2>2. CASE t \in read
    <3> HIDE DEF read
    <3> QED BY <1>3, <1>4, <2>1, <2>2
  <2>3. CASE t \notin read
    <3>1. PICK l \in 0 .. t.i - 1 : Enough(l)
      <4> HIDE DEF Enough
      <4> QED BY <2>3
    <3> DEFINE E == {i \in Nat : Enough(i)}
    <3>2. l \in E /\ E \in SUBSET Nat
      <4> HIDE DEF Enough
      <4> QED BY <3>1
    <3>3. Min(E) \in E /\ \A i \in E : Min(E) <= i
      <4> HIDE DEF E
      <4> QED BY <3>2, MinOfNaturals
    <3>4. PICK i \in Nat : Enough(i) /\ \A d \in Nat : Enough(d) => i <= d
      <4> HIDE DEF Enough
      <4> QED BY <3>3
    <3>5. upTo(i) \subseteq read
      <4>1. SUFFICES ASSUME NEW u \in upTo(i), NEW d \in 0 .. u.i - 1, Enough(d) PROVE FALSE
        <5> HIDE DEF Enough
        <5> QED BY DEF TreesOfArray
      <4>2. u.i <= i /\ u \in Trees(type)
        BY DEF TreesOfArray
      <4>3. u.i \in Nat
        BY <1>3, <4>2
      <4>4. i <= d
        <5>1. d \in Nat
          BY <4>3
        <5> HIDE DEF Enough
        <5> QED BY <3>4, <4>1, <5>1
      <4> QED BY <4>2, <4>3, <4>4
    <3>6. size \in getMaxSplit(type)
      BY <1>3, <2>1
    <3>7. size \in Firsts(of(upTo(i))) \cup Seconds(of(upTo(i)))
      BY <3>4, <3>6
    <3> HIDE DEF upTo, read, Enough
    <3> QED BY <1>4, <3>5, <3>7
  <2> QED BY <2>2, <2>3
<1>8. PoolFitting(m, type) \subseteq getMaxSplit(type)
  BY <1>3, <1>5
<1> HIDE DEF read
<1> QED BY <1>2, <1>6, <1>7, <1>8

(* A pool without a type advertises nothing.                               *)
LEMMA NoTypeNoSizes ==
  ASSUME NEW m
  PROVE  getFreeSizeTypes(m, 0) = NoSizes
<1>1. Trees(0) = {}
  BY DEF Trees
<1>2. ASSUME NEW S, S = {} PROVE Both({freeSizesOfNode(m, t.at, t.kind) : t \in S}) = NoSizes
  BY <1>2 DEF Both, NoSizes, Firsts, Seconds
<1> QED BY <1>1, <1>2 DEF getFreeSizeTypes

-----------------------------------------------------------------------------
(* The table of places.                                                    *)

(* A place of the table is there if its ancestors are divided for it; it   *)
(* can be had if they are, or not at all.                                  *)
There(m, place) == \A a \in place.ancestors : Option(m, a[1]) = a[2]
Open(m, place) == \A a \in place.ancestors : Option(m, a[1]) \in {SOE_Empty, a[2]}

LEMMA ShiftedPlace ==
  ASSUME NEW m, NEW o \in Nat, NEW unit \in Nat, NEW q
  PROVE  /\ Shifted(q, o, unit).at = o + q.at /\ Shifted(q, o, unit).kind = q.kind
         /\ Shifted(q, o, unit).unit = unit + q.unit
         /\ There(m, Shifted(q, o, unit)) <=> Active(m, o, q)
         /\ isEmpty(m, o + q.at) /\ Open(m, Shifted(q, o, unit)) <=> FreeFor(m, o, q)
<1> DEFINE s == Shifted(q, o, unit)
<1>1. /\ s.at = o + q.at /\ s.kind = q.kind /\ s.unit = unit + q.unit
      /\ s.ancestors = {<<o + a[1], a[2]>> : a \in q.ancestors}
  BY DEF Shifted
<1> HIDE DEF s
<1>2. (\A a \in s.ancestors : Option(m, a[1]) = a[2]) <=>
        \A a \in q.ancestors : Option(m, o + a[1]) = a[2]
  <2> DEFINE T(a) == Option(m, a[1]) = a[2]
  <2>1. \A a \in q.ancestors : T(<<o + a[1], a[2]>>) <=> Option(m, o + a[1]) = a[2]
    OBVIOUS
  <2>2. (\A a \in s.ancestors : T(a)) <=> \A a \in q.ancestors : T(<<o + a[1], a[2]>>)
    <3> HIDE DEF T
    <3> QED BY <1>1
  <2> QED BY <2>1, <2>2
<1>3. (\A a \in s.ancestors : Option(m, a[1]) \in {SOE_Empty, a[2]}) <=>
        \A a \in q.ancestors : Option(m, o + a[1]) \in {SOE_Empty, a[2]}
  <2> DEFINE T(a) == Option(m, a[1]) \in {SOE_Empty, a[2]}
  <2>1. \A a \in q.ancestors : T(<<o + a[1], a[2]>>) <=> Option(m, o + a[1]) \in {SOE_Empty, a[2]}
    OBVIOUS
  <2>2. (\A a \in s.ancestors : T(a)) <=> \A a \in q.ancestors : T(<<o + a[1], a[2]>>)
    <3> HIDE DEF T
    <3> QED BY <1>1
  <2> QED BY <2>1, <2>2
<1> QED BY <1>1, <1>2, <1>3 DEF s, Active, There, Open, FreeFor

LEMMA PlacesOfPool ==
  ASSUME NEW type \in Types
  PROVE  \A p : p \in PlacesOf[type] <=>
           \E t \in Trees(type) : \E q \in PlacesIn[t.kind] : p = Shifted(q, t.at, t.unit)
BY DEF PlacesOf

-----------------------------------------------------------------------------
(* Pool objects.                                                           *)

(* A size is rounded up to a kind.                                         *)
LEMMA Rounded ==
  ASSUME NEW size \in 1 .. 32
  PROVE  /\ roundSizeTable[size] \in Kinds /\ roundSizeTable[size] \in Nat
         /\ size <= roundSizeTable[size] /\ roundSizeTable[size] <= 32
<1>1. ASSUME NEW n \in Nat, n <= 32, size <= n, n \in Leaves \/ n \in Middles, roundSizeTable[size] = n
      PROVE  /\ roundSizeTable[size] \in Kinds /\ roundSizeTable[size] \in Nat
             /\ size <= roundSizeTable[size] /\ roundSizeTable[size] <= 32
  BY <1>1 DEF Kinds
<1>2. CASE size \in 1 .. 8
  BY <1>2, <1>1 DEF roundSizeTable, Leaves, Middles
<1>3. CASE size \in 9 .. 16
  BY <1>3, <1>1 DEF roundSizeTable, Leaves, Middles
<1>4. CASE size \in 17 .. 24
  BY <1>4, <1>1 DEF roundSizeTable, Leaves, Middles
<1>5. CASE size \in 25 .. 32
  BY <1>5, <1>1 DEF roundSizeTable, Leaves, Middles
<1> QED BY <1>2, <1>3, <1>4, <1>5

(* A kind is its own size.                                                 *)
LEMMA KindsAreRound ==
  ASSUME NEW size \in Kinds, size <= 32
  PROVE  size \in 1 .. 32 /\ roundSizeTable[size] = size
<1>1. size \in {1, 2, 3, 4, 5, 6, 7, 8} \/ size \in {9, 10, 12, 14, 15, 16, 18} \/ size \in {20, 21, 24, 25, 28, 30, 32}
  BY DEF Kinds, Leaves, Middles
<1>2. CASE size \in {1, 2, 3, 4, 5, 6, 7, 8}
  BY <1>2 DEF roundSizeTable
<1>3. CASE size \in {9, 10, 12, 14, 15, 16, 18}
  BY <1>3 DEF roundSizeTable
<1>4. CASE size \in {20, 21, 24, 25, 28, 30, 32}
  BY <1>4 DEF roundSizeTable
<1> QED BY <1>1, <1>2, <1>3, <1>4

LEMMA SizesType ==
  ASSUME NEW m, NEW type \in Types \cup {0}
  PROVE  getFreeSizeTypes(m, type) \in FreeSizes
<1>1. PICK sizes : IsSizes(m, sizes)
  BY SizesEquation
<1>2. \A t \in Trees(type) : freeSizesOfNode(m, t.at, t.kind) \in FreeSizes
  BY <1>1, TreeFacts DEF IsSizes
<1>3. ASSUME NEW S, \A s \in S : s \in FreeSizes PROVE Both(S) \in FreeSizes
  BY <1>3 DEF Both, Firsts, Seconds, FreeSizes
<1>4. ASSUME NEW trees \in SUBSET Trees(type)
      PROVE  Both({freeSizesOfNode(m, t.at, t.kind) : t \in trees}) \in FreeSizes
  <2>1. \A s \in {freeSizesOfNode(m, t.at, t.kind) : t \in trees} : s \in FreeSizes
    BY <1>2
  <2> QED BY <1>3, <2>1
<1> DEFINE of(trees) == {freeSizesOfNode(m, t.at, t.kind) : t \in trees}
           upTo(i) == {t \in TreesOfArray(type, 1) : t.i <= i}
           Enough(i) == \/ getMaxSplit(type) \subseteq Firsts(of(upTo(i)))
                        \/ getMaxSplit(type) \subseteq Seconds(of(upTo(i)))
           read == {t \in Trees(type) : t.array = 1 => ~ \E i \in 0 .. t.i - 1 : Enough(i)}
<1>5. getFreeSizeTypes(m, type) = Both(of(read))
  BY DEF getFreeSizeTypes
<1>6. read \in SUBSET Trees(type)
  <2> HIDE DEF Enough
  <2> QED OBVIOUS
<1> HIDE DEF read
<1> QED BY <1>4, <1>5, <1>6

Object(m, memory, type, sizes, count) ==
  [chunkTypes |-> m, memory |-> memory, blockType |-> type, freeSizes |-> sizes, allocatedcount |-> count]
PoolObjects == [chunkTypes : Memory, memory : BOOLEAN, blockType : Types \cup {0},
                freeSizes : FreeSizes, allocatedcount : Int]
PoolOK(p) ==
  /\ p \in PoolObjects
  /\ p.memory <=> p.blockType # 0
  /\ PoolGood(p.chunkTypes, p.blockType)
  /\ p.freeSizes = getFreeSizeTypes(p.chunkTypes, p.blockType)
BlocksIn(p) == PoolBlocks(p.chunkTypes, p.blockType)

LEMMA NewPoolIsGood ==
  ASSUME NEW garbage \in Int
  PROVE  /\ PoolOK(NewPool(garbage)) /\ BlocksIn(NewPool(garbage)) = {}
         /\ ~ NewPool(garbage).memory /\ NewPool(garbage).allocatedcount = garbage
         /\ NewPool(garbage).freeSizes = NoSizes /\ NewPool(garbage).blockType = 0
<1> DEFINE p == NewPool(garbage)
<1>1. /\ p.chunkTypes = BlankMemory /\ p.memory = FALSE /\ p.blockType = 0
      /\ p.freeSizes = NoSizes /\ p.allocatedcount = garbage
  BY DEF NewPool
<1>2. PoolGood(BlankMemory, 0) /\ PoolBlocks(BlankMemory, 0) = {}
  BY BlankPool
<1>3. BlankMemory \in Memory
  BY <1>2 DEF PoolGood
<1>4. p \in PoolObjects
  <2>1. NoSizes \in FreeSizes
    BY DEF NoSizes, FreeSizes
  <2> QED BY <1>3, <2>1 DEF NewPool, PoolObjects
<1>5. getFreeSizeTypes(BlankMemory, 0) = NoSizes
  BY NoTypeNoSizes
<1> HIDE DEF p
<1> QED BY <1>1, <1>2, <1>4, <1>5 DEF PoolOK, BlocksIn, p

(* A pool whose memory and count have changed.                             *)
IsRecomputed(r, m, memory, type, count) ==
  /\ r \in PoolObjects
  /\ r.chunkTypes = m /\ r.memory = memory /\ r.blockType = type
  /\ r.allocatedcount = count /\ r.freeSizes = getFreeSizeTypes(m, type)

LEMMA Recomputed ==
  ASSUME NEW p \in PoolObjects, NEW m \in Memory, NEW count \in Int, NEW memory \in BOOLEAN,
         NEW type \in Types \cup {0}, NEW q, q = Object(m, memory, type, p.freeSizes, count)
  PROVE  IsRecomputed(ComputedFreeSizes(q), m, memory, type, count)
<1>1. q.chunkTypes = m /\ q.blockType = type
  BY DEF Object
<1>2. ComputedFreeSizes(q) = [chunkTypes |-> m, memory |-> memory, blockType |-> type,
                              freeSizes |-> getFreeSizeTypes(m, type), allocatedcount |-> count]
  BY <1>1 DEF ComputedFreeSizes, Object
<1>3. getFreeSizeTypes(m, type) \in FreeSizes
  BY SizesType
<1> QED BY <1>2, <1>3 DEF PoolObjects, IsRecomputed

LEMMA PoolFields ==
  ASSUME NEW p \in PoolObjects
  PROVE  /\ p.chunkTypes \in Memory /\ p.memory \in BOOLEAN /\ p.blockType \in Types \cup {0}
         /\ p.freeSizes \in FreeSizes /\ p.allocatedcount \in Int
         /\ p = [chunkTypes |-> p.chunkTypes, memory |-> p.memory, blockType |-> p.blockType,
                 freeSizes |-> p.freeSizes, allocatedcount |-> p.allocatedcount]
BY DEF PoolObjects

WithCount(p, m, count) == [p EXCEPT !.chunkTypes = m, !.allocatedcount = count]
WithType(p, m, memory, type) == [p EXCEPT !.chunkTypes = m, !.memory = memory, !.blockType = type]

(* Records with the fields of a pool object.                               *)
LEMMA Changed ==
  ASSUME NEW A, NEW B, NEW C, NEW D, NEW E,
         NEW p \in [chunkTypes : A, memory : B, blockType : C, freeSizes : D, allocatedcount : E],
         NEW m \in A, NEW memory \in B, NEW type \in C, NEW count \in E
  PROVE  /\ WithCount(p, m, count) = Object(m, p.memory, p.blockType, p.freeSizes, count)
         /\ WithType(p, m, memory, type) = Object(m, memory, type, p.freeSizes, p.allocatedcount)
<1> DEFINE Record == [chunkTypes : A, memory : B, blockType : C, freeSizes : D, allocatedcount : E]
           q == [p EXCEPT !.chunkTypes = m, !.allocatedcount = count]
           r == [p EXCEPT !.chunkTypes = m, !.memory = memory, !.blockType = type]
           qq == [chunkTypes |-> m, memory |-> p.memory, blockType |-> p.blockType,
                  freeSizes |-> p.freeSizes, allocatedcount |-> count]
           rr == [chunkTypes |-> m, memory |-> memory, blockType |-> type,
                  freeSizes |-> p.freeSizes, allocatedcount |-> p.allocatedcount]
<1>1. \A s, t \in Record :
        /\ s.chunkTypes = t.chunkTypes /\ s.memory = t.memory /\ s.blockType = t.blockType
        /\ s.freeSizes = t.freeSizes /\ s.allocatedcount = t.allocatedcount
        => s = t
  OBVIOUS
<1>2. q \in Record /\ r \in Record
  OBVIOUS
<1>3. qq \in Record /\ rr \in Record
  OBVIOUS
<1>4. /\ q.chunkTypes = m /\ q.memory = p.memory /\ q.blockType = p.blockType
      /\ q.freeSizes = p.freeSizes /\ q.allocatedcount = count
  OBVIOUS
<1>5. /\ r.chunkTypes = m /\ r.memory = memory /\ r.blockType = type
      /\ r.freeSizes = p.freeSizes /\ r.allocatedcount = p.allocatedcount
  OBVIOUS
<1>6. /\ qq.chunkTypes = m /\ qq.memory = p.memory /\ qq.blockType = p.blockType
      /\ qq.freeSizes = p.freeSizes /\ qq.allocatedcount = count
  OBVIOUS
<1>7. /\ rr.chunkTypes = m /\ rr.memory = memory /\ rr.blockType = type
      /\ rr.freeSizes = p.freeSizes /\ rr.allocatedcount = p.allocatedcount
  OBVIOUS
<1> HIDE DEF q, r, qq, rr, Record
<1>8. q = qq
  BY <1>1, <1>2, <1>3, <1>4, <1>6
<1>9. r = rr
  BY <1>1, <1>2, <1>3, <1>5, <1>7
<1> QED BY <1>8, <1>9 DEF q, r, qq, rr, WithCount, WithType, Object

LEMMA PoolChanged ==
  ASSUME NEW p \in PoolObjects, NEW m \in Memory, NEW memory \in BOOLEAN,
         NEW type \in Types \cup {0}, NEW count \in Int
  PROVE  /\ WithCount(p, m, count) = Object(m, p.memory, p.blockType, p.freeSizes, count)
         /\ WithType(p, m, memory, type) = Object(m, memory, type, p.freeSizes, p.allocatedcount)
<1> DEFINE A == Memory
           B == BOOLEAN
           C == Types \cup {0}
           D == FreeSizes
           E == Int
<1>1. p \in [chunkTypes : A, memory : B, blockType : C, freeSizes : D, allocatedcount : E]
      /\ m \in A /\ memory \in B /\ type \in C /\ count \in E
  BY DEF PoolObjects
<1> HIDE DEF A, B, C, D, E
<1> QED BY <1>1, Changed

LEMMA AllocPool ==
  ASSUME NEW p, PoolOK(p), NEW size \in 1 .. 32
  PROVE  LET r == poolAlloc(p, size)
             block == Block(r.index, roundSizeTable[size])
         IN  /\ PoolOK(r.pool) /\ r.pool.memory = p.memory /\ r.pool.blockType = p.blockType
             /\ IF r.index = NoIndex
                THEN /\ r.pool.chunkTypes = p.chunkTypes /\ r.pool.freeSizes = p.freeSizes
                     /\ r.pool.allocatedcount = p.allocatedcount
                     /\ BlocksIn(r.pool) = BlocksIn(p)
                ELSE /\ r.index \in Nat /\ block \notin BlocksIn(p)
                     /\ BlocksIn(r.pool) = BlocksIn(p) \cup {block}
                     /\ r.pool.allocatedcount = p.allocatedcount + 1
             /\ r.index # NoIndex <=> roundSizeTable[size] \in All(p.freeSizes)
<1> DEFINE m == p.chunkTypes
           type == p.blockType
           found == allocIndex(m, type, size)
           k == roundSizeTable[size]
           count == p.allocatedcount + (IF found.index # NoIndex THEN 1 ELSE 0)
           q == [p EXCEPT !.chunkTypes = found.memory,
                          !.allocatedcount = @ + (IF found.index # NoIndex THEN 1 ELSE 0)]
           r == poolAlloc(p, size)
           block == Block(found.index, k)
<1>1. p \in PoolObjects /\ PoolGood(m, type) /\ type \in Types \cup {0} /\ m \in Memory
      /\ p.allocatedcount \in Int /\ p.memory \in BOOLEAN
  BY PoolFields DEF PoolOK
<1>2. k \in Kinds /\ k \in Nat /\ k <= 32
  BY Rounded
<1>3. /\ PoolTried(m, type, k, found)
      /\ found.index # NoIndex <=> \E t \in Trees(type) : Serves(m, t.at, t.kind, k)
  BY <1>1, <1>2, PoolServes
<1>4. r = [pool |-> ComputedFreeSizes(q), index |-> found.index]
  BY DEF poolAlloc, withFound
<1>5. found.memory \in Memory /\ PoolGood(found.memory, type)
  BY <1>1, <1>3 DEF PoolTried, PoolServed, PoolGood
<1>6. r.pool = ComputedFreeSizes(q) /\ r.index = found.index
  <2> HIDE DEF r, q, found
  <2> QED BY <1>4
<1> HIDE DEF found
<1>7. count \in Int
  BY <1>1
<1>8. q = Object(found.memory, p.memory, type, p.freeSizes, count)
  <2>1. q = WithCount(p, found.memory, count)
    BY DEF WithCount
  <2> HIDE DEF count, q
  <2> QED BY <1>1, <1>5, <1>7, <2>1, PoolChanged
<1> HIDE DEF q, r
<1>9. /\ r.pool \in PoolObjects /\ r.pool.chunkTypes = found.memory /\ r.pool.memory = p.memory
      /\ r.pool.blockType = type /\ r.pool.allocatedcount = count
      /\ r.pool.freeSizes = getFreeSizeTypes(found.memory, type)
  <2> HIDE DEF count, m, type
  <2>1. IsRecomputed(ComputedFreeSizes(q), found.memory, p.memory, type, count)
    BY <1>1, <1>5, <1>7, <1>8, Recomputed
  <2>2. IsRecomputed(r.pool, found.memory, p.memory, type, count)
    BY <1>6, <2>1
  <2> QED BY <2>2 DEF IsRecomputed
<1>10. PoolOK(r.pool)
  BY <1>5, <1>9 DEF PoolOK
<1>11. ASSUME found.index = NoIndex
       PROVE  /\ r.pool.chunkTypes = p.chunkTypes /\ r.pool.freeSizes = p.freeSizes
              /\ r.pool.allocatedcount = p.allocatedcount /\ BlocksIn(r.pool) = BlocksIn(p)
  <2>1. found.memory = m
    BY <1>3, <1>11 DEF PoolTried
  <2>2. p.freeSizes = getFreeSizeTypes(m, type)
    BY DEF PoolOK
  <2>3. r.pool.chunkTypes = m /\ r.pool.freeSizes = p.freeSizes /\ BlocksIn(r.pool) = BlocksIn(p)
    BY <1>9, <2>1, <2>2 DEF BlocksIn
  <2>4. r.pool.allocatedcount = p.allocatedcount
    BY <1>1, <1>9, <1>11
  <2> QED BY <2>3, <2>4
<1>12. ASSUME found.index # NoIndex
       PROVE  /\ found.index \in Nat /\ block \notin BlocksIn(p)
              /\ BlocksIn(r.pool) = BlocksIn(p) \cup {block}
              /\ r.pool.allocatedcount = p.allocatedcount + 1
  <2>1. PoolServed(m, type, k, found)
    BY <1>3, <1>12 DEF PoolTried
  <2>2. r.pool.allocatedcount = p.allocatedcount + 1
    BY <1>9, <1>12
  <2> HIDE DEF k
  <2> QED BY <1>9, <2>1, <2>2 DEF PoolServed, BlocksIn
<1>13. found.index # NoIndex <=> k \in All(p.freeSizes)
  <2>1. All(p.freeSizes) = PoolFitting(m, type)
    <3>1. p.freeSizes = getFreeSizeTypes(m, type)
      BY DEF PoolOK
    <3> QED BY <1>1, <3>1, PoolSizes
  <2>2. \A t \in Trees(type) : Serves(m, t.at, t.kind, k) <=> FitsIn(m, t.at, t.kind, k)
    <3>1. \A t \in Trees(type) : t.kind \in Kinds /\ Within(t.at, t.kind) /\ Good(m, t.at, t.kind)
      BY <1>1, TreeFacts DEF PoolGood
    <3> HIDE DEF m, k, type
    <3> QED BY <1>1, <1>2, <3>1, ServesWhatFits
  <2> HIDE DEF m, k, type
  <2> QED BY <1>2, <1>3, <2>1, <2>2 DEF PoolFitting
<1>14. /\ PoolOK(r.pool) /\ r.pool.memory = p.memory /\ r.pool.blockType = p.blockType
       /\ IF r.index = NoIndex
          THEN /\ r.pool.chunkTypes = p.chunkTypes /\ r.pool.freeSizes = p.freeSizes
               /\ r.pool.allocatedcount = p.allocatedcount
               /\ BlocksIn(r.pool) = BlocksIn(p)
          ELSE /\ r.index \in Nat /\ Block(r.index, k) \notin BlocksIn(p)
               /\ BlocksIn(r.pool) = BlocksIn(p) \cup {Block(r.index, k)}
               /\ r.pool.allocatedcount = p.allocatedcount + 1
       /\ r.index # NoIndex <=> k \in All(p.freeSizes)
  BY <1>6, <1>9, <1>10, <1>11, <1>12, <1>13
<1> QED BY <1>14 DEF r

LEMMA FreePool ==
  ASSUME NEW p, PoolOK(p), NEW b \in BlocksIn(p)
  PROVE  LET r == poolDealloc(p, b.ptr)
         IN  /\ PoolOK(r.pool) /\ r.pool.memory = p.memory /\ r.pool.blockType = p.blockType
             /\ r.size = b.size /\ r.pool.allocatedcount = p.allocatedcount - 1
             /\ BlocksIn(r.pool) = BlocksIn(p) \ {b}
<1> DEFINE m == p.chunkTypes
           type == p.blockType
           freed == dealocIndex(m, type, b.ptr)
           q == [p EXCEPT !.chunkTypes = freed.memory, !.allocatedcount = @ - 1]
           r == poolDealloc(p, b.ptr)
<1>1. p \in PoolObjects /\ PoolGood(m, type) /\ type \in Types \cup {0}
      /\ p.allocatedcount \in Int /\ p.memory \in BOOLEAN /\ b \in PoolBlocks(m, type)
  BY PoolFields DEF PoolOK, BlocksIn
<1>2. /\ freed.size = b.size /\ PoolGood(freed.memory, type)
      /\ PoolBlocks(freed.memory, type) = PoolBlocks(m, type) \ {b}
  BY <1>1, PoolFrees
<1>3. r = [pool |-> ComputedFreeSizes(q), size |-> freed.size]
  BY DEF poolDealloc, withFreed
<1>4. r.pool = ComputedFreeSizes(q) /\ r.size = freed.size
  <2> HIDE DEF r, q, freed
  <2> QED BY <1>3
<1> HIDE DEF freed
<1>5. freed.memory \in Memory /\ p.allocatedcount - 1 \in Int
  BY <1>1, <1>2 DEF PoolGood
<1>6. q = Object(freed.memory, p.memory, type, p.freeSizes, p.allocatedcount - 1)
  <2>1. q = WithCount(p, freed.memory, p.allocatedcount - 1)
    BY DEF WithCount
  <2> HIDE DEF q
  <2> QED BY <1>1, <1>5, <2>1, PoolChanged
<1> HIDE DEF q, r
<1>7. /\ r.pool \in PoolObjects /\ r.pool.chunkTypes = freed.memory /\ r.pool.memory = p.memory
      /\ r.pool.blockType = type /\ r.pool.allocatedcount = p.allocatedcount - 1
      /\ r.pool.freeSizes = getFreeSizeTypes(freed.memory, type)
  <2> DEFINE less == p.allocatedcount - 1
  <2> HIDE DEF m, type, less
  <2>1. IsRecomputed(ComputedFreeSizes(q), freed.memory, p.memory, type, less)
    <3>1. less \in Int /\ q = Object(freed.memory, p.memory, type, p.freeSizes, less)
      BY <1>5, <1>6 DEF less
    <3> QED BY <1>1, <1>5, <3>1, Recomputed
  <2>2. IsRecomputed(r.pool, freed.memory, p.memory, type, less)
    BY <1>4, <2>1
  <2> QED BY <2>2 DEF IsRecomputed, less
<1>8. PoolOK(r.pool)
  BY <1>2, <1>7 DEF PoolOK
<1>9. BlocksIn(r.pool) = BlocksIn(p) \ {b}
  BY <1>2, <1>7 DEF BlocksIn
<1> QED BY <1>2, <1>4, <1>7, <1>8, <1>9 DEF r

(* A pool with memory is not changed by reset when it has no blocks; one   *)
(* without memory gets it, and the type.                                   *)
LEMMA ResetPool ==
  ASSUME NEW p, PoolOK(p), BlocksIn(p) = {}, NEW type \in Types
  PROVE  LET r == poolReset(p, type)
         IN  /\ PoolOK(r) /\ BlocksIn(r) = {} /\ r.memory /\ r.allocatedcount = p.allocatedcount
             /\ r.blockType = (IF p.memory THEN p.blockType ELSE type)
             /\ p.memory => r = p
             /\ ~ p.memory => r.freeSizes = getFreeSizeTypes(BlankMemory, type)
<1>1. /\ p \in PoolObjects /\ PoolGood(p.chunkTypes, p.blockType)
      /\ p.chunkTypes \in Memory /\ p.blockType \in Types \cup {0} /\ p.memory \in BOOLEAN
      /\ p.allocatedcount \in Int /\ (p.memory <=> p.blockType # 0)
  BY PoolFields DEF PoolOK
<1>2. p.chunkTypes = BlankMemory
  BY <1>1, NoBlocksIsBlank DEF BlocksIn
<1>3. type # 0
  BY DEF Types
<1>4. ~ needResetTypes(BlankMemory, type)
  <2>1. Roots(type) \subseteq Addresses
    BY TreeAreas DEF Roots
  <2>2. \A a \in Addresses : BlankMemory[a].Option = SOE_Empty
    BY DEF BlankMemory, Addresses, Blank
  <2> QED BY <1>3, <2>1, <2>2 DEF needResetTypes
<1>5. CASE p.memory
  <2>1. ~ needReset(p, type)
    BY <1>2, <1>3, <1>4, <1>5 DEF needReset
  <2>2. poolReset(p, type) = p
    BY <2>1 DEF poolReset
  <2> QED BY <1>5, <2>2
<1>6. CASE ~ p.memory
  <2>1. needReset(p, type)
    BY <1>1, <1>3, <1>6 DEF needReset
  <2> DEFINE q == [p EXCEPT !.chunkTypes = IF needResetTypes(@, type) THEN resetTypes(@, type) ELSE @,
                            !.memory = @ \/ type # 0,
                            !.blockType = type]
  <2>2. poolReset(p, type) = ComputedFreeSizes(q)
    BY <2>1 DEF poolReset
  <2>3. q = Object(BlankMemory, TRUE, type, p.freeSizes, p.allocatedcount)
    <3>1. q = [p EXCEPT !.chunkTypes = IF needResetTypes(p.chunkTypes, type)
                                       THEN resetTypes(p.chunkTypes, type) ELSE p.chunkTypes,
                        !.memory = p.memory \/ type # 0,
                        !.blockType = type]
      OBVIOUS
    <3>2. (IF needResetTypes(p.chunkTypes, type) THEN resetTypes(p.chunkTypes, type) ELSE p.chunkTypes) = BlankMemory
      BY <1>2, <1>4
    <3>3. (p.memory \/ type # 0) = TRUE
      BY <1>3
    <3>4. q = WithType(p, BlankMemory, TRUE, type)
      <4> HIDE DEF q
      <4> QED BY <3>1, <3>2, <3>3 DEF WithType
    <3>5. BlankMemory \in Memory /\ TRUE \in BOOLEAN /\ type \in Types \cup {0}
      BY BlankPool DEF PoolGood
    <3> HIDE DEF q
    <3> QED BY <1>1, <3>4, <3>5, PoolChanged
  <2> DEFINE r == poolReset(p, type)
  <2> HIDE DEF q, r
  <2>4. PoolGood(BlankMemory, type) /\ PoolBlocks(BlankMemory, type) = {} /\ BlankMemory \in Memory
    BY BlankPool DEF PoolGood
  <2>5. r = ComputedFreeSizes(q)
    BY <2>2 DEF r
  <2>6. /\ r \in PoolObjects /\ r.chunkTypes = BlankMemory /\ r.memory = TRUE
        /\ r.blockType = type /\ r.allocatedcount = p.allocatedcount
        /\ r.freeSizes = getFreeSizeTypes(BlankMemory, type)
    <3>1. TRUE \in BOOLEAN /\ type \in Types \cup {0}
      OBVIOUS
    <3>2. IsRecomputed(r, BlankMemory, TRUE, type, p.allocatedcount)
      BY <1>1, <2>3, <2>4, <2>5, <3>1, Recomputed
    <3> QED BY <3>2 DEF IsRecomputed
  <2>7. PoolOK(r) /\ BlocksIn(r) = {}
    BY <1>3, <2>4, <2>6 DEF PoolOK, BlocksIn
  <2> QED BY <1>6, <2>6, <2>7 DEF r
<1> QED BY <1>5, <1>6

(* Two blocks of a pool at one place are one block.                        *)
LEMMA OneBlockAt ==
  ASSUME NEW p, PoolOK(p), NEW b \in BlocksIn(p), NEW c \in BlocksIn(p), b.ptr = c.ptr
  PROVE  b = c
<1>1. p.blockType \in Types \cup {0}
  BY PoolFields DEF PoolOK
<1>2. b = c \/ Before(b, c) \/ Before(c, b)
  BY <1>1, PoolBlocksApart DEF BlocksIn
<1>3. b.ptr \in Nat /\ b.size \in Nat \ {0} /\ c.ptr \in Nat /\ c.size \in Nat \ {0}
  BY <1>1, PoolBlocksApart DEF BlocksIn
<1> QED BY <1>2, <1>3 DEF Before

(* The memory of a good pool has its type.                                 *)
LEMMA MemoryType ==
  ASSUME NEW type \in Types \cup {0}, NEW m, PoolGood(m, type)
  PROVE  m \in [0 .. SIZEOF - 1 -> [Option : 0 .. 3, fullChilds : 0 .. 63]]
<1>1. m \in Memory
  BY DEF PoolGood
<1>2. ASSUME NEW a \in Addresses PROVE m[a] \in [Option : 0 .. 3, fullChilds : 0 .. 63]
  <2>1. m[a] \in SplitType
    BY <1>1 DEF Memory
  <2>2. m[a].fullChilds \in 0 .. 5
    <3>1. CASE m[a] = Blank
      BY <3>1 DEF Blank
    <3>2. CASE \E t \in Trees(type) : a \in TreeArea(t)
      <4>1. PICK t \in Trees(type) : a \in Area(t.at, t.kind)
        BY <3>2 DEF TreeArea
      <4>2. t.kind \in Kinds /\ Within(t.at, t.kind) /\ Good(m, t.at, t.kind)
        BY TreeFacts DEF PoolGood
      <4> QED BY <1>1, <4>1, <4>2, CountsAreSmall
    <3> QED BY <3>1, <3>2 DEF PoolGood
  <2> QED BY <2>1, <2>2 DEF SplitType, SOE_Empty, SOE_Reserved
<1> QED BY <1>1, <1>2 DEF Memory, Addresses

(* The sizes of a type are kinds of up to 32 units.                        *)
LEMMA MaxSplitKinds ==
  ASSUME NEW type \in Types, NEW size \in getMaxSplit(type)
  PROVE  size \in Kinds /\ size <= 32
<1>1. 0 \notin Types
  BY DEF Types
<1>2. getMaxSplit(type) = UNION {maxSplitOf(t.kind) : t \in Trees(type)}
  BY <1>1 DEF getMaxSplit, MaxSplits, Trees
<1>3. PICK t \in Trees(type) : size \in maxSplitOf(t.kind)
  BY <1>2
<1>4. t.kind \in Kinds
  BY TreeFacts
<1>5. PICK kind \in KindsIn[t.kind] : size \in Bit(kind)
  BY <1>3 DEF maxSplitOf
<1>6. PICK q \in PlacesIn[t.kind] : q.kind = kind
  BY <1>4, <1>5, PlaceKinds
<1>7. kind \in Kinds /\ kind \in Nat
  <2>1. q \in Place
    BY <1>4, PlaceBounds
  <2>2. kind \in Kinds
    BY <1>6, <2>1 DEF Place
  <2> QED BY <2>2 DEF Kinds, Leaves, Middles
<1> QED BY <1>5, <1>7 DEF Bit
=============================================================================
