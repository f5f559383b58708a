------------------------- MODULE MemoryManagerSteps -------------------------
(***************************************************************************)
(* Facts about the operators MemoryManagerParallel is built from: the size *)
(* table, the pool's addresses, and lists of chunks.  Then what a step of  *)
(* one thread leaves alone: the other threads, and, for most steps, the    *)
(* chunks and the lists.                                                   *)
(*                                                                         *)
(* The second part: steps that change neither chunks nor lists keep IndInv:*)
(* calls, locks, counters, and the loops of clean between two chunks.  So  *)
(* do the steps of alloc, which move a chunk from one list to another, take*)
(* a slot or create a chunk.                                               *)
(***************************************************************************)
EXTENDS MemoryManagerInductive, FiniteFacts, FiniteSetTheorems, SequenceTheorems, TLAPS

-----------------------------------------------------------------------------
(* Numbers.                                                                *)

(* Buckets, contexts, stores and counters stay in range.                   *)
LEMMA IndexTypes ==
  /\ \A p \in Nat : getMemoryBucket(p) \in Buckets
  /\ \A id \in Nat : getAllocContext(id) \in Contexts /\ getFreeStoreContext(id) \in Stores
  /\ \A b \in Buckets : PreviousBucket(b) \in Buckets
  /\ \A a, b \in Int : Plus(a, b) \in 0 .. Word - 1 /\ Minus(a, b) \in 0 .. Word - 1
<1>1. \A p \in Nat : p \div BucketAddressRange \in Int
  BY CountsAssumption
<1>2. \A p \in Nat : getMemoryBucket(p) \in Buckets
  BY <1>1, CountsAssumption, Remainder DEF getMemoryBucket, Buckets
<1>3. \A id \in Nat : getAllocContext(id) \in Contexts /\ getFreeStoreContext(id) \in Stores
  BY CountsAssumption, Remainder DEF getAllocContext, getFreeStoreContext, Contexts, Stores
<1>4. \A b \in Buckets : PreviousBucket(b) \in Buckets
  BY CountsAssumption DEF PreviousBucket, Buckets
<1>5. \A a, b \in Int : Plus(a, b) \in 0 .. Word - 1 /\ Minus(a, b) \in 0 .. Word - 1
  BY CountsAssumption, Remainder DEF Plus, Minus
<1> QED BY <1>2, <1>3, <1>4, <1>5

(* A request is always given a row of the size table.                      *)
LEMMA SizeRangeType ==
  ASSUME NEW size
  PROVE  getSizeRange(size) \in Ranges
<1> DEFINE Below == {r \in 1 .. RangeCount - 1 : MaxSize[r] < size}
<1>1. /\ IsFiniteSet(1 .. RangeCount - 1)
      /\ Cardinality(1 .. RangeCount - 1) = RangeCount - 1
  BY SizesAssumption, FS_Interval
<1>2. Below \in SUBSET (1 .. RangeCount - 1)
  OBVIOUS
<1>3. IsFiniteSet(Below) /\ Cardinality(Below) <= RangeCount - 1
  <2> HIDE DEF Below
  <2> QED BY <1>1, <1>2, FS_Subset
<1>4. Cardinality(Below) \in Nat
  <2> HIDE DEF Below
  <2> QED BY <1>3, FS_CardinalityType
<1> QED BY <1>3, <1>4, SizesAssumption DEF getSizeRange, Ranges

(* The largest size of a row belongs to that row.                          *)
LEMMA SizeRangeOfMax ==
  ASSUME NEW r \in 1 .. RangeCount - 1
  PROVE  getSizeRange(MaxSize[r]) = r
<1> DEFINE Below == {q \in 1 .. RangeCount - 1 : MaxSize[q] < MaxSize[r]}
<1>1. Below = 1 .. r - 1
  <2>1. \A q \in 1 .. RangeCount - 1 : MaxSize[q] \in Nat
    BY SizesAssumption
  <2>2. \A q \in 1 .. RangeCount - 1 : MaxSize[q] < MaxSize[r] <=> q < r
    BY <2>1, SizesAssumption
  <2> QED BY <2>2, SizesAssumption
<1>2. Cardinality(1 .. r - 1) = r - 1
  BY FS_Interval, SizesAssumption
<1>3. getSizeRange(MaxSize[r]) = 1 + Cardinality(Below)
  BY DEF getSizeRange
<1> HIDE DEF Below
<1> QED BY <1>1, <1>2, <1>3, SizesAssumption

-----------------------------------------------------------------------------
(* Lists.                                                                  *)

(* Cons puts one chunk in front.                                           *)
LEMMA ConsFacts ==
  ASSUME NEW s \in Seq(PoolAddresses), NEW c \in PoolAddresses
  PROVE  /\ Cons(c, s) \in Seq(PoolAddresses)
         /\ Len(Cons(c, s)) = Len(s) + 1
         /\ Cons(c, s)[1] = c
         /\ \A i \in 1 .. Len(s) : Cons(c, s)[i + 1] = s[i]
         /\ ToSet(Cons(c, s)) = ToSet(s) \cup {c}
         /\ IsInjective(s) /\ c \notin ToSet(s) => IsInjective(Cons(c, s))
<1>1. /\ Cons(c, s) \in Seq(PoolAddresses)
      /\ Len(Cons(c, s)) = Len(s) + 1
      /\ Cons(c, s)[1] = c
      /\ \A i \in 1 .. Len(s) : Cons(c, s)[i + 1] = s[i]
  BY DEF Cons
<1>2. \A i \in 1 .. Len(s) + 1 : i = 1 \/ (i - 1 \in 1 .. Len(s) /\ Cons(c, s)[i] = s[i - 1])
  BY <1>1
<1>3. DOMAIN Cons(c, s) = 1 .. Len(s) + 1 /\ DOMAIN s = 1 .. Len(s)
  BY <1>1
<1>4. ToSet(Cons(c, s)) \subseteq ToSet(s) \cup {c}
  BY <1>1, <1>2, <1>3 DEF ToSet
<1>5. \A i \in 1 .. Len(s) : i + 1 \in 1 .. Len(s) + 1
  OBVIOUS
<1>6. ToSet(s) \cup {c} \subseteq ToSet(Cons(c, s))
  <2>1. 1 \in 1 .. Len(s) + 1
    OBVIOUS
  <2> QED BY <1>1, <1>3, <1>5, <2>1 DEF ToSet
<1>7. ASSUME IsInjective(s), c \notin ToSet(s) PROVE IsInjective(Cons(c, s))
  <2>1. \A i \in 1 .. Len(s) : s[i] # c
    BY <1>3, <1>7 DEF ToSet
  <2>2. \A i, j \in 1 .. Len(s) : s[i] = s[j] => i = j
    BY <1>3, <1>7 DEF IsInjective
  <2>3. ASSUME NEW i \in 1 .. Len(s) + 1, NEW j \in 1 .. Len(s) + 1, Cons(c, s)[i] = Cons(c, s)[j]
        PROVE  i = j
    <3>1. CASE i = 1
      BY <1>1, <1>2, <2>1, <2>3, <3>1
    <3>2. CASE j = 1
      BY <1>1, <1>2, <2>1, <2>3, <3>2
    <3>3. CASE i # 1 /\ j # 1
      <4>1. i - 1 \in 1 .. Len(s) /\ j - 1 \in 1 .. Len(s) /\ s[i - 1] = s[j - 1]
        BY <1>2, <2>3, <3>3
      <4> QED BY <2>2, <4>1
    <3> QED BY <3>1, <3>2, <3>3
  <2> QED BY <1>3, <2>3 DEF IsInjective
<1> QED BY <1>1, <1>4, <1>6, <1>7

(* RemoveAt takes one chunk out and closes the gap.                        *)
LEMMA RemoveAtFacts ==
  ASSUME NEW s \in Seq(PoolAddresses), NEW k \in 1 .. Len(s)
  PROVE  /\ RemoveAt(s, k) \in Seq(PoolAddresses)
         /\ Len(RemoveAt(s, k)) = Len(s) - 1
         /\ ToSet(RemoveAt(s, k)) \subseteq ToSet(s)
         /\ IsInjective(s) => IsInjective(RemoveAt(s, k)) /\ ToSet(RemoveAt(s, k)) = ToSet(s) \ {s[k]}
<1> DEFINE front == SubSeq(s, 1, k - 1)
           back == SubSeq(s, k + 1, Len(s))
           new == RemoveAt(s, k)
<1>1. /\ front \in Seq(PoolAddresses) /\ Len(front) = k - 1
      /\ \A i \in 1 .. k - 1 : front[i] = s[i]
  OBVIOUS
<1>2. /\ back \in Seq(PoolAddresses) /\ Len(back) = Len(s) - k
      /\ \A i \in 1 .. Len(s) - k : back[i] = s[k + i]
  OBVIOUS
<1>3. new = front \o back
  BY DEF RemoveAt
<1> HIDE DEF front, back, new
<1>4. /\ new \in Seq(PoolAddresses) /\ Len(new) = Len(front) + Len(back)
      /\ \A i \in 1 .. Len(front) + Len(back) :
           new[i] = IF i <= Len(front) THEN front[i] ELSE back[i - Len(front)]
  BY <1>1, <1>2, <1>3, ConcatProperties, Zenon
<1>5. Len(new) = Len(s) - 1
  BY <1>1, <1>2, <1>4
<1>6. \A i \in 1 .. k - 1 : new[i] = s[i]
  BY <1>1, <1>4, SMTT(30)
<1>7. ASSUME NEW i \in k .. Len(s) - 1 PROVE new[i] = s[i + 1]
  <2>1. i - (k - 1) \in 1 .. Len(s) - k /\ k + (i - (k - 1)) = i + 1
    OBVIOUS
  <2>2. back[i - (k - 1)] = s[i + 1]
    BY <1>2, <2>1
  <2>3. i \in 1 .. Len(front) + Len(back) /\ ~ (i <= Len(front)) /\ i - Len(front) = i - (k - 1)
    BY <1>1, <1>2
  <2> QED BY <1>4, <2>2, <2>3
<1>8. DOMAIN new = 1 .. Len(s) - 1 /\ DOMAIN s = 1 .. Len(s)
  BY <1>4, <1>5
<1>9. \A i \in 1 .. Len(s) - 1 : \/ i < k /\ i \in 1 .. Len(s) /\ new[i] = s[i]
                                 \/ i >= k /\ i + 1 \in 1 .. Len(s) /\ new[i] = s[i + 1]
  BY <1>6, <1>7
<1>10. ToSet(new) \subseteq ToSet(s)
  BY <1>8, <1>9 DEF ToSet
<1>11. ASSUME IsInjective(s) PROVE IsInjective(new) /\ ToSet(new) = ToSet(s) \ {s[k]}
  <2>1. \A i, j \in 1 .. Len(s) : s[i] = s[j] => i = j
    BY <1>8, <1>11 DEF IsInjective
  <2>2. \A i, j \in 1 .. Len(s) - 1 : new[i] = new[j] => i = j
    BY <1>9, <2>1
  <2>3. \A i \in 1 .. Len(s) - 1 : new[i] # s[k]
    BY <1>9, <2>1
  <2>4. ASSUME NEW j \in 1 .. Len(s), j # k PROVE s[j] \in ToSet(new)
    <3>1. CASE j < k
      <4>1. j \in 1 .. Len(s) - 1 /\ new[j] = s[j]
        BY <1>6, <3>1
      <4> QED BY <4>1, <1>8 DEF ToSet
    <3>2. CASE j > k
      <4>1. j - 1 \in k .. Len(s) - 1 /\ (j - 1) + 1 = j
        BY <3>2
      <4>2. j - 1 \in 1 .. Len(s) - 1 /\ new[j - 1] = s[j]
        BY <1>7, <4>1
      <4> QED BY <4>2, <1>8 DEF ToSet
    <3> QED BY <2>4, <3>1, <3>2
  <2>5. ToSet(s) \ {s[k]} \subseteq ToSet(new)
    BY <1>8, <2>4 DEF ToSet
  <2>6. s[k] \notin ToSet(new)
    BY <1>8, <2>3 DEF ToSet
  <2> QED BY <1>8, <1>10, <2>2, <2>5, <2>6 DEF IsInjective
<1> QED BY <1>4, <1>5, <1>10, <1>11 DEF new

(* The first element and the rest.                                         *)
LEMMA HeadTailFacts ==
  ASSUME NEW s \in Seq(PoolAddresses), s # <<>>
  PROVE  /\ 1 \in 1 .. Len(s)
         /\ Head(s) = s[1]
         /\ s[1] \in ToSet(s)
         /\ Tail(s) = RemoveAt(s, 1)
<1>1. 1 \in 1 .. Len(s) /\ DOMAIN s = 1 .. Len(s) /\ Head(s) = s[1]
  BY EmptySeq
<1>2. s[1] \in ToSet(s)
  BY <1>1 DEF ToSet
<1>3. SubSeq(s, 1, 0) = <<>>
  BY SubSeqEmpty
<1>4. SubSeq(s, 2, Len(s)) = Tail(s)
  BY TailIsSubSeq
<1>5. <<>> \o Tail(s) = Tail(s)
  BY ConcatEmptySeq, HeadTailProperties
<1> QED BY <1>1, <1>2, <1>3, <1>4, <1>5 DEF RemoveAt

(* The elements of a list are the pool blocks at its positions.            *)
LEMMA ToSetFacts ==
  ASSUME NEW s \in Seq(PoolAddresses)
  PROVE  /\ ToSet(s) \subseteq PoolAddresses
         /\ \A i \in 1 .. Len(s) : s[i] \in ToSet(s)
         /\ \A c \in ToSet(s) : \E i \in 1 .. Len(s) : s[i] = c
         /\ ToSet(<<>>) = {}
<1>1. DOMAIN s = 1 .. Len(s) /\ s \in [1 .. Len(s) -> PoolAddresses]
  BY LenProperties
<1> QED BY <1>1 DEF ToSet

-----------------------------------------------------------------------------
(* Families of lists: a list for each row, in each context or store.       *)

ListFamilies(X) == [X -> [Ranges -> Seq(PoolAddresses)]]

(* A chunk of one list of the family is held by the family.                *)
LEMMA HeldIn ==
  ASSUME NEW X, NEW lists \in ListFamilies(X)
  PROVE  /\ Held(lists) \subseteq PoolAddresses
         /\ \A x \in X, r \in Ranges : ToSet(lists[x][r]) \subseteq Held(lists)
         /\ \A c \in Held(lists) : \E x \in X, r \in Ranges : c \in ToSet(lists[x][r])
<1>1. DOMAIN lists = X /\ \A x \in X, r \in Ranges : lists[x][r] \in Seq(PoolAddresses)
  BY DEF ListFamilies
<1>2. \A x \in X, r \in Ranges : ToSet(lists[x][r]) \subseteq PoolAddresses
  BY <1>1, ToSetFacts
<1> QED BY <1>1, <1>2 DEF Held

(* What one list of a family gains or loses, and nothing else does.        *)
Pushed(X, lists, new, x, r, c) ==
  /\ new \in ListFamilies(X)
  /\ new[x][r] = Cons(c, lists[x][r])
  /\ Len(new[x][r]) = Len(lists[x][r]) + 1
  /\ new[x][r] # <<>>
  /\ \A y \in X, q \in Ranges : ~ (y = x /\ q = r) => new[y][q] = lists[y][q]
  /\ \A y \in X, q \in Ranges :
       ToSet(new[y][q]) = ToSet(lists[y][q]) \cup {d \in {c} : y = x /\ q = r}
  /\ Held(new) = Held(lists) \cup {c}
  /\ Once(lists) /\ c \notin Held(lists) => Once(new)

Taken(X, lists, new, x, r, k, c) ==
  /\ c \in PoolAddresses /\ c \in ToSet(lists[x][r]) /\ c \in Held(lists)
  /\ new \in ListFamilies(X)
  /\ new[x][r] = RemoveAt(lists[x][r], k)
  /\ Len(new[x][r]) = Len(lists[x][r]) - 1
  /\ \A y \in X, q \in Ranges : ~ (y = x /\ q = r) => new[y][q] = lists[y][q]
  /\ \A y \in X, q \in Ranges : ToSet(new[y][q]) = ToSet(lists[y][q]) \ {c}
  /\ Held(new) = Held(lists) \ {c}
  /\ Once(new)

(* PushFront adds a chunk to one list and leaves the others alone.         *)
LEMMA PushFrontFacts ==
  ASSUME NEW X, NEW lists \in ListFamilies(X), NEW x \in X, NEW r \in Ranges,
         NEW c \in PoolAddresses
  PROVE  Pushed(X, lists, PushFront(lists, x, r, c), x, r, c)
<1> DEFINE new == PushFront(lists, x, r, c)
<1>1. /\ DOMAIN lists = X /\ lists[x][r] \in Seq(PoolAddresses)
      /\ \A y \in X : lists[y] \in [Ranges -> Seq(PoolAddresses)]
      /\ \A y \in X, q \in Ranges : lists[y][q] \in Seq(PoolAddresses)
  BY DEF ListFamilies
<1>2. /\ Cons(c, lists[x][r]) \in Seq(PoolAddresses)
      /\ Len(Cons(c, lists[x][r])) = Len(lists[x][r]) + 1
      /\ ToSet(Cons(c, lists[x][r])) = ToSet(lists[x][r]) \cup {c}
      /\ IsInjective(lists[x][r]) /\ c \notin ToSet(lists[x][r]) => IsInjective(Cons(c, lists[x][r]))
  BY <1>1, ConsFacts
<1>3. /\ new \in ListFamilies(X)
      /\ new[x][r] = Cons(c, lists[x][r])
      /\ \A y \in X, q \in Ranges : ~ (y = x /\ q = r) => new[y][q] = lists[y][q]
  BY <1>1, <1>2 DEF ListFamilies, PushFront
<1> HIDE DEF new
<1>4. Len(new[x][r]) = Len(lists[x][r]) + 1 /\ new[x][r] # <<>>
  BY <1>1, <1>2, <1>3, EmptySeq
<1>5. \A y \in X, q \in Ranges :
        ToSet(new[y][q]) = ToSet(lists[y][q]) \cup {d \in {c} : y = x /\ q = r}
  BY <1>2, <1>3
<1>6. Held(new) = Held(lists) \cup {c}
  <2>1. ASSUME NEW d \in Held(new) PROVE d \in Held(lists) \cup {c}
    <3>1. PICK y \in X, q \in Ranges : d \in ToSet(new[y][q])
      BY <1>3, HeldIn
    <3>2. d \in ToSet(lists[y][q]) \/ d = c
      BY <1>5, <3>1
    <3> QED BY <3>2, HeldIn
  <2>2. ASSUME NEW d \in Held(lists) \cup {c} PROVE d \in Held(new)
    <3>1. \E y \in X, q \in Ranges : d \in ToSet(new[y][q])
      <4>1. CASE d = c
        <5>1. c \in ToSet(new[x][r])
          BY <1>5
        <5> QED BY <4>1, <5>1
      <4>2. CASE d \in Held(lists)
        BY <1>5, <4>2, HeldIn
      <4> QED BY <2>2, <4>1, <4>2
    <3> QED BY <1>3, <3>1, HeldIn
  <2> QED BY <2>1, <2>2
<1>7. ASSUME Once(lists), c \notin Held(lists) PROVE Once(new)
  <2>1. \A y \in X, q \in Ranges : c \notin ToSet(lists[y][q])
    BY <1>7, HeldIn
  <2>2. DOMAIN new = X
    BY <1>3 DEF ListFamilies
  <2>3. \A y \in X, q \in Ranges : IsInjective(new[y][q])
    BY <1>1, <1>2, <1>3, <1>7, <2>1 DEF Once
  <2>4. ASSUME NEW y \in X, NEW z \in X, NEW p \in Ranges, NEW q \in Ranges, y # z \/ p # q
        PROVE  ToSet(new[y][p]) \cap ToSet(new[z][q]) = {}
    <3>1. ToSet(lists[y][p]) \cap ToSet(lists[z][q]) = {}
      BY <1>1, <1>7, <2>4 DEF Once
    <3>2. c \notin ToSet(lists[y][p]) /\ c \notin ToSet(lists[z][q])
      BY <2>1
    <3>3. /\ ToSet(new[y][p]) = ToSet(lists[y][p]) \cup {d \in {c} : y = x /\ p = r}
          /\ ToSet(new[z][q]) = ToSet(lists[z][q]) \cup {d \in {c} : z = x /\ q = r}
      BY <1>5
    <3> QED BY <2>4, <3>1, <3>2, <3>3
  <2> QED BY <2>2, <2>3, <2>4 DEF Once
<1> QED BY <1>3, <1>4, <1>5, <1>6, <1>7 DEF Pushed, new

(* TakeOut removes one chunk from one list, and with it from the family if *)
(* it was nowhere else.                                                    *)
LEMMA TakeOutFacts ==
  ASSUME NEW X, NEW lists \in ListFamilies(X), NEW x \in X, NEW r \in Ranges,
         NEW k \in 1 .. Len(lists[x][r]), Once(lists)
  PROVE  Taken(X, lists, TakeOut(lists, x, r, k), x, r, k, lists[x][r][k])
<1> DEFINE new == TakeOut(lists, x, r, k)
           c == lists[x][r][k]
<1>1. /\ DOMAIN lists = X /\ lists[x][r] \in Seq(PoolAddresses)
      /\ \A y \in X : lists[y] \in [Ranges -> Seq(PoolAddresses)]
      /\ \A y \in X, q \in Ranges : lists[y][q] \in Seq(PoolAddresses)
  BY DEF ListFamilies
<1>2. IsInjective(lists[x][r])
  BY <1>1 DEF Once
<1>3. /\ RemoveAt(lists[x][r], k) \in Seq(PoolAddresses)
      /\ Len(RemoveAt(lists[x][r], k)) = Len(lists[x][r]) - 1
      /\ ToSet(RemoveAt(lists[x][r], k)) = ToSet(lists[x][r]) \ {c}
      /\ IsInjective(RemoveAt(lists[x][r], k))
  BY <1>1, <1>2, RemoveAtFacts
<1>4. c \in PoolAddresses /\ c \in ToSet(lists[x][r]) /\ c \in Held(lists)
  BY <1>1, ToSetFacts, HeldIn
<1>5. /\ new \in ListFamilies(X)
      /\ new[x][r] = RemoveAt(lists[x][r], k)
      /\ \A y \in X, q \in Ranges : ~ (y = x /\ q = r) => new[y][q] = lists[y][q]
  BY <1>1, <1>3 DEF ListFamilies, TakeOut
<1> HIDE DEF new, c
<1>6. \A y \in X, q \in Ranges : ~ (y = x /\ q = r) => c \notin ToSet(lists[y][q])
  BY <1>1, <1>4 DEF Once
<1>7. \A y \in X, q \in Ranges : ToSet(new[y][q]) = ToSet(lists[y][q]) \ {c}
  BY <1>3, <1>5, <1>6
<1>8. DOMAIN new = X
  BY <1>5 DEF ListFamilies
<1>9. Held(new) = Held(lists) \ {c}
  <2>1. ASSUME NEW d \in Held(new) PROVE d \in Held(lists) \ {c}
    <3>1. PICK y \in X, q \in Ranges : d \in ToSet(new[y][q])
      BY <1>5, HeldIn
    <3>2. d \in ToSet(lists[y][q]) \ {c}
      BY <1>7, <3>1
    <3> QED BY <3>2, HeldIn
  <2>2. ASSUME NEW d \in Held(lists), d # c PROVE d \in Held(new)
    <3>1. PICK y \in X, q \in Ranges : d \in ToSet(lists[y][q])
      BY HeldIn
    <3>2. d \in ToSet(new[y][q])
      BY <1>7, <2>2, <3>1
    <3> QED BY <1>5, <3>2, HeldIn
  <2> QED BY <2>1, <2>2
<1>10. Once(new)
  <2>1. \A y \in X, q \in Ranges : IsInjective(new[y][q])
    BY <1>1, <1>3, <1>5 DEF Once
  <2>2. ASSUME NEW y \in X, NEW z \in X, NEW p \in Ranges, NEW q \in Ranges, y # z \/ p # q
        PROVE  ToSet(new[y][p]) \cap ToSet(new[z][q]) = {}
    <3>1. ToSet(lists[y][p]) \cap ToSet(lists[z][q]) = {}
      BY <1>1, <2>2 DEF Once
    <3> QED BY <1>7, <3>1
  <2>3. \A y \in X, z \in X, p \in Ranges, q \in Ranges :
          y # z \/ p # q => ToSet(new[y][p]) \cap ToSet(new[z][q]) = {}
    BY <2>2
  <2>4. \A y \in DOMAIN new, q \in Ranges : IsInjective(new[y][q])
    BY <1>8, <2>1
  <2>5. \A y \in DOMAIN new, z \in DOMAIN new, p \in Ranges, q \in Ranges :
          y # z \/ p # q => ToSet(new[y][p]) \cap ToSet(new[z][q]) = {}
    BY <1>8, <2>3
  <2> QED BY <2>4, <2>5, Zenon DEF Once
<1> QED BY <1>3, <1>4, <1>5, <1>7, <1>9, <1>10 DEF Taken, new, c

(* clean's loops look for the next list that is not empty.                 *)
LEMMA NextListFacts ==
  ASSUME NEW lists \in [Ranges -> Seq(PoolAddresses)], NEW r \in Nat \ {0}
  PROVE  /\ NextList(lists, r) \in Nat
         /\ NextList(lists, r) \in Ranges =>
              NextList(lists, r) >= r /\ 1 \in 1 .. Len(lists[NextList(lists, r)])
<1> DEFINE S == {x \in r .. RangeCount : lists[x] # <<>>} \cup {RangeCount + 1}
<1>1. S \subseteq Nat /\ S # {}
  BY SizesAssumption
<1>2. NextList(lists, r) \in S
  <2> HIDE DEF S
  <2>1. Min(S) \in S
    BY <1>1, MinOfNaturals
  <2> QED BY <2>1 DEF NextList, S
<1>3. ASSUME NextList(lists, r) \in Ranges
      PROVE  NextList(lists, r) >= r /\ 1 \in 1 .. Len(lists[NextList(lists, r)])
  <2>1. NextList(lists, r) # RangeCount + 1
    BY <1>3, SizesAssumption DEF Ranges
  <2>2. NextList(lists, r) \in r .. RangeCount /\ lists[NextList(lists, r)] # <<>>
    BY <1>2, <2>1
  <2>3. lists[NextList(lists, r)] \in Seq(PoolAddresses)
    BY <1>3
  <2> QED BY <2>2, <2>3, HeadTailFacts, SizesAssumption
<1> QED BY <1>1, <1>2, <1>3

(* The chunk chosen from a store's list is one of the list.                *)
LEMMA BestIndexFacts ==
  ASSUME NEW list \in Seq(PoolAddresses), list # <<>>, NEW size
  PROVE  BestIndex(list, size) \in 1 .. Len(list)
<1> DEFINE matching == {i \in DOMAIN list : SizeMatches(list[i], size)}
<1>1. matching \subseteq 1 .. Len(list) /\ 1 \in 1 .. Len(list)
  BY LenProperties, HeadTailFacts
<1>2. matching # {} => Min(matching) \in matching
  <2>1. matching \in SUBSET Nat
    BY <1>1
  <2> HIDE DEF matching
  <2> QED BY <2>1, MinOfNaturals
<1>3. BestIndex(list, size) = IF matching = {} THEN 1 ELSE Min(matching)
  BY DEF BestIndex
<1> HIDE DEF matching
<1> QED BY <1>1, <1>2, <1>3

-----------------------------------------------------------------------------
(* Slots and addresses.                                                    *)

(* Multiples of a positive number.                                         *)
LEMMA Multiples ==
  ASSUME NEW e \in Nat \ {0}, NEW i \in Nat, NEW j \in Nat
  PROVE  /\ i * e \in Nat
         /\ i < j => i * e + e <= j * e
         /\ i * e = j * e => i = j
         /\ (i * e) \div e = i
<1>1. i * e \in Nat /\ j * e \in Nat
  OBVIOUS
<1>2. \A m, n \in Nat : m < n => m * e + e <= n * e
  <2> SUFFICES ASSUME NEW m \in Nat, NEW n \in Nat, m < n PROVE m * e + e <= n * e
    OBVIOUS
  <2>1. PICK k \in Nat : n = m + 1 + k
    <3>1. n - m - 1 \in Nat /\ n = m + 1 + (n - m - 1)
      OBVIOUS
    <3> QED BY <3>1
  <2>2. n * e = m * e + e + k * e /\ k * e >= 0
    BY <2>1
  <2> QED BY <2>2
<1>3. i * e = j * e => i = j
  <2>1. i < j \/ j < i \/ i = j
    OBVIOUS
  <2> QED BY <1>1, <1>2, <2>1
<1>4. (i * e) \div e = i
  OBVIOUS
<1> QED BY <1>1, <1>2, <1>3, <1>4

(* A chunk that is not full has a slot to give.                            *)
LEMMA AllocIndexFacts ==
  ASSUME NEW c, used[c] \subseteq Slots(c), ~ full(c)
  PROVE  AllocIndex(c) \in Slots(c) \ used[c] /\ AllocIndex(c) \in Nat
<1>1. Slots(c) \subseteq Nat
  BY DEF Slots
<1>2. Slots(c) \ used[c] \in SUBSET Nat /\ Slots(c) \ used[c] # {}
  BY <1>1 DEF full
<1>3. Min(Slots(c) \ used[c]) \in Slots(c) \ used[c]
  BY <1>2, MinOfNaturals
<1> QED BY <1>1, <1>3 DEF AllocIndex

(* Elements lie in their chunk's block, one behind the other; the address  *)
(* gives the slot back.                                                    *)
LEMMA ElementFacts ==
  ASSUME TypeOK, ChunkInv, NEW c \in Mapped, NEW i \in Slots(c)
  PROVE  /\ elSize(c) \in Nat \ {0} /\ i \in Nat
         /\ ElementAddress(c, i) \in Nat
         /\ Covers(c, ElementAddress(c, i))
         /\ ElementIndex(c, ElementAddress(c, i)) = i
         /\ \A j \in Slots(c) : ElementAddress(c, j) = ElementAddress(c, i) => j = i
<1>1. /\ c \in PoolAddresses /\ c \in Nat
      /\ chunkRange[c] \in Ranges /\ memorysize[c] \in Nat
  BY SizesAssumption DEF TypeOK, Mapped
<1>2. elSize(c) > 0 /\ ElPerChunk[chunkRange[c]] * elSize(c) <= memorysize[c]
  BY DEF ChunkInv, ChunkOK
<1>3. elSize(c) \in Nat \ {0}
  <2>1. CASE chunkRange[c] = AnySize
    BY <1>1, <1>2, <2>1 DEF elSize
  <2>2. CASE chunkRange[c] # AnySize
    <3>1. RangeCount \in Nat /\ MaxSize \in [1 .. RangeCount - 1 -> Nat \ {0}]
      BY SizesAssumption
    <3>2. chunkRange[c] \in 1 .. RangeCount - 1
      BY <1>1, <2>2, <3>1 DEF Ranges, AnySize
    <3> QED BY <2>2, <3>1, <3>2 DEF elSize
  <2> QED BY <2>1, <2>2
<1> DEFINE e == elSize(c)
           n == ElPerChunk[chunkRange[c]]
<1>4. n \in Nat \ {0} /\ Slots(c) = 0 .. n - 1
  BY <1>1, SizesAssumption DEF Slots
<1>5. e \in Nat \ {0} /\ n * e <= memorysize[c]
  BY <1>2, <1>3
<1>6. ElementAddress(c, i) = c + i * e /\ \A j \in Slots(c) : ElementAddress(c, j) = c + j * e
  BY DEF ElementAddress
<1>7. ElementIndex(c, ElementAddress(c, i)) = ((c + i * e) - c) \div e
  BY <1>6 DEF ElementIndex
<1>8. c + memorysize[c] \in Nat
  BY <1>1
<1> HIDE DEF e, n
<1>9. i \in Nat /\ i < n
  BY <1>4
<1>10. i * e \in Nat /\ i * e + e <= n * e /\ (i * e) \div e = i
  BY <1>4, <1>5, <1>9, Multiples
<1>11. n * e \in Nat
  BY <1>4, <1>5
<1>12. c <= c + i * e /\ c + i * e < c + memorysize[c] /\ (c + i * e) - c = i * e
  BY <1>1, <1>5, <1>10, <1>11
<1>13. Covers(c, ElementAddress(c, i)) /\ ElementAddress(c, i) \in Nat
  BY <1>1, <1>6, <1>10, <1>12 DEF Covers
<1>14. ASSUME NEW j \in Slots(c), ElementAddress(c, j) = ElementAddress(c, i) PROVE j = i
  <2>1. j \in Nat /\ j * e \in Nat
    BY <1>4, <1>5, Multiples
  <2>2. j * e = i * e
    BY <1>1, <1>6, <1>10, <1>14, <2>1
  <2> QED BY <1>5, <1>9, <2>1, <2>2, Multiples
<1> QED BY <1>3, <1>7, <1>9, <1>10, <1>12, <1>13, <1>14

(* No two chunks cover the same address.                                   *)
LEMMA CoverFacts ==
  ASSUME TypeOK, ChunkInv, NEW c \in Mapped, NEW d \in Mapped,
         NEW p \in Nat, Covers(c, p), Covers(d, p)
  PROVE  c = d
<1>1. c \in Nat /\ d \in Nat /\ memorysize[c] \in Nat /\ memorysize[d] \in Nat
  BY SizesAssumption DEF TypeOK, Mapped
<1>2. c # d => c + memorysize[c] <= d \/ d + memorysize[d] <= c
  BY DEF ChunkInv
<1>3. c <= p /\ p < c + memorysize[c] /\ d <= p /\ p < d + memorysize[d]
  BY DEF Covers
<1> QED BY <1>1, <1>2, <1>3

-----------------------------------------------------------------------------
(* Steps and the parts of IndInv they cannot disturb.                      *)

(* The step is t's: the other threads stay where they are.                 *)
Others(t) ==
  /\ DOMAIN pc' = Threads /\ DOMAIN local' = Threads
  /\ \A u \in Threads : u # t => pc'[u] = pc[u] /\ local'[u] = local[u]

(* t takes free locks and gives its own back, and touches no other.        *)
LocksStep(t) ==
  /\ \A x \in Contexts : \/ contextLock'[x] = contextLock[x]
                         \/ contextLock[x] = NoThread /\ contextLock'[x] = t
                         \/ contextLock[x] = t /\ contextLock'[x] = NoThread
  /\ \A x \in Stores : \/ storeLock'[x] = storeLock[x]
                       \/ storeLock[x] = NoThread /\ storeLock'[x] = t
                       \/ storeLock[x] = t /\ storeLock'[x] = NoThread
  /\ \A b \in Buckets : \/ bucketLock'[b] = bucketLock[b]
                        \/ bucketLock[b] = NoThread /\ bucketLock'[b] = t
                        \/ bucketLock[b] = t /\ bucketLock'[b] = NoThread
  /\ \/ cleanMutex' = cleanMutex
     \/ cleanMutex = NoThread /\ cleanMutex' = t
     \/ cleanMutex = t /\ cleanMutex' = NoThread

(* A thread that goes on to another place, with these locals.              *)
LEMMA GotoWithFacts ==
  ASSUME TypeOK, NEW t \in Threads, NEW label \in Places, NEW locals \in Locals,
         GotoWith(t, label, locals)
  PROVE  /\ pc' \in [Threads -> Places] /\ local' \in [Threads -> Locals]
         /\ pc'[t] = label /\ local'[t] = locals
         /\ Others(t)
<1>1. pc \in [Threads -> Places] /\ local \in [Threads -> Locals]
  BY DEF TypeOK
<1>2. pc' = [pc EXCEPT ![t] = label] /\ local' = [local EXCEPT ![t] = locals]
  BY DEF GotoWith, Goto
<1> HIDE DEF Places, Locals
<1> QED BY <1>1, <1>2 DEF Others

(* The same when the locals stay.                                          *)
LEMMA GotoFacts ==
  ASSUME TypeOK, NEW t \in Threads, NEW label \in Places, Goto(t, label), local' = local
  PROVE  /\ pc' \in [Threads -> Places] /\ local' \in [Threads -> Locals]
         /\ pc'[t] = label /\ local'[t] = local[t]
         /\ Others(t)
<1>1. pc \in [Threads -> Places] /\ local \in [Threads -> Locals]
  BY DEF TypeOK
<1>2. pc' = [pc EXCEPT ![t] = label]
  BY DEF Goto
<1> HIDE DEF Places, Locals
<1> QED BY <1>1, <1>2 DEF Others

(* Locals a call starts with.                                              *)
LEMMA NoLocalsType == NoLocals \in Locals
<1>1. 0 \in Contexts /\ 0 \in Stores /\ 0 \in Buckets
  BY CountsAssumption DEF Contexts, Stores, Buckets
<1>2. <<>> \in Seq(PoolAddresses)
  OBVIOUS
<1> QED BY <1>1, <1>2 DEF NoLocals, Locals, NULL

(* Each lock still matches the code if t's locks do.                       *)
LEMMA LocksFrame ==
  ASSUME LocksMatchCode, NEW t \in Threads, Others(t), LocksStep(t), LocksOf(t)'
  PROVE  LocksMatchCode'
<1>1. ASSUME NEW u \in Threads, u # t PROVE LocksOf(u)'
  <2>1. LocksOf(u) /\ pc'[u] = pc[u] /\ local'[u] = local[u] /\ u # NoThread
    BY <1>1, ThreadsAssumption DEF LocksMatchCode, Others
  <2>2. \A x \in Contexts : contextLock'[x] = u <=> contextLock[x] = u
    BY <1>1, <2>1 DEF LocksStep
  <2>3. \A x \in Stores : storeLock'[x] = u <=> storeLock[x] = u
    BY <1>1, <2>1 DEF LocksStep
  <2>4. \A b \in Buckets : bucketLock'[b] = u <=> bucketLock[b] = u
    BY <1>1, <2>1 DEF LocksStep
  <2>5. cleanMutex' = u <=> cleanMutex = u
    BY <1>1, <2>1 DEF LocksStep
  <2>6. \A b : HoldsBucket(u, b)' <=> HoldsBucket(u, b)
    BY <2>1 DEF HoldsBucket
  <2> QED BY <2>1, <2>2, <2>3, <2>4, <2>5, <2>6 DEF LocksOf
<1> QED BY <1>1 DEF LocksMatchCode

-----------------------------------------------------------------------------
(* Steps that change neither chunks nor lists.                             *)

(* t's chunks stay in its hand, and those it is listing or deleting too.   *)
KeepsHand(t) ==
  /\ SplicedBy(t)' = SplicedBy(t)
  /\ FreshBy(t)' = FreshBy(t)
  /\ local'[t].toDelete = local[t].toDelete
  /\ local[t].toDelete # <<>> => pc'[t] \in {"c_look", "c_drop", "c_delete"}
  /\ \A c \in PoolAddresses : (t \in Listing(c))' <=> t \in Listing(c)

(* What the other threads hold is theirs before and after.                 *)
LEMMA OthersKeep ==
  ASSUME NEW t \in Threads, Others(t), NEW u \in Threads, u # t
  PROVE  /\ SplicedBy(u)' = SplicedBy(u)
         /\ FreshBy(u)' = FreshBy(u)
         /\ DoomedBy(u)' = DoomedBy(u)
         /\ \A c : (u \in Listing(c))' <=> u \in Listing(c)
<1>1. pc'[u] = pc[u] /\ local'[u] = local[u]
  BY DEF Others
<1> QED BY <1>1 DEF SplicedBy, FreshBy, DoomedBy, Listing

(* IndInv is kept by a step of t that leaves chunks and lists alone and    *)
(* keeps t's own locks, hand and place in order.                           *)
LEMMA QuietFrame ==
  ASSUME IndInv, NEW t \in Threads, Others(t), UNCHANGED <<memoryVars, listVars>>,
         TypeOK', LocksStep(t), LocksOf(t)', KeepsHand(t), Cursor(t)', Hand(t)',
         BufferInv', SearchInv'
  PROVE  IndInv'
<1> USE DEF IndInv
<1>1. UNCHANGED <<memory, chunkRange, memorysize, used, notfullchunks, freeStore, freelistNode>>
  BY DEF memoryVars, listVars
<1>2. LocksMatchCode'
  BY LocksFrame
<1>3. \A u \in Threads : /\ SplicedBy(u)' = SplicedBy(u)
                         /\ FreshBy(u)' = FreshBy(u)
                         /\ DoomedBy(u)' = DoomedBy(u)
                         /\ \A c \in PoolAddresses : (u \in Listing(c))' <=> u \in Listing(c)
  BY OthersKeep DEF KeepsHand, DoomedBy
<1>4. Mapped' = Mapped /\ Mapped \subseteq PoolAddresses
  BY <1>1 DEF Mapped
<1>5. \A c : /\ elSize(c)' = elSize(c) /\ Slots(c)' = Slots(c)
             /\ full(c)' = full(c) /\ empty(c)' = empty(c)
  BY <1>1 DEF elSize, Slots, full, empty
<1>6. ChunkInv'
  <2>1. \A c \in Mapped : ChunkOK(c)'
    BY <1>1, <1>3, <1>5 DEF ChunkInv, ChunkOK
  <2> QED BY <1>1, <1>4, <2>1 DEF ChunkInv
<1>7. Listed' = Listed /\ Held(notfullchunks)' = Held(notfullchunks) /\ Held(freeStore)' = Held(freeStore)
  BY <1>1 DEF Listed, Held
<1>8. ListPlaceInv'
  BY <1>1, <1>4, <1>7 DEF ListPlaceInv, Once
<1>9. ThreadPlaceInv'
  <2>1. \A u \in Threads :
          /\ (SplicedBy(u) \cup DoomedBy(u) \subseteq Mapped \ (freelistNode \cup Listed))'
          /\ (IsInjective(local[u].toDelete))'
          /\ (local[u].toDelete # <<>> => pc[u] \in {"c_look", "c_drop", "c_delete"})'
    BY <1>1, <1>3, <1>4, <1>7 DEF ThreadPlaceInv, KeepsHand, Others
  <2> QED BY <1>1, <1>3, <1>4, <1>7, <2>1 DEF ThreadPlaceInv
<1>10. RoomInv'
  <2>1. freelistNode \subseteq PoolAddresses
    BY DEF TypeOK
  <2>2. \A c \in freelistNode : full(c)' \/ \E u \in Threads : (u \in Listing(c))'
    BY <1>3, <1>5, <2>1 DEF RoomInv
  <2>3. OfTheirRow(notfullchunks)' /\ OfTheirRow(freeStore)'
    BY <1>1 DEF RoomInv, OfTheirRow
  <2> QED BY <1>1, <1>3, <1>5, <1>7, <2>2, <2>3 DEF RoomInv
<1>11. CursorInv'
  <2>1. ASSUME NEW u \in Threads, u # t PROVE Cursor(u)'
    BY <1>1, <1>5, <2>1 DEF CursorInv, Cursor, Others
  <2> QED BY <2>1 DEF CursorInv
<1>12. HandInv'
  <2>1. ASSUME NEW u \in Threads, u # t PROVE Hand(u)'
    <3>1. Hand(u) /\ pc'[u] = pc[u] /\ local'[u] = local[u]
      BY <2>1 DEF HandInv, Others
    <3>2. \A c : (u \in Listing(c))' <=> u \in Listing(c)
      BY <2>1, OthersKeep
    <3> QED BY <1>1, <1>4, <1>5, <3>1, <3>2 DEF Hand
  <2> QED BY <1>3, <2>1 DEF HandInv
<1> QED BY <1>2, <1>6, <1>8, <1>9, <1>10, <1>11, <1>12

(* Away from the places where a thread looks for a buffer or is about to   *)
(* return one, buffers and searches stay as they are.                      *)
LEMMA BuffersFrame ==
  ASSUME IndInv, NEW t \in Threads, Others(t), UNCHANGED memoryVars, UNCHANGED live,
         pc[t] \notin {"a_count", "d_find"}, pc'[t] \notin {"a_count", "d_find", "g_find"}
  PROVE  BufferInv' /\ SearchInv'
<1> USE DEF IndInv
<1>1. UNCHANGED <<memory, chunkRange, memorysize, used>>
  BY DEF memoryVars
<1>2. Mapped' = Mapped /\ UsedAddresses' = UsedAddresses
  BY <1>1 DEF Mapped, UsedAddresses, ElementAddress, elSize
<1>3. InFlight' = InFlight /\ t \notin InFlight
  BY DEF Others, InFlight
<1>4. \A u \in InFlight : u # t /\ u \in Threads /\ local'[u].ptr = local[u].ptr
  BY <1>3 DEF InFlight, Others
<1>5. BufferInv'
  BY <1>2, <1>3, <1>4 DEF BufferInv
<1>6. SearchInv'
  <2>1. \A u \in Threads : pc'[u] \in {"d_find", "g_find"} =>
          u # t /\ pc'[u] = pc[u] /\ local'[u] = local[u]
    BY DEF Others
  <2>2. SearchCannotFail'
    BY <1>1, <1>2, <2>1 DEF SearchInv, SearchCannotFail, Covers
  <2> QED BY <2>1, <2>2 DEF SearchInv
<1> QED BY <1>5, <1>6

(* The locks and counters a step may change keep their types.              *)
LockTypes ==
  /\ contextLock \in [Contexts -> Owner]
  /\ storeLock \in [Stores -> Owner]
  /\ bucketLock \in [Buckets -> Owner]
  /\ cleanMutex \in Owner

CounterTypes ==
  /\ emptyBlocksSize \in 0 .. Word - 1
  /\ emptyBlocksCount \in 0 .. Word - 1
  /\ cleanCounter \in 0 .. ForcePeriod - 1

(* The places where a thread has a chunk of its own, or a buffer.          *)
Engaged == {"a_spliced", "a_fresh", "a_count", "d_find", "d_size", "d_count", "d_store"}

(* IndInv is kept by a step between places where t has neither a chunk of  *)
(* its own nor a buffer: only its locks and its place have to be right.    *)
LEMMA PlainFrame ==
  ASSUME IndInv, NEW t \in Threads, NEW label \in Places, NEW locals \in Locals,
         GotoWith(t, label, locals),
         UNCHANGED <<memoryVars, listVars, live>>, LockTypes', CounterTypes',
         LocksStep(t), LocksOf(t)',
         pc[t] \notin Engaged, label \notin Engaged \cup {"g_find"},
         locals.toDelete = local[t].toDelete,
         locals.toDelete # <<>> => label \in {"c_look", "c_drop", "c_delete"},
         Cursor(t)', Hand(t)'
  PROVE  IndInv'
<1> USE DEF IndInv
<1>1. /\ pc' \in [Threads -> Places] /\ local' \in [Threads -> Locals]
      /\ pc'[t] = label /\ local'[t] = locals
      /\ Others(t)
  BY GotoWithFacts
<1>2. TypeOK'
  BY <1>1 DEF TypeOK, LockTypes, CounterTypes, memoryVars, listVars
<1>3. KeepsHand(t)
  BY <1>1 DEF KeepsHand, Engaged, SplicedBy, FreshBy, Listing
<1>4. BufferInv' /\ SearchInv'
  <2>1. pc[t] \notin {"a_count", "d_find"} /\ pc'[t] \notin {"a_count", "d_find", "g_find"}
    BY <1>1 DEF Engaged
  <2> HIDE DEF IndInv
  <2> QED BY <1>1, <2>1, BuffersFrame
<1> HIDE DEF IndInv
<1> QED BY <1>1, <1>2, <1>3, <1>4, QuietFrame

(* What a thread's place and locals are known to be.                       *)
LEMMA ThreadFacts ==
  ASSUME IndInv, NEW t \in Threads
  PROVE  /\ TypeOK /\ LocksOf(t) /\ Cursor(t) /\ Hand(t)
         /\ pc[t] \in Places /\ local[t] \in Locals /\ t # NoThread
         /\ pc[t] \notin {"c_look", "c_drop", "c_delete"} => local[t].toDelete = <<>>
BY ThreadsAssumption
   DEF IndInv, TypeOK, LocksMatchCode, CursorInv, HandInv, ThreadPlaceInv

(* Going on with the locals as they are.                                   *)
LEMMA GotoIsGotoWith ==
  ASSUME TypeOK, NEW t \in Threads, NEW label, Goto(t, label), local' = local
  PROVE  GotoWith(t, label, local[t])
BY DEF TypeOK, GotoWith

(* A call that returns, and has given back all its locks.                  *)
LEMMA ReturnFrame ==
  ASSUME IndInv, NEW t \in Threads, Return(t),
         UNCHANGED <<memoryVars, listVars, live>>, LockTypes', CounterTypes', LocksStep(t),
         \A x \in Contexts : contextLock'[x] # t,
         \A x \in Stores : storeLock'[x] # t,
         \A b \in Buckets : bucketLock'[b] # t,
         cleanMutex' # t,
         pc[t] \notin Engaged, local[t].toDelete = <<>>
  PROVE  IndInv'
<1>1. GotoWith(t, "idle", NoLocals) /\ NoLocals \in Locals /\ TypeOK
  BY NoLocalsType, ThreadFacts DEF Return
<1>2. "idle" \in Places /\ "idle" \notin Engaged \cup {"g_find"} /\ NoLocals.toDelete = <<>>
  BY DEF Places, Engaged, NoLocals
<1>3. pc'[t] = "idle" /\ local'[t] = NoLocals
  BY <1>1, <1>2, GotoWithFacts
<1>4. LocksOf(t)'
  BY <1>3 DEF LocksOf, HoldsBucket, HoldsContext, HoldsStore, HoldsClean
<1>5. Cursor(t)' /\ Hand(t)'
  BY <1>3 DEF Cursor, Hand, Listing
<1> QED BY <1>1, <1>2, <1>4, <1>5, PlainFrame

-----------------------------------------------------------------------------
(* Buffers.                                                                *)

(* A used address is a slot of a chunk the search can find.                *)
LEMMA UsedChunk ==
  ASSUME IndInv, NEW p \in UsedAddresses
  PROVE  \E c \in Mapped : \E i \in used[c] :
           /\ p = ElementAddress(c, i) /\ i \in Slots(c) /\ i = ElementIndex(c, p)
           /\ p \in Nat /\ Covers(c, p)
           /\ c \in memory[getMemoryBucket(c)] /\ getMemoryBucket(c) \in Buckets
<1>0. PICK c \in Mapped : \E i \in used[c] : p = ElementAddress(c, i)
  BY DEF UsedAddresses
<1>1. PICK i \in used[c] : p = ElementAddress(c, i)
  BY <1>0
<1>2. TypeOK /\ ChunkInv /\ i \in Slots(c) /\ c \in PoolAddresses
  BY DEF IndInv, ChunkInv, ChunkOK, Mapped
<1>3. p \in Nat /\ Covers(c, p) /\ i = ElementIndex(c, p)
  BY <1>1, <1>2, ElementFacts
<1>4. c \in memory[getMemoryBucket(c)]
  <2>1. \A t \in Threads : c \notin FreshBy(t)
    BY <1>1 DEF IndInv, HandInv, Hand, FreshBy, empty
  <2> QED BY <2>1, <1>2 DEF ChunkInv, ChunkOK
<1>5. getMemoryBucket(c) \in Buckets
  BY <1>2, IndexTypes, SizesAssumption
<1> QED BY <1>1, <1>2, <1>3, <1>4, <1>5

(* An element's address belongs to its chunk, and to one slot of it.       *)
LEMMA AddressFacts ==
  ASSUME IndInv, NEW c \in Mapped, NEW i \in Slots(c), NEW d \in Mapped, NEW j \in Slots(d),
         ElementAddress(c, i) = ElementAddress(d, j)
  PROVE  c = d /\ i = j
<1>1. TypeOK /\ ChunkInv
  BY DEF IndInv
<1>2. /\ ElementAddress(c, i) \in Nat
      /\ Covers(c, ElementAddress(c, i)) /\ Covers(d, ElementAddress(d, j))
  BY <1>1, ElementFacts
<1>3. c = d
  BY <1>1, <1>2, CoverFacts
<1> QED BY <1>1, <1>3, ElementFacts

-----------------------------------------------------------------------------
(* The ids callers pass are numbers.                                       *)
LEMMA IDsType ==
  ASSUME NEW t \in Threads
  PROVE  IDs(t) \subseteq Nat
BY IdsAssumption DEF IDs

-----------------------------------------------------------------------------
(* alloc                                                                   *)

(* A call of alloc computes its context and its store.                     *)
LEMMA AllocStep ==
  ASSUME IndInv, NEW t \in Threads, NEW size \in Sizes, NEW id \in IDs(t), Alloc(t, size, id)
  PROVE  IndInv'
<1> DEFINE locals == [NoLocals EXCEPT !.size = size, !.ctx = getAllocContext(id),
                                      !.fs = getFreeStoreContext(id)]
<1>1. locals \in Locals /\ locals.size > 0 /\ locals.toDelete = <<>>
  <2>0. id \in Nat
    BY IDsType
  <2>1. size \in Nat /\ size > 0 /\ getAllocContext(id) \in Contexts /\ getFreeStoreContext(id) \in Stores
    BY <2>0, IndexTypes, SizesAssumption
  <2>2. locals \in Locals
    BY <2>1, NoLocalsType DEF Locals
  <2>3. locals.size = size /\ locals.toDelete = <<>>
    BY DEF NoLocals
  <2> QED BY <2>1, <2>2, <2>3
<1>2. pc[t] = "idle" /\ GotoWith(t, "a_context", locals)
  BY DEF Alloc
<1>3. UNCHANGED <<memoryVars, listVars, counterVars, cleanVars, lockVars, live>>
  BY DEF Alloc
<1> HIDE DEF locals
<1>4. TypeOK /\ LocksOf(t)
  BY ThreadFacts
<1>5. local[t].toDelete = <<>>
  BY <1>2, ThreadFacts
<1>6. "a_context" \in Places
  BY DEF Places, HoldsContext, HoldsClean
<1>7. pc'[t] = "a_context" /\ local'[t] = locals
  BY <1>1, <1>2, <1>4, <1>6, GotoWithFacts
<1>8. LockTypes' /\ CounterTypes' /\ LocksStep(t)
  BY <1>3, <1>4 DEF TypeOK, LockTypes, CounterTypes, LocksStep, counterVars, cleanVars, lockVars
<1>9. LocksOf(t)'
  BY <1>2, <1>3, <1>4, <1>7 DEF LocksOf, HoldsBucket, HoldsContext, HoldsStore, HoldsClean,
       cleanVars, lockVars
<1>10. Cursor(t)' /\ Hand(t)'
  BY <1>1, <1>7 DEF Cursor, Hand, Listing
<1>11. pc[t] \notin Engaged /\ "a_context" \notin Engaged \cup {"g_find"}
  BY <1>2 DEF Engaged
<1> QED BY <1>1, <1>2, <1>3, <1>5, <1>6, <1>8, <1>9, <1>10, <1>11, PlainFrame

(* alloc locks its context and looks at the front chunk of its list.       *)
LEMMA AllocLockContextStep ==
  ASSUME IndInv, NEW t \in Threads, AllocLockContext(t)
  PROVE  IndInv'
<1> DEFINE my == local[t]
           list == notfullchunks[my.ctx][getSizeRange(my.size)]
           label == IF list # <<>> THEN "a_listed" ELSE "a_store"
           locals == IF list # <<>> THEN [my EXCEPT !.ch = Head(list)] ELSE my
<1>1. pc[t] = "a_context" /\ GotoWith(t, label, locals)
  BY DEF AllocLockContext
<1>2. /\ LockContext(t, my.ctx)
      /\ UNCHANGED <<memoryVars, listVars, counterVars, cleanVars, storeLock, bucketLock, live>>
  BY DEF AllocLockContext
<1>3. TypeOK /\ LocksOf(t) /\ my \in Locals /\ t # NoThread /\ my.toDelete = <<>> /\ my.size > 0
  BY <1>1, ThreadFacts DEF Hand
<1>4. my.ctx \in Contexts /\ list \in Seq(PoolAddresses)
  BY <1>3, SizeRangeType DEF Locals, TypeOK
<1>5. /\ locals \in Locals /\ locals.toDelete = <<>> /\ locals.ctx = my.ctx /\ locals.size = my.size
      /\ list # <<>> => locals.ch = Head(list)
  <2>1. list # <<>> => Head(list) \in PoolAddresses
    BY <1>4, HeadTailProperties
  <2> HIDE DEF list
  <2> QED BY <1>3, <2>1 DEF Locals
<1>6. label \in Places /\ pc[t] \notin Engaged /\ label \notin Engaged \cup {"g_find"}
  BY <1>1 DEF Places, HoldsContext, HoldsClean, Engaged
<1> HIDE DEF label, locals, list
<1>7. pc'[t] = label /\ local'[t] = locals
  BY <1>1, <1>3, <1>5, <1>6, GotoWithFacts
<1>8. LockTypes' /\ CounterTypes'
  BY <1>2, <1>3 DEF TypeOK, LockTypes, CounterTypes, LockContext, Owner, counterVars, cleanVars
<1>9. LocksStep(t)
  BY <1>2, <1>3 DEF TypeOK, LocksStep, LockContext, cleanVars
<1>10. LocksOf(t)'
  <2>1. \A x \in Contexts : contextLock'[x] = t <=> x = my.ctx
    BY <1>1, <1>2, <1>3, <1>4 DEF LocksOf, HoldsContext, LockContext, TypeOK
  <2> QED BY <1>1, <1>2, <1>3, <1>5, <1>7, <2>1
        DEF LocksOf, HoldsBucket, HoldsContext, HoldsStore, HoldsClean, cleanVars, label
<1>11. Cursor(t)' /\ Hand(t)'
  BY <1>2, <1>3, <1>5, <1>7 DEF Cursor, Hand, Listing, label, list, listVars
<1>12. UNCHANGED <<memoryVars, listVars, live>> /\ locals.toDelete = local[t].toDelete
  BY <1>2, <1>3, <1>5
<1> QED BY <1>1, <1>5, <1>6, <1>8, <1>9, <1>10, <1>11, <1>12, PlainFrame

(* The store's list is empty: alloc goes on to create a chunk.             *)
LEMMA AllocFromEmptyStoreStep ==
  ASSUME IndInv, NEW t \in Threads, AllocFromStore(t),
         freeStore[local[t].fs][getSizeRange(local[t].size)] = <<>>
  PROVE  IndInv'
<1>1. pc[t] = "a_store" /\ GotoWith(t, "a_new", local[t])
  BY DEF AllocFromStore
<1>2. UNCHANGED <<memoryVars, listVars, counterVars, cleanVars, lockVars, live>>
  BY DEF AllocFromStore, listVars
<1>3. TypeOK /\ LocksOf(t) /\ local[t] \in Locals /\ local[t].toDelete = <<>> /\ local[t].size > 0
  BY <1>1, ThreadFacts DEF Hand
<1>4. "a_new" \in Places /\ pc[t] \notin Engaged /\ "a_new" \notin Engaged \cup {"g_find"}
  BY <1>1 DEF Places, HoldsContext, Engaged
<1>5. pc'[t] = "a_new" /\ local'[t] = local[t]
  BY <1>1, <1>3, <1>4, GotoWithFacts
<1>6. LockTypes' /\ CounterTypes' /\ LocksStep(t)
  BY <1>2, <1>3 DEF TypeOK, LockTypes, CounterTypes, LocksStep, counterVars, cleanVars, lockVars
<1>7. LocksOf(t)'
  BY <1>1, <1>2, <1>3, <1>5 DEF LocksOf, HoldsBucket, HoldsContext, HoldsStore, HoldsClean,
       cleanVars, lockVars
<1>8. Cursor(t)' /\ Hand(t)'
  BY <1>3, <1>5 DEF Cursor, Hand, Listing
<1> QED BY <1>1, <1>2, <1>3, <1>4, <1>6, <1>7, <1>8, PlainFrame

(* The pool has no block for alloc.                                        *)
LEMMA AllocPoolExhaustedStep ==
  ASSUME IndInv, NEW t \in Threads, AllocPoolExhausted(t)
  PROVE  IndInv'
<1>1. /\ pc[t] = "a_new" /\ GotoWith(t, "a_null", local[t])
      /\ UNCHANGED <<memoryVars, listVars, counterVars, cleanVars, lockVars, live>>
  BY DEF AllocPoolExhausted
<1>2. TypeOK /\ LocksOf(t) /\ local[t] \in Locals /\ local[t].toDelete = <<>>
  BY <1>1, ThreadFacts
<1>3. "a_null" \in Places /\ pc[t] \notin Engaged /\ "a_null" \notin Engaged \cup {"g_find"}
  BY <1>1 DEF Places, HoldsContext, Engaged
<1>4. pc'[t] = "a_null" /\ local'[t] = local[t]
  BY <1>1, <1>2, <1>3, GotoWithFacts
<1>5. LockTypes' /\ CounterTypes' /\ LocksStep(t)
  BY <1>1, <1>2 DEF TypeOK, LockTypes, CounterTypes, LocksStep, counterVars, cleanVars, lockVars
<1>6. LocksOf(t)'
  BY <1>1, <1>2, <1>4 DEF LocksOf, HoldsBucket, HoldsContext, HoldsStore, HoldsClean,
       cleanVars, lockVars
<1>7. Cursor(t)' /\ Hand(t)'
  BY <1>4 DEF Cursor, Hand, Listing
<1> QED BY <1>1, <1>2, <1>3, <1>5, <1>6, <1>7, PlainFrame

(* alloc throws, and the context's lock is given back.                     *)
LEMMA AllocThrowStep ==
  ASSUME IndInv, NEW t \in Threads, AllocThrow(t)
  PROVE  IndInv'
<1>1. /\ pc[t] = "a_null" /\ Return(t) /\ UnlockContext(local[t].ctx)
      /\ UNCHANGED <<memoryVars, listVars, counterVars, cleanVars, storeLock, bucketLock, live>>
  BY DEF AllocThrow
<1>2. TypeOK /\ LocksOf(t) /\ local[t] \in Locals /\ local[t].toDelete = <<>> /\ t # NoThread
  BY <1>1, ThreadFacts
<1>3. LockTypes' /\ CounterTypes'
  BY <1>1, <1>2 DEF TypeOK, LockTypes, CounterTypes, UnlockContext, Owner, counterVars, cleanVars
<1>4. \A x \in Contexts : contextLock[x] = t <=> x = local[t].ctx
  BY <1>1, <1>2 DEF LocksOf, HoldsContext
<1>5. \A x \in Contexts : contextLock'[x] # t
  BY <1>1, <1>2, <1>4 DEF TypeOK, UnlockContext
<1>6. /\ \A x \in Stores : storeLock'[x] # t
      /\ \A b \in Buckets : bucketLock'[b] # t
      /\ cleanMutex' # t
  BY <1>1, <1>2 DEF LocksOf, HoldsStore, HoldsClean, HoldsBucket, cleanVars
<1>7. LocksStep(t)
  BY <1>1, <1>2, <1>4 DEF TypeOK, LocksStep, UnlockContext, cleanVars
<1> QED BY <1>1, <1>2, <1>3, <1>5, <1>6, <1>7, ReturnFrame DEF Engaged

(* The second subtraction: the buffer in flight becomes the caller's.      *)
LEMMA AllocCountStep ==
  ASSUME IndInv, NEW t \in Threads, AllocCount(t)
  PROVE  IndInv'
<1> DEFINE my == local[t]
           given == [ptr |-> my.ptr, size |-> my.size]
           b == getMemoryBucket(my.ch)
<1>1. /\ pc[t] = "a_count" /\ GotoWith(t, "idle", NoLocals)
      /\ emptyBlocksCount' = Minus(emptyBlocksCount, 1)
      /\ live' = live \cup {given}
      /\ UnlockBucket(b) /\ UnlockContext(my.ctx)
      /\ UNCHANGED <<memoryVars, listVars, emptyBlocksSize, cleanVars, storeLock>>
  BY DEF AllocCount, HandOut, Return
<1>2. TypeOK /\ LocksOf(t) /\ my \in Locals /\ my.toDelete = <<>> /\ t # NoThread
  BY <1>1, ThreadFacts
<1>3. NoLocals \in Locals /\ "idle" \in Places /\ NoLocals.toDelete = <<>>
  BY NoLocalsType DEF Places, NoLocals
<1>4. /\ pc' \in [Threads -> Places] /\ local' \in [Threads -> Locals]
      /\ pc'[t] = "idle" /\ local'[t] = NoLocals
      /\ Others(t)
  BY <1>1, <1>2, <1>3, GotoWithFacts
<1>5. TypeOK'
  <2>1. given \in [ptr : Nat, size : Nat]
    BY <1>2 DEF Locals
  <2>2. live' \in SUBSET [ptr : Nat, size : Nat]
    BY <1>1, <1>2, <2>1 DEF TypeOK
  <2>3. emptyBlocksCount' \in 0 .. Word - 1
    BY <1>1, <1>2, IndexTypes DEF TypeOK
  <2>4. LockTypes'
    BY <1>1, <1>2 DEF TypeOK, LockTypes, UnlockBucket, UnlockContext, Owner, cleanVars
  <2> QED BY <1>1, <1>2, <1>4, <2>2, <2>3, <2>4 DEF TypeOK, LockTypes, memoryVars, listVars, cleanVars
<1>6. /\ \A x \in Contexts : contextLock[x] = t <=> x = my.ctx
      /\ \A x \in Buckets : bucketLock[x] = t <=> x = b
      /\ \A x \in Stores : storeLock[x] # t
      /\ cleanMutex # t
  BY <1>1, <1>2 DEF LocksOf, HoldsContext, HoldsBucket, HoldsStore, HoldsClean
<1>7. LocksStep(t)
  BY <1>1, <1>2, <1>6 DEF TypeOK, LocksStep, UnlockContext, UnlockBucket, cleanVars
<1>8. LocksOf(t)'
  BY <1>1, <1>2, <1>4, <1>6 DEF TypeOK, LocksOf, UnlockContext, UnlockBucket, cleanVars,
       HoldsContext, HoldsBucket, HoldsStore, HoldsClean
<1>9. KeepsHand(t)
  BY <1>1, <1>2, <1>3, <1>4 DEF KeepsHand, SplicedBy, FreshBy, Listing
<1>10. Cursor(t)' /\ Hand(t)'
  BY <1>4 DEF Cursor, Hand, Listing
<1>11. UsedAddresses' = UsedAddresses /\ Mapped' = Mapped
  BY <1>1 DEF memoryVars, UsedAddresses, ElementAddress, elSize, Mapped
<1>12. BufferInv'
  <2>1. /\ t \in InFlight
        /\ \A u \in Threads : u \in InFlight' <=> u \in InFlight /\ u # t
        /\ \A u \in InFlight : u # t => local'[u].ptr = local[u].ptr
        /\ InFlight \subseteq Threads /\ InFlight' \subseteq Threads
    BY <1>1, <1>4 DEF InFlight, Others
  <2>2. given.ptr = my.ptr /\ given \in live'
    BY <1>1
  <2>3. BufferInv /\ UNCHANGED UsedAddresses
    BY <1>11 DEF IndInv
  <2> HIDE DEF given
  <2>4. ASSUME NEW p \in UsedAddresses
        PROVE  \/ \E a \in live' : a.ptr = p
               \/ \E u \in InFlight' : local'[u].ptr = p
    <3>1. CASE \E a \in live : a.ptr = p
      BY <1>1, <3>1
    <3>2. CASE \E u \in InFlight : local[u].ptr = p
      BY <2>1, <2>2, <3>2
    <3> QED BY <2>3, <3>1, <3>2 DEF BufferInv
  <2>5. \A a \in live' : a.ptr \in UsedAddresses
    BY <1>1, <2>1, <2>2, <2>3 DEF BufferInv
  <2>6. \A a, c \in live' : a.ptr = c.ptr => a = c
    BY <1>1, <2>1, <2>2, <2>3 DEF BufferInv
  <2>7. \A u \in InFlight' : /\ local'[u].ptr \in UsedAddresses
                             /\ \A a \in live' : local'[u].ptr # a.ptr
                             /\ \A v \in InFlight' : local'[u].ptr = local'[v].ptr => u = v
    BY <1>1, <2>1, <2>2, <2>3 DEF BufferInv
  <2> QED BY <2>3, <2>4, <2>5, <2>6, <2>7 DEF BufferInv
<1>13. SearchInv'
  <2>1. \A u \in Threads : pc'[u] \in {"d_find", "g_find"} =>
          u # t /\ pc'[u] = pc[u] /\ local'[u] = local[u]
    BY <1>4 DEF Others
  <2>2. SearchCannotFail'
    BY <1>1, <1>11, <2>1 DEF IndInv, SearchInv, SearchCannotFail, Covers, memoryVars
  <2> QED BY <1>1, <2>1, <2>2 DEF IndInv, SearchInv
<1> QED BY <1>1, <1>4, <1>5, <1>7, <1>8, <1>9, <1>10, <1>12, <1>13, QuietFrame

-----------------------------------------------------------------------------
(* dealloc and getInfo: the search                                         *)

(* The locals a search starts with.                                        *)
LEMMA SearchLocalsType ==
  ASSUME NEW ptr \in Nat, NEW id \in Nat
  PROVE  /\ SearchLocals(ptr, id) \in Locals
         /\ SearchLocals(ptr, id).ptr = ptr
         /\ SearchLocals(ptr, id).bkt = getMemoryBucket(ptr)
         /\ SearchLocals(ptr, id).tries = 0
         /\ SearchLocals(ptr, id).toDelete = <<>>
<1>1. getMemoryBucket(ptr) \in Buckets /\ getFreeStoreContext(id) \in Stores
  BY IndexTypes
<1>2. SearchLocals(ptr, id) \in Locals
  BY <1>1, NoLocalsType DEF SearchLocals, Locals
<1> QED BY <1>2 DEF SearchLocals, NoLocals

(* A search starts in the pointer's bucket, at or above its chunk's.       *)
LEMMA SearchStarts ==
  ASSUME IndInv, NEW p \in UsedAddresses
  PROVE  \E c \in Mapped :
           /\ Covers(c, p) /\ c \in memory[getMemoryBucket(c)]
           /\ ((getMemoryBucket(p) - getMemoryBucket(c)) % BucketCount) + 0 < BucketCount
<1>1. PICK c \in Mapped : /\ p \in Nat /\ Covers(c, p) /\ c \in memory[getMemoryBucket(c)]
                          /\ getMemoryBucket(c) \in Buckets
  BY UsedChunk
<1>2. getMemoryBucket(p) \in Int /\ getMemoryBucket(c) \in Int
  BY <1>1, IndexTypes DEF Buckets
<1>3. BucketCount \in Nat \ {0}
  BY CountsAssumption
<1>4. (getMemoryBucket(p) - getMemoryBucket(c)) % BucketCount \in 0 .. BucketCount - 1
  BY <1>2, <1>3, Remainder
<1> QED BY <1>1, <1>3, <1>4

(* One bucket down is one step nearer to any other bucket.                 *)
LEMMA PreviousDistance ==
  ASSUME NEW b \in Buckets, NEW k \in Buckets, b # k
  PROVE  ((PreviousBucket(b) - k) % BucketCount) = ((b - k) % BucketCount) - 1
<1> DEFINE n == BucketCount
<1>1. n \in Nat \ {0} /\ b \in 0 .. n - 1 /\ k \in 0 .. n - 1
  BY CountsAssumption DEF Buckets
<1>2. PreviousBucket(b) = IF b = 0 THEN n - 1 ELSE b - 1
  BY <1>1 DEF PreviousBucket
<1> HIDE DEF n
<1>3. \A d \in 0 .. n - 1 : d % n = d /\ (d - n) % n = d
  BY <1>1
<1>4. CASE b > k
  <2>1. b - k \in 0 .. n - 1 /\ (b - k) - 1 \in 0 .. n - 1 /\ PreviousBucket(b) - k = (b - k) - 1
    BY <1>1, <1>2, <1>4
  <2> QED BY <1>3, <2>1 DEF n
<1>5. CASE b < k /\ b # 0
  <2> DEFINE d == b - k + n
  <2>1. /\ d \in 0 .. n - 1 /\ d - 1 \in 0 .. n - 1
        /\ b - k = d - n /\ PreviousBucket(b) - k = (d - 1) - n
    BY <1>1, <1>2, <1>5
  <2> HIDE DEF d
  <2> QED BY <1>3, <2>1 DEF n
<1>6. CASE b < k /\ b = 0
  <2> DEFINE d == n - k
  <2>1. /\ d \in 0 .. n - 1 /\ d - 1 \in 0 .. n - 1
        /\ b - k = d - n /\ PreviousBucket(b) - k = d - 1
    BY <1>1, <1>2, <1>6
  <2> HIDE DEF d
  <2> QED BY <1>3, <2>1 DEF n
<1> QED BY <1>1, <1>4, <1>5, <1>6

(* dealloc takes a buffer from its caller and starts its search.           *)
LEMMA DeallocStep ==
  ASSUME IndInv, NEW t \in Threads, NEW buffer \in live, NEW id \in IDs(t), Dealloc(t, buffer, id)
  PROVE  IndInv'
<1> DEFINE locals == SearchLocals(buffer.ptr, id)
<1>1. /\ pc[t] = "idle" /\ ~ Asked(buffer.ptr) /\ live' = live \ {buffer}
      /\ GotoWith(t, "d_find", locals)
      /\ UNCHANGED <<memoryVars, listVars, counterVars, cleanVars, lockVars>>
  BY DEF Dealloc
<1>2. TypeOK /\ LocksOf(t) /\ local[t].toDelete = <<>> /\ BufferInv /\ SearchInv
  BY <1>1, ThreadFacts DEF IndInv
<1>3. buffer.ptr \in Nat /\ id \in Nat
  BY <1>2, IDsType DEF TypeOK
<1>4. /\ locals \in Locals /\ locals.ptr = buffer.ptr /\ locals.bkt = getMemoryBucket(buffer.ptr)
      /\ locals.tries = 0 /\ locals.toDelete = <<>>
  BY <1>3, SearchLocalsType
<1>5. "d_find" \in Places
  BY DEF Places
<1> HIDE DEF locals
<1>6. /\ pc' \in [Threads -> Places] /\ local' \in [Threads -> Locals]
      /\ pc'[t] = "d_find" /\ local'[t] = locals
      /\ Others(t)
  BY <1>1, <1>2, <1>4, <1>5, GotoWithFacts
<1>7. TypeOK'
  BY <1>1, <1>2, <1>6 DEF TypeOK, memoryVars, listVars, counterVars, cleanVars, lockVars
<1>8. LocksStep(t) /\ LocksOf(t)'
  BY <1>1, <1>2, <1>6 DEF LocksStep, LocksOf, HoldsBucket, HoldsContext, HoldsStore, HoldsClean,
       cleanVars, lockVars
<1>9. KeepsHand(t)
  BY <1>1, <1>2, <1>4, <1>6 DEF KeepsHand, SplicedBy, FreshBy, Listing
<1>10. Cursor(t)' /\ Hand(t)'
  BY <1>6 DEF Cursor, Hand, Listing
<1>11. UsedAddresses' = UsedAddresses /\ Mapped' = Mapped
  BY <1>1 DEF memoryVars, UsedAddresses, ElementAddress, elSize, Mapped
<1>12. BufferInv'
  <2>1. /\ t \notin InFlight
        /\ \A u \in Threads : u \in InFlight' <=> u \in InFlight \/ u = t
        /\ \A u \in InFlight : local'[u].ptr = local[u].ptr
        /\ local'[t].ptr = buffer.ptr
        /\ InFlight \subseteq Threads /\ InFlight' \subseteq Threads
    BY <1>1, <1>4, <1>6 DEF InFlight, Others
  <2>2. \A p \in UsedAddresses : \/ \E a \in live' : a.ptr = p
                                 \/ \E u \in InFlight' : local'[u].ptr = p
    BY <1>1, <1>2, <2>1 DEF BufferInv
  <2>3. \A u \in InFlight' : /\ local'[u].ptr \in UsedAddresses
                             /\ \A a \in live' : local'[u].ptr # a.ptr
                             /\ \A v \in InFlight' : local'[u].ptr = local'[v].ptr => u = v
    BY <1>1, <1>2, <2>1 DEF BufferInv
  <2> QED BY <1>1, <1>2, <1>11, <2>2, <2>3 DEF BufferInv
<1>13. SearchInv'
  <2>1. \A u \in Threads : u # t => pc'[u] = pc[u] /\ local'[u] = local[u]
    BY <1>6 DEF Others
  <2>2. ASSUME NEW u \in Threads, pc'[u] \in {"d_find", "g_find"}
        PROVE  \E c \in Mapped :
                 /\ Covers(c, local'[u].ptr)
                 /\ c \in memory[getMemoryBucket(c)]
                 /\ ((local'[u].bkt - getMemoryBucket(c)) % BucketCount) + local'[u].tries < BucketCount
    <3>1. CASE u = t
      <4>1. buffer.ptr \in UsedAddresses
        BY <1>2 DEF BufferInv
      <4> QED BY <1>4, <1>6, <3>1, <4>1, SearchStarts
    <3>2. CASE u # t
      BY <1>2, <2>1, <2>2, <3>2 DEF SearchInv, SearchCannotFail
    <3> QED BY <3>1, <3>2
  <2>3. SearchCannotFail'
    BY <1>1, <1>11, <2>2 DEF SearchCannotFail, Covers, memoryVars
  <2>4. ASSUME NEW u \in Threads, pc'[u] = "g_find" PROVE \E a \in live' : a.ptr = local'[u].ptr
    <3>1. u # t /\ pc[u] = "g_find" /\ local'[u] = local[u]
      BY <1>6, <2>1, <2>4
    <3>2. local[u].ptr # buffer.ptr
      BY <1>1, <3>1 DEF Asked
    <3> QED BY <1>1, <1>2, <3>1, <3>2 DEF SearchInv
  <2> QED BY <2>3, <2>4 DEF SearchInv
<1> QED BY <1>1, <1>6, <1>7, <1>8, <1>9, <1>10, <1>12, <1>13, QuietFrame

(* getInfo starts its search for a buffer a caller owns.                   *)
LEMMA GetInfoStep ==
  ASSUME IndInv, NEW t \in Threads, NEW buffer \in live, GetInfo(t, buffer)
  PROVE  IndInv'
<1> DEFINE locals == SearchLocals(buffer.ptr, 0)
<1>1. /\ pc[t] = "idle" /\ GotoWith(t, "g_find", locals)
      /\ UNCHANGED <<memoryVars, listVars, counterVars, cleanVars, lockVars, live>>
  BY DEF GetInfo
<1>2. TypeOK /\ LocksOf(t) /\ local[t].toDelete = <<>> /\ BufferInv /\ SearchInv
  BY <1>1, ThreadFacts DEF IndInv
<1>3. buffer.ptr \in Nat /\ 0 \in Nat
  BY <1>2 DEF TypeOK
<1>4. /\ locals \in Locals /\ locals.ptr = buffer.ptr /\ locals.bkt = getMemoryBucket(buffer.ptr)
      /\ locals.tries = 0 /\ locals.toDelete = <<>>
  BY <1>3, SearchLocalsType
<1>5. "g_find" \in Places
  BY DEF Places
<1> HIDE DEF locals
<1>6. /\ pc' \in [Threads -> Places] /\ local' \in [Threads -> Locals]
      /\ pc'[t] = "g_find" /\ local'[t] = locals
      /\ Others(t)
  BY <1>1, <1>2, <1>4, <1>5, GotoWithFacts
<1>7. TypeOK'
  BY <1>1, <1>2, <1>6 DEF TypeOK, memoryVars, listVars, counterVars, cleanVars, lockVars
<1>8. LocksStep(t) /\ LocksOf(t)'
  BY <1>1, <1>2, <1>6 DEF LocksStep, LocksOf, HoldsBucket, HoldsContext, HoldsStore, HoldsClean,
       cleanVars, lockVars
<1>9. KeepsHand(t)
  BY <1>1, <1>2, <1>4, <1>6 DEF KeepsHand, SplicedBy, FreshBy, Listing
<1>10. Cursor(t)' /\ Hand(t)'
  BY <1>6 DEF Cursor, Hand, Listing
<1>11. UsedAddresses' = UsedAddresses /\ Mapped' = Mapped
  BY <1>1 DEF memoryVars, UsedAddresses, ElementAddress, elSize, Mapped
<1>12. BufferInv'
  <2>1. /\ InFlight' = InFlight /\ InFlight \subseteq Threads
        /\ \A u \in InFlight : local'[u].ptr = local[u].ptr
    BY <1>1, <1>6 DEF InFlight, Others
  <2> QED BY <1>1, <1>2, <1>11, <2>1 DEF BufferInv
<1>13. SearchInv'
  <2>1. \A u \in Threads : u # t => pc'[u] = pc[u] /\ local'[u] = local[u]
    BY <1>6 DEF Others
  <2>2. ASSUME NEW u \in Threads, pc'[u] \in {"d_find", "g_find"}
        PROVE  \E c \in Mapped :
                 /\ Covers(c, local'[u].ptr)
                 /\ c \in memory[getMemoryBucket(c)]
                 /\ ((local'[u].bkt - getMemoryBucket(c)) % BucketCount) + local'[u].tries < BucketCount
    <3>1. CASE u = t
      <4>1. buffer.ptr \in UsedAddresses
        BY <1>2 DEF BufferInv
      <4> QED BY <1>4, <1>6, <3>1, <4>1, SearchStarts
    <3>2. CASE u # t
      BY <1>2, <2>1, <2>2, <3>2 DEF SearchInv, SearchCannotFail
    <3> QED BY <3>1, <3>2
  <2>3. SearchCannotFail'
    BY <1>1, <1>11, <2>2 DEF SearchCannotFail, Covers, memoryVars
  <2>4. ASSUME NEW u \in Threads, pc'[u] = "g_find" PROVE \E a \in live' : a.ptr = local'[u].ptr
    BY <1>1, <1>2, <1>4, <1>6, <2>1, <2>4 DEF SearchInv
  <2> QED BY <2>3, <2>4 DEF SearchInv
<1> QED BY <1>1, <1>6, <1>7, <1>8, <1>9, <1>10, <1>12, <1>13, QuietFrame

(* getInfo has found the chunk and returns.                                *)
LEMMA GetInfoHitStep ==
  ASSUME IndInv, NEW t \in Threads, GetInfoHit(t)
  PROVE  IndInv'
<1>1. /\ pc[t] = "g_find" /\ Return(t)
      /\ UNCHANGED <<memoryVars, listVars, counterVars, cleanVars, lockVars, live>>
  BY DEF GetInfoHit
<1>2. TypeOK /\ LocksOf(t) /\ local[t].toDelete = <<>>
  BY <1>1, ThreadFacts
<1>3. LockTypes' /\ CounterTypes' /\ LocksStep(t)
  BY <1>1, <1>2 DEF TypeOK, LockTypes, CounterTypes, LocksStep, counterVars, cleanVars, lockVars
<1>4. /\ \A x \in Contexts : contextLock'[x] # t
      /\ \A x \in Stores : storeLock'[x] # t
      /\ \A b \in Buckets : bucketLock'[b] # t
      /\ cleanMutex' # t
  BY <1>1, <1>2 DEF LocksOf, HoldsContext, HoldsStore, HoldsClean, HoldsBucket, cleanVars, lockVars
<1> QED BY <1>1, <1>2, <1>3, <1>4, ReturnFrame DEF Engaged

(* A search that misses goes on: it never runs out of buckets.             *)
LEMMA SearchMissStep ==
  ASSUME IndInv, NEW t \in Threads, SearchMiss(t)
  PROVE  IndInv'
<1> DEFINE my == local[t]
           locals == [my EXCEPT !.tries = my.tries + 1, !.bkt = PreviousBucket(my.bkt)]
<1>1. /\ pc[t] \in {"d_find", "g_find"} /\ Found(t) = {}
      /\ IF SearchGoesOn(my.tries + 1) THEN GotoWith(t, pc[t], locals) ELSE Return(t)
      /\ UNCHANGED <<memoryVars, listVars, counterVars, cleanVars, lockVars, live>>
  BY DEF SearchMiss
<1>2. TypeOK /\ LocksOf(t) /\ my.toDelete = <<>> /\ my \in Locals /\ BufferInv /\ SearchInv
  BY <1>1, ThreadFacts DEF IndInv
<1>3. PICK c \in Mapped :
        /\ Covers(c, my.ptr) /\ c \in memory[getMemoryBucket(c)]
        /\ ((my.bkt - getMemoryBucket(c)) % BucketCount) + my.tries < BucketCount
  BY <1>1, <1>2 DEF SearchInv, SearchCannotFail
<1>4. my.bkt \in Buckets /\ my.tries \in Nat /\ PreviousBucket(my.bkt) \in Buckets
      /\ getMemoryBucket(c) \in Buckets
  BY <1>2, IndexTypes, SizesAssumption DEF Locals, Mapped
<1>5. my.bkt # getMemoryBucket(c)
  BY <1>1, <1>3 DEF Found
<1>6. /\ ((PreviousBucket(my.bkt) - getMemoryBucket(c)) % BucketCount) + (my.tries + 1) < BucketCount
      /\ my.tries + 1 < BucketCount
  <2> DEFINE old == (my.bkt - getMemoryBucket(c)) % BucketCount
             new == (PreviousBucket(my.bkt) - getMemoryBucket(c)) % BucketCount
  <2>1. new = old - 1
    BY <1>4, <1>5, PreviousDistance
  <2>2. BucketCount \in Nat \ {0}
    BY CountsAssumption
  <2>3. new \in 0 .. BucketCount - 1 /\ old \in 0 .. BucketCount - 1
    <3>1. my.bkt - getMemoryBucket(c) \in Int /\ PreviousBucket(my.bkt) - getMemoryBucket(c) \in Int
      BY <1>4 DEF Buckets
    <3> QED BY <2>2, <3>1, Remainder
  <2>4. old + my.tries < BucketCount
    BY <1>3
  <2> HIDE DEF old, new
  <2>5. new + (my.tries + 1) < BucketCount /\ my.tries + 1 < BucketCount
    BY <1>4, <2>1, <2>2, <2>3, <2>4
  <2> QED BY <2>5 DEF new
<1>7. GotoWith(t, pc[t], locals)
  BY <1>1, <1>6 DEF SearchGoesOn
<1>8. /\ locals \in Locals /\ locals.ptr = my.ptr /\ locals.toDelete = <<>>
      /\ locals.bkt = PreviousBucket(my.bkt) /\ locals.tries = my.tries + 1
  <2>1. my \in Locals /\ my.toDelete = <<>> /\ my.tries + 1 \in Nat /\ PreviousBucket(my.bkt) \in Buckets
    BY <1>2, <1>4
  <2> HIDE DEF my
  <2> QED BY <2>1 DEF Locals
<1>9. pc[t] \in Places
  BY ThreadFacts
<1> HIDE DEF locals
<1>10. /\ pc' \in [Threads -> Places] /\ local' \in [Threads -> Locals]
       /\ pc'[t] = pc[t] /\ local'[t] = locals
       /\ Others(t)
  BY <1>2, <1>7, <1>8, <1>9, GotoWithFacts
<1>11. TypeOK'
  BY <1>1, <1>2, <1>10 DEF TypeOK, memoryVars, listVars, counterVars, cleanVars, lockVars
<1>12. LocksStep(t) /\ LocksOf(t)'
  BY <1>1, <1>2, <1>10 DEF LocksStep, LocksOf, HoldsBucket, HoldsContext, HoldsStore, HoldsClean,
       cleanVars, lockVars
<1>13. KeepsHand(t)
  BY <1>1, <1>2, <1>8, <1>10 DEF KeepsHand, SplicedBy, FreshBy, Listing
<1>14. Cursor(t)' /\ Hand(t)'
  BY <1>1, <1>10 DEF Cursor, Hand, Listing
<1>15. UsedAddresses' = UsedAddresses /\ Mapped' = Mapped
  BY <1>1 DEF memoryVars, UsedAddresses, ElementAddress, elSize, Mapped
<1>16. \A u \in Threads : pc'[u] = pc[u] /\ local'[u].ptr = local[u].ptr
  BY <1>8, <1>10 DEF Others
<1>17. BufferInv'
  <2>1. InFlight' = InFlight /\ InFlight \subseteq Threads
    BY <1>16 DEF InFlight
  <2> QED BY <1>1, <1>2, <1>15, <1>16, <2>1 DEF BufferInv
<1>18. SearchInv'
  <2>1. ASSUME NEW u \in Threads, pc'[u] \in {"d_find", "g_find"}
        PROVE  \E d \in Mapped :
                 /\ Covers(d, local'[u].ptr)
                 /\ d \in memory[getMemoryBucket(d)]
                 /\ ((local'[u].bkt - getMemoryBucket(d)) % BucketCount) + local'[u].tries < BucketCount
    <3>1. CASE u = t
      BY <1>3, <1>6, <1>8, <1>10, <3>1
    <3>2. CASE u # t
      BY <1>2, <1>10, <2>1, <3>2 DEF SearchInv, SearchCannotFail, Others
    <3> QED BY <3>1, <3>2
  <2>2. SearchCannotFail'
    BY <1>1, <1>15, <2>1 DEF SearchCannotFail, Covers, memoryVars
  <2> QED BY <1>1, <1>2, <1>16, <2>2 DEF SearchInv
<1> QED BY <1>1, <1>10, <1>11, <1>12, <1>13, <1>14, <1>17, <1>18, QuietFrame

-----------------------------------------------------------------------------
(* dealloc: the counters, under the bucket's lock                          *)

(* The locals clean starts with have their types.                          *)
LEMMA CleanLocalsType ==
  ASSUME NEW force \in BOOLEAN, NEW id \in Nat
  PROVE  /\ CleanLocals(force, id) \in Locals
         /\ CleanLocals(force, id).pos = 1
         /\ CleanLocals(force, id).toDelete = <<>>
<1>1. getFreeStoreContext(id) \in Stores
  BY IndexTypes
<1>2. CleanLocals(force, id) \in Locals
  BY <1>1, NoLocalsType DEF CleanLocals, Locals
<1> QED BY <1>2 DEF CleanLocals, NoLocals

(* dealloc adds the emptied chunk's size.                                  *)
LEMMA DeallocSizeStep ==
  ASSUME IndInv, NEW t \in Threads, DeallocSize(t)
  PROVE  IndInv'
<1>1. /\ pc[t] = "d_size" /\ Goto(t, "d_count")
      /\ emptyBlocksSize' = Plus(emptyBlocksSize, memorysize[local[t].ch])
      /\ UNCHANGED <<memoryVars, listVars, emptyBlocksCount, cleanVars, lockVars, live, local>>
  BY DEF DeallocSize
<1>2. TypeOK /\ LocksOf(t) /\ Hand(t) /\ local[t].toDelete = <<>> /\ local[t] \in Locals
  BY <1>1, ThreadFacts
<1>3. "d_count" \in Places
  BY DEF Places
<1>4. /\ pc' \in [Threads -> Places] /\ local' \in [Threads -> Locals]
      /\ pc'[t] = "d_count" /\ local'[t] = local[t]
      /\ Others(t)
  BY <1>1, <1>2, <1>3, GotoFacts
<1>5. TypeOK'
  <2>1. local[t].ch \in PoolAddresses
    BY <1>1, <1>2 DEF Hand, TypeOK, Locals, IndInv, ChunkInv, Mapped
  <2>2. emptyBlocksSize \in Int /\ memorysize[local[t].ch] \in Int
    BY <1>2, <2>1 DEF TypeOK
  <2>3. emptyBlocksSize' \in 0 .. Word - 1
    BY <1>1, <2>2, IndexTypes
  <2> QED BY <1>1, <1>2, <1>4, <2>3 DEF TypeOK, memoryVars, listVars, cleanVars, lockVars
<1>6. LocksStep(t) /\ LocksOf(t)'
  BY <1>1, <1>2, <1>4 DEF LocksStep, LocksOf, HoldsBucket, HoldsContext, HoldsStore, HoldsClean,
       cleanVars, lockVars
<1>7. KeepsHand(t)
  BY <1>1, <1>2, <1>4 DEF KeepsHand, SplicedBy, FreshBy, Listing
<1>8. Cursor(t)'
  BY <1>4 DEF Cursor
<1>9. Hand(t)'
  BY <1>1, <1>2, <1>4 DEF Hand, Listing, memoryVars, listVars, full, Slots
<1>10. BufferInv' /\ SearchInv'
  BY <1>1, <1>4, BuffersFrame
<1> QED BY <1>1, <1>4, <1>5, <1>6, <1>7, <1>8, <1>9, <1>10, QuietFrame

(* dealloc counts the emptied chunk and unlocks its bucket.                *)
LEMMA DeallocCountStep ==
  ASSUME IndInv, NEW t \in Threads, DeallocCount(t)
  PROVE  IndInv'
<1> DEFINE my == local[t]
           label == IF my.toFreestore THEN "d_store" ELSE "c_try"
           locals == IF my.toFreestore THEN my ELSE CleanLocals(FALSE, ThreadHash[t])
<1>1. /\ pc[t] = "d_count" /\ UnlockBucket(my.bkt)
      /\ emptyBlocksCount' = Plus(emptyBlocksCount, 1)
      /\ IF my.toFreestore THEN Goto(t, "d_store") /\ UNCHANGED local ELSE CallClean(t)
      /\ UNCHANGED <<memoryVars, listVars, emptyBlocksSize, cleanVars, contextLock, storeLock, live>>
  BY DEF DeallocCount
<1>2. TypeOK /\ LocksOf(t) /\ Hand(t) /\ my.toDelete = <<>> /\ my \in Locals /\ t # NoThread
  BY <1>1, ThreadFacts
<1>3. GotoWith(t, label, locals)
  BY <1>1, <1>2, GotoIsGotoWith DEF CallClean
<1>4. /\ label \in Places /\ locals \in Locals /\ locals.toDelete = <<>>
      /\ ~ my.toFreestore => locals.pos = 1
  BY <1>2, CleanLocalsType, IdsAssumption DEF Places
<1>5. /\ my.toFreestore => label = "d_store" /\ locals = my
      /\ ~ my.toFreestore => label = "c_try"
  OBVIOUS
<1> HIDE DEF label, locals
<1>6. /\ pc' \in [Threads -> Places] /\ local' \in [Threads -> Locals]
      /\ pc'[t] = label /\ local'[t] = locals
      /\ Others(t)
  BY <1>2, <1>3, <1>4, GotoWithFacts
<1>7. TypeOK'
  <2>1. emptyBlocksCount' \in 0 .. Word - 1
    BY <1>1, <1>2, IndexTypes DEF TypeOK
  <2>2. bucketLock' \in [Buckets -> Owner]
    BY <1>1, <1>2 DEF TypeOK, UnlockBucket, Owner
  <2> QED BY <1>1, <1>2, <1>6, <2>1, <2>2 DEF TypeOK, memoryVars, listVars, cleanVars
<1>8. \A b \in Buckets : bucketLock[b] = t <=> b = my.bkt
  BY <1>1, <1>2 DEF LocksOf, HoldsBucket
<1>9. LocksStep(t)
  BY <1>1, <1>2, <1>8 DEF TypeOK, LocksStep, UnlockBucket, cleanVars
<1>10. LocksOf(t)'
  <2>1. \A b \in Buckets : bucketLock'[b] # t
    BY <1>1, <1>2, <1>8 DEF TypeOK, UnlockBucket
  <2> QED BY <1>1, <1>2, <1>5, <1>6, <2>1 DEF LocksOf, HoldsBucket, HoldsContext, HoldsStore,
            HoldsClean, cleanVars
<1>11. KeepsHand(t)
  BY <1>1, <1>2, <1>4, <1>5, <1>6 DEF KeepsHand, SplicedBy, FreshBy, Listing
<1>12. Cursor(t)'
  BY <1>4, <1>5, <1>6 DEF Cursor
<1>13. Hand(t)'
  BY <1>1, <1>2, <1>5, <1>6 DEF Hand, Listing, memoryVars, listVars, full, Slots
<1>14. BufferInv' /\ SearchInv'
  BY <1>1, <1>5, <1>6, BuffersFrame
<1> QED BY <1>1, <1>6, <1>7, <1>9, <1>10, <1>11, <1>12, <1>13, <1>14, QuietFrame

-----------------------------------------------------------------------------
(* clean                                                                   *)

(* A call of clean.                                                        *)
LEMMA CleanStep ==
  ASSUME IndInv, NEW t \in Threads, NEW force \in BOOLEAN, NEW id \in IDs(t), Clean(t, force, id)
  PROVE  IndInv'
<1> DEFINE locals == CleanLocals(force, id)
<1>1. /\ pc[t] = "idle" /\ GotoWith(t, "c_try", locals)
      /\ UNCHANGED <<memoryVars, listVars, counterVars, cleanVars, lockVars, live>>
  BY DEF Clean
<1>2. TypeOK /\ LocksOf(t) /\ local[t].toDelete = <<>>
  BY <1>1, ThreadFacts
<1>3. id \in Nat
  BY IDsType
<1>4. locals \in Locals /\ locals.pos = 1 /\ locals.toDelete = <<>>
  BY <1>3, CleanLocalsType
<1>5. "c_try" \in Places /\ pc[t] \notin Engaged /\ "c_try" \notin Engaged \cup {"g_find"}
  BY <1>1 DEF Places, Engaged
<1> HIDE DEF locals
<1>6. pc'[t] = "c_try" /\ local'[t] = locals
  BY <1>1, <1>2, <1>4, <1>5, GotoWithFacts
<1>7. LockTypes' /\ CounterTypes' /\ LocksStep(t)
  BY <1>1, <1>2 DEF TypeOK, LockTypes, CounterTypes, LocksStep, counterVars, cleanVars, lockVars
<1>8. LocksOf(t)'
  BY <1>1, <1>2, <1>6 DEF LocksOf, HoldsBucket, HoldsContext, HoldsStore, HoldsClean,
       cleanVars, lockVars
<1>9. Cursor(t)' /\ Hand(t)'
  BY <1>4, <1>6 DEF Cursor, Hand, Listing
<1> QED BY <1>1, <1>2, <1>4, <1>5, <1>7, <1>8, <1>9, PlainFrame

(* clean takes its mutex, or returns at once if another clean has it.      *)
LEMMA CleanTryLockStep ==
  ASSUME IndInv, NEW t \in Threads, CleanTryLock(t)
  PROVE  IndInv'
<1>1. pc[t] = "c_try" /\ UNCHANGED <<memoryVars, listVars, counterVars, cleanCounter, lockVars, live>>
  BY DEF CleanTryLock
<1>2. TypeOK /\ LocksOf(t) /\ Cursor(t) /\ local[t].toDelete = <<>> /\ local[t] \in Locals /\ t # NoThread
  BY <1>1, ThreadFacts
<1>3. /\ pc[t] \notin Engaged
      /\ \A x \in Contexts : contextLock[x] # t
      /\ \A x \in Stores : storeLock[x] # t
      /\ \A b \in Buckets : bucketLock[b] # t
      /\ cleanMutex # t
  BY <1>1, <1>2 DEF Engaged, LocksOf, HoldsContext, HoldsStore, HoldsClean, HoldsBucket
<1>4. CASE cleanMutex = NoThread /\ cleanMutex' = t /\ Goto(t, "c_soft") /\ UNCHANGED local
  <2>1. "c_soft" \in Places /\ "c_soft" \notin Engaged \cup {"g_find"}
    BY DEF Places, HoldsClean, Engaged
  <2>2. GotoWith(t, "c_soft", local[t])
    BY <1>2, <1>4, GotoIsGotoWith
  <2>3. pc'[t] = "c_soft" /\ local'[t] = local[t]
    BY <1>2, <2>1, <2>2, GotoWithFacts
  <2>4. LockTypes' /\ CounterTypes' /\ LocksStep(t)
    BY <1>1, <1>2, <1>4 DEF TypeOK, LockTypes, CounterTypes, LocksStep, Owner, counterVars, lockVars
  <2>5. LocksOf(t)'
    BY <1>1, <1>3, <1>4, <2>3 DEF LocksOf, HoldsBucket, HoldsContext, HoldsStore, HoldsClean, lockVars
  <2>6. Cursor(t)' /\ Hand(t)'
    BY <1>1, <1>2, <2>3 DEF Cursor, Hand, Listing
  <2> QED BY <1>1, <1>2, <1>3, <2>1, <2>2, <2>4, <2>5, <2>6, PlainFrame
<1>5. CASE Return(t) /\ UNCHANGED cleanMutex
  <2>1. LockTypes' /\ CounterTypes' /\ LocksStep(t)
    BY <1>1, <1>2, <1>5 DEF TypeOK, LockTypes, CounterTypes, LocksStep, counterVars, lockVars
  <2> QED BY <1>1, <1>2, <1>3, <1>5, <2>1, ReturnFrame DEF lockVars
<1> QED BY <1>4, <1>5 DEF CleanTryLock

(* clean's tests lead to each other, to the contexts or to the sweep.      *)
LEMMA CleanTestGoesOn ==
  ASSUME IndInv, NEW t \in Threads, pc[t] \in {"c_soft", "c_softcount", "c_hard", "c_hardcount"},
         NEW label \in {"c_softcount", "c_hard", "c_hardcount", "c_context", "c_sweep"},
         NEW locals \in Locals, GotoWith(t, label, locals),
         locals.pos = 1, locals.toDelete = <<>>,
         UNCHANGED <<memoryVars, listVars, counterVars, lockVars, live, cleanMutex>>,
         cleanCounter' \in 0 .. ForcePeriod - 1
  PROVE  IndInv'
<1>1. TypeOK /\ LocksOf(t) /\ local[t].toDelete = <<>> /\ t # NoThread
  BY ThreadFacts
<1>2. label \in Places /\ pc[t] \notin Engaged /\ label \notin Engaged \cup {"g_find"}
  BY DEF Places, HoldsClean, Engaged
<1>3. pc'[t] = label /\ local'[t] = locals
  BY <1>1, <1>2, GotoWithFacts
<1>4. LockTypes' /\ CounterTypes' /\ LocksStep(t)
  BY <1>1 DEF TypeOK, LockTypes, CounterTypes, LocksStep, counterVars, lockVars
<1>5. LocksOf(t)'
  BY <1>1, <1>3 DEF LocksOf, HoldsBucket, HoldsContext, HoldsStore, HoldsClean, lockVars
<1>6. Cursor(t)' /\ Hand(t)'
  BY <1>3 DEF Cursor, Hand, Listing
<1> QED BY <1>1, <1>2, <1>4, <1>5, <1>6, PlainFrame

(* clean gives its mutex back when it has nothing more to do.              *)
LEMMA CleanLeaves ==
  ASSUME IndInv, NEW t \in Threads, pc[t] \in {"c_hardcount", "c_delete"}, local[t].toDelete = <<>>,
         CleanLeave(t), UNCHANGED <<memoryVars, listVars, counterVars, lockVars, live>>
  PROVE  IndInv'
<1>1. TypeOK /\ LocksOf(t) /\ t # NoThread
  BY ThreadFacts
<1>2. cleanMutex' = NoThread /\ Return(t) /\ UNCHANGED cleanCounter
  BY DEF CleanLeave
<1>3. /\ \A x \in Contexts : contextLock'[x] # t
      /\ \A x \in Stores : storeLock'[x] # t
      /\ \A b \in Buckets : bucketLock'[b] # t
      /\ cleanMutex = t
  BY <1>1 DEF LocksOf, HoldsContext, HoldsStore, HoldsClean, HoldsBucket, lockVars
<1>4. LockTypes' /\ CounterTypes' /\ LocksStep(t)
  BY <1>1, <1>2, <1>3 DEF TypeOK, LockTypes, CounterTypes, LocksStep, Owner, counterVars, lockVars
<1>5. pc[t] \notin Engaged
  BY DEF Engaged
<1> QED BY <1>1, <1>2, <1>3, <1>4, <1>5, ReturnFrame

(* clean compares the counters with its thresholds.                        *)
LEMMA CleanTestStep ==
  ASSUME IndInv, NEW t \in Threads, CleanTest(t)
  PROVE  IndInv'
<1>1. UNCHANGED <<memoryVars, listVars, counterVars, lockVars, live>>
  BY DEF CleanTest
<1>2. pc[t] \in {"c_soft", "c_softcount", "c_hard", "c_hardcount"}
  BY DEF CleanTest
<1>3. /\ TypeOK /\ local[t] \in Locals /\ local[t].toDelete = <<>> /\ local[t].pos = 1
      /\ cleanCounter \in 0 .. ForcePeriod - 1
  BY <1>2, ThreadFacts DEF Cursor, TypeOK
<1>4. ASSUME NEW label \in {"c_softcount", "c_hard", "c_hardcount"},
             Goto(t, label), UNCHANGED <<cleanVars, local>>
      PROVE  IndInv'
  <2>1. GotoWith(t, label, local[t])
    BY <1>3, <1>4, GotoIsGotoWith
  <2> QED BY <1>1, <1>2, <1>3, <1>4, <2>1, CleanTestGoesOn DEF cleanVars
<1>5. ASSUME CleanStart(t) PROVE IndInv'
  <2> DEFINE n == (cleanCounter + 1) % ForcePeriod
             force == local[t].force \/ n = 0
             label == IF CleansContexts(force, n) THEN "c_context" ELSE "c_sweep"
             locals == [local[t] EXCEPT !.force = force]
  <2>1. n \in 0 .. ForcePeriod - 1
    BY <1>3, CountsAssumption, Remainder
  <2>2. cleanCounter' = n /\ GotoWith(t, label, locals) /\ UNCHANGED cleanMutex
    BY <1>5 DEF CleanStart
  <2>3. locals \in Locals /\ locals.pos = 1 /\ locals.toDelete = <<>>
    BY <1>3 DEF Locals
  <2>4. label \in {"c_context", "c_sweep"}
    OBVIOUS
  <2> HIDE DEF n, force, label, locals
  <2> QED BY <1>1, <1>2, <2>1, <2>2, <2>3, <2>4, CleanTestGoesOn
<1>6. CASE pc[t] = "c_soft"
  <2>1. /\ Goto(t, IF emptyBlocksSize >= SoftSize THEN "c_softcount" ELSE "c_hard")
        /\ UNCHANGED <<cleanVars, local>>
    BY <1>6 DEF CleanTest
  <2> QED BY <1>4, <2>1
<1>7. CASE pc[t] = "c_softcount"
  <2>1. IF emptyBlocksCount >= SoftCount
          THEN CleanStart(t)
          ELSE Goto(t, "c_hard") /\ UNCHANGED <<cleanVars, local>>
    BY <1>7 DEF CleanTest
  <2> QED BY <1>4, <1>5, <2>1
<1>8. CASE pc[t] = "c_hard"
  <2>1. IF emptyBlocksSize >= HardSize
          THEN CleanStart(t)
          ELSE Goto(t, "c_hardcount") /\ UNCHANGED <<cleanVars, local>>
    BY <1>8 DEF CleanTest
  <2> QED BY <1>4, <1>5, <2>1
<1>9. CASE pc[t] = "c_hardcount"
  <2>1. CleanStart(t) \/ CleanLeave(t)
    BY <1>9 DEF CleanTest
  <2> QED BY <1>1, <1>3, <1>5, <1>9, <2>1, CleanLeaves
<1> QED BY <1>2, <1>6, <1>7, <1>8, <1>9

(* clean has no chunk left to delete and returns.                          *)
LEMMA CleanEndStep ==
  ASSUME IndInv, NEW t \in Threads, CleanEnd(t)
  PROVE  IndInv'
BY CleanLeaves DEF CleanEnd

(* After a context, clean goes on with the next one or with the sweep.     *)
LEMMA NextContextFacts ==
  ASSUME TypeOK, NEW t \in Threads, NEW my \in Locals, NextContext(t, my)
  PROVE  \E label \in {"c_context", "c_sweep"}, locals \in Locals :
           /\ GotoWith(t, label, locals)
           /\ locals.pos = 1 /\ locals.toDelete = my.toDelete
<1>1. my.ctx \in Contexts /\ 0 \in Contexts /\ AllocContextCount \in Nat
  BY CountsAssumption DEF Locals, Contexts
<1>2. CASE my.ctx + 1 < AllocContextCount
  <2> DEFINE locals == [my EXCEPT !.ctx = my.ctx + 1, !.row = 1, !.pos = 1]
  <2>1. my.ctx + 1 \in Contexts
    BY <1>1, <1>2 DEF Contexts
  <2>2. locals \in Locals /\ locals.pos = 1 /\ locals.toDelete = my.toDelete
    BY <2>1 DEF Locals
  <2>3. GotoWith(t, "c_context", locals)
    BY <1>2 DEF NextContext
  <2> HIDE DEF locals
  <2> QED BY <2>2, <2>3
<1>3. CASE ~ (my.ctx + 1 < AllocContextCount)
  <2> DEFINE locals == [my EXCEPT !.ctx = 0, !.row = 1, !.pos = 1]
  <2>1. locals \in Locals /\ locals.pos = 1 /\ locals.toDelete = my.toDelete
    BY <1>1 DEF Locals
  <2>2. GotoWith(t, "c_sweep", locals)
    BY <1>3 DEF NextContext
  <2> HIDE DEF locals
  <2> QED BY <2>1, <2>2
<1> QED BY <1>2, <1>3

(* clean locks a context, or finds all its lists empty.                    *)
LEMMA CleanLockContextStep ==
  ASSUME IndInv, NEW t \in Threads, CleanLockContext(t)
  PROVE  IndInv'
<1> DEFINE my == local[t]
           x == my.ctx
           r == NextList(notfullchunks[x], 1)
<1>1. /\ pc[t] = "c_context"
      /\ IF r \in Ranges
           THEN LockContext(t, x) /\ GotoWith(t, "c_list", [my EXCEPT !.row = r])
           ELSE contextLock[x] = NoThread /\ NextContext(t, my) /\ UNCHANGED contextLock
      /\ UNCHANGED <<memoryVars, listVars, counterVars, cleanVars, storeLock, bucketLock, live>>
  BY DEF CleanLockContext
<1>2. /\ TypeOK /\ LocksOf(t) /\ my \in Locals /\ my.toDelete = <<>> /\ my.pos = 1 /\ t # NoThread
      /\ pc[t] \notin Engaged
  BY <1>1, ThreadFacts DEF Cursor, Engaged
<1>3. x \in Contexts /\ notfullchunks[x] \in [Ranges -> Seq(PoolAddresses)]
  BY <1>2 DEF Locals, TypeOK
<1>4. r \in Nat /\ (r \in Ranges => 1 \in 1 .. Len(notfullchunks[x][r]))
  BY <1>3, 1 \in Nat \ {0}, NextListFacts, Zenon
<1> HIDE DEF r
<1>5. CASE r \in Ranges
  <2> DEFINE locals == [my EXCEPT !.row = r]
  <2>1. LockContext(t, x) /\ GotoWith(t, "c_list", locals)
    BY <1>1, <1>5
  <2>2. /\ locals \in Locals /\ locals.row = r /\ locals.pos = 1 /\ locals.ctx = x
        /\ locals.toDelete = <<>>
    BY <1>2, <1>4 DEF Locals
  <2>3. "c_list" \in Places /\ "c_list" \notin Engaged \cup {"g_find"}
    BY DEF Places, HoldsContext, Engaged
  <2> HIDE DEF locals
  <2>4. pc'[t] = "c_list" /\ local'[t] = locals
    BY <1>2, <2>1, <2>2, <2>3, GotoWithFacts
  <2>5. LockTypes' /\ CounterTypes' /\ LocksStep(t)
    BY <1>1, <1>2, <2>1 DEF TypeOK, LockTypes, CounterTypes, LocksStep, LockContext, Owner,
         counterVars, cleanVars
  <2>6. LocksOf(t)'
    <3>1. \A y \in Contexts : contextLock'[y] = t <=> y = x
      BY <1>1, <1>2, <1>3, <2>1 DEF LocksOf, HoldsContext, LockContext, TypeOK
    <3> QED BY <1>1, <1>2, <2>2, <2>4, <3>1 DEF LocksOf, HoldsBucket, HoldsContext, HoldsStore,
              HoldsClean, cleanVars
  <2>7. Cursor(t)' /\ Hand(t)'
    BY <1>1, <1>4, <1>5, <2>2, <2>4 DEF Cursor, Hand, Listing, listVars
  <2> QED BY <1>1, <1>2, <2>1, <2>2, <2>3, <2>5, <2>6, <2>7, PlainFrame
<1>6. CASE r \notin Ranges
  <2>1. NextContext(t, my) /\ UNCHANGED contextLock
    BY <1>1, <1>6
  <2>2. PICK label \in {"c_context", "c_sweep"}, locals \in Locals :
          GotoWith(t, label, locals) /\ locals.pos = 1 /\ locals.toDelete = my.toDelete
    BY <1>2, <2>1, NextContextFacts
  <2>3. label \in Places /\ label \notin Engaged \cup {"g_find"}
    BY DEF Places, HoldsClean, Engaged
  <2>4. pc'[t] = label /\ local'[t] = locals
    BY <1>2, <2>2, <2>3, GotoWithFacts
  <2>5. LockTypes' /\ CounterTypes' /\ LocksStep(t)
    BY <1>1, <1>2, <2>1 DEF TypeOK, LockTypes, CounterTypes, LocksStep, counterVars, cleanVars
  <2>6. LocksOf(t)'
    BY <1>1, <1>2, <2>1, <2>4 DEF LocksOf, HoldsBucket, HoldsContext, HoldsStore, HoldsClean, cleanVars
  <2>7. Cursor(t)' /\ Hand(t)'
    BY <2>2, <2>4 DEF Cursor, Hand, Listing
  <2> QED BY <1>1, <1>2, <2>2, <2>3, <2>5, <2>6, <2>7, PlainFrame
<1> QED BY <1>5, <1>6

(* clean locks its store for one list of the context.                      *)
LEMMA CleanLockStoreStep ==
  ASSUME IndInv, NEW t \in Threads, CleanLockStore(t)
  PROVE  IndInv'
<1>1. /\ pc[t] = "c_list" /\ LockStore(t, local[t].fs) /\ Goto(t, "c_visit")
      /\ UNCHANGED <<memoryVars, listVars, counterVars, cleanVars, contextLock, bucketLock, live, local>>
  BY DEF CleanLockStore
<1>2. /\ TypeOK /\ LocksOf(t) /\ Cursor(t) /\ local[t] \in Locals /\ local[t].toDelete = <<>>
      /\ t # NoThread
  BY <1>1, ThreadFacts
<1>3. "c_visit" \in Places /\ pc[t] \notin Engaged /\ "c_visit" \notin Engaged \cup {"g_find"}
  BY <1>1 DEF Places, HoldsContext, Engaged
<1>4. GotoWith(t, "c_visit", local[t])
  BY <1>1, <1>2, GotoIsGotoWith
<1>5. pc'[t] = "c_visit" /\ local'[t] = local[t]
  BY <1>2, <1>3, <1>4, GotoWithFacts
<1>6. LockTypes' /\ CounterTypes' /\ LocksStep(t)
  BY <1>1, <1>2 DEF TypeOK, LockTypes, CounterTypes, LocksStep, LockStore, Owner, counterVars, cleanVars
<1>7. LocksOf(t)'
  <2>1. \A y \in Stores : storeLock'[y] = t <=> y = local[t].fs
    BY <1>1, <1>2 DEF LocksOf, HoldsStore, LockStore, TypeOK, Locals
  <2> QED BY <1>1, <1>2, <1>5, <2>1 DEF LocksOf, HoldsBucket, HoldsContext, HoldsStore,
            HoldsClean, cleanVars
<1>8. Cursor(t)' /\ Hand(t)'
  BY <1>1, <1>2, <1>5 DEF Cursor, Hand, Listing, listVars
<1> QED BY <1>1, <1>2, <1>3, <1>4, <1>6, <1>7, <1>8, PlainFrame

(* clean locks its store for the sweep, or finds all its lists empty.      *)
LEMMA CleanLockSweepStep ==
  ASSUME IndInv, NEW t \in Threads, CleanLockSweep(t)
  PROVE  IndInv'
<1> DEFINE my == local[t]
           r == NextList(freeStore[my.fs], 1)
           locals == IF r \in Ranges THEN [my EXCEPT !.row = r] ELSE my
           label == IF r \in Ranges THEN "c_look" ELSE "c_delete"
<1>1. /\ pc[t] = "c_sweep"
      /\ IF r \in Ranges
           THEN LockStore(t, my.fs) /\ GotoWith(t, "c_look", [my EXCEPT !.row = r])
           ELSE storeLock[my.fs] = NoThread /\ Goto(t, "c_delete") /\ UNCHANGED <<local, storeLock>>
      /\ UNCHANGED <<memoryVars, listVars, counterVars, cleanVars, contextLock, bucketLock, live>>
  BY DEF CleanLockSweep
<1>2. /\ TypeOK /\ LocksOf(t) /\ my \in Locals /\ my.toDelete = <<>> /\ my.pos = 1 /\ t # NoThread
      /\ pc[t] \notin Engaged
  BY <1>1, ThreadFacts DEF Cursor, Engaged
<1>3. my.fs \in Stores /\ freeStore[my.fs] \in [Ranges -> Seq(PoolAddresses)]
  BY <1>2 DEF Locals, TypeOK
<1>4. r \in Nat /\ (r \in Ranges => 1 \in 1 .. Len(freeStore[my.fs][r]))
  BY <1>3, 1 \in Nat \ {0}, NextListFacts, Zenon
<1>5. GotoWith(t, label, locals)
  BY <1>1, <1>2, GotoIsGotoWith
<1> HIDE DEF r
<1>6. /\ locals \in Locals /\ locals.pos = 1 /\ locals.fs = my.fs /\ locals.toDelete = <<>>
      /\ r \in Ranges => locals.row = r
  BY <1>2, <1>4 DEF Locals
<1>7. /\ label \in Places /\ label \notin Engaged \cup {"g_find"}
      /\ label = "c_look" \/ label = "c_delete"
      /\ label = "c_look" <=> r \in Ranges
  BY DEF Places, HoldsClean, Engaged
<1> HIDE DEF label, locals
<1>8. pc'[t] = label /\ local'[t] = locals
  BY <1>2, <1>5, <1>6, <1>7, GotoWithFacts
<1>9. LockTypes' /\ CounterTypes' /\ LocksStep(t)
  BY <1>1, <1>2 DEF TypeOK, LockTypes, CounterTypes, LocksStep, LockStore, Owner, counterVars, cleanVars
<1>10. LocksOf(t)'
  <2>1. \A y \in Stores : storeLock'[y] = t <=> r \in Ranges /\ y = my.fs
    BY <1>1, <1>2, <1>3 DEF LocksOf, HoldsStore, LockStore, TypeOK
  <2> QED BY <1>1, <1>2, <1>6, <1>7, <1>8, <2>1 DEF LocksOf, HoldsBucket, HoldsContext, HoldsStore,
            HoldsClean, cleanVars
<1>11. Cursor(t)' /\ Hand(t)'
  BY <1>1, <1>4, <1>6, <1>7, <1>8 DEF Cursor, Hand, Listing, listVars
<1> QED BY <1>1, <1>2, <1>5, <1>6, <1>7, <1>9, <1>10, <1>11, PlainFrame

(* The sweep goes on to a chunk of the store's lists, or ends.             *)
LEMMA SweepOnFacts ==
  ASSUME TypeOK, NEW t \in Threads, NEW my \in Locals, my.row \in Ranges,
         NEW next \in Nat \ {0}, NEW list, SweepOn(t, my, next, list), Len(list) \in Nat
  PROVE  \E label \in {"c_look", "c_delete"}, locals \in Locals :
           /\ GotoWith(t, label, locals)
           /\ locals.fs = my.fs /\ locals.toDelete = my.toDelete
           /\ label = "c_delete" => UnlockStore(my.fs)
           /\ label = "c_look" =>
                /\ UNCHANGED storeLock
                /\ \/ locals.row = my.row /\ locals.pos = next /\ next \in 1 .. Len(list)
                   \/ /\ locals.row \in Ranges /\ locals.row > my.row /\ locals.pos = 1
                      /\ 1 \in 1 .. Len(freeStore[my.fs][locals.row])
<1> DEFINE r == NextList(freeStore[my.fs], my.row + 1)
<1>1. freeStore[my.fs] \in [Ranges -> Seq(PoolAddresses)] /\ my.row \in Nat
  BY SizesAssumption DEF Locals, TypeOK, Ranges
<1>2. r \in Nat /\ (r \in Ranges => r > my.row /\ 1 \in 1 .. Len(freeStore[my.fs][r]))
  <2>1. my.row + 1 \in Nat \ {0}
    BY <1>1
  <2>2. r \in Nat /\ (r \in Ranges => r >= my.row + 1 /\ 1 \in 1 .. Len(freeStore[my.fs][r]))
    BY <1>1, <2>1, NextListFacts, Zenon
  <2> HIDE DEF r
  <2> QED BY <1>1, <2>2
<1>3. CASE next <= Len(list)
  <2> DEFINE locals == [my EXCEPT !.pos = next]
  <2>1. GotoWith(t, "c_look", locals) /\ UNCHANGED storeLock
    BY <1>3 DEF SweepOn
  <2>2. /\ locals \in Locals /\ locals.fs = my.fs /\ locals.toDelete = my.toDelete
        /\ locals.row = my.row /\ locals.pos = next
    BY DEF Locals
  <2> HIDE DEF locals
  <2> QED BY <1>3, <2>1, <2>2
<1>4. CASE ~ (next <= Len(list)) /\ r \in Ranges
  <2> DEFINE locals == [my EXCEPT !.row = r, !.pos = 1]
  <2>1. GotoWith(t, "c_look", locals) /\ UNCHANGED storeLock
    BY <1>4 DEF SweepOn
  <2>2. r \in Nat
    BY <1>2
  <2> HIDE DEF r
  <2>3. /\ locals \in Locals /\ locals.fs = my.fs /\ locals.toDelete = my.toDelete
        /\ locals.row = r /\ locals.pos = 1
    BY <2>2 DEF Locals
  <2> HIDE DEF locals
  <2> QED BY <1>2, <1>4, <2>1, <2>3
<1>5. CASE ~ (next <= Len(list)) /\ r \notin Ranges
  <2> DEFINE locals == [my EXCEPT !.row = 1, !.pos = 1]
  <2>1. GotoWith(t, "c_delete", locals) /\ UnlockStore(my.fs)
    BY <1>5 DEF SweepOn
  <2>2. locals \in Locals /\ locals.fs = my.fs /\ locals.toDelete = my.toDelete
    BY DEF Locals
  <2> HIDE DEF locals
  <2> QED BY <2>1, <2>2
<1> QED BY <1>3, <1>4, <1>5

(* clean's sweep looks at one chunk of a list of its store.                *)
LEMMA CleanLookStep ==
  ASSUME IndInv, NEW t \in Threads, CleanLook(t)
  PROVE  IndInv'
<1> DEFINE my == local[t]
           list == freeStore[my.fs][my.row]
           c == list[my.pos]
<1>1. /\ pc[t] = "c_look"
      /\ IF MayDelete(t, c)
           THEN /\ emptyBlocksSize' = Minus(emptyBlocksSize, memorysize[c])
                /\ Goto(t, "c_drop")
                /\ UNCHANGED <<local, storeLock>>
           ELSE SweepOn(t, my, my.pos + 1, list) /\ UNCHANGED emptyBlocksSize
      /\ UNCHANGED <<memoryVars, listVars, emptyBlocksCount, cleanVars, contextLock, bucketLock, live>>
  BY DEF CleanLook
<1>2. /\ TypeOK /\ LocksOf(t) /\ Cursor(t) /\ my \in Locals /\ t # NoThread /\ pc[t] \notin Engaged
      /\ my.row \in Ranges /\ my.pos \in 1 .. Len(list)
  BY <1>1, ThreadFacts DEF Cursor, Engaged
<1>3. my.fs \in Stores /\ list \in Seq(PoolAddresses) /\ c \in PoolAddresses /\ my.pos + 1 \in Nat \ {0}
  <2>1. my.fs \in Stores /\ list \in Seq(PoolAddresses)
    BY <1>2 DEF Locals, TypeOK
  <2>2. c \in PoolAddresses
    BY <1>2, <2>1, ElementOfSeq
  <2> QED BY <1>2, <2>1, <2>2
<1>4. \A y \in Stores : storeLock[y] = t <=> y = my.fs
  BY <1>1, <1>2 DEF LocksOf, HoldsStore
<1>5. CASE MayDelete(t, c)
  <2>1. "c_drop" \in Places /\ "c_drop" \notin Engaged \cup {"g_find"}
    BY DEF Places, HoldsStore, HoldsClean, Engaged
  <2>2. GotoWith(t, "c_drop", my) /\ UNCHANGED storeLock
    BY <1>1, <1>2, <1>5, GotoIsGotoWith
  <2>3. pc'[t] = "c_drop" /\ local'[t] = my
    BY <1>2, <2>1, <2>2, GotoWithFacts
  <2>4. emptyBlocksSize' \in 0 .. Word - 1
    <3>1. emptyBlocksSize \in Int /\ memorysize[c] \in Int
      BY <1>2, <1>3 DEF TypeOK
    <3> HIDE DEF c
    <3> QED BY <1>1, <1>5, <3>1, IndexTypes
  <2>5. LockTypes' /\ CounterTypes' /\ LocksStep(t)
    BY <1>1, <1>2, <2>2, <2>4 DEF TypeOK, LockTypes, CounterTypes, LocksStep, cleanVars
  <2>6. LocksOf(t)'
    BY <1>1, <1>2, <2>2, <2>3 DEF LocksOf, HoldsBucket, HoldsContext, HoldsStore, HoldsClean, cleanVars
  <2>7. Cursor(t)' /\ Hand(t)'
    BY <1>1, <1>2, <1>5, <2>3 DEF Cursor, Hand, Listing, MayDelete, empty, listVars, memoryVars
  <2> QED BY <1>1, <1>2, <2>1, <2>2, <2>5, <2>6, <2>7, PlainFrame
<1>6. CASE ~ MayDelete(t, c)
  <2>1. SweepOn(t, my, my.pos + 1, list) /\ UNCHANGED emptyBlocksSize
    BY <1>1, <1>6
  <2>2. PICK label \in {"c_look", "c_delete"}, locals \in Locals :
          /\ GotoWith(t, label, locals)
          /\ locals.fs = my.fs /\ locals.toDelete = my.toDelete
          /\ label = "c_delete" => UnlockStore(my.fs)
          /\ label = "c_look" =>
               /\ UNCHANGED storeLock
               /\ \/ locals.row = my.row /\ locals.pos = my.pos + 1 /\ my.pos + 1 \in 1 .. Len(list)
                  \/ /\ locals.row \in Ranges /\ locals.row > my.row /\ locals.pos = 1
                     /\ 1 \in 1 .. Len(freeStore[my.fs][locals.row])
    <3>1. Len(list) \in Nat
      BY <1>3
    <3> HIDE DEF my, list
    <3> QED BY <1>2, <1>3, <2>1, <3>1, SweepOnFacts
  <2>3. label \in Places /\ label \notin Engaged \cup {"g_find"}
    BY DEF Places, HoldsClean, Engaged
  <2>4. pc'[t] = label /\ local'[t] = locals
    BY <1>2, <2>2, <2>3, GotoWithFacts
  <2>5. LockTypes' /\ CounterTypes' /\ LocksStep(t)
    BY <1>1, <1>2, <1>4, <2>1, <2>2 DEF TypeOK, LockTypes, CounterTypes, LocksStep, UnlockStore, Owner,
         cleanVars
  <2>6. LocksOf(t)'
    <3>1. \A y \in Stores : storeLock'[y] = t <=> label = "c_look" /\ y = my.fs
      BY <1>2, <1>4, <2>2 DEF UnlockStore, TypeOK
    <3> QED BY <1>1, <1>2, <2>2, <2>4, <3>1 DEF LocksOf, HoldsBucket, HoldsContext, HoldsStore,
              HoldsClean, cleanVars
  <2>7. Cursor(t)' /\ Hand(t)'
    BY <1>1, <1>2, <2>2, <2>4 DEF Cursor, Hand, Listing, listVars
  <2> QED BY <1>1, <1>2, <2>2, <2>3, <2>5, <2>6, <2>7, PlainFrame
<1> QED BY <1>5, <1>6

-----------------------------------------------------------------------------
(* What several of these steps share.                                      *)

(* The parts of IndInv about t's place, what it holds and what it has.     *)
LEMMA InvFacts ==
  ASSUME IndInv
  PROVE  /\ TypeOK /\ ChunkInv /\ ListPlaceInv /\ ThreadPlaceInv /\ RoomInv
         /\ CursorInv /\ HandInv /\ BufferInv /\ SearchInv /\ LocksMatchCode
         /\ notfullchunks \in ListFamilies(Contexts) /\ freeStore \in ListFamilies(Stores)
         /\ Mapped \subseteq PoolAddresses /\ freelistNode \subseteq Mapped
         /\ Held(notfullchunks) \subseteq Mapped /\ Held(freeStore) \subseteq Mapped
         /\ \A c \in Mapped : chunkRange[c] \in Ranges /\ used[c] \subseteq Slots(c)
BY DEF IndInv, TypeOK, ListFamilies, Mapped, ListPlaceInv, Listed, ChunkInv, ChunkOK

(* The chunk in a thread's hand, or NULL, has a bucket.                    *)
LEMMA HandBucket ==
  ASSUME IndInv, NEW t \in Threads
  PROVE  getMemoryBucket(local[t].ch) \in Buckets
<1>1. local[t] \in Locals /\ PoolAddresses \subseteq Nat
  BY ThreadFacts, SizesAssumption
<1>2. local[t].ch \in PoolAddresses \cup {NULL}
  BY <1>1 DEF Locals
<1>3. local[t].ch \in Nat
  <2>1. local[t].ch \in PoolAddresses \/ local[t].ch = 0
    BY <1>2 DEF NULL
  <2>2. \A c \in PoolAddresses : c \in Nat
    BY SizesAssumption
  <2>3. 0 \in Nat
    OBVIOUS
  <2> QED BY <2>1, <2>2, <2>3, Zenon
<1> QED BY <1>3, IndexTypes, Zenon

(* Chunks that are neither created nor destroyed.                          *)
LEMMA ChunkFrame ==
  ASSUME IndInv, NEW t \in Threads, Others(t), UNCHANGED <<memory, chunkRange, memorysize>>,
         FreshBy(t) = {},
         \A c \in Mapped : used'[c] \subseteq Slots(c),
         \A c \in PoolAddresses \ Mapped : used'[c] = {}
  PROVE  ChunkInv' /\ Mapped' = Mapped
<1>1. Mapped' = Mapped
  BY DEF Mapped
<1>2. \A c : elSize(c)' = elSize(c) /\ Slots(c)' = Slots(c)
  BY DEF elSize, Slots
<1>3. \A u \in Threads : \A c \in FreshBy(u) : c \in FreshBy(u)'
  BY OthersKeep
<1>4. \A c \in Mapped : ChunkOK(c)'
  BY <1>2, <1>3 DEF IndInv, ChunkInv, ChunkOK
<1> QED BY <1>1, <1>2, <1>4 DEF IndInv, ChunkInv

(* No two threads are in the scope of one context's or one store's lock.   *)
LEMMA Alone ==
  ASSUME IndInv, NEW t \in Threads, NEW u \in Threads
  PROVE  /\ pc[t] \in HoldsContext /\ pc[u] \in HoldsContext /\ local[t].ctx = local[u].ctx => t = u
         /\ pc[t] \in HoldsStore /\ pc[u] \in HoldsStore /\ local[t].fs = local[u].fs => t = u
         /\ pc[t] \in HoldsStore => storeLock[local[t].fs] = t
<1>1. LocksOf(t) /\ LocksOf(u) /\ local[t].ctx \in Contexts /\ local[t].fs \in Stores
  BY ThreadFacts DEF Locals
<1> QED BY <1>1 DEF LocksOf

(* The loops of the other threads go on undisturbed: their lists are under *)
(* locks t does not have, and an empty chunk of a store stays empty.       *)
LEMMA OtherCursors ==
  ASSUME IndInv, NEW t \in Threads, Others(t),
         \A x \in Contexts : contextLock[x] \notin {NoThread, t} => notfullchunks'[x] = notfullchunks[x],
         \A x \in Stores : storeLock[x] \notin {NoThread, t} => freeStore'[x] = freeStore[x],
         \A c \in Held(freeStore) : empty(c) => empty(c)'
  PROVE  \A u \in Threads : u # t => Cursor(u)'
<1> SUFFICES ASSUME NEW u \in Threads, u # t PROVE Cursor(u)'
  OBVIOUS
<1> DEFINE my == local[u]
<1>1. /\ Cursor(u) /\ LocksOf(u) /\ u # NoThread /\ my.ctx \in Contexts /\ my.fs \in Stores
      /\ freeStore \in ListFamilies(Stores)
  BY ThreadFacts, InvFacts DEF Locals
<1>2. pc'[u] = pc[u] /\ local'[u] = my
  BY DEF Others
<1>3. pc[u] \in {"c_list", "c_visit"} => notfullchunks'[my.ctx] = notfullchunks[my.ctx]
  BY <1>1 DEF LocksOf, HoldsContext
<1>4. pc[u] \in {"c_look", "c_drop"} => freeStore'[my.fs] = freeStore[my.fs]
  BY <1>1 DEF LocksOf, HoldsStore
<1>5. pc[u] = "c_drop" => empty(freeStore[my.fs][my.row][my.pos])'
  <2> SUFFICES ASSUME pc[u] = "c_drop" PROVE empty(freeStore[my.fs][my.row][my.pos])'
    OBVIOUS
  <2>1. /\ my.row \in Ranges /\ my.pos \in 1 .. Len(freeStore[my.fs][my.row])
        /\ empty(freeStore[my.fs][my.row][my.pos])
    BY <1>1 DEF Cursor
  <2>2. freeStore[my.fs][my.row][my.pos] \in Held(freeStore)
    <3>1. freeStore[my.fs][my.row] \in Seq(PoolAddresses)
      BY <1>1, <2>1 DEF ListFamilies
    <3>2. freeStore[my.fs][my.row][my.pos] \in ToSet(freeStore[my.fs][my.row])
      BY <2>1, <3>1, ToSetFacts
    <3> QED BY <1>1, <2>1, <3>2, HeldIn
  <2> QED BY <1>2, <1>4, <2>1, <2>2 DEF empty
<1> QED BY <1>1, <1>2, <1>3, <1>4, <1>5 DEF Cursor

-----------------------------------------------------------------------------
(* alloc takes a chunk from a store's list.                                *)

(* alloc splices a chunk of its store's list to templist.                  *)
LEMMA AllocFromStoreStep ==
  ASSUME IndInv, NEW t \in Threads, AllocFromStore(t),
         freeStore[local[t].fs][getSizeRange(local[t].size)] # <<>>
  PROVE  IndInv'
<1> DEFINE my == local[t]
           row == getSizeRange(my.size)
           list == freeStore[my.fs][row]
           best == BestIndex(list, my.size)
           c == list[best]
           locals == [my EXCEPT !.ch = c]
<1>1. /\ pc[t] = "a_store" /\ storeLock[my.fs] = NoThread
      /\ GotoWith(t, "a_spliced", locals)
      /\ freeStore' = TakeOut(freeStore, my.fs, row, best)
      /\ UNCHANGED <<memoryVars, notfullchunks, freelistNode, counterVars, cleanVars, lockVars, live>>
  BY DEF AllocFromStore
<1>2. /\ TypeOK /\ LocksOf(t) /\ my \in Locals /\ my.toDelete = <<>> /\ t # NoThread
      /\ ListPlaceInv /\ ThreadPlaceInv /\ RoomInv /\ CursorInv /\ HandInv
      /\ freeStore \in ListFamilies(Stores) /\ Once(freeStore)
  BY <1>1, ThreadFacts, InvFacts DEF ListPlaceInv
<1>3. my.fs \in Stores /\ row \in Ranges /\ list \in Seq(PoolAddresses)
  BY <1>2, SizeRangeType DEF Locals, TypeOK
<1>4. best \in 1 .. Len(list)
  BY <1>3, BestIndexFacts, Zenon
<1> HIDE DEF best
<1>5. Taken(Stores, freeStore, freeStore', my.fs, row, best, c)
  <2>1. my.fs \in Stores /\ row \in Ranges /\ best \in 1 .. Len(freeStore[my.fs][row])
    BY <1>3, <1>4
  <2>2. Taken(Stores, freeStore, TakeOut(freeStore, my.fs, row, best), my.fs, row, best,
              freeStore[my.fs][row][best])
    BY <1>2, <2>1, TakeOutFacts, Zenon
  <2> QED BY <1>1, <2>2
<1>5a. /\ c \in PoolAddresses /\ c \in ToSet(list) /\ c \in Held(freeStore)
       /\ freeStore' \in ListFamilies(Stores)
       /\ \A y \in Stores, q \in Ranges : ~ (y = my.fs /\ q = row) => freeStore'[y][q] = freeStore[y][q]
       /\ \A y \in Stores, q \in Ranges : ToSet(freeStore'[y][q]) = ToSet(freeStore[y][q]) \ {c}
       /\ Held(freeStore') = Held(freeStore) \ {c}
       /\ Once(freeStore')
  BY <1>5 DEF Taken
<1>6. chunkRange[c] = row /\ ~ full(c) /\ c \in Mapped /\ c \in Listed /\ c \notin freelistNode
      /\ c \notin Held(notfullchunks)
  <2>1. DOMAIN freeStore = Stores
    BY <1>2 DEF ListFamilies
  <2> QED BY <1>2, <1>3, <1>5a, <2>1 DEF RoomInv, OfTheirRow, Listed, ListPlaceInv
<1> HIDE DEF c, list, row
<1>7. /\ locals \in Locals /\ locals.ch = c /\ locals.size = my.size /\ locals.ctx = my.ctx
      /\ locals.toDelete = <<>>
  <2>1. my \in Locals /\ my.toDelete = <<>> /\ c \in PoolAddresses
    BY <1>2, <1>5a
  <2> QED BY <2>1 DEF Locals
<1>8. "a_spliced" \in Places
  BY DEF Places, HoldsContext
<1> HIDE DEF locals
<1>9. /\ pc' \in [Threads -> Places] /\ local' \in [Threads -> Locals]
      /\ pc'[t] = "a_spliced" /\ local'[t] = locals /\ Others(t)
  BY <1>1, <1>2, <1>7, <1>8, GotoWithFacts
<1>10. UNCHANGED <<memory, chunkRange, memorysize, used, notfullchunks, freelistNode, contextLock, storeLock,
                   bucketLock, cleanMutex>>
  BY <1>1 DEF memoryVars, lockVars, cleanVars
<1>11. TypeOK'
  BY <1>1, <1>2, <1>5a, <1>9, <1>10 DEF TypeOK, ListFamilies, counterVars, cleanVars
<1>12. LocksMatchCode'
  <2>1. LocksStep(t) /\ LocksOf(t)'
    BY <1>1, <1>2, <1>7, <1>9, <1>10 DEF LocksStep, LocksOf, HoldsBucket, HoldsContext, HoldsStore, HoldsClean
  <2> QED BY <1>9, <2>1, LocksFrame, InvFacts
<1>13. ChunkInv' /\ Mapped' = Mapped
  <2>1. FreshBy(t) = {}
    BY <1>1 DEF FreshBy
  <2>2. /\ \A d \in Mapped : used'[d] \subseteq Slots(d)
        /\ \A d \in PoolAddresses \ Mapped : used'[d] = {}
    BY <1>10, InvFacts DEF ChunkInv
  <2> QED BY <1>9, <1>10, <2>1, <2>2, ChunkFrame
<1>14. /\ \A d : full(d)' = full(d) /\ empty(d)' = empty(d)
       /\ Listed' = Listed \ {c} /\ Held(notfullchunks)' = Held(notfullchunks)
       /\ Held(freeStore)' = Held(freeStore) \ {c}
  BY <1>5a, <1>6, <1>10 DEF full, empty, Slots, Listed, Held
<1>15. /\ SplicedBy(t) = {} /\ SplicedBy(t)' = {c}
       /\ \A u \in Threads : u # t => SplicedBy(u)' = SplicedBy(u)
       /\ \A u \in Threads : local'[u].toDelete = local[u].toDelete /\ DoomedBy(u)' = DoomedBy(u)
       /\ \A u \in Threads : \A d : (u \in Listing(d))' <=> u \in Listing(d)
  BY <1>1, <1>2, <1>5a, <1>7, <1>9, OthersKeep DEF SplicedBy, DoomedBy, Listing, Others
<1>16. ListPlaceInv'
  BY <1>2, <1>5a, <1>10, <1>13, <1>14, ZenonT(40) DEF ListPlaceInv, Once
<1>17. ThreadPlaceInv'
  <2>1. \A u \in Threads : /\ SplicedBy(u)' \cup DoomedBy(u)' \subseteq Mapped \ (freelistNode \cup Listed')
                           /\ IsInjective(local'[u].toDelete)
                           /\ local'[u].toDelete # <<>> => pc'[u] \in {"c_look", "c_drop", "c_delete"}
    BY <1>2, <1>6, <1>9, <1>14, <1>15 DEF ThreadPlaceInv, Others
  <2>2. /\ \A u, v \in Threads : DoomedBy(u)' \cap SplicedBy(v)' = {}
        /\ \A u, v \in Threads : u # v => SplicedBy(u)' \cap SplicedBy(v)' = {}
    BY <1>2, <1>6, <1>15 DEF ThreadPlaceInv
  <2>3. \A d \in Mapped : d \in freelistNode \cup Listed' \/ \E u \in Threads : d \in SplicedBy(u)' \cup DoomedBy(u)'
    BY <1>2, <1>14, <1>15 DEF ThreadPlaceInv
  <2> QED BY <1>10, <1>13, <2>1, <2>2, <2>3 DEF ThreadPlaceInv
<1>18. RoomInv'
  <2>1. OfTheirRow(notfullchunks)' /\ OfTheirRow(freeStore)'
    <3>1. DOMAIN freeStore = Stores /\ DOMAIN freeStore' = Stores
      BY <1>2, <1>5a DEF ListFamilies
    <3> QED BY <1>2, <1>5a, <1>10, <3>1 DEF RoomInv, OfTheirRow
  <2> QED BY <1>2, <1>10, <1>14, <1>15, <2>1 DEF RoomInv
<1>19. CursorInv'
  <2>1. Cursor(t)'
    BY <1>9 DEF Cursor
  <2>2. ASSUME NEW u \in Threads, u # t PROVE Cursor(u)'
    <3>1. Cursor(u) /\ pc'[u] = pc[u] /\ local'[u] = local[u]
      BY <1>2, <1>9, <2>2 DEF CursorInv, Others
    <3>2. pc[u] \in {"c_look", "c_drop"} => freeStore'[local[u].fs][local[u].row] = freeStore[local[u].fs][local[u].row]
      <4>1. pc[u] \in {"c_look", "c_drop"} => local[u].fs # my.fs
        BY <1>1, Alone, ThreadFacts DEF HoldsStore
      <4> QED BY <1>3, <1>5a, <3>1, <4>1, ThreadFacts DEF Cursor, Locals
    <3> QED BY <1>10, <1>14, <3>1, <3>2 DEF Cursor
  <2> QED BY <2>1, <2>2 DEF CursorInv
<1>20. HandInv'
  <2>1. Hand(t)'
    BY <1>6, <1>7, <1>9, <1>10, <1>13, <1>14 DEF Hand, Listing, row
  <2>2. ASSUME NEW u \in Threads, u # t PROVE Hand(u)'
    <3>1. Hand(u) /\ pc'[u] = pc[u] /\ local'[u] = local[u]
      BY <1>2, <1>9, <2>2 DEF HandInv, Others
    <3> QED BY <1>10, <1>13, <1>14, <1>15, <3>1 DEF Hand
  <2> QED BY <1>2, <1>15, <2>1, <2>2 DEF HandInv
<1>21. BufferInv' /\ SearchInv'
  BY <1>1, <1>9, BuffersFrame
<1> QED BY <1>11, <1>12, <1>13, <1>16, <1>17, <1>18, <1>19, <1>20, <1>21 DEF IndInv

-----------------------------------------------------------------------------
(* alloc takes a slot of the chunk it has chosen.                          *)

(* The chunk alloc has chosen has room, and no other thread has it in its  *)
(* hand.                                                                   *)
LEMMA ChunkInHand ==
  ASSUME IndInv, NEW t \in Threads, pc[t] \in {"a_listed", "a_spliced", "a_fresh"},
         NEW c, c = local[t].ch
  PROVE  /\ c \in Mapped /\ c \in PoolAddresses /\ ~ full(c)
         /\ chunkRange[c] = getSizeRange(local[t].size) /\ chunkRange[c] \in Ranges
         /\ c \notin Held(freeStore)
         /\ \A u \in Threads : /\ c \notin DoomedBy(u)
                               /\ u # t => c \notin SplicedBy(u) /\ c \notin FreshBy(u) /\ u \notin Listing(c)
         /\ pc[t] # "a_fresh" => c \in memory[getMemoryBucket(c)] /\ \A u \in Threads : c \notin FreshBy(u)
<1>1. /\ TypeOK /\ Hand(t) /\ LocksOf(t) /\ local[t] \in Locals
      /\ ChunkInv /\ ListPlaceInv /\ ThreadPlaceInv /\ RoomInv /\ HandInv
      /\ notfullchunks \in ListFamilies(Contexts) /\ Mapped \subseteq PoolAddresses
  BY ThreadFacts, InvFacts
<1> DEFINE row == getSizeRange(local[t].size)
           list == notfullchunks[local[t].ctx][row]
<1>2. local[t].ctx \in Contexts /\ row \in Ranges /\ list \in Seq(PoolAddresses)
  BY <1>1, SizeRangeType DEF Locals, ListFamilies
<1> HIDE DEF row
<1>3. \A d : (\E u \in Threads : d \in FreshBy(u)) => d \in freelistNode /\ d \notin memory[getMemoryBucket(d)]
  <2> SUFFICES ASSUME NEW d, NEW u \in Threads, d \in FreshBy(u)
               PROVE  d \in freelistNode /\ d \notin memory[getMemoryBucket(d)]
    OBVIOUS
  <2>1. d \in PoolAddresses /\ Hand(u) /\ pc[u] = "a_fresh" /\ local[u].ch = d
    BY ThreadFacts DEF FreshBy
  <2>2. getMemoryBucket(d) \in Buckets
    BY <2>1, IndexTypes, SizesAssumption
  <2> QED BY <2>1, <2>2 DEF Hand
<1>4. \A d, u : u \in Listing(d) /\ d \in PoolAddresses => d \in freelistNode
  BY <1>1 DEF HandInv, Hand, Listing
<1>5. CASE pc[t] = "a_listed"
  <2>1. list # <<>> /\ c = Head(list)
    BY <1>1, <1>5 DEF Hand, row
  <2>2. c \in ToSet(list)
    BY <1>2, <2>1, HeadTailFacts
  <2>3. c \in Held(notfullchunks)
    BY <1>1, <1>2, <2>2, HeldIn
  <2>4. chunkRange[c] = row
    <3>1. DOMAIN notfullchunks = Contexts
      BY <1>1 DEF ListFamilies
    <3> QED BY <1>1, <1>2, <2>2, <3>1 DEF RoomInv, OfTheirRow
  <2>5. /\ c \in Mapped /\ ~ full(c) /\ c \notin Held(freeStore) /\ c \notin freelistNode /\ c \in Listed
    BY <1>1, <2>3 DEF ListPlaceInv, RoomInv, Listed
  <2>6. \A u \in Threads : c \notin DoomedBy(u) /\ c \notin SplicedBy(u) /\ c \notin FreshBy(u) /\ u \notin Listing(c)
    BY <1>1, <1>3, <1>4, <2>5 DEF ThreadPlaceInv
  <2> QED BY <1>1, <1>2, <2>4, <2>5, <2>6 DEF ChunkInv, ChunkOK, row
<1>6. CASE pc[t] = "a_spliced"
  <2>1. c \in Mapped /\ chunkRange[c] = row /\ ~ full(c) /\ c \in SplicedBy(t)
    BY <1>1, <1>6 DEF Hand, row, SplicedBy
  <2>2. c \notin freelistNode /\ c \notin Listed
    BY <1>1, <2>1 DEF ThreadPlaceInv
  <2>3. \A u \in Threads : c \notin DoomedBy(u) /\ c \notin FreshBy(u) /\ u \notin Listing(c)
    BY <1>1, <1>3, <1>4, <2>1, <2>2 DEF ThreadPlaceInv
  <2>4. \A u \in Threads : u # t => c \notin SplicedBy(u)
    BY <1>1, <2>1 DEF ThreadPlaceInv
  <2> QED BY <1>1, <1>2, <2>1, <2>2, <2>3, <2>4 DEF ChunkInv, ChunkOK, row, Listed
<1>7. CASE pc[t] = "a_fresh"
  <2>1. c \in Mapped /\ chunkRange[c] = row /\ ~ full(c) /\ c \in freelistNode /\ t \in Listing(c)
    BY <1>1, <1>7 DEF Hand, row, Listing
  <2>2. c \notin Listed /\ \A u \in Threads : c \notin DoomedBy(u) /\ c \notin SplicedBy(u)
    BY <1>1, <2>1 DEF ListPlaceInv, ThreadPlaceInv
  <2>3. \A u \in Threads : u # t => u \notin Listing(c)
    BY <1>1, <2>1 DEF HandInv
  <2>4. \A u \in Threads : u # t => c \notin FreshBy(u)
    BY <2>3 DEF FreshBy, Listing
  <2> QED BY <1>1, <1>2, <1>7, <2>1, <2>2, <2>3, <2>4 DEF row, Listed
<1> QED BY <1>5, <1>6, <1>7

(* The slot it takes is one nobody has.                                    *)
LEMMA SlotTaken ==
  ASSUME IndInv, NEW c \in Mapped, ~ full(c), UNCHANGED <<chunkRange, memorysize>>,
         used' = [used EXCEPT ![c] = @ \cup {AllocIndex(c)}],
         NEW p, p = ElementAddress(c, AllocIndex(c))
  PROVE  /\ p \in Nat /\ p \notin UsedAddresses /\ UsedAddresses' = UsedAddresses \cup {p}
         /\ Mapped' = Mapped
         /\ used' \in [PoolAddresses -> SUBSET Nat] /\ \A d : d # c => used'[d] = used[d]
         /\ used'[c] = used[c] \cup {AllocIndex(c)} /\ used'[c] \subseteq Slots(c) /\ used'[c] # {}
         /\ \A d : elSize(d)' = elSize(d) /\ Slots(d)' = Slots(d)
<1>1. /\ TypeOK /\ ChunkInv /\ c \in PoolAddresses /\ used[c] \subseteq Slots(c)
  BY InvFacts
<1>2. PICK i : i = AllocIndex(c) /\ i \in Slots(c) \ used[c] /\ i \in Nat
  BY <1>1, AllocIndexFacts
<1>3. Mapped' = Mapped /\ \A d : elSize(d)' = elSize(d) /\ Slots(d)' = Slots(d)
  BY DEF Mapped, elSize, Slots
<1>4. p \in Nat
  BY <1>1, <1>2, ElementFacts
<1>5. /\ used' \in [PoolAddresses -> SUBSET Nat] /\ \A d : d # c => used'[d] = used[d]
      /\ used'[c] = used[c] \cup {i} /\ used'[c] \subseteq Slots(c) /\ used'[c] # {}
  <2>1. used \in [PoolAddresses -> SUBSET Nat] /\ used' = [used EXCEPT ![c] = @ \cup {i}]
    BY <1>1, <1>2 DEF TypeOK
  <2> QED BY <1>1, <1>2, <2>1
<1>6. p \notin UsedAddresses
  <2> SUFFICES ASSUME p \in UsedAddresses PROVE FALSE
    OBVIOUS
  <2>1. PICK d \in Mapped : \E j \in used[d] : p = ElementAddress(d, j)
    BY DEF UsedAddresses
  <2>2. PICK j \in used[d] : p = ElementAddress(d, j)
    BY <2>1
  <2>3. j \in Slots(d)
    BY <2>1, InvFacts
  <2>4. c = d /\ i = j
    <3>1. ElementAddress(c, i) = ElementAddress(d, j) /\ i \in Slots(c)
      BY <1>2, <2>2
    <3> QED BY <2>1, <2>3, <3>1, AddressFacts, Zenon
  <2> QED BY <1>2, <2>2, <2>4
<1>7. UsedAddresses' = UsedAddresses \cup {p}
  <2>1. \A d, j : ElementAddress(d, j)' = ElementAddress(d, j)
    BY <1>3 DEF ElementAddress
  <2>2. \A d \in Mapped : used'[d] = used[d] \cup {j \in {i} : d = c}
    BY <1>5
  <2>3. ASSUME NEW q \in UsedAddresses' PROVE q \in UsedAddresses \cup {p}
    <3>1. PICK d \in Mapped : \E j \in used'[d] : q = ElementAddress(d, j)
      BY <1>3, <2>1 DEF UsedAddresses
    <3>2. PICK j \in used'[d] : q = ElementAddress(d, j)
      BY <3>1
    <3> QED BY <1>2, <2>2, <3>1, <3>2 DEF UsedAddresses
  <2>4. ASSUME NEW q \in UsedAddresses PROVE q \in UsedAddresses'
    <3>1. PICK d \in Mapped : \E j \in used[d] : q = ElementAddress(d, j)
      BY DEF UsedAddresses
    <3>2. PICK j \in used[d] : q = ElementAddress(d, j)
      BY <3>1
    <3> QED BY <1>3, <2>1, <2>2, <3>1, <3>2 DEF UsedAddresses
  <2>5. p \in UsedAddresses'
    <3>1. i \in used'[c] /\ p = ElementAddress(c, i)'
      BY <1>2, <1>5, <2>1
    <3> QED BY <1>3, <3>1 DEF UsedAddresses
  <2> QED BY <2>3, <2>4, <2>5
<1> QED BY <1>2, <1>3, <1>4, <1>5, <1>6, <1>7

(* Its address goes to the caller, or with the thread that has still to    *)
(* count the chunk.                                                        *)
LEMMA AllocBuffers ==
  ASSUME IndInv, NEW t \in Threads, pc[t] \in {"a_listed", "a_spliced", "a_fresh"}, Others(t),
         NEW p, p \notin UsedAddresses, UsedAddresses' = UsedAddresses \cup {p},
         Mapped' = Mapped, UNCHANGED memorysize,
         \A b \in Buckets : memory[b] \subseteq memory'[b],
         \/ HandOut(t, p) /\ pc'[t] = "idle"
         \/ UNCHANGED live /\ pc'[t] = "a_count" /\ local'[t].ptr = p
  PROVE  BufferInv' /\ SearchInv'
<1>1. BufferInv /\ SearchInv /\ TypeOK
  BY InvFacts
<1>2. t \notin InFlight /\ (\A u \in InFlight : u # t /\ u \in Threads /\ local'[u].ptr = local[u].ptr)
      /\ \A a \in live : a.ptr # p
      /\ \A u \in InFlight : local[u].ptr # p
  BY <1>1 DEF InFlight, Others, BufferInv
<1>3. BufferInv'
  <2>1. CASE HandOut(t, p) /\ pc'[t] = "idle"
    <3> DEFINE a == [ptr |-> p, size |-> local[t].size]
    <3>1. live' = live \cup {a} /\ a.ptr = p
      BY <2>1 DEF HandOut
    <3>2. InFlight' = InFlight
      BY <1>2, <2>1 DEF InFlight, Others
    <3> HIDE DEF a
    <3>3. \A q \in UsedAddresses' : \/ \E b \in live' : b.ptr = q
                                    \/ \E u \in InFlight' : local'[u].ptr = q
      BY <1>1, <1>2, <3>1, <3>2 DEF BufferInv
    <3>4. (\A b \in live' : b.ptr \in UsedAddresses') /\ (\A u \in InFlight' : local'[u].ptr \in UsedAddresses')
      BY <1>1, <1>2, <3>1, <3>2 DEF BufferInv
    <3>5. \A b, d \in live' : b.ptr = d.ptr => b = d
      BY <1>1, <1>2, <3>1 DEF BufferInv
    <3>6. (\A u \in InFlight' : \A b \in live' : local'[u].ptr # b.ptr)
          /\ \A u, v \in InFlight' : local'[u].ptr = local'[v].ptr => u = v
      BY <1>1, <1>2, <3>1, <3>2 DEF BufferInv
    <3> QED BY <3>3, <3>4, <3>5, <3>6 DEF BufferInv
  <2>2. CASE UNCHANGED live /\ pc'[t] = "a_count" /\ local'[t].ptr = p
    <3>1. InFlight' = InFlight \cup {t}
      BY <1>2, <2>2 DEF InFlight, Others
    <3>2. \A q \in UsedAddresses' : \/ \E b \in live' : b.ptr = q
                                    \/ \E u \in InFlight' : local'[u].ptr = q
      BY <1>1, <1>2, <2>2, <3>1 DEF BufferInv
    <3>3. (\A b \in live' : b.ptr \in UsedAddresses') /\ (\A u \in InFlight' : local'[u].ptr \in UsedAddresses')
      BY <1>1, <1>2, <2>2, <3>1 DEF BufferInv
    <3>4. (\A u \in InFlight' : \A b \in live' : local'[u].ptr # b.ptr)
          /\ \A u, v \in InFlight' : local'[u].ptr = local'[v].ptr => u = v
      BY <1>1, <1>2, <2>2, <3>1 DEF BufferInv
    <3> QED BY <1>1, <2>2, <3>2, <3>3, <3>4 DEF BufferInv
  <2> QED BY <2>1, <2>2
<1>4. SearchInv'
  <2>1. live \subseteq live'
    BY DEF HandOut
  <2>2. \A u \in Threads : pc'[u] \in {"d_find", "g_find"} => pc'[u] = pc[u] /\ local'[u] = local[u]
    BY DEF Others
  <2>3. \A c \in Mapped : c \in memory[getMemoryBucket(c)] => c \in memory'[getMemoryBucket(c)]
    BY IndexTypes, InvFacts, SizesAssumption
  <2>4. SearchCannotFail'
    BY <1>1, <2>2, <2>3 DEF SearchInv, SearchCannotFail, Covers
  <2> QED BY <1>1, <2>1, <2>2, <2>4 DEF SearchInv
<1> QED BY <1>3, <1>4

(* The chunk ends in its own list or in the context's, by whether it is    *)
(* full; no other chunk moves.                                             *)
LEMMA AllocPlaces ==
  ASSUME IndInv, NEW t \in Threads, pc[t] \in {"a_listed", "a_spliced", "a_fresh"}, Others(t),
         NEW c, c = local[t].ch,
         pc'[t] \in {"idle", "a_count"}, local'[t].toDelete = <<>>, Hand(t)',
         UNCHANGED <<chunkRange, memorysize, freeStore>>, Mapped' = Mapped,
         \A d : d # c => used'[d] = used[d], used'[c] # {},
         \A b \in Buckets : /\ memory[b] \subseteq memory'[b] /\ memory'[b] \subseteq memory[b] \cup {c}
                            /\ pc[t] # "a_fresh" => memory'[b] = memory[b],
         Once(notfullchunks'), OfTheirRow(notfullchunks)',
         \A x \in Contexts : x # local[t].ctx => notfullchunks'[x] = notfullchunks[x],
         Held(notfullchunks') \cup {c} = Held(notfullchunks) \cup {c},
         freelistNode' \cup {c} = freelistNode \cup {c},
         IF full(c)' THEN c \in freelistNode' /\ c \notin Held(notfullchunks')
                     ELSE c \in Held(notfullchunks') /\ c \notin freelistNode'
  PROVE  ListPlaceInv' /\ ThreadPlaceInv' /\ RoomInv' /\ CursorInv' /\ HandInv'
<1>1. /\ TypeOK /\ Hand(t) /\ LocksOf(t) /\ t # NoThread /\ local[t].toDelete = <<>>
      /\ ChunkInv /\ ListPlaceInv /\ ThreadPlaceInv /\ RoomInv /\ HandInv
      /\ Mapped \subseteq PoolAddresses /\ freelistNode \subseteq Mapped
      /\ Held(notfullchunks) \subseteq Mapped /\ Held(freeStore) \subseteq Mapped
  BY ThreadFacts, InvFacts
<1>2. /\ c \in Mapped /\ c \in PoolAddresses /\ ~ full(c) /\ c \notin Held(freeStore)
      /\ \A u \in Threads : /\ c \notin DoomedBy(u)
                            /\ u # t => c \notin SplicedBy(u) /\ c \notin FreshBy(u) /\ u \notin Listing(c)
      /\ pc[t] # "a_fresh" => \A u \in Threads : c \notin FreshBy(u)
  BY ChunkInHand
<1>3. /\ \A d : d # c => (full(d)' <=> full(d)) /\ (empty(d)' <=> empty(d))
      /\ ~ empty(c)'
      /\ Held(freeStore)' = Held(freeStore)
      /\ Listed' \cup {c} = Listed \cup {c}
  BY DEF full, empty, Slots, Listed, Held
<1>4. /\ SplicedBy(t)' = {} /\ SplicedBy(t) \subseteq {c} /\ DoomedBy(t) = {} /\ DoomedBy(t)' = {}
      /\ \A u \in Threads : u # t => /\ SplicedBy(u)' = SplicedBy(u) /\ DoomedBy(u)' = DoomedBy(u)
                                     /\ \A d : (u \in Listing(d))' <=> u \in Listing(d)
      /\ \A d : t \notin Listing(d)' /\ (d # c => t \notin Listing(d))
  <2>1. ToSet(local[t].toDelete) = {} /\ ToSet(local'[t].toDelete) = {}
    BY <1>1, ToSetFacts, EmptySeq
  <2>2. \A d : t \notin Listing(d)' /\ (d # c => t \notin Listing(d))
    BY DEF Listing
  <2>3. SplicedBy(t)' = {} /\ SplicedBy(t) \subseteq {c}
    BY DEF SplicedBy
  <2> QED BY <2>1, <2>2, <2>3, OthersKeep DEF DoomedBy
<1>5. ListPlaceInv'
  <2>1. Once(notfullchunks)' /\ Once(freeStore)'
    <3>1. Once(freeStore) /\ freeStore' = freeStore
      BY <1>1 DEF ListPlaceInv
    <3> QED BY <3>1
  <2>2. Held(notfullchunks)' \cap Held(freeStore)' = {} /\ Held(notfullchunks)' \subseteq Mapped
    BY <1>1, <1>2, <1>3 DEF ListPlaceInv, Held
  <2>3. freelistNode' \subseteq Mapped /\ freelistNode' \cap Listed' = {}
    BY <1>1, <1>2, <1>3, <2>2 DEF ListPlaceInv, Listed
  <2> QED BY <1>1, <1>3, <2>1, <2>2, <2>3 DEF ListPlaceInv, Listed
<1>6. ThreadPlaceInv'
  <2>1. \A u \in Threads : /\ SplicedBy(u)' \cup DoomedBy(u)' \subseteq Mapped \ (freelistNode' \cup Listed')
                           /\ IsInjective(local'[u].toDelete)
                           /\ local'[u].toDelete # <<>> => pc'[u] \in {"c_look", "c_drop", "c_delete"}
    <3> SUFFICES ASSUME NEW u \in Threads
                 PROVE  /\ SplicedBy(u)' \cup DoomedBy(u)' \subseteq Mapped \ (freelistNode' \cup Listed')
                        /\ IsInjective(local'[u].toDelete)
                        /\ local'[u].toDelete # <<>> => pc'[u] \in {"c_look", "c_drop", "c_delete"}
      OBVIOUS
    <3>1. CASE u = t
      BY <1>1, <1>4, <3>1 DEF ThreadPlaceInv
    <3>2. CASE u # t
      BY <1>1, <1>2, <1>3, <1>4, <3>2 DEF ThreadPlaceInv, Others
    <3> QED BY <3>1, <3>2
  <2>2. /\ \A u, v \in Threads : DoomedBy(u)' \cap SplicedBy(v)' = {}
        /\ \A u, v \in Threads : u # v => SplicedBy(u)' \cap SplicedBy(v)' = {}
    BY <1>1, <1>4 DEF ThreadPlaceInv
  <2>3. \A d \in Mapped : d \in freelistNode' \cup Listed' \/ \E u \in Threads : d \in SplicedBy(u)' \cup DoomedBy(u)'
    <3> SUFFICES ASSUME NEW d \in Mapped, d # c
                 PROVE  d \in freelistNode' \cup Listed' \/ \E u \in Threads : d \in SplicedBy(u)' \cup DoomedBy(u)'
      BY DEF Listed
    <3>1. CASE d \in freelistNode \cup Listed
      BY <1>3, <3>1
    <3>2. ASSUME NEW u \in Threads, d \in SplicedBy(u) \cup DoomedBy(u)
          PROVE  d \in SplicedBy(u)' \cup DoomedBy(u)'
      BY <1>4, <3>2
    <3> QED BY <1>1, <3>1, <3>2 DEF ThreadPlaceInv
  <2> QED BY <2>1, <2>2, <2>3 DEF ThreadPlaceInv
<1>7. RoomInv'
  <2>1. \A d \in Listed' : ~ full(d)'
    BY <1>1, <1>2, <1>3 DEF RoomInv, Listed
  <2>2. OfTheirRow(freeStore)'
    BY <1>1 DEF RoomInv, OfTheirRow
  <2>3. \A d \in freelistNode' : full(d)' \/ \E u \in Threads : u \in Listing(d)'
    <3> SUFFICES ASSUME NEW d \in freelistNode', d # c
                 PROVE  full(d)' \/ \E u \in Threads : u \in Listing(d)'
      OBVIOUS
    <3>1. full(d) \/ \E u \in Threads : u \in Listing(d)
      BY <1>1 DEF RoomInv
    <3>2. \A u \in Threads : u \in Listing(d) => u \in Listing(d)'
      BY <1>4
    <3> QED BY <1>3, <3>1, <3>2
  <2>4. \A u \in Threads : \A d \in DoomedBy(u)' : empty(d)'
    BY <1>1, <1>2, <1>3, <1>4 DEF RoomInv
  <2> QED BY <2>1, <2>2, <2>3, <2>4 DEF RoomInv
<1>8. CursorInv'
  <2>1. Cursor(t)'
    BY DEF Cursor
  <2>2. contextLock[local[t].ctx] = t
    <3>1. local[t].ctx \in Contexts
      BY ThreadFacts DEF Locals
    <3> QED BY <1>1, <3>1 DEF LocksOf, HoldsContext
  <2>3. \A u \in Threads : u # t => Cursor(u)'
    BY <1>2, <1>3, <2>2, OtherCursors
  <2> QED BY <2>1, <2>3 DEF CursorInv
<1>9. HandInv'
  <2>1. ASSUME NEW u \in Threads, u # t PROVE Hand(u)'
    <3> DEFINE my == local[u]
    <3>1. Hand(u) /\ pc'[u] = pc[u] /\ local'[u] = my /\ my \in Locals /\ LocksOf(u)
      BY <2>1, ThreadFacts DEF Others
    <3>2. pc[u] = "a_listed" => notfullchunks'[my.ctx] = notfullchunks[my.ctx]
      BY <1>1, <2>1, <3>1 DEF LocksOf, HoldsContext, Locals
    <3>3. pc[u] \in {"a_spliced", "a_fresh"} => my.ch # c
      BY <1>2, <2>1 DEF SplicedBy, FreshBy
    <3>4. u \in Listing(my.ch) => my.ch # c
      BY <1>2, <2>1
    <3>5. getMemoryBucket(my.ch) \in Buckets
      BY HandBucket
    <3>6. (u \in Listing(my.ch))' <=> u \in Listing(my.ch)
      BY <3>1 DEF Listing
    <3>7. pc[u] = "a_fresh" => my.ch \in freelistNode' /\ empty(my.ch)' /\ \A b \in Buckets : my.ch \notin memory'[b]
      BY <1>3, <3>1, <3>3 DEF Hand
    <3> HIDE DEF my
    <3>8. /\ pc[u] \in {"a_spliced", "a_fresh"} => ~ full(my.ch)'
          /\ pc[u] = "a_count" => ~ empty(my.ch)'
          /\ u \in Listing(my.ch) => my.ch \in freelistNode' /\ ~ full(my.ch)'
      BY <1>3, <3>1, <3>3, <3>4 DEF Hand, my
    <3> QED BY <3>1, <3>2, <3>5, <3>6, <3>7, <3>8 DEF Hand, my
  <2>2. \A u, v \in Threads : \A d \in PoolAddresses : u \in Listing(d)' /\ v \in Listing(d)' => u = v
    BY <1>1, <1>4 DEF HandInv
  <2> QED BY <2>1, <2>2 DEF HandInv
<1> QED BY <1>5, <1>6, <1>7, <1>8, <1>9

(* The end of alloc: t returns, or goes on to count with the bucket locked.*)
LEMMA AllocEndFacts ==
  ASSUME IndInv, NEW t \in Threads, pc[t] \in {"a_listed", "a_spliced"},
         NEW c, c = local[t].ch, NEW p \in Nat, AllocEnd(t, c, p),
         used'[c] # {}, UNCHANGED <<memory, cleanMutex, storeLock>>
  PROVE  /\ Others(t) /\ pc' \in [Threads -> Places] /\ local' \in [Threads -> Locals]
         /\ pc'[t] \in {"idle", "a_count"} /\ local'[t].toDelete = <<>>
         /\ Hand(t)' /\ LocksMatchCode'
         /\ contextLock' \in [Contexts -> Owner] /\ bucketLock' \in [Buckets -> Owner]
         /\ emptyBlocksSize' \in 0 .. Word - 1 /\ live' \in SUBSET [ptr : Nat, size : Nat]
         /\ \/ HandOut(t, p) /\ pc'[t] = "idle"
            \/ UNCHANGED live /\ pc'[t] = "a_count" /\ local'[t].ptr = p
<1> DEFINE my == local[t]
           b == getMemoryBucket(c)
<1>1. /\ TypeOK /\ LocksOf(t) /\ my \in Locals /\ my.toDelete = <<>> /\ t # NoThread
      /\ LocksMatchCode /\ b \in Buckets
  BY ThreadFacts, InvFacts, HandBucket
<1>2. c \in memory[b]
  BY ChunkInHand
<1>3. my.ctx \in Contexts /\ my.size \in Nat /\ t \in Owner /\ NoThread \in Owner
  BY <1>1 DEF Locals, Owner
<1>4. \A d \in Buckets : bucketLock[d] # t
  BY <1>1 DEF LocksOf, HoldsBucket
<1>5. CASE WasEmpty(c)
  <2> DEFINE locals == [my EXCEPT !.ptr = p]
  <2>1. /\ bucketLock[b] = NoThread /\ bucketLock' = [bucketLock EXCEPT ![b] = t]
        /\ emptyBlocksSize' = Minus(emptyBlocksSize, memorysize[c])
        /\ GotoWith(t, "a_count", locals) /\ UNCHANGED <<contextLock, live>>
    BY <1>5 DEF AllocEnd, LockBucket
  <2>2. /\ locals \in Locals /\ locals.ptr = p /\ locals.ch = c /\ locals.ctx = my.ctx
        /\ locals.toDelete = <<>> /\ locals.bkt = my.bkt
    <3> HIDE DEF my
    <3>1. c = my.ch
      BY DEF my
    <3> QED BY <1>1, <3>1 DEF Locals
  <2>3. "a_count" \in Places
    BY DEF Places, HoldsContext
  <2> HIDE DEF locals
  <2>4. /\ pc' \in [Threads -> Places] /\ local' \in [Threads -> Locals]
        /\ pc'[t] = "a_count" /\ local'[t] = locals /\ Others(t)
    BY <1>1, <2>1, <2>2, <2>3, GotoWithFacts
  <2>5. LocksMatchCode'
    <3>1. \A d \in Buckets : bucketLock'[d] = t <=> d = b
      BY <1>1, <1>4, <2>1 DEF TypeOK
    <3>2. LocksOf(t)'
      BY <1>1, <2>1, <2>2, <2>4, <3>1 DEF LocksOf, HoldsBucket, HoldsContext, HoldsStore, HoldsClean
    <3>3. LocksStep(t)
      BY <1>1, <2>1 DEF LocksStep, TypeOK
    <3> QED BY <1>1, <2>4, <3>2, <3>3, LocksFrame
  <2>6. Hand(t)'
    BY <1>2, <2>2, <2>4 DEF Hand, Listing, empty
  <2>7. emptyBlocksSize' \in 0 .. Word - 1
    <3>1. emptyBlocksSize \in Int /\ memorysize[c] \in Int
      BY <1>1, ChunkInHand DEF TypeOK
    <3> QED BY <2>1, <3>1, IndexTypes
  <2> QED BY <1>1, <1>3, <2>1, <2>2, <2>4, <2>5, <2>6, <2>7 DEF TypeOK
<1>6. CASE ~ WasEmpty(c)
  <2>1. /\ HandOut(t, p) /\ contextLock' = [contextLock EXCEPT ![my.ctx] = NoThread]
        /\ GotoWith(t, "idle", NoLocals) /\ UNCHANGED <<emptyBlocksSize, bucketLock>>
    BY <1>6 DEF AllocEnd, UnlockContext, Return
  <2>2. "idle" \in Places /\ NoLocals \in Locals /\ NoLocals.toDelete = <<>>
    BY NoLocalsType DEF Places, NoLocals
  <2>3. /\ pc' \in [Threads -> Places] /\ local' \in [Threads -> Locals]
        /\ pc'[t] = "idle" /\ local'[t] = NoLocals /\ Others(t)
    BY <1>1, <2>1, <2>2, GotoWithFacts
  <2>4. LocksMatchCode'
    <3>1. \A x \in Contexts : contextLock'[x] # t
      BY <1>1, <1>3, <2>1 DEF TypeOK, LocksOf
    <3>2. LocksOf(t)'
      BY <1>1, <1>4, <2>1, <2>3, <3>1 DEF LocksOf, HoldsBucket, HoldsContext, HoldsStore, HoldsClean
    <3>3. LocksStep(t)
      BY <1>1, <1>3, <2>1 DEF LocksStep, TypeOK, LocksOf, HoldsContext
    <3> QED BY <1>1, <2>3, <3>2, <3>3, LocksFrame
  <2>5. Hand(t)'
    BY <2>3 DEF Hand, Listing
  <2>6. live' \in SUBSET [ptr : Nat, size : Nat]
    <3>1. [ptr |-> p, size |-> local[t].size] \in [ptr : Nat, size : Nat]
      BY <1>3
    <3> QED BY <1>1, <2>1, <3>1 DEF TypeOK, HandOut
  <2> QED BY <1>1, <1>3, <2>1, <2>2, <2>3, <2>4, <2>5, <2>6 DEF TypeOK
<1> QED BY <1>5, <1>6

(* A slot of a listed or spliced chunk, whatever becomes of its list node. *)
LEMMA AllocEndStep ==
  ASSUME IndInv, NEW t \in Threads, pc[t] \in {"a_listed", "a_spliced"},
         NEW c, c = local[t].ch, AllocEnd(t, c, ElementAddress(c, AllocIndex(c))),
         used' = [used EXCEPT ![c] = @ \cup {AllocIndex(c)}],
         UNCHANGED <<memory, chunkRange, memorysize, freeStore, emptyBlocksCount, cleanVars, storeLock>>,
         notfullchunks' \in ListFamilies(Contexts), Once(notfullchunks'), OfTheirRow(notfullchunks)',
         \A x \in Contexts : x # local[t].ctx => notfullchunks'[x] = notfullchunks[x],
         Held(notfullchunks') \cup {c} = Held(notfullchunks) \cup {c},
         freelistNode' \cup {c} = freelistNode \cup {c},
         IF full(c)' THEN c \in freelistNode' /\ c \notin Held(notfullchunks')
                     ELSE c \in Held(notfullchunks') /\ c \notin freelistNode'
  PROVE  IndInv'
<1>1. TypeOK /\ c \in Mapped /\ c \in PoolAddresses /\ ~ full(c)
  BY ThreadFacts, ChunkInHand
<1> PICK p : p = ElementAddress(c, AllocIndex(c))
  OBVIOUS
<1>2. /\ p \in Nat /\ p \notin UsedAddresses /\ UsedAddresses' = UsedAddresses \cup {p}
      /\ Mapped' = Mapped
      /\ used' \in [PoolAddresses -> SUBSET Nat] /\ \A d : d # c => used'[d] = used[d]
      /\ used'[c] \subseteq Slots(c) /\ used'[c] # {}
  BY <1>1, SlotTaken
<1>3. UNCHANGED <<cleanMutex, cleanCounter>>
  BY DEF cleanVars
<1>4. /\ Others(t) /\ pc' \in [Threads -> Places] /\ local' \in [Threads -> Locals]
      /\ pc'[t] \in {"idle", "a_count"} /\ local'[t].toDelete = <<>>
      /\ Hand(t)' /\ LocksMatchCode'
      /\ contextLock' \in [Contexts -> Owner] /\ bucketLock' \in [Buckets -> Owner]
      /\ emptyBlocksSize' \in 0 .. Word - 1 /\ live' \in SUBSET [ptr : Nat, size : Nat]
      /\ \/ HandOut(t, p) /\ pc'[t] = "idle"
         \/ UNCHANGED live /\ pc'[t] = "a_count" /\ local'[t].ptr = p
  <2>1. AllocEnd(t, c, p)
    OBVIOUS
  <2> QED BY <1>2, <1>3, <2>1, AllocEndFacts
<1>5. TypeOK'
  <2>1. freelistNode' \in SUBSET PoolAddresses
    BY <1>1 DEF TypeOK
  <2> QED BY <1>1, <1>2, <1>3, <1>4, <2>1 DEF TypeOK, ListFamilies
<1>6. ChunkInv'
  <2>1. FreshBy(t) = {}
    BY DEF FreshBy
  <2>2. /\ \A d \in Mapped : used'[d] \subseteq Slots(d)
        /\ \A d \in PoolAddresses \ Mapped : used'[d] = {}
    BY <1>1, <1>2, InvFacts DEF ChunkInv
  <2> QED BY <1>4, <2>1, <2>2, ChunkFrame
<1>7. BufferInv' /\ SearchInv'
  BY <1>2, <1>4, AllocBuffers
<1>8. ListPlaceInv' /\ ThreadPlaceInv' /\ RoomInv' /\ CursorInv' /\ HandInv'
  BY <1>2, <1>4, AllocPlaces
<1> QED BY <1>4, <1>5, <1>6, <1>7, <1>8 DEF IndInv

(* alloc takes a slot of the front chunk of its context's list; if the     *)
(* chunk is full now, its node goes back to the chunk.                     *)
LEMMA AllocFromListedStep ==
  ASSUME IndInv, NEW t \in Threads, AllocFromListed(t)
  PROVE  IndInv'
<1> PICK c : c = local[t].ch
  OBVIOUS
<1> PICK x : x = local[t].ctx
  OBVIOUS
<1> PICK row : row = getSizeRange(local[t].size)
  OBVIOUS
<1>1. /\ pc[t] = "a_listed"
      /\ AllocEnd(t, c, ElementAddress(c, AllocIndex(c)))
      /\ used' = [used EXCEPT ![c] = @ \cup {AllocIndex(c)}]
      /\ DelistIfFull(t, c, row)
      /\ UNCHANGED <<memory, chunkRange, memorysize, freeStore, emptyBlocksCount, cleanVars, storeLock>>
  BY DEF AllocFromListed
<1>2. /\ TypeOK /\ ListPlaceInv /\ RoomInv /\ notfullchunks \in ListFamilies(Contexts)
      /\ Once(notfullchunks) /\ x \in Contexts /\ row \in Ranges
      /\ notfullchunks[x][row] \in Seq(PoolAddresses)
      /\ notfullchunks[x][row] # <<>> /\ c = Head(notfullchunks[x][row])
      /\ c \in Mapped /\ c \in PoolAddresses /\ ~ full(c)
  BY <1>1, ThreadFacts, InvFacts, ChunkInHand, SizeRangeType DEF Locals, ListPlaceInv, Hand, ListFamilies
<1>3. 1 \in 1 .. Len(notfullchunks[x][row]) /\ c = notfullchunks[x][row][1] /\ c \in Held(notfullchunks)
  <2>1. 1 \in 1 .. Len(notfullchunks[x][row]) /\ c = notfullchunks[x][row][1]
    BY <1>2, EmptySeq
  <2>2. c \in ToSet(notfullchunks[x][row])
    BY <1>2, <2>1, ToSetFacts
  <2> QED BY <1>2, <2>1, <2>2, HeldIn
<1>4. full(c)' <=> used'[c] = Slots(c)
  BY <1>1 DEF full, Slots
<1>5. c \notin freelistNode
  BY <1>2, <1>3 DEF ListPlaceInv, Listed
<1>6. CASE used'[c] = Slots(c)
  <2>1. /\ notfullchunks' = TakeOut(notfullchunks, x, row, 1) /\ freelistNode' = freelistNode \cup {c}
    BY <1>1, <1>6 DEF DelistIfFull
  <2>2. Taken(Contexts, notfullchunks, TakeOut(notfullchunks, x, row, 1), x, row, 1, notfullchunks[x][row][1])
    BY <1>2, <1>3, TakeOutFacts, Zenon
  <2>3. Taken(Contexts, notfullchunks, notfullchunks', x, row, 1, c)
    BY <1>3, <2>1, <2>2
  <2>4. /\ notfullchunks' \in ListFamilies(Contexts) /\ Once(notfullchunks')
        /\ Held(notfullchunks') = Held(notfullchunks) \ {c}
        /\ \A y \in Contexts, q \in Ranges : ToSet(notfullchunks'[y][q]) = ToSet(notfullchunks[y][q]) \ {c}
    BY <2>3 DEF Taken
  <2>5. OfTheirRow(notfullchunks)'
    <3>1. DOMAIN notfullchunks = Contexts /\ DOMAIN notfullchunks' = Contexts
      BY <1>2, <2>4 DEF ListFamilies
    <3>2. chunkRange' = chunkRange
      BY <1>1
    <3>3. \A y \in Contexts, q \in Ranges : \A d \in ToSet(notfullchunks[y][q]) : chunkRange[d] = q
      BY <1>2, <3>1 DEF RoomInv, OfTheirRow
    <3> QED BY <2>4, <3>1, <3>2, <3>3 DEF OfTheirRow
  <2>6. \A y \in Contexts : y # x => notfullchunks'[y] = notfullchunks[y]
    BY <1>2, <2>1 DEF TakeOut, ListFamilies
  <2> QED BY <1>1, <1>3, <1>4, <1>6, <2>1, <2>4, <2>5, <2>6, AllocEndStep
<1>7. CASE used'[c] # Slots(c)
  <2>1. UNCHANGED <<notfullchunks, freelistNode>>
    BY <1>1, <1>7 DEF DelistIfFull
  <2>2. OfTheirRow(notfullchunks)' /\ Once(notfullchunks') /\ notfullchunks' \in ListFamilies(Contexts)
        /\ Held(notfullchunks') = Held(notfullchunks)
    BY <1>1, <1>2, <2>1 DEF RoomInv, OfTheirRow
  <2> QED BY <1>1, <1>3, <1>4, <1>5, <1>7, <2>1, <2>2, AllocEndStep
<1> QED BY <1>6, <1>7

(* Where a chunk that was in no list goes after alloc took its slot.       *)
LEMMA ListUnlessFullFacts ==
  ASSUME IndInv, NEW t \in Threads, pc[t] \in {"a_spliced", "a_fresh"},
         NEW c, c = local[t].ch, UNCHANGED chunkRange,
         ListUnlessFull(t, c, getSizeRange(local[t].size))
  PROVE  /\ notfullchunks' \in ListFamilies(Contexts) /\ Once(notfullchunks') /\ OfTheirRow(notfullchunks)'
         /\ \A x \in Contexts : x # local[t].ctx => notfullchunks'[x] = notfullchunks[x]
         /\ Held(notfullchunks') \cup {c} = Held(notfullchunks) \cup {c}
         /\ freelistNode' \cup {c} = freelistNode \cup {c}
         /\ IF full(c)' THEN c \in freelistNode' /\ c \notin Held(notfullchunks')
                        ELSE c \in Held(notfullchunks') /\ c \notin freelistNode'
<1> PICK x : x = local[t].ctx
  OBVIOUS
<1> PICK row : row = getSizeRange(local[t].size)
  OBVIOUS
<1>2. /\ TypeOK /\ ListPlaceInv /\ RoomInv /\ notfullchunks \in ListFamilies(Contexts)
      /\ Once(notfullchunks) /\ x \in Contexts /\ row \in Ranges
      /\ c \in Mapped /\ c \in PoolAddresses /\ ~ full(c) /\ chunkRange[c] = row
  BY ThreadFacts, InvFacts, ChunkInHand, SizeRangeType DEF Locals, ListPlaceInv
<1>3. c \notin Held(notfullchunks)
  <2>1. Hand(t) /\ ThreadPlaceInv
    BY ThreadFacts, InvFacts
  <2> QED BY <1>2, <2>1 DEF Hand, ThreadPlaceInv, ListPlaceInv, SplicedBy, Listed
<1>4. full(c)' <=> used'[c] = Slots(c)
  BY DEF full, Slots
<1>6. CASE used'[c] = Slots(c)
  <2>1. freelistNode' = freelistNode \cup {c} /\ UNCHANGED notfullchunks
    BY <1>6 DEF ListUnlessFull
  <2>2. OfTheirRow(notfullchunks)'
    BY <1>2, <2>1 DEF RoomInv, OfTheirRow
  <2> QED BY <1>2, <1>3, <1>4, <1>6, <2>1, <2>2
<1>7. CASE used'[c] # Slots(c)
  <2>1. notfullchunks' = PushFront(notfullchunks, x, row, c) /\ freelistNode' = freelistNode \ {c}
    BY <1>7 DEF ListUnlessFull
  <2>2. Pushed(Contexts, notfullchunks, PushFront(notfullchunks, x, row, c), x, row, c)
    BY <1>2, PushFrontFacts, Zenon
  <2>3. Pushed(Contexts, notfullchunks, notfullchunks', x, row, c)
    BY <2>1, <2>2
  <2>4. /\ notfullchunks' \in ListFamilies(Contexts) /\ Once(notfullchunks')
        /\ Held(notfullchunks') = Held(notfullchunks) \cup {c}
        /\ \A y \in Contexts, q \in Ranges :
             ToSet(notfullchunks'[y][q]) = ToSet(notfullchunks[y][q]) \cup {d \in {c} : y = x /\ q = row}
    BY <1>2, <1>3, <2>3 DEF Pushed
  <2>5. OfTheirRow(notfullchunks)'
    <3>1. DOMAIN notfullchunks = Contexts /\ DOMAIN notfullchunks' = Contexts
      BY <1>2, <2>4 DEF ListFamilies
    <3> QED BY <1>2, <2>4, <3>1 DEF RoomInv, OfTheirRow
  <2>6. \A y \in Contexts : y # x => notfullchunks'[y] = notfullchunks[y]
    BY <1>2, <2>1 DEF PushFront, ListFamilies
  <2> QED BY <1>4, <1>7, <2>1, <2>4, <2>5, <2>6
<1> QED BY <1>6, <1>7

(* alloc takes a slot of the chunk it spliced from the store.              *)
LEMMA AllocFromSplicedStep ==
  ASSUME IndInv, NEW t \in Threads, AllocFromSpliced(t)
  PROVE  IndInv'
<1> PICK c : c = local[t].ch
  OBVIOUS
<1>1. /\ pc[t] = "a_spliced"
      /\ AllocEnd(t, c, ElementAddress(c, AllocIndex(c)))
      /\ used' = [used EXCEPT ![c] = @ \cup {AllocIndex(c)}]
      /\ ListUnlessFull(t, c, getSizeRange(local[t].size))
      /\ UNCHANGED <<memory, chunkRange, memorysize, freeStore, emptyBlocksCount, cleanVars, storeLock>>
  BY DEF AllocFromSpliced
<1> QED BY <1>1, ListUnlessFullFacts, AllocEndStep

(* alloc takes a slot of the chunk it created, and maps the chunk.         *)
LEMMA AllocFromFreshStep ==
  ASSUME IndInv, NEW t \in Threads, AllocFromFresh(t)
  PROVE  IndInv'
<1> PICK c : c = local[t].ch
  OBVIOUS
<1> PICK b : b = getMemoryBucket(c)
  OBVIOUS
<1> PICK p : p = ElementAddress(c, AllocIndex(c))
  OBVIOUS
<1> DEFINE my == local[t]
<1>1. /\ pc[t] = "a_fresh" /\ bucketLock[b] = NoThread
      /\ used' = [used EXCEPT ![c] = @ \cup {AllocIndex(c)}]
      /\ ListUnlessFull(t, c, getSizeRange(local[t].size))
      /\ memory' = [memory EXCEPT ![b] = @ \cup {c}]
      /\ HandOut(t, p)
      /\ contextLock' = [contextLock EXCEPT ![my.ctx] = NoThread]
      /\ GotoWith(t, "idle", NoLocals)
      /\ UNCHANGED <<chunkRange, memorysize, freeStore, counterVars, cleanVars, storeLock, bucketLock>>
  BY DEF AllocFromFresh, UnlockContext, Return
<1>2. /\ TypeOK /\ LocksOf(t) /\ LocksMatchCode /\ ChunkInv /\ my \in Locals /\ t # NoThread
      /\ c \in Mapped /\ c \in PoolAddresses /\ ~ full(c) /\ b \in Buckets
      /\ \A u \in Threads : u # t => c \notin FreshBy(u)
  BY <1>1, ThreadFacts, InvFacts, ChunkInHand, HandBucket
<1>3. my.ctx \in Contexts /\ my.size \in Nat /\ t \in Owner /\ NoThread \in Owner
  BY <1>2 DEF Locals, Owner
<1>4. "idle" \in Places /\ NoLocals \in Locals /\ NoLocals.toDelete = <<>>
  BY NoLocalsType DEF Places, NoLocals
<1>5. /\ pc' \in [Threads -> Places] /\ local' \in [Threads -> Locals]
      /\ pc'[t] = "idle" /\ local'[t] = NoLocals /\ Others(t)
  BY <1>1, <1>2, <1>4, GotoWithFacts
<1>6. /\ p \in Nat /\ p \notin UsedAddresses /\ UsedAddresses' = UsedAddresses \cup {p}
      /\ Mapped' = Mapped
      /\ used' \in [PoolAddresses -> SUBSET Nat] /\ \A d : d # c => used'[d] = used[d]
      /\ used'[c] \subseteq Slots(c) /\ used'[c] # {}
      /\ \A d : elSize(d)' = elSize(d) /\ Slots(d)' = Slots(d)
  BY <1>1, <1>2, SlotTaken
<1>7. /\ notfullchunks' \in ListFamilies(Contexts) /\ Once(notfullchunks') /\ OfTheirRow(notfullchunks)'
      /\ \A x \in Contexts : x # local[t].ctx => notfullchunks'[x] = notfullchunks[x]
      /\ Held(notfullchunks') \cup {c} = Held(notfullchunks) \cup {c}
      /\ freelistNode' \cup {c} = freelistNode \cup {c}
      /\ IF full(c)' THEN c \in freelistNode' /\ c \notin Held(notfullchunks')
                     ELSE c \in Held(notfullchunks') /\ c \notin freelistNode'
  BY <1>1, ListUnlessFullFacts
<1>8. /\ \A d \in Buckets : memory'[d] = memory[d] \cup {e \in {c} : d = b}
      /\ memory' \in [Buckets -> SUBSET PoolAddresses]
  BY <1>1, <1>2 DEF TypeOK
<1>9. TypeOK'
  <2>1. freelistNode' \in SUBSET PoolAddresses
    BY <1>2, <1>7 DEF TypeOK
  <2>2. live' \in SUBSET [ptr : Nat, size : Nat]
    <3>1. [ptr |-> p, size |-> local[t].size] \in [ptr : Nat, size : Nat]
      BY <1>3, <1>6
    <3> QED BY <1>1, <1>2, <3>1 DEF TypeOK, HandOut
  <2>3. contextLock' \in [Contexts -> Owner]
    BY <1>1, <1>2, <1>3 DEF TypeOK
  <2> QED BY <1>1, <1>2, <1>5, <1>6, <1>7, <1>8, <2>1, <2>2, <2>3
          DEF TypeOK, ListFamilies, counterVars, cleanVars
<1>10. LocksMatchCode'
  <2>1. (\A x \in Contexts : contextLock'[x] # t) /\ \A d \in Buckets : bucketLock'[d] # t
    BY <1>1, <1>2, <1>3 DEF TypeOK, LocksOf, HoldsBucket
  <2>2. LocksOf(t)'
    BY <1>1, <1>2, <1>5, <2>1 DEF LocksOf, HoldsBucket, HoldsContext, HoldsStore, HoldsClean, cleanVars
  <2>3. LocksStep(t)
    BY <1>1, <1>2, <1>3 DEF LocksStep, TypeOK, LocksOf, HoldsContext, cleanVars
  <2> QED BY <1>2, <1>5, <2>2, <2>3, LocksFrame
<1>11. ChunkInv'
  <2>1. ASSUME NEW d \in Mapped PROVE ChunkOK(d)'
    <3>1. ChunkOK(d) /\ used'[d] \subseteq Slots(d)
      BY <1>2, <1>6, <2>1 DEF ChunkInv, ChunkOK
    <3>2. getMemoryBucket(d) \in Buckets
      BY <2>1, IndexTypes, InvFacts, SizesAssumption
    <3>3. d \in memory'[getMemoryBucket(d)] \/ \E u \in Threads : d \in FreshBy(u)'
      <4>1. CASE d = c
        BY <1>2, <1>8, <4>1
      <4>2. CASE d # c
        <5>1. d \notin FreshBy(t)
          BY <4>2 DEF FreshBy
        <5>2. \A u \in Threads : d \in FreshBy(u) => d \in FreshBy(u)'
          BY <1>5, <5>1, OthersKeep
        <5> QED BY <1>8, <3>1, <3>2, <5>2 DEF ChunkOK
      <4> QED BY <4>1, <4>2
    <3> QED BY <1>1, <1>6, <3>1, <3>3 DEF ChunkOK
  <2>2. \A d \in PoolAddresses \ Mapped : used'[d] = {}
    BY <1>2, <1>6 DEF ChunkInv
  <2>3. \A d \in Buckets : \A e \in memory'[d] : e \in Mapped /\ getMemoryBucket(e) = d
    BY <1>2, <1>8 DEF ChunkInv
  <2>4. \A d, e \in Mapped : d # e => d + memorysize[d] <= e \/ e + memorysize[e] <= d
    BY <1>2 DEF ChunkInv
  <2> QED BY <1>1, <1>6, <2>1, <2>2, <2>3, <2>4 DEF ChunkInv
<1>12. BufferInv' /\ SearchInv'
  <2>1. \A d \in Buckets : memory[d] \subseteq memory'[d]
    BY <1>8
  <2> QED BY <1>1, <1>5, <1>6, <2>1, AllocBuffers
<1>13. ListPlaceInv' /\ ThreadPlaceInv' /\ RoomInv' /\ CursorInv' /\ HandInv'
  <2>1. Hand(t)'
    BY <1>5 DEF Hand, Listing
  <2>2. \A d \in Buckets : memory[d] \subseteq memory'[d] /\ memory'[d] \subseteq memory[d] \cup {c}
    BY <1>8
  <2> QED BY <1>1, <1>4, <1>5, <1>6, <1>7, <2>1, <2>2, AllocPlaces
<1> QED BY <1>9, <1>10, <1>11, <1>12, <1>13 DEF IndInv

-----------------------------------------------------------------------------
(* Chunks come and go, buffers stay.                                       *)

(* Creating and destroying empty chunks disturbs no buffer and no search.  *)
LEMMA SameBuffers ==
  ASSUME IndInv, NEW t \in Threads, Others(t), UNCHANGED live,
         pc[t] \notin {"a_count", "d_find"}, pc'[t] \notin {"a_count", "d_find", "g_find"},
         \A c \in Mapped : used[c] # {} =>
           /\ c \in Mapped' /\ used'[c] = used[c]
           /\ chunkRange'[c] = chunkRange[c] /\ memorysize'[c] = memorysize[c]
           /\ \A b \in Buckets : c \in memory[b] => c \in memory'[b],
         \A c \in Mapped' : used'[c] # {} => c \in Mapped /\ used[c] # {}
  PROVE  BufferInv' /\ SearchInv'
<1>1. BufferInv /\ SearchInv /\ TypeOK /\ ChunkInv
  BY InvFacts
<1>2. \A c \in Mapped : used[c] # {} => \A i : ElementAddress(c, i)' = ElementAddress(c, i)
  <2> SUFFICES ASSUME NEW c \in Mapped, used[c] # {}, NEW i
               PROVE  ElementAddress(c, i)' = ElementAddress(c, i)
    OBVIOUS
  <2>1. elSize(c)' = elSize(c)
    BY DEF elSize
  <2> QED BY <2>1 DEF ElementAddress
<1>3. UsedAddresses' = UsedAddresses
  <2>1. ASSUME NEW p \in UsedAddresses PROVE p \in UsedAddresses'
    <3>1. PICK c \in Mapped : \E i \in used[c] : p = ElementAddress(c, i)
      BY DEF UsedAddresses
    <3>2. PICK i \in used[c] : p = ElementAddress(c, i)
      BY <3>1
    <3>3. c \in Mapped' /\ i \in used'[c] /\ p = ElementAddress(c, i)'
      BY <1>2, <3>2
    <3> QED BY <3>3 DEF UsedAddresses
  <2>2. ASSUME NEW p \in UsedAddresses' PROVE p \in UsedAddresses
    <3>1. PICK c \in Mapped' : \E i \in used'[c] : p = ElementAddress(c, i)'
      BY DEF UsedAddresses
    <3>2. PICK i \in used'[c] : p = ElementAddress(c, i)'
      BY <3>1
    <3>3. c \in Mapped /\ i \in used[c] /\ p = ElementAddress(c, i)
      BY <1>2, <3>2
    <3> QED BY <3>3 DEF UsedAddresses
  <2> QED BY <2>1, <2>2
<1>4. InFlight' = InFlight /\ \A u \in InFlight : local'[u] = local[u]
  BY DEF Others, InFlight
<1>5. BufferInv'
  BY <1>1, <1>3, <1>4 DEF BufferInv
<1>6. SearchInv'
  <2>1. \A u \in Threads : pc'[u] \in {"d_find", "g_find"} => pc'[u] = pc[u] /\ local'[u] = local[u]
    BY DEF Others
  <2>2. ASSUME NEW u \in Threads, pc[u] \in {"d_find", "g_find"}, local'[u] = local[u]
        PROVE  \E c \in Mapped' :
                 /\ Covers(c, local[u].ptr)'
                 /\ c \in memory'[getMemoryBucket(c)]
                 /\ ((local'[u].bkt - getMemoryBucket(c)) % BucketCount) + local'[u].tries < BucketCount
    <3>1. PICK c \in Mapped :
            /\ Covers(c, local[u].ptr)
            /\ c \in memory[getMemoryBucket(c)]
            /\ ((local[u].bkt - getMemoryBucket(c)) % BucketCount) + local[u].tries < BucketCount
      BY <1>1, <2>2 DEF SearchInv, SearchCannotFail
    <3>2. local[u].ptr \in UsedAddresses
      BY <1>1, <2>2 DEF SearchInv, BufferInv, InFlight
    <3>3. PICK d \in Mapped : \E i \in used[d] : Covers(d, local[u].ptr) /\ local[u].ptr \in Nat
      BY <3>2, UsedChunk
    <3>4. d = c
      <4>1. local[u].ptr \in Nat /\ Covers(d, local[u].ptr)
        BY <3>3
      <4> QED BY <1>1, <3>1, <4>1, CoverFacts
    <3>5. used[c] # {}
      BY <3>3, <3>4
    <3>6. getMemoryBucket(c) \in Buckets
      BY IndexTypes, InvFacts, SizesAssumption
    <3>7. c \in Mapped' /\ c \in memory'[getMemoryBucket(c)] /\ memorysize'[c] = memorysize[c]
      BY <3>1, <3>5, <3>6
    <3> QED BY <2>2, <3>1, <3>7 DEF Covers
  <2>3. SearchCannotFail'
    BY <2>1, <2>2 DEF SearchCannotFail
  <2> QED BY <1>1, <2>1, <2>3 DEF SearchInv
<1> QED BY <1>5, <1>6

(* The chunk object of a new block is of the request's row, its elements   *)
(* fit the block, and its row is the one of its own element size.          *)
LEMMA NewChunk ==
  ASSUME NEW size \in Nat \ {0}, NEW row, row = getSizeRange(size), NEW e,
         e = IF row = AnySize THEN BlockSize(row, size) ELSE MaxSize[row]
  PROVE  /\ BlockSize(row, size) \in Nat /\ e \in Nat \ {0} /\ getSizeRange(e) = row
         /\ ElPerChunk[row] * e <= BlockSize(row, size)
         /\ 0 .. ElPerChunk[row] - 1 # {} /\ row # 0
<1>1. row \in Ranges /\ RangeCount \in Nat \ {0} /\ ElPerChunk[row] \in Nat \ {0} /\ row # 0
      /\ 0 .. ElPerChunk[row] - 1 # {}
  <2>1. row \in Ranges /\ RangeCount \in Nat \ {0} /\ ElPerChunk[row] \in Nat \ {0}
    BY SizeRangeType, SizesAssumption
  <2>2. 0 \in 0 .. ElPerChunk[row] - 1
    BY <2>1
  <2> QED BY <2>1, <2>2 DEF Ranges
<1>2. CASE row = AnySize
  <2>1. BlockSize(row, size) = size /\ e = size /\ ElPerChunk[row] = 1
    BY <1>2, SizesAssumption DEF BlockSize, AnySize
  <2> QED BY <1>1, <2>1
<1>3. CASE row # AnySize
  <2>1. row \in 1 .. RangeCount - 1
    BY <1>1, <1>3 DEF Ranges, AnySize
  <2>2. BlockSize(row, size) = BuforSize[row] /\ e = MaxSize[row]
    BY <1>3 DEF BlockSize
  <2>3. BuforSize[row] \in Nat /\ MaxSize[row] \in Nat \ {0} /\ ElPerChunk[row] * MaxSize[row] <= BuforSize[row]
    BY <2>1, SizesAssumption
  <2>4. getSizeRange(MaxSize[row]) = row
    BY <2>1, SizeRangeOfMax
  <2>5. e \in Nat \ {0} /\ getSizeRange(e) = row /\ BlockSize(row, size) \in Nat
    BY <2>2, <2>3, <2>4
  <2>6. ElPerChunk[row] * e <= BlockSize(row, size)
    BY <2>2, <2>3
  <2> QED BY <1>1, <2>5, <2>6
<1> QED BY <1>2, <1>3

(* alloc creates a chunk: a block that overlaps no other, in no list but   *)
(* its own, and known to t alone.                                          *)
LEMMA AllocCreateChunkStep ==
  ASSUME IndInv, NEW t \in Threads, AllocCreateChunk(t)
  PROVE  IndInv'
<1> DEFINE my == local[t]
<1> PICK row : row = getSizeRange(my.size)
  OBVIOUS
<1> PICK n : n = BlockSize(row, my.size)
  OBVIOUS
<1>1. PICK c \in PoolAddresses \ Mapped :
        /\ PoolCanPlace(c, n)
        /\ chunkRange' = [chunkRange EXCEPT ![c] = row]
        /\ memorysize' = [memorysize EXCEPT ![c] = n]
        /\ freelistNode' = freelistNode \cup {c}
        /\ GotoWith(t, "a_fresh", [my EXCEPT !.ch = c])
  BY DEF AllocCreateChunk
<1>2. /\ pc[t] = "a_new"
      /\ UNCHANGED <<memory, used, notfullchunks, freeStore, counterVars, cleanVars, lockVars, live>>
  BY DEF AllocCreateChunk
<1>3. /\ TypeOK /\ LocksOf(t) /\ LocksMatchCode /\ my \in Locals /\ my.toDelete = <<>> /\ my.size \in Nat \ {0}
      /\ ChunkInv /\ ListPlaceInv /\ ThreadPlaceInv /\ RoomInv /\ HandInv
      /\ Mapped \subseteq PoolAddresses /\ freelistNode \subseteq Mapped
      /\ Held(notfullchunks) \subseteq Mapped /\ Held(freeStore) \subseteq Mapped
      /\ notfullchunks \in ListFamilies(Contexts) /\ freeStore \in ListFamilies(Stores)
  BY <1>2, ThreadFacts, InvFacts DEF Hand, Locals
<1> PICK e : e = IF row = AnySize THEN BlockSize(row, my.size) ELSE MaxSize[row]
  OBVIOUS
<1>4. /\ n \in Nat /\ e \in Nat \ {0} /\ getSizeRange(e) = row /\ ElPerChunk[row] * e <= n
      /\ 0 .. ElPerChunk[row] - 1 # {} /\ row \in Ranges /\ row # 0
  BY <1>3, NewChunk, SizeRangeType
<1> DEFINE locals == [my EXCEPT !.ch = c]
<1>5. /\ locals \in Locals /\ locals.ch = c /\ locals.ctx = my.ctx /\ locals.size = my.size
      /\ locals.toDelete = <<>>
  <2> HIDE DEF my
  <2> QED BY <1>1, <1>3 DEF Locals
<1>6. "a_fresh" \in Places
  BY DEF Places, HoldsContext
<1> HIDE DEF locals
<1>7. /\ pc' \in [Threads -> Places] /\ local' \in [Threads -> Locals]
      /\ pc'[t] = "a_fresh" /\ local'[t] = locals /\ Others(t)
  BY <1>1, <1>3, <1>5, <1>6, GotoWithFacts DEF locals
<1>8. /\ UNCHANGED <<contextLock, storeLock, bucketLock, cleanMutex, cleanCounter, emptyBlocksSize, emptyBlocksCount>>
  BY <1>2 DEF counterVars, cleanVars, lockVars
<1>9. TypeOK'
  BY <1>1, <1>2, <1>3, <1>4, <1>7, <1>8 DEF TypeOK
<1>10. LocksMatchCode'
  <2>1. LocksStep(t) /\ LocksOf(t)'
    BY <1>2, <1>3, <1>5, <1>7, <1>8 DEF LocksStep, LocksOf, HoldsBucket, HoldsContext, HoldsStore, HoldsClean
  <2> QED BY <1>3, <1>7, <2>1, LocksFrame
<1>11. /\ \A d \in PoolAddresses : d # c => chunkRange'[d] = chunkRange[d] /\ memorysize'[d] = memorysize[d]
       /\ chunkRange'[c] = row /\ memorysize'[c] = n /\ c \notin Mapped /\ c \in PoolAddresses
       /\ Mapped' = Mapped \cup {c}
  <2>1. /\ chunkRange \in [PoolAddresses -> Ranges \cup {0}] /\ memorysize \in [PoolAddresses -> Nat]
    BY <1>3 DEF TypeOK
  <2>2. /\ \A d \in PoolAddresses : d # c => chunkRange'[d] = chunkRange[d] /\ memorysize'[d] = memorysize[d]
        /\ chunkRange'[c] = row /\ memorysize'[c] = n
    BY <1>1, <2>1
  <2> QED BY <1>1, <1>4, <2>2 DEF Mapped
<1>12. /\ \A d \in Mapped : /\ elSize(d)' = elSize(d) /\ Slots(d)' = Slots(d)
                            /\ full(d)' = full(d) /\ empty(d)' = empty(d)
       /\ elSize(c)' = e /\ Slots(c)' = 0 .. ElPerChunk[row] - 1
       /\ used'[c] = {} /\ ~ full(c)' /\ empty(c)'
  <2>1. used[c] = {}
    BY <1>1, <1>3 DEF ChunkInv
  <2>2. Slots(c)' = 0 .. ElPerChunk[row] - 1
    BY <1>11 DEF Slots
  <2>3. elSize(c)' = e
    <3>1. n = BlockSize(row, my.size)
      OBVIOUS
    <3> QED BY <1>11, <3>1 DEF elSize
  <2>4. \A d \in Mapped : chunkRange'[d] = chunkRange[d] /\ memorysize'[d] = memorysize[d]
    BY <1>3, <1>11
  <2> QED BY <1>2, <1>4, <2>1, <2>2, <2>3, <2>4 DEF elSize, Slots, full, empty
<1>13. /\ FreshBy(t) = {} /\ FreshBy(t)' = {c} /\ SplicedBy(t) = {} /\ SplicedBy(t)' = {}
       /\ \A u \in Threads : /\ SplicedBy(u)' = SplicedBy(u) /\ DoomedBy(u)' = DoomedBy(u)
                             /\ local'[u].toDelete = local[u].toDelete
       /\ \A u \in Threads : u # t => FreshBy(u)' = FreshBy(u) /\ \A d : (u \in Listing(d))' <=> u \in Listing(d)
       /\ \A d : t \notin Listing(d) /\ ((t \in Listing(d))' <=> d = c)
  <2>1. /\ FreshBy(t) = {} /\ SplicedBy(t) = {} /\ SplicedBy(t)' = {} /\ FreshBy(t)' = {c}
        /\ \A d : t \notin Listing(d) /\ ((t \in Listing(d))' <=> d = c)
    BY <1>2, <1>5, <1>7, <1>11 DEF FreshBy, SplicedBy, Listing
  <2>2. DoomedBy(t)' = DoomedBy(t) /\ local'[t].toDelete = local[t].toDelete
    BY <1>3, <1>5, <1>7 DEF DoomedBy
  <2> QED BY <1>7, <2>1, <2>2, OthersKeep DEF Others
<1>14. ChunkInv'
  <2>1. ASSUME NEW d \in Mapped PROVE ChunkOK(d)'
    <3>1. ChunkOK(d) /\ chunkRange'[d] = chunkRange[d] /\ memorysize'[d] = memorysize[d]
      BY <1>3, <1>11, <2>1 DEF ChunkInv
    <3>2. \A u \in Threads : d \in FreshBy(u) => d \in FreshBy(u)'
      BY <1>13
    <3> QED BY <1>2, <1>12, <3>1, <3>2 DEF ChunkOK
  <2>2. ChunkOK(c)'
    BY <1>4, <1>11, <1>12, <1>13 DEF ChunkOK
  <2>3. \A d \in Mapped : c + n <= d \/ d + memorysize[d] <= c
    BY <1>1 DEF PoolCanPlace
  <2>4. \A d, f \in Mapped : d # f => d + memorysize[d] <= f \/ f + memorysize[f] <= d
    BY <1>3 DEF ChunkInv
  <2>5. \A d \in PoolAddresses \ Mapped' : used'[d] = {}
    BY <1>2, <1>3, <1>11 DEF ChunkInv
  <2>6. \A b \in Buckets : \A d \in memory'[b] : d \in Mapped' /\ getMemoryBucket(d) = b
    BY <1>2, <1>3, <1>11 DEF ChunkInv
  <2>7. \A d, f \in Mapped' : d # f => d + memorysize'[d] <= f \/ f + memorysize'[f] <= d
    BY <1>3, <1>11, <2>3, <2>4
  <2> QED BY <1>11, <2>1, <2>2, <2>5, <2>6, <2>7 DEF ChunkInv
<1>15. /\ Listed' = Listed /\ c \notin Listed /\ c \notin freelistNode
       /\ Held(notfullchunks)' = Held(notfullchunks) /\ Held(freeStore)' = Held(freeStore)
  BY <1>1, <1>2, <1>3 DEF Listed, Held
<1>16. ListPlaceInv'
  <2>1. Once(notfullchunks)' /\ Once(freeStore)'
    BY <1>2, <1>3 DEF ListPlaceInv, Once
  <2> QED BY <1>1, <1>3, <1>11, <1>15, <2>1 DEF ListPlaceInv
<1>17. ThreadPlaceInv'
  <2>1. \A u \in Threads : /\ SplicedBy(u)' \cup DoomedBy(u)' \subseteq Mapped' \ (freelistNode' \cup Listed')
                           /\ IsInjective(local'[u].toDelete)
                           /\ local'[u].toDelete # <<>> => pc'[u] \in {"c_look", "c_drop", "c_delete"}
    BY <1>1, <1>3, <1>7, <1>11, <1>13, <1>15 DEF ThreadPlaceInv, Others
  <2> QED BY <1>1, <1>3, <1>11, <1>13, <1>15, <2>1 DEF ThreadPlaceInv
<1>18. RoomInv'
  <2>1. \A d \in Listed' : ~ full(d)'
    BY <1>3, <1>12, <1>15 DEF RoomInv, Listed
  <2>2. OfTheirRow(notfullchunks)' /\ OfTheirRow(freeStore)'
    <3>1. DOMAIN notfullchunks = Contexts /\ DOMAIN freeStore = Stores
      BY <1>3 DEF ListFamilies
    <3>2. \A d \in Listed : d \in PoolAddresses /\ d # c
      BY <1>3, <1>15 DEF Listed
    <3>3. /\ \A x \in Contexts, r \in Ranges : \A d \in ToSet(notfullchunks[x][r]) : chunkRange'[d] = r
          /\ \A x \in Stores, r \in Ranges : \A d \in ToSet(freeStore[x][r]) : chunkRange'[d] = r
      BY <1>3, <1>11, <3>1, <3>2, HeldIn DEF RoomInv, OfTheirRow, Listed
    <3>4. notfullchunks' = notfullchunks /\ freeStore' = freeStore
      BY <1>2
    <3> QED BY <3>1, <3>3, <3>4 DEF OfTheirRow
  <2>3. \A d \in freelistNode' : full(d)' \/ \E u \in Threads : (u \in Listing(d))'
    <3> SUFFICES ASSUME NEW d \in freelistNode', d # c
                 PROVE  full(d)' \/ \E u \in Threads : (u \in Listing(d))'
      BY <1>13
    <3>1. d \in freelistNode /\ d \in Mapped
      BY <1>1, <1>3
    <3>2. full(d) \/ \E u \in Threads : u \in Listing(d)
      BY <1>3, <3>1 DEF RoomInv
    <3>3. \A u \in Threads : u \in Listing(d) => (u \in Listing(d))'
      BY <1>13
    <3> QED BY <1>12, <3>1, <3>2, <3>3
  <2>4. \A u \in Threads : \A d \in DoomedBy(u)' : empty(d)'
    BY <1>3, <1>12, <1>13 DEF RoomInv, ThreadPlaceInv
  <2> QED BY <2>1, <2>2, <2>3, <2>4 DEF RoomInv
<1>19. CursorInv'
  <2>1. Cursor(t)'
    BY <1>7 DEF Cursor
  <2>2. \A d \in Held(freeStore) : empty(d) => empty(d)'
    BY <1>3, <1>12
  <2>3. \A u \in Threads : u # t => Cursor(u)'
    BY <1>2, <1>7, <2>2, OtherCursors
  <2> QED BY <2>1, <2>3 DEF CursorInv
<1>20. HandInv'
  <2>1. Hand(t)'
    <3>1. \A b \in Buckets : c \notin memory'[b]
      BY <1>2, <1>3, <1>11 DEF ChunkInv
    <3>2. c \in freelistNode'
      BY <1>1
    <3> QED BY <1>5, <1>7, <1>11, <1>12, <3>1, <3>2 DEF Hand
  <2>2. ASSUME NEW u \in Threads, u # t PROVE Hand(u)'
    <3> DEFINE his == local[u]
    <3>1. Hand(u) /\ pc'[u] = pc[u] /\ local'[u] = his
      BY <1>7, <2>2, ThreadFacts DEF Others
    <3>2. /\ pc[u] \in {"a_spliced", "a_fresh"} => his.ch \in Mapped
          /\ his.ch \in memory[getMemoryBucket(his.ch)] => his.ch \in Mapped
          /\ u \in Listing(his.ch) => his.ch \in Mapped
      BY <1>3, <2>2, <3>1, HandBucket DEF Hand, ChunkInv
    <3>3. (u \in Listing(his.ch))' <=> u \in Listing(his.ch)
      BY <3>1 DEF Listing
    <3>4. freelistNode \subseteq freelistNode' /\ Mapped \subseteq Mapped' /\ \A d \in Mapped : chunkRange'[d] = chunkRange[d]
      BY <1>1, <1>3, <1>11
    <3> HIDE DEF his
    <3>5. \A d \in Mapped : full(d)' = full(d) /\ empty(d)' = empty(d)
      BY <1>12
    <3> QED BY <1>2, <3>1, <3>2, <3>3, <3>4, <3>5 DEF Hand, his
  <2>3. \A u, v \in Threads : \A d \in PoolAddresses : (u \in Listing(d))' /\ (v \in Listing(d))' => u = v
    <3>1. \A u \in Threads : u \notin Listing(c)
      BY <1>3, <1>11 DEF HandInv, Hand, Listing
    <3> QED BY <1>3, <1>13, <3>1 DEF HandInv
  <2> QED BY <2>1, <2>2, <2>3 DEF HandInv
<1>21. BufferInv' /\ SearchInv'
  <2>1. \A d \in Mapped : d \in Mapped' /\ chunkRange'[d] = chunkRange[d] /\ memorysize'[d] = memorysize[d]
    BY <1>3, <1>11
  <2>2. \A d \in Mapped' : used'[d] # {} => d \in Mapped
    BY <1>11, <1>12
  <2> QED BY <1>2, <1>7, <2>1, <2>2, SameBuffers
<1> QED BY <1>9, <1>10, <1>14, <1>16, <1>17, <1>18, <1>19, <1>20, <1>21 DEF IndInv
=============================================================================
