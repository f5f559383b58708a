---------------------------- MODULE FiniteFacts ----------------------------
(***************************************************************************)
(* Facts the library has not about remainders and finite sets.  The        *)
(* searches of the code take the first free bit, element or list, which    *)
(* the specifications say with Min, a CHOOSE; its counters hold sums over  *)
(* sets of chunks, modulo the width of an unsigned integer.                *)
(***************************************************************************)
EXTENDS Integers, FiniteSetsExt, FiniteSetTheorems, WellFoundedInduction, TLAPS

-----------------------------------------------------------------------------
(* Remainders.                                                             *)

(* A remainder is a valid index.                                           *)
LEMMA Remainder ==
  ASSUME NEW a \in Int, NEW n \in Nat \ {0}
  PROVE  a % n \in 0 .. n - 1
OBVIOUS

(* A multiple of the divisor that is smaller than the divisor is zero.     *)
LEMMA SmallMultiple ==
  ASSUME NEW k \in Int, NEW n \in Nat \ {0}, - n < k * n, k * n < n
  PROVE  k = 0
<1>1. k >= 1 => k * n >= n
  OBVIOUS
<1>2. k <= -1 => k * n <= - n
  OBVIOUS
<1> QED BY <1>1, <1>2

(* There is one remainder.                                                 *)
LEMMA OneRemainder ==
  ASSUME NEW a \in Int, NEW n \in Nat \ {0}, NEW q \in Int, NEW r \in 0 .. n - 1, a = q * n + r
  PROVE  a % n = r
<1>1. PICK p \in Int : p = a \div n
  OBVIOUS
<1>2. PICK s \in 0 .. n - 1 : s = a % n
  BY Remainder
<1>3. a = n * p + s
  BY <1>1, <1>2
<1>4. (q - p) * n = s - r
  BY <1>3
<1>5. q - p = 0
  <2>1. q - p \in Int /\ - n < (q - p) * n /\ (q - p) * n < n
    BY <1>4
  <2> QED BY <2>1, SmallMultiple
<1> QED BY <1>2, <1>4, <1>5

(* Quotient and remainder.                                                 *)
LEMMA Division ==
  ASSUME NEW a \in Nat, NEW n \in Nat \ {0}
  PROVE  \E q \in Nat, r \in 0 .. n - 1 : q = a \div n /\ r = a % n /\ a = q * n + r
<1>1. PICK q \in Int : q = a \div n
  OBVIOUS
<1>2. PICK r \in 0 .. n - 1 : r = a % n
  BY Remainder
<1>3. a = q * n + r
  BY <1>1, <1>2
<1>4. q \in Nat
  <2>1. q <= -1 => q * n <= - n
    BY Z3
  <2> QED BY <1>2, <1>3, <2>1
<1> QED BY <1>1, <1>2, <1>3, <1>4

(* There is one quotient.                                                  *)
LEMMA OneQuotient ==
  ASSUME NEW a \in Nat, NEW n \in Nat \ {0}, NEW q \in Int, NEW r \in 0 .. n - 1, a = q * n + r
  PROVE  a \div n = q
<1>1. PICK p \in Nat, s \in 0 .. n - 1 : p = a \div n /\ s = a % n /\ a = p * n + s
  BY Division
<1>2. (q - p) * n = s - r
  BY <1>1
<1>3. q - p = 0
  <2>1. q - p \in Int /\ - n < (q - p) * n /\ (q - p) * n < n
    BY <1>1, <1>2
  <2> QED BY <2>1, SmallMultiple
<1> QED BY <1>1, <1>3

(* A product with one more.                                                *)
LEMMA OneMore ==
  ASSUME NEW a \in Nat, NEW b \in Nat, NEW n \in Nat, a + 1 <= b
  PROVE  a * n + n <= b * n
<1>1. (a + 1) * n <= b * n
  BY Z3
<1>2. (a + 1) * n = a * n + n
  BY Z3
<1> QED BY <1>1, <1>2

(* A remainder is as good as the number it stands for, in a sum that is    *)
(* reduced again.                                                          *)
LEMMA RemainderOfSum ==
  ASSUME NEW a \in Int, NEW b \in Int, NEW n \in Nat \ {0}
  PROVE  ((a % n) + b) % n = (a + b) % n
<1>1. PICK p \in Int : p = a \div n
  OBVIOUS
<1>2. PICK s \in 0 .. n - 1 : s = a % n
  BY Remainder
<1>3. PICK r \in 0 .. n - 1 : r = (a + b) % n
  BY Remainder
<1>4. PICK q \in Int : q = (a + b) \div n
  OBVIOUS
<1>5. a = p * n + s /\ a + b = q * n + r
  BY <1>1, <1>2, <1>3, <1>4
<1>6. s + b = (q - p) * n + r /\ q - p \in Int /\ s + b \in Int
  BY <1>5
<1>7. (s + b) % n = r
  BY <1>6, OneRemainder
<1> QED BY <1>2, <1>3, <1>7

-----------------------------------------------------------------------------
(* Least elements.                                                         *)

(* Every non-empty set of naturals has a least element, so that Min, which *)
(* chooses one, returns an element below all others.                       *)
LEMMA MinOfNaturals ==
  ASSUME NEW S \in SUBSET Nat, S # {}
  PROVE  Min(S) \in S /\ \A j \in S : Min(S) <= j
<1>1. PICK n \in S : TRUE
  OBVIOUS
<1> DEFINE Upto(i) == 0 .. i
           Chain == {Upto(i) : i \in {j \in S : j <= n}}
<1>2. IsFiniteSet(0 .. n)
  BY FS_Interval
<1>3. Chain \subseteq FiniteSubsetsOf(0 .. n) /\ Chain # {}
  BY <1>2, FS_Subset DEF FiniteSubsetsOf
<1>4. PICK X \in Chain : \A Y \in Chain : <<Y, X>> \notin StrictSubsetOrdering(0 .. n)
  <2>1. IsWellFoundedOn(StrictSubsetOrdering(0 .. n), FiniteSubsetsOf(0 .. n))
    BY FS_StrictSubsetOrderingWellFounded
  <2> HIDE DEF Chain
  <2> QED BY <1>3, <2>1, WFMin
<1>5. PICK i \in S : i <= n /\ X = Upto(i)
  OBVIOUS
<1>6. ASSUME NEW j \in S, j < i PROVE FALSE
  <2>1. Upto(j) \in Chain
    BY <1>5, <1>6
  <2>2. Upto(j) \subseteq X /\ X \subseteq 0 .. n /\ i \in X /\ i \notin Upto(j)
    BY <1>5, <1>6
  <2>3. <<Upto(j), X>> \in StrictSubsetOrdering(0 .. n)
    BY <2>2 DEF StrictSubsetOrdering
  <2> QED BY <1>4, <2>1, <2>3
<1>7. \A j \in S : i <= j
  BY <1>6
<1> QED BY <1>7 DEF Min

-----------------------------------------------------------------------------
(* Sums over finite sets.  MapThenSumSet adds the elements in the order in *)
(* which CHOOSE picks them; the lemmas say that the order does not matter. *)
(* The prover cannot apply an induction theorem to data, so each induction *)
(* over a finite set looks at a smallest set that breaks the claim.        *)

(* Every non-empty family of finite sets has a member with none below it.  *)
LEMMA MinimalSubset ==
  ASSUME NEW S, IsFiniteSet(S), NEW Bad \in SUBSET (SUBSET S), Bad # {}
  PROVE  \E X \in Bad : \A Y \in Bad : ~ (Y \subseteq X /\ Y # X)
<1>1. Bad \subseteq FiniteSubsetsOf(S)
  BY FS_Subset DEF FiniteSubsetsOf
<1>2. PICK X \in Bad : \A Y \in Bad : <<Y, X>> \notin StrictSubsetOrdering(S)
  <2>1. IsWellFoundedOn(StrictSubsetOrdering(S), FiniteSubsetsOf(S))
    BY FS_StrictSubsetOrderingWellFounded
  <2> QED BY <1>1, <2>1, WFMin
<1> QED BY <1>2 DEF StrictSubsetOrdering

(* The sum of f over S, and the function of all its partial sums.          *)
SumOf(f, S) == MapThenSumSet(LAMBDA x : f[x], S)
Chosen(s) == CHOOSE x \in s : TRUE
IsSums(f, S, g) ==
  g = [s \in SUBSET S |-> IF s = {} THEN 0 ELSE f[Chosen(s)] + g[s \ {Chosen(s)}]]
PartialSums(f, S) == CHOOSE g : IsSums(f, S, g)

(* The sum is the last of the partial sums.                                *)
LEMMA SumIsPartialSum ==
  ASSUME NEW f, NEW S
  PROVE  SumOf(f, S) = PartialSums(f, S)[S]
BY DEF SumOf, PartialSums, IsSums, Chosen, MapThenSumSet, MapThenFoldSet

(* Two partial sums agree wherever both are defined.                       *)
LEMMA PartialSumsUnique ==
  ASSUME NEW f, NEW S, NEW T, NEW g, NEW h, IsSums(f, S, g), IsSums(f, T, h),
         NEW U, IsFiniteSet(U), U \subseteq S, U \subseteq T
  PROVE  g[U] = h[U]
<1> DEFINE Bad == {u \in SUBSET U : g[u] # h[u]}
<1>1. SUFFICES ASSUME Bad # {} PROVE FALSE
  OBVIOUS
<1>2. PICK u \in Bad : \A v \in Bad : ~ (v \subseteq u /\ v # u)
  <2>1. Bad \in SUBSET (SUBSET U)
    OBVIOUS
  <2> HIDE DEF Bad
  <2> QED BY <1>1, <2>1, MinimalSubset
<1>3. /\ g[u] = IF u = {} THEN 0 ELSE f[Chosen(u)] + g[u \ {Chosen(u)}]
      /\ h[u] = IF u = {} THEN 0 ELSE f[Chosen(u)] + h[u \ {Chosen(u)}]
  <2>1. u \in SUBSET S /\ u \in SUBSET T
    OBVIOUS
  <2> HIDE DEF Bad
  <2> QED BY <2>1 DEF IsSums
<1>4. u # {} => g[u \ {Chosen(u)}] = h[u \ {Chosen(u)}]
  <2>1. u # {} => Chosen(u) \in u
    BY DEF Chosen
  <2> QED BY <1>2, <2>1
<1> QED BY <1>2, <1>3, <1>4

(* Every finite set has its partial sums.                                  *)
LEMMA PartialSumsExist ==
  ASSUME NEW f, NEW S, IsFiniteSet(S)
  PROVE  IsSums(f, S, PartialSums(f, S))
<1> DEFINE Bad == {s \in SUBSET S : ~ \E g : IsSums(f, s, g)}
<1>1. ASSUME Bad # {} PROVE FALSE
  <2>1. PICK Y \in Bad : \A Z \in Bad : ~ (Z \subseteq Y /\ Z # Y)
    <3>1. Bad \in SUBSET (SUBSET S)
      OBVIOUS
    <3> HIDE DEF Bad
    <3> QED BY <1>1, <3>1, MinimalSubset
  <2> DEFINE value(u) == PartialSums(f, u)[u]
             g == [s \in SUBSET Y |-> IF s = {} THEN 0 ELSE f[Chosen(s)] + value(s \ {Chosen(s)})]
  <2>2. \A u \in SUBSET Y : u # Y => IsSums(f, u, PartialSums(f, u))
    BY <2>1 DEF PartialSums
  <2>3. ASSUME NEW w \in SUBSET Y, w # Y PROVE g[w] = value(w)
    <3>1. PartialSums(f, w)[w] = IF w = {} THEN 0 ELSE f[Chosen(w)] + PartialSums(f, w)[w \ {Chosen(w)}]
      <4>1. w \in SUBSET w
        OBVIOUS
      <4> QED BY <2>2, <2>3, <4>1 DEF IsSums
    <3>2. ASSUME w # {} PROVE PartialSums(f, w)[w \ {Chosen(w)}] = value(w \ {Chosen(w)})
      <4>1. Chosen(w) \in w
        BY <3>2 DEF Chosen
      <4> DEFINE v == w \ {Chosen(w)}
      <4>2. v \subseteq w /\ v # Y /\ v \in SUBSET Y /\ IsFiniteSet(v)
        BY <2>1, <2>3, <4>1, FS_Subset
      <4>3. IsSums(f, w, PartialSums(f, w)) /\ IsSums(f, v, PartialSums(f, v))
        BY <2>2, <2>3, <4>2
      <4>4. v \subseteq w /\ v \subseteq v
        OBVIOUS
      <4>5. PartialSums(f, w)[v] = PartialSums(f, v)[v]
        <5> HIDE DEF v
        <5> QED BY <4>2, <4>3, <4>4, PartialSumsUnique
      <4> QED BY <4>5
    <3> QED BY <3>1, <3>2
  <2>4. \A s \in SUBSET Y : s # {} => g[s \ {Chosen(s)}] = value(s \ {Chosen(s)})
    <3> SUFFICES ASSUME NEW s \in SUBSET Y, s # {}
                 PROVE  g[s \ {Chosen(s)}] = value(s \ {Chosen(s)})
      OBVIOUS
    <3>1. Chosen(s) \in s
      BY DEF Chosen
    <3>2. s \ {Chosen(s)} \in SUBSET Y /\ s \ {Chosen(s)} # Y
      BY <3>1
    <3> HIDE DEF g, value
    <3> QED BY <2>3, <3>2
  <2>5. IsSums(f, Y, g)
    <3>1. g = [s \in SUBSET Y |-> IF s = {} THEN 0 ELSE f[Chosen(s)] + value(s \ {Chosen(s)})]
      OBVIOUS
    <3> HIDE DEF g, value
    <3>2. g = [s \in SUBSET Y |-> IF s = {} THEN 0 ELSE f[Chosen(s)] + g[s \ {Chosen(s)}]]
      BY <2>4, <3>1
    <3> QED BY <3>2 DEF IsSums
  <2> QED BY <2>1, <2>5
<1>2. \E g : IsSums(f, S, g)
  BY <1>1
<1> QED BY <1>2 DEF PartialSums

(* The sum of a set is its first element's value and the sum of the rest.  *)
LEMMA SumEquation ==
  ASSUME NEW f, NEW S, IsFiniteSet(S)
  PROVE  SumOf(f, S) = IF S = {} THEN 0 ELSE f[Chosen(S)] + SumOf(f, S \ {Chosen(S)})
<1> DEFINE R == S \ {Chosen(S)}
<1>1. IsSums(f, S, PartialSums(f, S))
  BY PartialSumsExist
<1>2. PartialSums(f, S)[S] = IF S = {} THEN 0 ELSE f[Chosen(S)] + PartialSums(f, S)[R]
  <2>1. S \in SUBSET S
    OBVIOUS
  <2> QED BY <1>1, <2>1 DEF IsSums
<1>3. PartialSums(f, S)[R] = PartialSums(f, R)[R]
  <2>1. IsFiniteSet(R) /\ R \subseteq S
    BY FS_Subset
  <2>2. IsSums(f, R, PartialSums(f, R))
    BY <2>1, PartialSumsExist
  <2> HIDE DEF R
  <2> QED BY <1>1, <2>1, <2>2, PartialSumsUnique
<1> QED BY <1>2, <1>3, SumIsPartialSum

(* The empty sum is zero.                                                  *)
LEMMA SumEmpty ==
  ASSUME NEW f
  PROVE  SumOf(f, {}) = 0
BY SumEquation, FS_EmptySet

(* The sum of naturals is a natural.                                       *)
LEMMA SumType ==
  ASSUME NEW f, NEW S, IsFiniteSet(S), \A x \in S : f[x] \in Nat
  PROVE  SumOf(f, S) \in Nat
<1> DEFINE Bad == {s \in SUBSET S : SumOf(f, s) \notin Nat}
<1>1. ASSUME Bad # {} PROVE FALSE
  <2>1. PICK s \in Bad : \A r \in Bad : ~ (r \subseteq s /\ r # s)
    <3>1. Bad \in SUBSET (SUBSET S)
      OBVIOUS
    <3> HIDE DEF Bad
    <3> QED BY <1>1, <3>1, MinimalSubset
  <2>2. IsFiniteSet(s)
    BY <2>1, FS_Subset
  <2>3. SumOf(f, s) = IF s = {} THEN 0 ELSE f[Chosen(s)] + SumOf(f, s \ {Chosen(s)})
    BY <2>2, SumEquation
  <2>4. s # {} => Chosen(s) \in s
    BY DEF Chosen
  <2>5. s # {} => SumOf(f, s \ {Chosen(s)}) \in Nat
    BY <2>1, <2>4
  <2> QED BY <2>1, <2>3, <2>4, <2>5
<1> QED BY <1>1

(* Any element can be taken out of a sum first.                            *)
LEMMA SumPick ==
  ASSUME NEW f, NEW S, IsFiniteSet(S), \A x \in S : f[x] \in Nat, NEW a \in S
  PROVE  SumOf(f, S) = f[a] + SumOf(f, S \ {a})
<1> DEFINE Bad == {s \in SUBSET S : \E x \in s : SumOf(f, s) # f[x] + SumOf(f, s \ {x})}
<1>1. ASSUME Bad # {} PROVE FALSE
  <2>1. PICK s \in Bad : \A r \in Bad : ~ (r \subseteq s /\ r # s)
    <3>1. Bad \in SUBSET (SUBSET S)
      OBVIOUS
    <3> HIDE DEF Bad
    <3> QED BY <1>1, <3>1, MinimalSubset
  <2>2. PICK x \in s : SumOf(f, s) # f[x] + SumOf(f, s \ {x})
    BY <2>1
  <2> DEFINE y == Chosen(s)
  <2>3. s \subseteq S /\ IsFiniteSet(s)
    BY <2>1, FS_Subset
  <2>4. y \in s /\ SumOf(f, s) = f[y] + SumOf(f, s \ {y})
    BY <2>2, <2>3, SumEquation DEF Chosen
  <2>5. x # y
    BY <2>2, <2>4
  <2>6. \A r \in SUBSET s : r # s => \A z \in r : SumOf(f, r) = f[z] + SumOf(f, r \ {z})
    BY <2>1, <2>3
  <2> HIDE DEF y, Bad
  <2>7. SumOf(f, s \ {y}) = f[x] + SumOf(f, (s \ {y}) \ {x})
    BY <2>2, <2>4, <2>5, <2>6
  <2>8. SumOf(f, s \ {x}) = f[y] + SumOf(f, (s \ {x}) \ {y})
    BY <2>2, <2>4, <2>5, <2>6
  <2>9. (s \ {y}) \ {x} = (s \ {x}) \ {y}
    OBVIOUS
  <2>10. f[x] \in Nat /\ f[y] \in Nat /\ SumOf(f, (s \ {x}) \ {y}) \in Nat
    <3>1. (s \ {x}) \ {y} \subseteq S /\ IsFiniteSet((s \ {x}) \ {y})
      BY <2>3, FS_Subset
    <3> QED BY <2>2, <2>3, <2>4, <3>1, SumType
  <2>11. PICK rest : rest = SumOf(f, (s \ {x}) \ {y})
    OBVIOUS
  <2>12. SumOf(f, s \ {y}) = f[x] + rest /\ SumOf(f, s \ {x}) = f[y] + rest /\ rest \in Nat
    BY <2>7, <2>8, <2>9, <2>10, <2>11
  <2> QED BY <2>2, <2>4, <2>10, <2>12
<1>2. S \in SUBSET S /\ S \notin Bad
  BY <1>1
<1> QED BY <1>2

(* One element more.                                                       *)
LEMMA SumAdd ==
  ASSUME NEW f, NEW S, IsFiniteSet(S), \A x \in S : f[x] \in Nat,
         NEW a, a \notin S, f[a] \in Nat
  PROVE  SumOf(f, S \cup {a}) = f[a] + SumOf(f, S)
<1>1. IsFiniteSet(S \cup {a}) /\ \A x \in S \cup {a} : f[x] \in Nat
  BY FS_AddElement
<1>2. (S \cup {a}) \ {a} = S
  OBVIOUS
<1> QED BY <1>1, <1>2, SumPick

(* A sum over renamed elements.                                            *)
LEMMA SumMap ==
  ASSUME NEW f, NEW g, NEW m, NEW S, IsFiniteSet(S),
         \A x \in S : g[m[x]] = f[x] /\ f[x] \in Nat,
         \A x, y \in S : m[x] = m[y] => x = y
  PROVE  SumOf(f, S) = SumOf(g, {m[x] : x \in S})
<1> DEFINE Im(s) == {m[x] : x \in s}
           Bad == {s \in SUBSET S : SumOf(f, s) # SumOf(g, Im(s))}
<1>1. ASSUME Bad # {} PROVE FALSE
  <2>1. PICK s \in Bad : \A r \in Bad : ~ (r \subseteq s /\ r # s)
    <3>1. Bad \in SUBSET (SUBSET S)
      OBVIOUS
    <3> HIDE DEF Bad
    <3> QED BY <1>1, <3>1, MinimalSubset
  <2>2. s \subseteq S /\ IsFiniteSet(s) /\ SumOf(f, s) # SumOf(g, Im(s))
    BY <2>1, FS_Subset
  <2>3. s # {}
    <3>1. ASSUME s = {} PROVE Im(s) = {}
      BY <3>1
    <3> QED BY <2>2, <3>1, SumEmpty
  <2>4. PICK a \in s : TRUE
    BY <2>3
  <2>5. Im(s \ {a}) = Im(s) \ {m[a]} /\ m[a] \in Im(s)
    BY <2>2, <2>4
  <2>6. IsFiniteSet(Im(s)) /\ \A z \in Im(s) : g[z] \in Nat
    <3>1. IsFiniteSet(Im(s))
      <4> DEFINE on == [x \in s |-> m[x]]
      <4>1. on \in Surjection(s, Im(s))
        BY DEF Surjection
      <4> HIDE DEF on, Im
      <4> QED BY <2>2, <4>1, FS_Surjection
    <3> QED BY <2>2, <3>1
  <2>7. SumOf(f, s \ {a}) = SumOf(g, Im(s \ {a}))
    BY <2>1, <2>4
  <2> HIDE DEF Im, Bad
  <2>8. SumOf(f, s) = f[a] + SumOf(f, s \ {a})
    BY <2>2, <2>4, SumPick
  <2>9. SumOf(g, Im(s)) = g[m[a]] + SumOf(g, Im(s) \ {m[a]})
    BY <2>5, <2>6, SumPick
  <2> QED BY <2>2, <2>4, <2>5, <2>7, <2>8, <2>9
<1> QED BY <1>1

(* Only the values on the set matter.                                      *)
LEMMA SumSame ==
  ASSUME NEW f, NEW g, NEW S, IsFiniteSet(S), \A x \in S : g[x] = f[x] /\ f[x] \in Nat
  PROVE  SumOf(f, S) = SumOf(g, S)
<1> DEFINE m == [x \in S |-> x]
<1>1. /\ \A x \in S : g[m[x]] = f[x] /\ f[x] \in Nat
      /\ \A x, y \in S : m[x] = m[y] => x = y
      /\ {m[x] : x \in S} = S
  OBVIOUS
<1> HIDE DEF m
<1>2. SumOf(f, S) = SumOf(g, {m[x] : x \in S})
  BY <1>1, SumMap
<1> QED BY <1>1, <1>2

(* The sum of two sets with no element in common.                          *)
LEMMA SumUnion ==
  ASSUME NEW f, NEW S, NEW T, IsFiniteSet(S), IsFiniteSet(T), S \cap T = {},
         \A x \in S \cup T : f[x] \in Nat
  PROVE  SumOf(f, S \cup T) = SumOf(f, S) + SumOf(f, T)
<1> DEFINE Bad == {t \in SUBSET T : SumOf(f, S \cup t) # SumOf(f, S) + SumOf(f, t)}
<1>1. ASSUME Bad # {} PROVE FALSE
  <2>1. PICK t \in Bad : \A r \in Bad : ~ (r \subseteq t /\ r # t)
    <3>1. Bad \in SUBSET (SUBSET T)
      OBVIOUS
    <3> HIDE DEF Bad
    <3> QED BY <1>1, <3>1, MinimalSubset
  <2>2. /\ t \subseteq T /\ IsFiniteSet(t) /\ SumOf(f, S \cup t) # SumOf(f, S) + SumOf(f, t)
    BY <2>1, FS_Subset
  <2>3. t # {}
    <3>1. SumOf(f, S) \in Nat /\ SumOf(f, {}) = 0 /\ S \cup {} = S
      BY SumEmpty, SumType
    <3> SUFFICES ASSUME t = {} PROVE FALSE
      OBVIOUS
    <3>2. SumOf(f, S \cup {}) # SumOf(f, S) + SumOf(f, {})
      BY <2>2
    <3> QED BY <3>1, <3>2
  <2>4. PICK a \in t : TRUE
    BY <2>3
  <2>5. SumOf(f, S \cup (t \ {a})) = SumOf(f, S) + SumOf(f, t \ {a})
    BY <2>1, <2>4
  <2> HIDE DEF Bad
  <2>6. SumOf(f, t) = f[a] + SumOf(f, t \ {a})
    BY <2>2, <2>4, SumPick
  <2>7. SumOf(f, S \cup t) = f[a] + SumOf(f, S \cup (t \ {a}))
    <3>1. (S \cup t) \ {a} = S \cup (t \ {a}) /\ IsFiniteSet(S \cup t) /\ a \in S \cup t
          /\ \A x \in S \cup t : f[x] \in Nat
      BY <2>2, <2>4, FS_Union
    <3> QED BY <3>1, SumPick
  <2>8. f[a] \in Nat /\ SumOf(f, S) \in Nat /\ SumOf(f, t \ {a}) \in Nat
    <3>1. IsFiniteSet(t \ {a})
      BY <2>2, FS_Subset
    <3> QED BY <2>2, <2>4, <3>1, SumType
  <2> QED BY <2>2, <2>5, <2>6, <2>7, <2>8
<1>2. T \notin Bad
  BY <1>1
<1> QED BY <1>2

(* A sum of positive numbers is at least their number.                     *)
LEMMA SumOfPositives ==
  ASSUME NEW f, NEW S, IsFiniteSet(S), \A x \in S : f[x] \in Nat \ {0}
  PROVE  Cardinality(S) <= SumOf(f, S)
<1> DEFINE Bad == {s \in SUBSET S : ~ Cardinality(s) <= SumOf(f, s)}
<1>1. ASSUME Bad # {} PROVE FALSE
  <2>1. PICK s \in Bad : \A r \in Bad : ~ (r \subseteq s /\ r # s)
    <3>1. Bad \in SUBSET (SUBSET S)
      OBVIOUS
    <3> HIDE DEF Bad
    <3> QED BY <1>1, <3>1, MinimalSubset
  <2>2. s \subseteq S /\ IsFiniteSet(s) /\ ~ Cardinality(s) <= SumOf(f, s)
    BY <2>1, FS_Subset
  <2>3. CASE s = {}
    BY <2>2, <2>3, SumEmpty, FS_EmptySet
  <2>4. CASE s # {}
    <3>1. PICK a \in s : TRUE
      BY <2>4
    <3>2. IsFiniteSet(s \ {a}) /\ Cardinality(s \ {a}) = Cardinality(s) - 1
          /\ Cardinality(s) \in Nat
      BY <2>2, <3>1, FS_RemoveElement, FS_CardinalityType
    <3>3. \A x \in s : f[x] \in Nat \ {0}
      BY <2>2
    <3>4. SumOf(f, s) = f[a] + SumOf(f, s \ {a}) /\ SumOf(f, s \ {a}) \in Nat
      BY <2>2, <3>1, <3>2, <3>3, SumPick, SumType
    <3>5. s \ {a} \notin Bad
      BY <2>1, <3>1
    <3>6. Cardinality(s \ {a}) <= SumOf(f, s \ {a})
      BY <2>2, <3>5
    <3> QED BY <2>2, <3>1, <3>2, <3>3, <3>4, <3>6
  <2> QED BY <2>3, <2>4
<1>2. S \notin Bad
  BY <1>1
<1> QED BY <1>2

-----------------------------------------------------------------------------
(* Two sets that differ in one element at most.                            *)

One(in) == IF in THEN 1 ELSE 0
If(in, n) == IF in THEN n ELSE 0

(* Their numbers differ by that element.                                   *)
LEMMA CountStep ==
  ASSUME NEW S, IsFiniteSet(S), NEW T, NEW x, T \ {x} = S \ {x}
  PROVE  /\ IsFiniteSet(T) /\ Cardinality(S) \in Nat /\ Cardinality(T) \in Nat
         /\ Cardinality(T) = Cardinality(S) - One(x \in S) + One(x \in T)
<1> DEFINE R == S \ {x}
<1>1. IsFiniteSet(R) /\ Cardinality(R) \in Nat
  BY FS_Subset, FS_CardinalityType
<1>2. Cardinality(R \cup {x}) = Cardinality(R) + 1 /\ IsFiniteSet(R \cup {x})
  <2>1. x \notin R
    OBVIOUS
  <2> HIDE DEF R
  <2> QED BY <1>1, <2>1, FS_AddElement
<1>3. ASSUME NEW U, U \ {x} = R
      PROVE  IsFiniteSet(U) /\ Cardinality(U) \in Nat /\ Cardinality(U) = Cardinality(R) + One(x \in U)
  <2>1. CASE x \in U
    <3>1. U = R \cup {x}
      BY <1>3, <2>1
    <3> HIDE DEF R
    <3> QED BY <1>1, <1>2, <2>1, <3>1 DEF One
  <2>2. CASE x \notin U
    <3>1. U = R
      BY <1>3, <2>2
    <3> HIDE DEF R
    <3> QED BY <1>1, <2>2, <3>1 DEF One
  <2> QED BY <2>1, <2>2
<1>4. /\ IsFiniteSet(S) /\ Cardinality(S) \in Nat /\ Cardinality(S) = Cardinality(R) + One(x \in S)
      /\ IsFiniteSet(T) /\ Cardinality(T) \in Nat /\ Cardinality(T) = Cardinality(R) + One(x \in T)
  BY <1>3
<1> HIDE DEF R
<1> QED BY <1>1, <1>4 DEF One

(* Their sums differ by its values.                                        *)
LEMMA SumStep ==
  ASSUME NEW f, NEW g, NEW S, IsFiniteSet(S), NEW T, NEW x, T \ {x} = S \ {x},
         \A y \in S : f[y] \in Nat, \A y \in T : g[y] \in Nat,
         \A y \in S : y # x => g[y] = f[y]
  PROVE  /\ SumOf(f, S) \in Nat /\ SumOf(g, T) \in Nat
         /\ SumOf(g, T) = SumOf(f, S) - If(x \in S, f[x]) + If(x \in T, g[x])
<1> DEFINE R == S \ {x}
<1>1. IsFiniteSet(R) /\ IsFiniteSet(T)
  BY FS_Subset, CountStep
<1>2. SumOf(f, S) \in Nat /\ SumOf(g, T) \in Nat /\ SumOf(f, R) \in Nat
  BY <1>1, SumType
<1>3. SumOf(f, R) = SumOf(g, R)
  <2>1. \A y \in R : g[y] = f[y] /\ f[y] \in Nat
    OBVIOUS
  <2> HIDE DEF R
  <2> QED BY <1>1, <2>1, SumSame
<1>4. SumOf(f, S) = SumOf(f, R) + If(x \in S, f[x])
  <2>1. CASE x \in S
    <3>1. f[x] \in Nat /\ SumOf(f, S) = f[x] + SumOf(f, R)
      BY <2>1, SumPick
    <3> HIDE DEF R
    <3> QED BY <1>2, <2>1, <3>1 DEF If
  <2>2. CASE x \notin S
    <3>1. R = S
      BY <2>2
    <3> HIDE DEF R
    <3> QED BY <1>2, <2>2, <3>1 DEF If
  <2> QED BY <2>1, <2>2
<1>5. SumOf(g, T) = SumOf(g, R) + If(x \in T, g[x])
  <2>0. R = T \ {x}
    OBVIOUS
  <2> HIDE DEF R
  <2>1. CASE x \in T
    <3>1. g[x] \in Nat /\ SumOf(g, T) = g[x] + SumOf(g, R)
      BY <1>1, <2>0, <2>1, SumPick
    <3> QED BY <1>2, <1>3, <2>1, <3>1 DEF If
  <2>2. CASE x \notin T
    <3>1. R = T
      BY <2>0, <2>2
    <3> QED BY <1>2, <1>3, <2>2, <3>1 DEF If
  <2> QED BY <2>1, <2>2
<1>6. (x \in S => f[x] \in Nat) /\ (x \in T => g[x] \in Nat)
  OBVIOUS
<1> HIDE DEF R
<1> QED BY <1>2, <1>3, <1>4, <1>5, <1>6 DEF If
=============================================================================
