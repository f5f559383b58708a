------------------- MODULE MemoryChunkPoolAllocatorProofs -------------------
(***************************************************************************)
(* The theorems about the allocator of pools, for all values of its        *)
(* constants: any places for pools, any sizes, any tolerance.              *)
(*                                                                         *)
(* The inductive invariant is AllocInv.  Every pool is good, in use, kept  *)
(* empty or gone, and the sets alloc chooses from hold the pools in use    *)
(* that advertise the size (AllocatorOK); the blocks in the trees of the   *)
(* pools are the callers', each of its rounded size (LiveOK); clean keeps  *)
(* the empty pools few.  A call of alloc takes empty pools one after the   *)
(* other, so its lemmas follow the recursion of TakeEmpties (TakenFrom) and*)
(* say what the call comes to (AllocOutcome).                              *)
(*                                                                         *)
(* The constructor of a pool leaves its count uninitialised.  The theorems *)
(* therefore say what that word may hold: any natural number, so that no   *)
(* count is 0 while a block is live.  Run allocator_count shows what       *)
(* happens with a word that wraps.                                         *)
(***************************************************************************)
EXTENDS MemoryChunkPoolAllocator, MemoryPoolProofs

-----------------------------------------------------------------------------
(* The allocator's fields as a record, and the records it passes on.       *)

State(P, A, E, F, G) == [pools |-> P, allPools |-> A, emptyPools |-> E, first |-> F, second |-> G]
WithPool(s, e, p) == [s EXCEPT !.pools[e] = p]
WithPoolUsed(s, e, p, A) == [s EXCEPT !.pools[e] = p, !.allPools = A]
WithArrays(s, F, G) == [s EXCEPT !.first = F, !.second = G]
WithEmpty(s, E) == [s EXCEPT !.emptyPools = E]
WithLists(s, A, E) == [s EXCEPT !.allPools = A, !.emptyPools = E]
WithCleaned(s, E, P) == [s EXCEPT !.emptyPools = E, !.pools = P]

Records(I, O, B, C, D) == [pools : [I -> O], allPools : B, emptyPools : C, first : D, second : D]

LEMMA SameRecord ==
  ASSUME NEW I, NEW O, NEW B, NEW C, NEW D, NEW t \in Records(I, O, B, C, D)
  PROVE  t = State(t.pools, t.allPools, t.emptyPools, t.first, t.second)
<1>1. \A q, r \in Records(I, O, B, C, D) :
        /\ q.pools = r.pools /\ q.allPools = r.allPools /\ q.emptyPools = r.emptyPools
        /\ q.first = r.first /\ q.second = r.second
        => q = r
  BY DEF Records
<1> DEFINE u == State(t.pools, t.allPools, t.emptyPools, t.first, t.second)
<1>2. /\ u.pools = t.pools /\ u.allPools = t.allPools /\ u.emptyPools = t.emptyPools
      /\ u.first = t.first /\ u.second = t.second
  BY DEF State
<1>3. u \in Records(I, O, B, C, D)
  BY DEF State, Records
<1> HIDE DEF u
<1>4. t = u
  BY <1>1, <1>2, <1>3
<1> QED BY <1>4 DEF u

LEMMA EditPool ==
  ASSUME NEW I, NEW O, NEW B, NEW C, NEW D, NEW s \in Records(I, O, B, C, D), NEW e \in I, NEW p \in O
  PROVE  WithPool(s, e, p) = State([s.pools EXCEPT ![e] = p], s.allPools, s.emptyPools, s.first, s.second)
<1> DEFINE t == WithPool(s, e, p)
<1>1. /\ t \in Records(I, O, B, C, D) /\ t.pools = [s.pools EXCEPT ![e] = p] /\ t.allPools = s.allPools
      /\ t.emptyPools = s.emptyPools /\ t.first = s.first /\ t.second = s.second
  BY DEF WithPool, Records
<1> HIDE DEF t
<1>2. t = State([s.pools EXCEPT ![e] = p], s.allPools, s.emptyPools, s.first, s.second)
  BY <1>1, SameRecord
<1> QED BY <1>2 DEF t

LEMMA EditPoolUsed ==
  ASSUME NEW I, NEW O, NEW B, NEW C, NEW D, NEW s \in Records(I, O, B, C, D), NEW e \in I, NEW p \in O, NEW A \in B
  PROVE  WithPoolUsed(s, e, p, A) = State([s.pools EXCEPT ![e] = p], A, s.emptyPools, s.first, s.second)
<1> DEFINE t == WithPoolUsed(s, e, p, A)
<1>1. /\ t \in Records(I, O, B, C, D) /\ t.pools = [s.pools EXCEPT ![e] = p] /\ t.allPools = A
      /\ t.emptyPools = s.emptyPools /\ t.first = s.first /\ t.second = s.second
  BY DEF WithPoolUsed, Records
<1> HIDE DEF t
<1>2. t = State([s.pools EXCEPT ![e] = p], A, s.emptyPools, s.first, s.second)
  BY <1>1, SameRecord
<1> QED BY <1>2 DEF t

LEMMA EditArrays ==
  ASSUME NEW I, NEW O, NEW B, NEW C, NEW D, NEW s \in Records(I, O, B, C, D), NEW F \in D, NEW G \in D
  PROVE  WithArrays(s, F, G) = State(s.pools, s.allPools, s.emptyPools, F, G)
<1> DEFINE t == WithArrays(s, F, G)
<1>1. /\ t \in Records(I, O, B, C, D) /\ t.pools = s.pools /\ t.allPools = s.allPools
      /\ t.emptyPools = s.emptyPools /\ t.first = F /\ t.second = G
  BY DEF WithArrays, Records
<1> HIDE DEF t
<1>2. t = State(s.pools, s.allPools, s.emptyPools, F, G)
  BY <1>1, SameRecord
<1> QED BY <1>2 DEF t

LEMMA EditEmpty ==
  ASSUME NEW I, NEW O, NEW B, NEW C, NEW D, NEW s \in Records(I, O, B, C, D), NEW E \in C
  PROVE  WithEmpty(s, E) = State(s.pools, s.allPools, E, s.first, s.second)
<1> DEFINE t == WithEmpty(s, E)
<1>1. /\ t \in Records(I, O, B, C, D) /\ t.pools = s.pools /\ t.allPools = s.allPools
      /\ t.emptyPools = E /\ t.first = s.first /\ t.second = s.second
  BY DEF WithEmpty, Records
<1> HIDE DEF t
<1>2. t = State(s.pools, s.allPools, E, s.first, s.second)
  BY <1>1, SameRecord
<1> QED BY <1>2 DEF t

LEMMA EditLists ==
  ASSUME NEW I, NEW O, NEW B, NEW C, NEW D, NEW s \in Records(I, O, B, C, D), NEW A \in B, NEW E \in C
  PROVE  WithLists(s, A, E) = State(s.pools, A, E, s.first, s.second)
<1> DEFINE t == WithLists(s, A, E)
<1>1. /\ t \in Records(I, O, B, C, D) /\ t.pools = s.pools /\ t.allPools = A
      /\ t.emptyPools = E /\ t.first = s.first /\ t.second = s.second
  BY DEF WithLists, Records
<1> HIDE DEF t
<1>2. t = State(s.pools, A, E, s.first, s.second)
  BY <1>1, SameRecord
<1> QED BY <1>2 DEF t

LEMMA EditCleaned ==
  ASSUME NEW I, NEW O, NEW B, NEW C, NEW D, NEW s \in Records(I, O, B, C, D), NEW E \in C, NEW P \in [I -> O]
  PROVE  WithCleaned(s, E, P) = State(P, s.allPools, E, s.first, s.second)
<1> DEFINE t == WithCleaned(s, E, P)
<1>1. /\ t \in Records(I, O, B, C, D) /\ t.pools = P /\ t.allPools = s.allPools
      /\ t.emptyPools = E /\ t.first = s.first /\ t.second = s.second
  BY DEF WithCleaned, Records
<1> HIDE DEF t
<1>2. t = State(P, s.allPools, E, s.first, s.second)
  BY <1>1, SameRecord
<1> QED BY <1>2 DEF t

(* Both arrays hold the pools in use that have the size.                   *)
Sets == [1 .. 32 -> SUBSET PoolIds]
RightArrays(F, G, P, A) ==
  \A k \in 1 .. 32 : \A d :
    /\ d \in F[k] <=> d \in A /\ k \in P[d].freeSizes.first
    /\ d \in G[k] <=> d \in A /\ k \in P[d].freeSizes.second
Shown(P, A, e) == IF e \in A THEN P[e].freeSizes ELSE NoSizes

(* repairArrays keeps them right when one pool has changed.                *)
LEMMA MovedIs ==
  ASSUME NEW F \in Sets, NEW e \in PoolIds, NEW old, NEW new,
         \A k \in 1 .. 32 : e \in F[k] <=> k \in old
  PROVE  /\ Moved(F, e, old, new) \in Sets
         /\ \A k \in 1 .. 32 : \A d :
              d \in Moved(F, e, old, new)[k] <=> IF d = e THEN k \in new ELSE d \in F[k]
<1> DEFINE M == Moved(F, e, old, new)
<1>1. DOMAIN F = 1 .. 32
  BY DEF Sets
<1>2. M = [k \in 1 .. 32 |-> IF k \in new \ old THEN F[k] \cup {e}
                             ELSE IF k \in old \ new THEN F[k] \ {e} ELSE F[k]]
  BY <1>1 DEF Moved
<1> HIDE DEF M
<1>3. ASSUME NEW k \in 1 .. 32
      PROVE  /\ M[k] \in SUBSET PoolIds
             /\ \A d : d \in M[k] <=> IF d = e THEN k \in new ELSE d \in F[k]
  <2>1. M[k] = IF k \in new \ old THEN F[k] \cup {e}
               ELSE IF k \in old \ new THEN F[k] \ {e} ELSE F[k]
    BY <1>2
  <2>2. F[k] \in SUBSET PoolIds
    BY DEF Sets
  <2> QED BY <2>1, <2>2
<1>4. M \in Sets
  BY <1>2, <1>3 DEF Sets
<1> QED BY <1>3, <1>4 DEF M

LEMMA ArraysStayRight ==
  ASSUME NEW F \in Sets, NEW G \in Sets, NEW P, NEW A, RightArrays(F, G, P, A),
         NEW e \in PoolIds, NEW Q, NEW B,
         \A d \in PoolIds : d # e => Q[d] = P[d], \A d : d # e => (d \in B <=> d \in A),
         A \subseteq PoolIds,
         NEW old, NEW new, old = Shown(P, A, e), new = Shown(Q, B, e)
  PROVE  /\ Moved(F, e, old.first, new.first) \in Sets
         /\ Moved(G, e, old.second, new.second) \in Sets
         /\ RightArrays(Moved(F, e, old.first, new.first), Moved(G, e, old.second, new.second), Q, B)
<1>1. \A k \in 1 .. 32 : /\ e \in F[k] <=> k \in old.first
                         /\ e \in G[k] <=> k \in old.second
  BY DEF RightArrays, Shown, NoSizes
<1>2. \A k \in 1 .. 32 : /\ e \in B /\ k \in Q[e].freeSizes.first <=> k \in new.first
                         /\ e \in B /\ k \in Q[e].freeSizes.second <=> k \in new.second
  BY DEF Shown, NoSizes
<1> DEFINE M == Moved(F, e, old.first, new.first)
           N == Moved(G, e, old.second, new.second)
<1>3. /\ M \in Sets
      /\ \A k \in 1 .. 32 : \A d : d \in M[k] <=> IF d = e THEN k \in new.first ELSE d \in F[k]
  BY <1>1, MovedIs
<1>4. /\ N \in Sets
      /\ \A k \in 1 .. 32 : \A d : d \in N[k] <=> IF d = e THEN k \in new.second ELSE d \in G[k]
  BY <1>1, MovedIs
<1> HIDE DEF M, N
<1>5. ASSUME NEW k \in 1 .. 32, NEW d
      PROVE  /\ d \in M[k] <=> d \in B /\ k \in Q[d].freeSizes.first
             /\ d \in N[k] <=> d \in B /\ k \in Q[d].freeSizes.second
  <2>1. CASE d = e
    BY <1>2, <1>3, <1>4, <2>1
  <2>2. CASE d # e
    <3>1. CASE d \in PoolIds
      BY <1>3, <1>4, <2>2, <3>1 DEF RightArrays
    <3>2. CASE d \notin PoolIds
      BY <1>3, <1>4, <2>2, <3>2 DEF RightArrays
    <3> QED BY <3>1, <3>2
  <2> QED BY <2>1, <2>2
<1>6. RightArrays(M, N, Q, B)
  BY <1>5 DEF RightArrays
<1> QED BY <1>3, <1>4, <1>6 DEF M, N

-----------------------------------------------------------------------------
(* What is always true of the allocator's fields.                          *)

Allocators == [pools : [PoolIds -> PoolObjects], allPools : SUBSET PoolIds,
               emptyPools : Seq(PoolIds), first : Sets, second : Sets]
Kept(E) == {E[i] : i \in 1 .. Len(E)}
Apart(A, E) ==
  /\ \A i, j \in 1 .. Len(E) : E[i] = E[j] => i = j
  /\ \A i \in 1 .. Len(E) : E[i] \notin A

(* A pool counts its blocks from what its count held when it was made.     *)
CountsItsBlocks(p) ==
  /\ IsFiniteSet(BlocksIn(p))
  /\ p.allocatedcount - Cardinality(BlocksIn(p)) \in Garbage \cup {0}
GoodPool(p) == PoolOK(p) /\ CountsItsBlocks(p)

LEMMA BlocksCounted ==
  ASSUME NEW p, GoodPool(p)
  PROVE  /\ PoolOK(p) /\ p \in PoolObjects /\ p.allocatedcount \in Int
         /\ IsFiniteSet(BlocksIn(p)) /\ Cardinality(BlocksIn(p)) \in Nat
BY FS_CardinalityType DEF GoodPool, CountsItsBlocks, PoolOK, PoolObjects

LEMMA OneMoreCounted ==
  ASSUME NEW p, GoodPool(p), NEW q, PoolOK(q), NEW b, b \notin BlocksIn(p),
         BlocksIn(q) = BlocksIn(p) \cup {b}, q.allocatedcount = p.allocatedcount + 1
  PROVE  GoodPool(q)
<1>1. IsFiniteSet(BlocksIn(q)) /\ Cardinality(BlocksIn(q)) = Cardinality(BlocksIn(p)) + 1
  BY BlocksCounted, FS_AddElement
<1>2. q.allocatedcount - Cardinality(BlocksIn(q)) = p.allocatedcount - Cardinality(BlocksIn(p))
  BY <1>1, BlocksCounted
<1> QED BY <1>1, <1>2 DEF GoodPool, CountsItsBlocks

LEMMA OneLessCounted ==
  ASSUME NEW p, GoodPool(p), NEW q, PoolOK(q), NEW b \in BlocksIn(p),
         BlocksIn(q) = BlocksIn(p) \ {b}, q.allocatedcount = p.allocatedcount - 1
  PROVE  GoodPool(q)
<1>1. IsFiniteSet(BlocksIn(q)) /\ Cardinality(BlocksIn(q)) = Cardinality(BlocksIn(p)) - 1
  BY BlocksCounted, FS_RemoveElement
<1>2. q.allocatedcount - Cardinality(BlocksIn(q)) = p.allocatedcount - Cardinality(BlocksIn(p))
  BY <1>1, BlocksCounted
<1> QED BY <1>1, <1>2 DEF GoodPool, CountsItsBlocks

(* A pool in use or kept has memory; what is not in use has no blocks; the *)
(* others are gone.  The pool at the place but is about to be used.        *)
AllocatorOKBut(s, but) ==
  /\ s \in Allocators
  /\ \A e \in PoolIds : GoodPool(s.pools[e])
  /\ Apart(s.allPools, s.emptyPools)
  /\ \A e \in PoolIds \ s.allPools : BlocksIn(s.pools[e]) = {}
  /\ \A e \in PoolIds \ but :
       IF e \in s.allPools \cup Kept(s.emptyPools) THEN s.pools[e].memory ELSE s.pools[e] = Unused
  /\ RightArrays(s.first, s.second, s.pools, s.allPools)
AllocatorOK(s) == AllocatorOKBut(s, {})

LEMMA StateFields ==
  ASSUME NEW P, NEW A, NEW E, NEW F, NEW G
  PROVE  /\ State(P, A, E, F, G).pools = P /\ State(P, A, E, F, G).allPools = A
         /\ State(P, A, E, F, G).emptyPools = E /\ State(P, A, E, F, G).first = F
         /\ State(P, A, E, F, G).second = G
BY DEF State

LEMMA StateType ==
  ASSUME NEW P \in [PoolIds -> PoolObjects], NEW A \in SUBSET PoolIds, NEW E \in Seq(PoolIds),
         NEW F \in Sets, NEW G \in Sets
  PROVE  State(P, A, E, F, G) \in Allocators
BY DEF State, Allocators

LEMMA WithPoolIs ==
  ASSUME NEW s \in Allocators, NEW e \in PoolIds, NEW p \in PoolObjects
  PROVE  WithPool(s, e, p) = State([s.pools EXCEPT ![e] = p], s.allPools, s.emptyPools, s.first, s.second)
<1> DEFINE O == PoolObjects
           B == SUBSET PoolIds
           C == Seq(PoolIds)
           D == Sets
<1>1. s \in Records(PoolIds, O, B, C, D)
  BY DEF Allocators, Records
<1>2. e \in PoolIds /\ p \in O
  OBVIOUS
<1> HIDE DEF O, B, C, D
<1> QED BY <1>1, <1>2, EditPool

LEMMA WithPoolUsedIs ==
  ASSUME NEW s \in Allocators, NEW e \in PoolIds, NEW p \in PoolObjects, NEW A \in SUBSET PoolIds
  PROVE  WithPoolUsed(s, e, p, A) = State([s.pools EXCEPT ![e] = p], A, s.emptyPools, s.first, s.second)
<1> DEFINE O == PoolObjects
           B == SUBSET PoolIds
           C == Seq(PoolIds)
           D == Sets
<1>1. s \in Records(PoolIds, O, B, C, D)
  BY DEF Allocators, Records
<1>2. e \in PoolIds /\ p \in O /\ A \in B
  OBVIOUS
<1> HIDE DEF O, B, C, D
<1> QED BY <1>1, <1>2, EditPoolUsed

LEMMA WithArraysIs ==
  ASSUME NEW s \in Allocators, NEW F \in Sets, NEW G \in Sets
  PROVE  WithArrays(s, F, G) = State(s.pools, s.allPools, s.emptyPools, F, G)
<1> DEFINE O == PoolObjects
           B == SUBSET PoolIds
           C == Seq(PoolIds)
           D == Sets
<1>1. s \in Records(PoolIds, O, B, C, D)
  BY DEF Allocators, Records
<1>2. F \in D /\ G \in D
  OBVIOUS
<1> HIDE DEF O, B, C, D
<1> QED BY <1>1, <1>2, EditArrays

LEMMA WithEmptyIs ==
  ASSUME NEW s \in Allocators, NEW E \in Seq(PoolIds)
  PROVE  WithEmpty(s, E) = State(s.pools, s.allPools, E, s.first, s.second)
<1> DEFINE O == PoolObjects
           B == SUBSET PoolIds
           C == Seq(PoolIds)
           D == Sets
<1>1. s \in Records(PoolIds, O, B, C, D)
  BY DEF Allocators, Records
<1>2. E \in C
  OBVIOUS
<1> HIDE DEF O, B, C, D
<1> QED BY <1>1, <1>2, EditEmpty

LEMMA WithListsIs ==
  ASSUME NEW s \in Allocators, NEW A \in SUBSET PoolIds, NEW E \in Seq(PoolIds)
  PROVE  WithLists(s, A, E) = State(s.pools, A, E, s.first, s.second)
<1> DEFINE O == PoolObjects
           B == SUBSET PoolIds
           C == Seq(PoolIds)
           D == Sets
<1>1. s \in Records(PoolIds, O, B, C, D)
  BY DEF Allocators, Records
<1>2. A \in B /\ E \in C
  OBVIOUS
<1> HIDE DEF O, B, C, D
<1> QED BY <1>1, <1>2, EditLists

LEMMA WithCleanedIs ==
  ASSUME NEW s \in Allocators, NEW E \in Seq(PoolIds), NEW P \in [PoolIds -> PoolObjects]
  PROVE  WithCleaned(s, E, P) = State(P, s.allPools, E, s.first, s.second)
<1> DEFINE O == PoolObjects
           B == SUBSET PoolIds
           C == Seq(PoolIds)
           D == Sets
<1>1. s \in Records(PoolIds, O, B, C, D)
  BY DEF Allocators, Records
<1>2. E \in C /\ P \in [PoolIds -> O]
  OBVIOUS
<1> HIDE DEF O, B, C, D
<1> QED BY <1>1, <1>2, EditCleaned

LEMMA AllocatorFields ==
  ASSUME NEW s \in Allocators
  PROVE  /\ s.pools \in [PoolIds -> PoolObjects] /\ s.allPools \in SUBSET PoolIds
         /\ s.emptyPools \in Seq(PoolIds) /\ s.first \in Sets /\ s.second \in Sets
BY DEF Allocators

(* repairArrays, of a state that is known.                                 *)
LEMMA RepairIs ==
  ASSUME NEW P \in [PoolIds -> PoolObjects], NEW A \in SUBSET PoolIds, NEW E \in Seq(PoolIds),
         NEW F \in Sets, NEW G \in Sets, NEW e, NEW old, NEW new,
         Moved(F, e, old.first, new.first) \in Sets, Moved(G, e, old.second, new.second) \in Sets
  PROVE  repairArrays(State(P, A, E, F, G), e, old, new) =
           State(P, A, E, Moved(F, e, old.first, new.first), Moved(G, e, old.second, new.second))
<1> DEFINE s == State(P, A, E, F, G)
           M == Moved(F, e, old.first, new.first)
           N == Moved(G, e, old.second, new.second)
<1>1. s \in Allocators
  BY StateType
<1>2. repairArrays(s, e, old, new) = WithArrays(s, Moved(s.first, e, old.first, new.first),
                                                Moved(s.second, e, old.second, new.second))
  BY DEF repairArrays, WithArrays
<1>3. s.pools = P /\ s.allPools = A /\ s.emptyPools = E /\ s.first = F /\ s.second = G
  BY StateFields
<1>4. repairArrays(s, e, old, new) = WithArrays(s, M, N)
  <2> HIDE DEF s
  <2> QED BY <1>2, <1>3
<1>5. M \in Sets /\ N \in Sets
  OBVIOUS
<1>6. WithArrays(s, M, N) = State(s.pools, s.allPools, s.emptyPools, M, N)
  <2> HIDE DEF s, M, N
  <2> QED BY <1>1, <1>5, WithArraysIs
<1> QED BY <1>3, <1>4, <1>6

-----------------------------------------------------------------------------
(* Taking a pool into use.                                                 *)

LEMMA PoolTypes ==
  ASSUME NEW size \in 1 .. 32
  PROVE  sizeToPoolType[size] \in Types
<1>1. CASE size \in 1 .. 8
  BY <1>1 DEF sizeToPoolType, Types
<1>2. CASE size \in 9 .. 16
  BY <1>2 DEF sizeToPoolType, Types
<1>3. CASE size \in 17 .. 24
  BY <1>3 DEF sizeToPoolType, Types
<1>4. CASE size \in 25 .. 32
  BY <1>4 DEF sizeToPoolType, Types
<1> QED BY <1>1, <1>2, <1>3, <1>4

InUse(s, e, p, u) ==
  /\ AllocatorOK(u)
  /\ u.pools = [s.pools EXCEPT ![e] = p]
  /\ u.allPools = s.allPools \cup {e} /\ u.emptyPools = s.emptyPools

LEMMA UsePoolIs ==
  ASSUME NEW s, NEW e \in PoolIds, AllocatorOKBut(s, {e}), e \notin s.allPools,
         e \notin Kept(s.emptyPools),
         NEW object, GoodPool(object), BlocksIn(object) = {}, NEW size \in 1 .. 32
  PROVE  InUse(s, e, poolReset(object, sizeToPoolType[size]), UsePool(s, e, object, size))
<1> DEFINE p == poolReset(object, sizeToPoolType[size])
           P == s.pools
           A == s.allPools
           E == s.emptyPools
           F == s.first
           G == s.second
           Q == [P EXCEPT ![e] = p]
           B == A \cup {e}
           M == Moved(F, e, NoSizes.first, p.freeSizes.first)
           N == Moved(G, e, NoSizes.second, p.freeSizes.second)
           u == UsePool(s, e, object, size)
<1>1. GoodPool(p) /\ BlocksIn(p) = {} /\ p.memory
  <2>1. sizeToPoolType[size] \in Types
    BY PoolTypes
  <2>2. PoolOK(object)
    BY DEF GoodPool
  <2>3. PoolOK(p) /\ BlocksIn(p) = {} /\ p.memory /\ p.allocatedcount = object.allocatedcount
    BY <2>1, <2>2, ResetPool
  <2> HIDE DEF p
  <2> QED BY <2>3 DEF GoodPool, CountsItsBlocks
<1>2. p \in PoolObjects
  <2> HIDE DEF p
  <2> QED BY <1>1, BlocksCounted
<1>3. s \in Allocators
  BY DEF AllocatorOKBut
<1>4. /\ P \in [PoolIds -> PoolObjects] /\ A \in SUBSET PoolIds /\ E \in Seq(PoolIds)
      /\ F \in Sets /\ G \in Sets
  BY <1>3, AllocatorFields
<1>5. RightArrays(F, G, P, A)
  BY DEF AllocatorOKBut
<1>6. u = repairArrays(WithPoolUsed(s, e, p, B), e, NoSizes, p.freeSizes)
  BY DEF UsePool, PutInUse, WithPoolUsed
<1> HIDE DEF p, u
<1>7. /\ Q \in [PoolIds -> PoolObjects] /\ Q[e] = p
      /\ \A d \in PoolIds : d # e => Q[d] = P[d]
      /\ B \in SUBSET PoolIds
  BY <1>2, <1>4
<1>8. \A d : d # e => (d \in B <=> d \in A)
  OBVIOUS
<1>9. WithPoolUsed(s, e, p, B) = State(Q, B, E, F, G)
  <2> HIDE DEF B
  <2> QED BY <1>2, <1>3, <1>7, WithPoolUsedIs
<1>10. M \in Sets /\ N \in Sets /\ RightArrays(M, N, Q, B)
  <2>1. NoSizes = Shown(P, A, e) /\ p.freeSizes = Shown(Q, B, e)
    BY <1>7 DEF Shown
  <2> HIDE DEF Q, B, P, A
  <2> QED BY <1>4, <1>5, <1>7, <1>8, <2>1, ArraysStayRight
<1>11. u = State(Q, B, E, M, N)
  <2> HIDE DEF Q, B, P, A, E, F, G
  <2> QED BY <1>4, <1>6, <1>7, <1>9, <1>10, RepairIs
<1>12. /\ u.pools = Q /\ u.allPools = B /\ u.emptyPools = E /\ u.first = M /\ u.second = N
  <2> HIDE DEF Q, B, E, M, N
  <2> QED BY <1>11, StateFields
<1>13. u \in Allocators
  <2> HIDE DEF Q, B, E, M, N
  <2> QED BY <1>4, <1>7, <1>10, <1>11, StateType
<1>14. \A d \in PoolIds : GoodPool(Q[d])
  BY <1>1, <1>7 DEF AllocatorOKBut
<1>15. Apart(B, E)
  BY DEF AllocatorOKBut, Apart, Kept
<1>16. \A d \in PoolIds \ B : BlocksIn(Q[d]) = {}
  BY <1>7 DEF AllocatorOKBut
<1>17. \A d \in PoolIds : IF d \in B \cup Kept(E) THEN Q[d].memory ELSE Q[d] = Unused
  BY <1>1, <1>7 DEF AllocatorOKBut
<1>18. AllocatorOK(u)
  <2> HIDE DEF Q, B, E, M, N, P, A, F, G
  <2> QED BY <1>10, <1>12, <1>13, <1>14, <1>15, <1>16, <1>17 DEF AllocatorOK, AllocatorOKBut
<1>19. InUse(s, e, p, u)
  BY <1>12, <1>18 DEF InUse
<1> QED BY <1>19 DEF u, p

-----------------------------------------------------------------------------
(* alloc in a pool that has the size.                                      *)

LEMMA HeldIs ==
  ASSUME NEW s, AllocatorOK(s), NEW size \in 1 .. 32, Holds(s, size)
  PROVE  LET e == Min(IF s.first[size] # {} THEN s.first[size] ELSE s.second[size])
         IN  e \in s.allPools /\ e \in PoolIds /\ size \in All(s.pools[e].freeSizes)
<1> DEFINE S == IF s.first[size] # {} THEN s.first[size] ELSE s.second[size]
<1>1. s \in Allocators /\ RightArrays(s.first, s.second, s.pools, s.allPools)
  BY DEF AllocatorOK, AllocatorOKBut
<1>2. s.first[size] \in SUBSET PoolIds /\ s.second[size] \in SUBSET PoolIds
  BY <1>1, AllocatorFields DEF Sets
<1>3. S \in SUBSET PoolIds /\ S # {}
  BY <1>2 DEF Holds
<1>4. \A d \in S : d \in s.allPools /\ size \in All(s.pools[d].freeSizes)
  BY <1>1 DEF RightArrays, All
<1>5. S \in SUBSET Nat
  BY <1>3, AllocatorAssumption
<1> HIDE DEF S
<1>6. Min(S) \in S
  BY <1>3, <1>5, MinOfNaturals
<1> QED BY <1>3, <1>4, <1>6 DEF S

LEMMA AllocHas ==
  ASSUME NEW q, PoolOK(q), NEW size \in 1 .. 32, roundSizeTable[size] = size,
         size \in All(q.freeSizes), NEW r, r = poolAlloc(q, size)
  PROVE  /\ PoolOK(r.pool) /\ r.pool.memory = q.memory /\ r.index \in Nat
         /\ Block(r.index, size) \notin BlocksIn(q)
         /\ BlocksIn(r.pool) = BlocksIn(q) \cup {Block(r.index, size)}
         /\ r.pool.allocatedcount = q.allocatedcount + 1
<1> DEFINE t == poolAlloc(q, size)
           block == Block(t.index, roundSizeTable[size])
<1>1. /\ PoolOK(t.pool) /\ t.pool.memory = q.memory
      /\ IF t.index = NoIndex
         THEN TRUE
         ELSE /\ t.index \in Nat /\ block \notin BlocksIn(q)
              /\ BlocksIn(t.pool) = BlocksIn(q) \cup {block}
              /\ t.pool.allocatedcount = q.allocatedcount + 1
      /\ t.index # NoIndex <=> roundSizeTable[size] \in All(q.freeSizes)
  BY AllocPool
<1> HIDE DEF t
<1>2. t.index # NoIndex
  BY <1>1
<1>3. r = t
  BY DEF t
<1> QED BY <1>1, <1>2, <1>3

AllocatedIn(s, size, e, ptr, now) ==
  /\ e \in s.allPools /\ e \in PoolIds /\ ptr \in Nat /\ AllocatorOK(now)
  /\ now.allPools = s.allPools /\ now.emptyPools = s.emptyPools
  /\ \A d \in PoolIds : d # e => now.pools[d] = s.pools[d]
  /\ Block(ptr, size) \notin BlocksIn(s.pools[e])
  /\ BlocksIn(now.pools[e]) = BlocksIn(s.pools[e]) \cup {Block(ptr, size)}

(* A pool in use has changed, and the arrays are repaired.                 *)
LEMMA ReplaceIs ==
  ASSUME NEW s, AllocatorOK(s), NEW e \in s.allPools, NEW p, GoodPool(p), p.memory
  PROVE  LET t == repairArrays(WithPool(s, e, p), e, s.pools[e].freeSizes, p.freeSizes)
         IN  /\ AllocatorOK(t) /\ t.pools = [s.pools EXCEPT ![e] = p]
             /\ t.allPools = s.allPools /\ t.emptyPools = s.emptyPools
<1> DEFINE P == s.pools
           A == s.allPools
           E == s.emptyPools
           F == s.first
           G == s.second
           Q == [P EXCEPT ![e] = p]
           M == Moved(F, e, P[e].freeSizes.first, p.freeSizes.first)
           N == Moved(G, e, P[e].freeSizes.second, p.freeSizes.second)
           t == repairArrays(WithPool(s, e, p), e, P[e].freeSizes, p.freeSizes)
<1>1. s \in Allocators /\ RightArrays(F, G, P, A) /\ p \in PoolObjects
  BY BlocksCounted DEF AllocatorOK, AllocatorOKBut
<1>2. /\ P \in [PoolIds -> PoolObjects] /\ A \in SUBSET PoolIds /\ E \in Seq(PoolIds)
      /\ F \in Sets /\ G \in Sets
  BY <1>1, AllocatorFields
<1>3. e \in PoolIds /\ e \in A
  BY <1>2
<1>4. /\ Q \in [PoolIds -> PoolObjects] /\ Q[e] = p
      /\ \A d \in PoolIds : d # e => Q[d] = P[d]
  BY <1>1, <1>2, <1>3
<1>5. WithPool(s, e, p) = State(Q, A, E, F, G)
  BY <1>1, <1>3, WithPoolIs
<1>6. M \in Sets /\ N \in Sets /\ RightArrays(M, N, Q, A)
  <2>1. P[e].freeSizes = Shown(P, A, e) /\ p.freeSizes = Shown(Q, A, e)
    BY <1>3, <1>4 DEF Shown
  <2> HIDE DEF Q, P, A
  <2> QED BY <1>1, <1>2, <1>3, <1>4, <2>1, ArraysStayRight
<1>7. t = State(Q, A, E, M, N)
  <2> HIDE DEF Q, P, A, E, F, G
  <2> QED BY <1>2, <1>4, <1>5, <1>6, RepairIs
<1> HIDE DEF t
<1>8. /\ t.pools = Q /\ t.allPools = A /\ t.emptyPools = E /\ t.first = M /\ t.second = N
  <2> HIDE DEF Q, A, E, M, N
  <2> QED BY <1>7, StateFields
<1>9. t \in Allocators
  <2> HIDE DEF Q, A, E, M, N
  <2> QED BY <1>2, <1>4, <1>6, <1>7, StateType
<1>10. \A d \in PoolIds : GoodPool(Q[d])
  BY <1>4 DEF AllocatorOK, AllocatorOKBut
<1>11. Apart(A, E)
  BY DEF AllocatorOK, AllocatorOKBut
<1>12. \A d \in PoolIds \ A : BlocksIn(Q[d]) = {}
  BY <1>3, <1>4 DEF AllocatorOK, AllocatorOKBut
<1>13. \A d \in PoolIds : IF d \in A \cup Kept(E) THEN Q[d].memory ELSE Q[d] = Unused
  BY <1>3, <1>4 DEF AllocatorOK, AllocatorOKBut
<1>14. AllocatorOK(t)
  <2> HIDE DEF Q, E, M, N, P, A, F, G
  <2> QED BY <1>6, <1>8, <1>9, <1>10, <1>11, <1>12, <1>13 DEF AllocatorOK, AllocatorOKBut
<1> QED BY <1>8, <1>14 DEF t

LEMMA PoolsInUse ==
  ASSUME NEW s, AllocatorOK(s), NEW e \in s.allPools
  PROVE  e \in PoolIds /\ GoodPool(s.pools[e]) /\ PoolOK(s.pools[e]) /\ s.pools[e].memory
<1>1. s \in Allocators
  BY DEF AllocatorOK, AllocatorOKBut
<1>2. e \in PoolIds
  BY <1>1, AllocatorFields
<1> QED BY <1>2 DEF AllocatorOK, AllocatorOKBut, GoodPool

LEMMA AllocHeldIs ==
  ASSUME NEW s, AllocatorOK(s), NEW size \in 1 .. 32, roundSizeTable[size] = size, Holds(s, size),
         NEW n
  PROVE  LET r == AllocHeld(s, size, n) IN AllocatedIn(s, size, r.pool, r.ptr, r.now)
<1> DEFINE e == Min(IF s.first[size] # {} THEN s.first[size] ELSE s.second[size])
           q == s.pools[e]
           result == poolAlloc(q, size)
           p == result.pool
           r == AllocHeld(s, size, n)
<1>1. e \in s.allPools /\ e \in PoolIds /\ size \in All(q.freeSizes)
  BY HeldIs
<1>2. r = Served(s, e, result, n)
  BY DEF AllocHeld, AllocIn
<1>3. /\ r.now = repairArrays(WithPool(s, e, p), e, q.freeSizes, p.freeSizes)
      /\ r.pool = e /\ r.ptr = result.index
  <2> HIDE DEF r, e, result
  <2> QED BY <1>2 DEF Served, WithPool
<1> HIDE DEF r, e
<1>4. GoodPool(q) /\ PoolOK(q) /\ q.memory
  BY <1>1, PoolsInUse
<1>5. /\ PoolOK(p) /\ p.memory = q.memory /\ result.index \in Nat
      /\ Block(result.index, size) \notin BlocksIn(q)
      /\ BlocksIn(p) = BlocksIn(q) \cup {Block(result.index, size)}
      /\ GoodPool(p)
  <2> HIDE DEF q
  <2>1. /\ PoolOK(p) /\ p.memory = q.memory /\ result.index \in Nat
        /\ Block(result.index, size) \notin BlocksIn(q)
        /\ BlocksIn(p) = BlocksIn(q) \cup {Block(result.index, size)}
        /\ p.allocatedcount = q.allocatedcount + 1
    BY <1>1, <1>4, AllocHas, ZenonT(30)
  <2> HIDE DEF result
  <2> QED BY <1>4, <2>1, OneMoreCounted
<1> HIDE DEF p
<1>6. /\ AllocatorOK(r.now) /\ r.now.pools = [s.pools EXCEPT ![e] = p]
      /\ r.now.allPools = s.allPools /\ r.now.emptyPools = s.emptyPools
  <2>1. r.now = repairArrays(WithPool(s, e, p), e, s.pools[e].freeSizes, p.freeSizes)
    BY <1>3
  <2>2. GoodPool(p) /\ p.memory /\ e \in s.allPools
    BY <1>1, <1>4, <1>5
  <2> HIDE DEF q
  <2>3. LET t == repairArrays(WithPool(s, e, p), e, s.pools[e].freeSizes, p.freeSizes)
        IN  /\ AllocatorOK(t) /\ t.pools = [s.pools EXCEPT ![e] = p]
            /\ t.allPools = s.allPools /\ t.emptyPools = s.emptyPools
    BY <2>2, ReplaceIs
  <2> QED BY <2>1, <2>3
<1>7. s.pools \in [PoolIds -> PoolObjects]
  BY AllocatorFields DEF AllocatorOK, AllocatorOKBut
<1>8. r.now.pools[e] = p /\ \A d \in PoolIds : d # e => r.now.pools[d] = s.pools[d]
  BY <1>1, <1>6, <1>7
<1> HIDE DEF result
<1>9. AllocatedIn(s, size, e, result.index, r.now)
  BY <1>1, <1>5, <1>6, <1>8 DEF AllocatedIn
<1> QED BY <1>3, <1>9 DEF r

-----------------------------------------------------------------------------
(* clean, and putting a pool away.                                         *)

LEMMA Prefix ==
  ASSUME NEW S, NEW E \in Seq(S), NEW n \in 0 .. Len(E)
  PROVE  /\ SubSeq(E, 1, n) \in Seq(S) /\ Len(SubSeq(E, 1, n)) = n
         /\ \A i \in 1 .. n : SubSeq(E, 1, n)[i] = E[i]
OBVIOUS

CleanedTo(s, c) ==
  /\ AllocatorOK(c) /\ c.allPools = s.allPools
  /\ Len(c.emptyPools) <= Len(s.emptyPools)
  /\ \A d \in PoolIds :
       c.pools[d] = s.pools[d] \/ (d \notin s.allPools /\ c.pools[d] = Unused)

LEMMA UnusedIs ==
  /\ GoodPool(Unused) /\ BlocksIn(Unused) = {} /\ ~ Unused.memory
  /\ Unused.allocatedcount = 0 /\ Unused \in PoolObjects
<1>1. /\ PoolOK(Unused) /\ BlocksIn(Unused) = {} /\ ~ Unused.memory
      /\ Unused.allocatedcount = 0 /\ Unused \in PoolObjects
  <2>1. 0 \in Int
    OBVIOUS
  <2> QED BY <2>1, NewPoolIsGood DEF Unused, PoolOK
<1>2. GoodPool(Unused)
  BY <1>1, FS_EmptySet DEF GoodPool, CountsItsBlocks
<1> QED BY <1>1, <1>2

LEMMA CleanIs ==
  ASSUME NEW s, AllocatorOK(s), NEW shouldBe \in Nat, NEW tolerance \in Nat
  PROVE  /\ CleanedTo(s, clean(s, shouldBe, tolerance))
         /\ Len(clean(s, shouldBe, tolerance).emptyPools) <= shouldBe + tolerance
<1> DEFINE P == s.pools
           A == s.allPools
           E == s.emptyPools
           F == s.first
           G == s.second
           D == SubSeq(E, 1, shouldBe)
           Gone(e) == \E i \in shouldBe + 1 .. Len(E) : E[i] = e
           Q == [e \in PoolIds |-> IF Gone(e) THEN Unused ELSE P[e]]
           c == clean(s, shouldBe, tolerance)
<1>1. s \in Allocators
  BY DEF AllocatorOK, AllocatorOKBut
<1>2. /\ P \in [PoolIds -> PoolObjects] /\ A \in SUBSET PoolIds /\ E \in Seq(PoolIds)
      /\ F \in Sets /\ G \in Sets
  BY <1>1, AllocatorFields
<1>3. Len(E) \in Nat
  BY <1>2
<1>4. CASE Len(E) <= shouldBe + tolerance
  <2>1. c = s
    BY <1>4 DEF clean
  <2> QED BY <1>3, <1>4, <2>1 DEF CleanedTo
<1>5. CASE ~ Len(E) <= shouldBe + tolerance
  <2>1. shouldBe \in 0 .. Len(E)
    BY <1>3, <1>5
  <2>2. D \in Seq(PoolIds) /\ Len(D) = shouldBe /\ \A i \in 1 .. shouldBe : D[i] = E[i]
    BY <1>2, <2>1, Prefix
  <2>3. Q \in [PoolIds -> PoolObjects]
    BY <1>2, UnusedIs
  <2>4. c = WithCleaned(s, D, Q)
    BY <1>5 DEF clean, WithCleaned
  <2> HIDE DEF c
  <2>5. c = State(Q, A, D, F, G)
    <3> HIDE DEF Q, D
    <3> QED BY <1>1, <2>2, <2>3, <2>4, WithCleanedIs
  <2>6. /\ c.pools = Q /\ c.allPools = A /\ c.emptyPools = D /\ c.first = F /\ c.second = G
    <3> HIDE DEF Q, D, A, F, G
    <3> QED BY <2>5, StateFields
  <2>7. c \in Allocators
    <3> HIDE DEF Q, D, A, F, G
    <3> QED BY <1>2, <2>2, <2>3, <2>5, StateType
  <2>8. \A e \in PoolIds : Q[e] = IF Gone(e) THEN Unused ELSE P[e]
    OBVIOUS
  <2>9. \A e \in PoolIds : Gone(e) => e \notin A
    <3>1. \A i \in shouldBe + 1 .. Len(E) : i \in 1 .. Len(E)
      BY <1>3
    <3> QED BY <3>1 DEF AllocatorOK, AllocatorOKBut, Apart
  <2> HIDE DEF D, Q
  <2>10. \A e \in PoolIds : GoodPool(Q[e])
    BY <2>8, UnusedIs DEF AllocatorOK, AllocatorOKBut
  <2>11. Apart(A, D)
    <3>1. \A i \in 1 .. Len(D) : i \in 1 .. Len(E) /\ D[i] = E[i]
      BY <1>3, <2>1, <2>2
    <3>2. Apart(A, E)
      BY DEF AllocatorOK, AllocatorOKBut
    <3> HIDE DEF A, E
    <3> QED BY <3>1, <3>2 DEF Apart
  <2>12. \A e \in PoolIds \ A : BlocksIn(Q[e]) = {}
    BY <2>8, UnusedIs DEF AllocatorOK, AllocatorOKBut
  <2>13. \A e \in Kept(D) : e \in Kept(E) /\ ~ Gone(e)
    <3>1. SUFFICES ASSUME NEW i \in 1 .. Len(D) PROVE D[i] \in Kept(E) /\ ~ Gone(D[i])
      BY DEF Kept
    <3>2. i \in 1 .. Len(E) /\ D[i] = E[i] /\ i <= shouldBe
      BY <1>3, <2>1, <2>2
    <3>3. \A j \in shouldBe + 1 .. Len(E) : j \in 1 .. Len(E) /\ j # i
      BY <1>3, <3>2
    <3>4. \A j \in 1 .. Len(E) : E[j] = E[i] => j = i
      BY <3>2 DEF AllocatorOK, AllocatorOKBut, Apart
    <3> QED BY <3>2, <3>3, <3>4 DEF Kept
  <2>14. \A e \in Kept(E) : e \in Kept(D) \/ Gone(e)
    <3>1. SUFFICES ASSUME NEW i \in 1 .. Len(E) PROVE E[i] \in Kept(D) \/ Gone(E[i])
      BY DEF Kept
    <3>2. i \in 1 .. shouldBe \/ i \in shouldBe + 1 .. Len(E)
      BY <1>3
    <3> QED BY <2>2, <3>2 DEF Kept
  <2>15. \A e \in PoolIds : IF e \in A \cup Kept(D) THEN Q[e].memory ELSE Q[e] = Unused
    <3> HIDE DEF Gone
    <3> QED BY <2>8, <2>9, <2>13, <2>14 DEF AllocatorOK, AllocatorOKBut
  <2>16. RightArrays(F, G, Q, A)
    <3>1. \A e \in A : Q[e] = P[e]
      BY <1>2, <2>8, <2>9
    <3>2. RightArrays(F, G, P, A)
      BY DEF AllocatorOK, AllocatorOKBut
    <3> HIDE DEF F, G, P, A
    <3> QED BY <3>1, <3>2 DEF RightArrays
  <2>17. AllocatorOK(c)
    <3> HIDE DEF P, A, E, F, G
    <3> QED BY <2>6, <2>7, <2>10, <2>11, <2>12, <2>15, <2>16 DEF AllocatorOK, AllocatorOKBut
  <2>18. Len(c.emptyPools) <= Len(E) /\ Len(c.emptyPools) <= shouldBe + tolerance
    BY <1>3, <2>1, <2>2, <2>6
  <2>19. \A d \in PoolIds : c.pools[d] = P[d] \/ (d \notin A /\ c.pools[d] = Unused)
    BY <2>6, <2>8, <2>9
  <2>20. CleanedTo(s, c)
    BY <2>6, <2>17, <2>18, <2>19 DEF CleanedTo
  <2> QED BY <2>18, <2>20 DEF c
<1> QED BY <1>4, <1>5

-----------------------------------------------------------------------------
(* dealloc.                                                                *)

(* A pool without a block leaves the arrays and joins the empty pools.     *)
PutAway(s, e, p) ==
  [repairArrays(WithPool(s, e, p), e, s.pools[e].freeSizes, NoSizes) EXCEPT
     !.allPools = @ \ {e}, !.emptyPools = Append(@, e)]

LEMMA Appended ==
  ASSUME NEW S, NEW E \in Seq(S), NEW e \in S
  PROVE  /\ Append(E, e) \in Seq(S) /\ Len(E) \in Nat /\ Len(Append(E, e)) = Len(E) + 1
         /\ \A i \in 1 .. Len(E) : Append(E, e)[i] = E[i]
         /\ Append(E, e)[Len(E) + 1] = e
OBVIOUS

LEMMA PutAwayIs ==
  ASSUME NEW s, AllocatorOK(s), NEW e \in s.allPools,
         NEW p, GoodPool(p), p.memory, BlocksIn(p) = {}
  PROVE  LET t == PutAway(s, e, p)
         IN  /\ AllocatorOK(t) /\ t.pools = [s.pools EXCEPT ![e] = p]
             /\ t.allPools = s.allPools \ {e}
<1> DEFINE P == s.pools
           A == s.allPools
           E == s.emptyPools
           F == s.first
           G == s.second
           Q == [P EXCEPT ![e] = p]
           B == A \ {e}
           D == Append(E, e)
           M == Moved(F, e, P[e].freeSizes.first, NoSizes.first)
           N == Moved(G, e, P[e].freeSizes.second, NoSizes.second)
           r == repairArrays(WithPool(s, e, p), e, P[e].freeSizes, NoSizes)
           t == PutAway(s, e, p)
<1>1. s \in Allocators /\ RightArrays(F, G, P, A) /\ p \in PoolObjects
  BY BlocksCounted DEF AllocatorOK, AllocatorOKBut
<1>2. /\ P \in [PoolIds -> PoolObjects] /\ A \in SUBSET PoolIds /\ E \in Seq(PoolIds)
      /\ F \in Sets /\ G \in Sets
  BY <1>1, AllocatorFields
<1>3. e \in PoolIds /\ e \in A /\ e \notin B /\ B \in SUBSET PoolIds
      /\ \A d : d # e => (d \in B <=> d \in A)
  BY <1>2
<1>4. /\ Q \in [PoolIds -> PoolObjects] /\ Q[e] = p
      /\ \A d \in PoolIds : d # e => Q[d] = P[d]
  BY <1>1, <1>2, <1>3
<1>5. WithPool(s, e, p) = State(Q, A, E, F, G)
  BY <1>1, <1>3, WithPoolIs
<1>6. M \in Sets /\ N \in Sets /\ RightArrays(M, N, Q, B)
  <2>1. P[e].freeSizes = Shown(P, A, e) /\ NoSizes = Shown(Q, B, e)
    BY <1>3 DEF Shown
  <2> HIDE DEF Q, P, A, B
  <2> QED BY <1>1, <1>2, <1>3, <1>4, <2>1, ArraysStayRight
<1>7. r = State(Q, A, E, M, N)
  <2> HIDE DEF Q, P, A, E, F, G
  <2> QED BY <1>2, <1>4, <1>5, <1>6, RepairIs
<1>8. r \in Allocators /\ r.pools = Q /\ r.allPools = A /\ r.emptyPools = E
      /\ r.first = M /\ r.second = N
  <2> HIDE DEF Q, A, E, M, N, r
  <2>1. r \in Allocators
    BY <1>2, <1>4, <1>6, <1>7, StateType
  <2> QED BY <1>7, <2>1, StateFields
<1>9. t = WithLists(r, r.allPools \ {e}, Append(r.emptyPools, e))
  BY DEF PutAway, WithLists
<1> HIDE DEF r, t
<1>10. D \in Seq(PoolIds) /\ Len(E) \in Nat /\ Len(D) = Len(E) + 1
       /\ (\A i \in 1 .. Len(E) : D[i] = E[i]) /\ D[Len(E) + 1] = e
  BY <1>2, <1>3, Appended
<1>11. t = State(Q, B, D, M, N)
  <2>1. t = WithLists(r, B, D)
    BY <1>8, <1>9
  <2> HIDE DEF Q, B, D, M, N
  <2> QED BY <1>3, <1>8, <1>10, <2>1, WithListsIs
<1>12. /\ t.pools = Q /\ t.allPools = B /\ t.emptyPools = D /\ t.first = M /\ t.second = N
  <2> HIDE DEF Q, B, D, M, N
  <2> QED BY <1>11, StateFields
<1>13. t \in Allocators
  <2> HIDE DEF Q, B, D, M, N
  <2> QED BY <1>3, <1>4, <1>6, <1>10, <1>11, StateType
<1> HIDE DEF D
<1>14. \A d \in PoolIds : GoodPool(Q[d])
  BY <1>4 DEF AllocatorOK, AllocatorOKBut
<1>15. Apart(B, D)
  <2>1. /\ \A i, j \in 1 .. Len(E) : E[i] = E[j] => i = j
        /\ \A i \in 1 .. Len(E) : E[i] \notin A
    BY DEF AllocatorOK, AllocatorOKBut, Apart
  <2>2. \A i \in 1 .. Len(D) : i \in 1 .. Len(E) \/ i = Len(E) + 1
    BY <1>10
  <2>3. \A i \in 1 .. Len(D) : D[i] \notin B
    BY <1>3, <1>10, <2>1, <2>2
  <2>4. ASSUME NEW i \in 1 .. Len(D), NEW j \in 1 .. Len(D), D[i] = D[j] PROVE i = j
    <3>1. \A n \in 1 .. Len(E) : E[n] # e
      BY <1>3, <2>1
    <3> QED BY <1>10, <2>1, <2>2, <2>4, <3>1
  <2> QED BY <2>3, <2>4 DEF Apart
<1>16. \A d \in PoolIds \ B : BlocksIn(Q[d]) = {}
  BY <1>3, <1>4 DEF AllocatorOK, AllocatorOKBut
<1>17. \A d : d \in B \cup Kept(D) <=> d \in A \cup Kept(E)
  <2>1. \A d : d \in Kept(D) <=> d \in Kept(E) \/ d = e
    <3>1. \A d \in Kept(D) : d \in Kept(E) \/ d = e
      <4>1. \A i \in 1 .. Len(D) : i \in 1 .. Len(E) \/ i = Len(E) + 1
        BY <1>10
      <4> QED BY <1>10, <4>1 DEF Kept
    <3>2. \A d \in Kept(E) : d \in Kept(D)
      <4>1. \A i \in 1 .. Len(E) : i \in 1 .. Len(D)
        BY <1>10
      <4> QED BY <1>10, <4>1 DEF Kept
    <3>3. e \in Kept(D)
      <4>1. Len(E) + 1 \in 1 .. Len(D)
        BY <1>10
      <4> QED BY <1>10, <4>1 DEF Kept
    <3> QED BY <3>1, <3>2, <3>3
  <2> QED BY <1>3, <2>1
<1>18. \A d \in PoolIds : IF d \in B \cup Kept(D) THEN Q[d].memory ELSE Q[d] = Unused
  <2>1. \A d \in PoolIds : IF d \in A \cup Kept(E) THEN Q[d].memory ELSE Q[d] = Unused
    BY <1>3, <1>4 DEF AllocatorOK, AllocatorOKBut
  <2> QED BY <1>17, <2>1
<1>19. AllocatorOK(t)
  <2> HIDE DEF Q, E, M, N, P, A, F, G, B
  <2> QED BY <1>6, <1>12, <1>13, <1>14, <1>15, <1>16, <1>18 DEF AllocatorOK, AllocatorOKBut
<1> QED BY <1>12, <1>19 DEF t

FreedFrom(s, e, b, t) ==
  /\ AllocatorOK(t)
  /\ \A d \in PoolIds : d # e =>
       t.pools[d] = s.pools[d] \/ (d \notin s.allPools /\ t.pools[d] = Unused)
  /\ BlocksIn(t.pools[e]) = BlocksIn(s.pools[e]) \ {b}
  /\ Len(t.emptyPools) <= Len(s.emptyPools) \/ Len(t.emptyPools) <= ShouldBe + Tolerance

LEMMA DeallocIs ==
  ASSUME Garbage \subseteq Nat,
         NEW s, AllocatorOK(s), NEW e \in s.allPools, NEW b \in BlocksIn(s.pools[e])
  PROVE  FreedFrom(s, e, b, dealloc(s, e, b.ptr))
<1> DEFINE q == s.pools[e]
           p == poolDealloc(q, b.ptr).pool
           t == dealloc(s, e, b.ptr)
           u == PutAway(s, e, p)
<1>1. e \in PoolIds /\ GoodPool(q) /\ PoolOK(q) /\ q.memory
  BY PoolsInUse
<1>2. /\ GoodPool(p) /\ p.memory = q.memory /\ BlocksIn(p) = BlocksIn(q) \ {b}
  <2>1. b \in BlocksIn(q)
    OBVIOUS
  <2> HIDE DEF q
  <2>2. /\ PoolOK(p) /\ p.memory = q.memory /\ p.allocatedcount = q.allocatedcount - 1
        /\ BlocksIn(p) = BlocksIn(q) \ {b}
    BY <1>1, <2>1, FreePool
  <2> HIDE DEF p
  <2> QED BY <1>1, <2>1, <2>2, OneLessCounted
<1>3. t = IF p.allocatedcount = 0 THEN clean(u, ShouldBe, Tolerance)
          ELSE repairArrays(WithPool(s, e, p), e, q.freeSizes, p.freeSizes)
  <2> HIDE DEF p
  <2> QED BY DEF dealloc, putAwayIfEmpty, PutAway, WithPool, p
<1> HIDE DEF p, t, u
<1>4. s.pools \in [PoolIds -> PoolObjects] /\ Len(s.emptyPools) \in Nat
  BY AllocatorFields DEF AllocatorOK, AllocatorOKBut
<1>5. p.allocatedcount = 0 => BlocksIn(p) = {}
  <2>1. SUFFICES ASSUME p.allocatedcount = 0 PROVE BlocksIn(p) = {}
    OBVIOUS
  <2>2. IsFiniteSet(BlocksIn(p)) /\ Cardinality(BlocksIn(p)) \in Nat
        /\ p.allocatedcount - Cardinality(BlocksIn(p)) \in Nat
    <3>1. IsFiniteSet(BlocksIn(p)) /\ Cardinality(BlocksIn(p)) \in Nat
      BY <1>2, BlocksCounted
    <3>2. p.allocatedcount - Cardinality(BlocksIn(p)) \in Garbage \cup {0}
      BY <1>2 DEF GoodPool, CountsItsBlocks
    <3>3. \A n \in Garbage \cup {0} : n \in Nat
      OBVIOUS
    <3> QED BY <3>1, <3>2, <3>3
  <2>3. Cardinality(BlocksIn(p)) = 0
    BY <2>1, <2>2
  <2> QED BY <2>2, <2>3, FS_EmptySet
<1>6. CASE p.allocatedcount # 0
  <2>1. t = repairArrays(WithPool(s, e, p), e, s.pools[e].freeSizes, p.freeSizes)
    BY <1>3, <1>6
  <2>2. GoodPool(p) /\ p.memory
    BY <1>1, <1>2
  <2>3. LET r == repairArrays(WithPool(s, e, p), e, s.pools[e].freeSizes, p.freeSizes)
        IN  /\ AllocatorOK(r) /\ r.pools = [s.pools EXCEPT ![e] = p]
            /\ r.allPools = s.allPools /\ r.emptyPools = s.emptyPools
    BY <2>2, ReplaceIs
  <2>4. /\ AllocatorOK(t) /\ t.pools = [s.pools EXCEPT ![e] = p] /\ t.emptyPools = s.emptyPools
    BY <2>1, <2>3
  <2>5. t.pools[e] = p /\ \A d \in PoolIds : d # e => t.pools[d] = s.pools[d]
    BY <1>1, <1>4, <2>4
  <2>6. Len(t.emptyPools) <= Len(s.emptyPools)
    BY <1>4, <2>4
  <2>7. BlocksIn(t.pools[e]) = BlocksIn(s.pools[e]) \ {b}
    BY <1>2, <2>5
  <2>8. FreedFrom(s, e, b, t)
    BY <2>4, <2>5, <2>6, <2>7 DEF FreedFrom
  <2> QED BY <2>8 DEF t
<1>7. CASE p.allocatedcount = 0
  <2>1. BlocksIn(p) = {}
    BY <1>5, <1>7
  <2>2. AllocatorOK(u) /\ u.pools = [s.pools EXCEPT ![e] = p] /\ u.allPools = s.allPools \ {e}
    <3>1. GoodPool(p) /\ p.memory
      BY <1>1, <1>2
    <3>2. LET r == PutAway(s, e, p)
          IN  /\ AllocatorOK(r) /\ r.pools = [s.pools EXCEPT ![e] = p]
              /\ r.allPools = s.allPools \ {e}
      BY <2>1, <3>1, PutAwayIs
    <3> QED BY <3>2 DEF u
  <2>3. u.pools[e] = p /\ \A d \in PoolIds : d # e => u.pools[d] = s.pools[d]
    BY <1>1, <1>4, <2>2
  <2>4. CleanedTo(u, t) /\ Len(t.emptyPools) <= ShouldBe + Tolerance
    <3>1. t = clean(u, ShouldBe, Tolerance)
      BY <1>3, <1>7
    <3> QED BY <2>2, <3>1, CleanIs, AllocatorAssumption
  <2>5. /\ AllocatorOK(t)
        /\ \A d \in PoolIds : t.pools[d] = u.pools[d] \/ (d \notin u.allPools /\ t.pools[d] = Unused)
    BY <2>4 DEF CleanedTo
  <2>6. t.pools[e] = p \/ t.pools[e] = Unused
    BY <1>1, <2>3, <2>5
  <2>7. BlocksIn(t.pools[e]) = {}
    BY <2>1, <2>6, UnusedIs
  <2>8. \A d \in PoolIds : d # e =>
          t.pools[d] = s.pools[d] \/ (d \notin s.allPools /\ t.pools[d] = Unused)
    BY <2>2, <2>3, <2>5
  <2>9. BlocksIn(t.pools[e]) = BlocksIn(s.pools[e]) \ {b}
    BY <1>2, <2>1, <2>7
  <2>10. FreedFrom(s, e, b, t)
    BY <2>4, <2>5, <2>8, <2>9 DEF FreedFrom
  <2> QED BY <2>10 DEF t
<1> QED BY <1>6, <1>7

-----------------------------------------------------------------------------
(* The empty pools alloc takes: a function of how many.                    *)

IsTaken(g, s, size, N) ==
  g = [n \in N |-> IF n = 0 THEN Taken(s, 0) ELSE TakeEmpty(g[n - 1], size)]

LEMMA TakenUpTo ==
  ASSUME NEW s, NEW size, NEW n \in Nat
  PROVE  \E g : IsTaken(g, s, size, 0 .. n)
<1> DEFINE Bad == {i \in Nat : ~ \E g : IsTaken(g, s, size, 0 .. i)}
<1>1. SUFFICES ASSUME Bad # {} PROVE FALSE
  OBVIOUS
<1>2. PICK m \in Bad : \A i \in Bad : m <= i
  BY <1>1, MinOfNaturals
<1>3. CASE m = 0
  <2> DEFINE g == [i \in 0 .. 0 |-> Taken(s, 0)]
  <2>1. IsTaken(g, s, size, 0 .. 0)
    <3>1. g = [i \in 0 .. 0 |-> IF i = 0 THEN Taken(s, 0) ELSE TakeEmpty(g[i - 1], size)]
      OBVIOUS
    <3> HIDE DEF g
    <3> QED BY <3>1 DEF IsTaken
  <2> HIDE DEF g
  <2> QED BY <1>2, <1>3, <2>1
<1>4. CASE m # 0
  <2>1. m \in Nat /\ m - 1 \in Nat /\ m - 1 \notin Bad
    BY <1>2, <1>4
  <2>2. PICK g : IsTaken(g, s, size, 0 .. m - 1)
    BY <2>1
  <2>3. \A i \in 0 .. m - 1 : g[i] = IF i = 0 THEN Taken(s, 0) ELSE TakeEmpty(g[i - 1], size)
    BY <2>2 DEF IsTaken
  <2> DEFINE h == [i \in 0 .. m |-> IF i < m THEN g[i] ELSE TakeEmpty(g[m - 1], size)]
  <2>4. \A i \in 0 .. m : h[i] = IF i < m THEN g[i] ELSE TakeEmpty(g[m - 1], size)
    OBVIOUS
  <2>5. h = [i \in 0 .. m |-> h[i]]
    OBVIOUS
  <2> HIDE DEF h, Bad
  <2>6. ASSUME NEW i \in 0 .. m
        PROVE  h[i] = IF i = 0 THEN Taken(s, 0) ELSE TakeEmpty(h[i - 1], size)
    <3>1. CASE i < m
      <4>1. i \in 0 .. m - 1 /\ h[i] = g[i]
        BY <2>1, <2>4, <3>1
      <4>2. i # 0 => i - 1 \in 0 .. m /\ i - 1 < m
        BY <2>1, <3>1
      <4>3. i # 0 => h[i - 1] = g[i - 1]
        BY <2>4, <4>2
      <4> QED BY <2>3, <4>1, <4>3
    <3>2. CASE i = m
      <4>1. i # 0 /\ i - 1 = m - 1 /\ m - 1 \in 0 .. m /\ m - 1 < m /\ ~ i < m
        BY <1>4, <2>1, <3>2
      <4>2. h[i] = TakeEmpty(g[m - 1], size) /\ h[m - 1] = g[m - 1]
        BY <2>4, <3>2, <4>1
      <4> QED BY <4>1, <4>2
    <3> QED BY <2>1, <3>1, <3>2
  <2>7. h = [i \in 0 .. m |-> IF i = 0 THEN Taken(s, 0) ELSE TakeEmpty(h[i - 1], size)]
    BY <2>5, <2>6
  <2>8. IsTaken(h, s, size, 0 .. m)
    BY <2>7 DEF IsTaken
  <2> QED BY <1>2, <2>8 DEF Bad
<1> QED BY <1>3, <1>4

LEMMA TakenOnce ==
  ASSUME NEW s, NEW size, NEW m \in Nat, NEW n \in Nat, m <= n,
         NEW g, IsTaken(g, s, size, 0 .. m), NEW h, IsTaken(h, s, size, 0 .. n)
  PROVE  \A i \in 0 .. m : g[i] = h[i]
<1> DEFINE Bad == {i \in Nat : i <= m /\ g[i] # h[i]}
<1>1. SUFFICES ASSUME Bad # {} PROVE FALSE
  OBVIOUS
<1>2. PICK b \in Bad : \A i \in Bad : b <= i
  BY <1>1, MinOfNaturals
<1>3. b \in 0 .. m /\ b \in 0 .. n /\ g[b] # h[b]
  BY <1>2
<1>4. /\ g[b] = IF b = 0 THEN Taken(s, 0) ELSE TakeEmpty(g[b - 1], size)
      /\ h[b] = IF b = 0 THEN Taken(s, 0) ELSE TakeEmpty(h[b - 1], size)
  <2> HIDE DEF Bad
  <2> QED BY <1>3 DEF IsTaken
<1>5. b # 0 => b - 1 \in Nat /\ b - 1 <= m /\ b - 1 \notin Bad
  BY <1>2
<1>6. b # 0 => g[b - 1] = h[b - 1]
  BY <1>5
<1> QED BY <1>3, <1>4, <1>6

TakenFor(s, size) == CHOOSE g : IsTaken(g, s, size, Nat)

LEMMA TakenEquation ==
  ASSUME NEW s, NEW size
  PROVE  /\ TakenFor(s, size)[0] = Taken(s, 0)
         /\ \A n \in Nat : TakenFor(s, size)[n + 1] = TakeEmpty(TakenFor(s, size)[n], size)
         /\ TakeEmpties(s, size) = TakenFor(s, size)[Len(s.emptyPools)]
<1> DEFINE some(n) == CHOOSE g : IsTaken(g, s, size, 0 .. n)
           f == [n \in Nat |-> some(n)[n]]
<1>1. \A n \in Nat : IsTaken(some(n), s, size, 0 .. n)
  BY TakenUpTo
<1>2. \A n \in Nat : f[n] = some(n)[n]
  OBVIOUS
<1>3. f = [n \in Nat |-> f[n]]
  OBVIOUS
<1> HIDE DEF some, f
<1>4. ASSUME NEW n \in Nat
      PROVE  f[n] = IF n = 0 THEN Taken(s, 0) ELSE TakeEmpty(f[n - 1], size)
  <2>1. some(n)[n] = IF n = 0 THEN Taken(s, 0) ELSE TakeEmpty(some(n)[n - 1], size)
    <3>1. n \in 0 .. n
      OBVIOUS
    <3> QED BY <1>1, <3>1 DEF IsTaken
  <2>2. n # 0 => some(n)[n - 1] = some(n - 1)[n - 1]
    <3>1. SUFFICES ASSUME n # 0 PROVE some(n)[n - 1] = some(n - 1)[n - 1]
      OBVIOUS
    <3>2. n - 1 \in Nat /\ n - 1 <= n /\ n - 1 \in 0 .. n - 1
      BY <3>1
    <3> QED BY <1>1, <3>2, TakenOnce
  <2>3. n # 0 => f[n - 1] = some(n - 1)[n - 1]
    BY <1>2
  <2> QED BY <1>2, <2>1, <2>2, <2>3
<1>5. f = [n \in Nat |-> IF n = 0 THEN Taken(s, 0) ELSE TakeEmpty(f[n - 1], size)]
  BY <1>3, <1>4
<1> DEFINE g == TakenFor(s, size)
<1>6. IsTaken(g, s, size, Nat)
  <2>1. IsTaken(f, s, size, Nat)
    BY <1>5 DEF IsTaken
  <2> QED BY <2>1 DEF TakenFor
<1>7. TakeEmpties(s, size) = g[Len(s.emptyPools)]
  BY DEF TakeEmpties, TakenFor, IsTaken
<1> HIDE DEF g
<1>8. \A n \in Nat : g[n] = IF n = 0 THEN Taken(s, 0) ELSE TakeEmpty(g[n - 1], size)
  BY <1>6 DEF IsTaken
<1>9. ASSUME NEW n \in Nat PROVE g[n + 1] = TakeEmpty(g[n], size)
  <2>1. n + 1 \in Nat /\ n + 1 # 0 /\ (n + 1) - 1 = n
    OBVIOUS
  <2>2. g[n + 1] = IF n + 1 = 0 THEN Taken(s, 0) ELSE TakeEmpty(g[(n + 1) - 1], size)
    BY <1>8, <2>1
  <2> QED BY <2>1, <2>2
<1>10. g[0] = Taken(s, 0)
  BY <1>8
<1> QED BY <1>7, <1>9, <1>10 DEF g

(* What alloc has taken is in use; the pools are as they were.             *)
TakenFrom(s, size, n, t) ==
  /\ AllocatorOK(t)
  /\ t.pools = s.pools
  /\ \A d : d \in t.allPools \cup Kept(t.emptyPools) <=> d \in s.allPools \cup Kept(s.emptyPools)
  /\ Len(t.emptyPools) <= Len(s.emptyPools)
  /\ Holds(t, size) \/ Len(t.emptyPools) = 0 \/ Len(t.emptyPools) + n <= Len(s.emptyPools)

LEMMA TakenFields ==
  ASSUME NEW s, NEW n
  PROVE  Taken(s, n).now = s /\ Taken(s, n).recursion = n
BY DEF Taken

(* The last empty pool.                                                    *)
LEMMA LastEmpty ==
  ASSUME NEW s, AllocatorOK(s), s.emptyPools # << >>
  PROVE  LET E == s.emptyPools
             e == Last(E)
             D == Front(E)
         IN  /\ e \in PoolIds /\ e \notin s.allPools /\ e \notin Kept(D) /\ e \in Kept(E)
             /\ D \in Seq(PoolIds) /\ Len(E) \in Nat /\ Len(D) = Len(E) - 1 /\ Len(D) \in Nat
             /\ \A d : d \in Kept(D) \cup {e} <=> d \in Kept(E)
             /\ Apart(s.allPools, D)
<1> DEFINE E == s.emptyPools
           e == Last(E)
           D == Front(E)
<1>1. E \in Seq(PoolIds) /\ E # << >>
  BY AllocatorFields DEF AllocatorOK, AllocatorOKBut
<1>2. Len(E) \in Nat /\ Len(E) - 1 \in 0 .. Len(E) /\ Len(E) \in 1 .. Len(E)
  BY <1>1
<1>3. /\ D \in Seq(PoolIds) /\ Len(D) = Len(E) - 1
      /\ \A i \in 1 .. Len(E) - 1 : D[i] = E[i]
  BY <1>1, <1>2, Prefix DEF Front
<1>4. e = E[Len(E)] /\ e \in PoolIds
  BY <1>1, <1>2 DEF Last
<1>5. Apart(s.allPools, E)
  BY DEF AllocatorOK, AllocatorOKBut
<1> HIDE DEF E, e, D
<1>6. \A i \in 1 .. Len(D) : i \in 1 .. Len(E) /\ D[i] = E[i] /\ i # Len(E)
  BY <1>2, <1>3
<1>7. e \notin s.allPools /\ e \in Kept(E)
  BY <1>2, <1>4, <1>5 DEF Apart, Kept
<1>8. e \notin Kept(D)
  BY <1>2, <1>4, <1>5, <1>6 DEF Apart, Kept
<1>9. \A d : d \in Kept(D) \cup {e} <=> d \in Kept(E)
  <2>1. \A i \in 1 .. Len(E) : i \in 1 .. Len(D) \/ i = Len(E)
    BY <1>2, <1>3
  <2> QED BY <1>3, <1>4, <1>6, <1>7, <2>1 DEF Kept
<1>10. Apart(s.allPools, D)
  BY <1>5, <1>6 DEF Apart
<1> QED BY <1>2, <1>3, <1>4, <1>7, <1>8, <1>9, <1>10 DEF E, e, D

(* Without it, its place is one about to be used.                          *)
LEMMA WithoutLast ==
  ASSUME NEW s, AllocatorOK(s), s.emptyPools # << >>
  PROVE  LET e == Last(s.emptyPools)
             r == WithEmpty(s, Front(s.emptyPools))
         IN  /\ AllocatorOKBut(r, {e})
             /\ r.pools = s.pools /\ r.allPools = s.allPools /\ r.emptyPools = Front(s.emptyPools)
<1> DEFINE P == s.pools
           A == s.allPools
           E == s.emptyPools
           F == s.first
           G == s.second
           e == Last(E)
           D == Front(E)
           r == WithEmpty(s, D)
<1>1. s \in Allocators /\ RightArrays(F, G, P, A)
  BY DEF AllocatorOK, AllocatorOKBut
<1>2. /\ P \in [PoolIds -> PoolObjects] /\ A \in SUBSET PoolIds /\ F \in Sets /\ G \in Sets
  BY <1>1, AllocatorFields
<1>3. /\ e \in PoolIds /\ D \in Seq(PoolIds) /\ Apart(A, D)
      /\ \A d : d \in Kept(D) \cup {e} <=> d \in Kept(E)
  BY LastEmpty
<1>4. r = State(P, A, D, F, G)
  <2> HIDE DEF D
  <2> QED BY <1>1, <1>3, WithEmptyIs
<1> HIDE DEF r, D, e
<1>5. /\ r.pools = P /\ r.allPools = A /\ r.emptyPools = D /\ r.first = F /\ r.second = G
  BY <1>4, StateFields
<1>6. r \in Allocators
  <2> HIDE DEF A, F, G, P
  <2> QED BY <1>2, <1>3, <1>4, StateType
<1>7. \A d \in PoolIds \ {e} : IF d \in A \cup Kept(D) THEN P[d].memory ELSE P[d] = Unused
  <2>1. \A d \in PoolIds : IF d \in A \cup Kept(E) THEN P[d].memory ELSE P[d] = Unused
    BY DEF AllocatorOK, AllocatorOKBut
  <2> QED BY <1>3, <2>1
<1>8. (\A d \in PoolIds : GoodPool(P[d])) /\ \A d \in PoolIds \ A : BlocksIn(P[d]) = {}
  BY DEF AllocatorOK, AllocatorOKBut
<1>9. AllocatorOKBut(r, {e})
  <2> HIDE DEF P, A, F, G
  <2> QED BY <1>1, <1>3, <1>5, <1>6, <1>7, <1>8 DEF AllocatorOKBut
<1> QED BY <1>5, <1>9 DEF r, D, e

LEMMA TakeEmptyStep ==
  ASSUME NEW s, Len(s.emptyPools) \in Nat, NEW size \in 1 .. 32, NEW n \in Nat, NEW t,
         TakenFrom(s, size, n, t.now)
  PROVE  TakenFrom(s, size, n + 1, TakeEmpty(t, size).now)
<1> DEFINE c == t.now
           E == c.emptyPools
           e == Last(E)
           D == Front(E)
           r == WithEmpty(c, D)
           u == UsePool(r, e, c.pools[e], size)
<1>1. AllocatorOK(c) /\ Len(E) \in Nat
  <2>1. AllocatorOK(c)
    BY DEF TakenFrom
  <2>2. E \in Seq(PoolIds)
    BY <2>1, AllocatorFields DEF AllocatorOK, AllocatorOKBut
  <2> QED BY <2>1, <2>2
<1>2. CASE Holds(c, size) \/ E = << >>
  <2>1. TakeEmpty(t, size) = t
    BY <1>2 DEF TakeEmpty
  <2>2. Holds(c, size) \/ Len(E) = 0
    BY <1>2
  <2>3. TakenFrom(s, size, n + 1, c)
    BY <2>2 DEF TakenFrom
  <2> QED BY <2>1, <2>3
<1>3. CASE ~ Holds(c, size) /\ E # << >>
  <2>1. TakeEmpty(t, size).now = u
    <3>1. TakeEmpty(t, size) = Taken(u, t.recursion + 1)
      BY <1>3 DEF TakeEmpty, WithEmpty
    <3> QED BY <3>1, TakenFields
  <2>2. /\ e \in PoolIds /\ e \notin c.allPools /\ e \notin Kept(D) /\ e \in Kept(E)
        /\ Len(D) = Len(E) - 1
        /\ \A d : d \in Kept(D) \cup {e} <=> d \in Kept(E)
    BY <1>1, <1>3, LastEmpty
  <2>3. /\ AllocatorOKBut(r, {e})
        /\ r.pools = c.pools /\ r.allPools = c.allPools /\ r.emptyPools = D
    BY <1>1, <1>3, WithoutLast
  <2> HIDE DEF r, D, e
  <2>4. /\ GoodPool(c.pools[e]) /\ PoolOK(c.pools[e]) /\ BlocksIn(c.pools[e]) = {}
        /\ c.pools[e].memory
    BY <1>1, <2>2 DEF AllocatorOK, AllocatorOKBut, GoodPool
  <2>5. poolReset(c.pools[e], sizeToPoolType[size]) = c.pools[e]
    <3>1. sizeToPoolType[size] \in Types
      BY PoolTypes
    <3> QED BY <2>4, <3>1, ResetPool
  <2>6. /\ AllocatorOK(u) /\ u.allPools = r.allPools \cup {e} /\ u.emptyPools = r.emptyPools
        /\ u.pools = [r.pools EXCEPT ![e] = poolReset(c.pools[e], sizeToPoolType[size])]
    <3>1. e \notin r.allPools /\ e \notin Kept(r.emptyPools)
      BY <2>2, <2>3
    <3>2. InUse(r, e, poolReset(c.pools[e], sizeToPoolType[size]), u)
      BY <2>2, <2>3, <2>4, <3>1, UsePoolIs
    <3> QED BY <3>2 DEF InUse
  <2> HIDE DEF u
  <2>7. u.pools = c.pools
    <3>1. c.pools \in [PoolIds -> PoolObjects]
      BY <1>1, AllocatorFields DEF AllocatorOK, AllocatorOKBut
    <3>2. u.pools = [c.pools EXCEPT ![e] = c.pools[e]]
      BY <2>3, <2>5, <2>6
    <3> QED BY <2>2, <3>1, <3>2
  <2>8. \A d : d \in u.allPools \cup Kept(u.emptyPools) <=> d \in c.allPools \cup Kept(E)
    BY <2>2, <2>3, <2>6
  <2>9. Len(u.emptyPools) = Len(E) - 1
    BY <2>2, <2>3, <2>6
  <2>10. Len(u.emptyPools) <= Len(s.emptyPools)
    BY <1>1, <2>9 DEF TakenFrom
  <2>11. Len(u.emptyPools) = 0 \/ Len(u.emptyPools) + (n + 1) <= Len(s.emptyPools)
    <3>1. Len(E) = 0 \/ Len(E) + n <= Len(s.emptyPools)
      BY <1>3 DEF TakenFrom
    <3>2. Len(E) # 0
      <4>1. E \in Seq(PoolIds)
        BY <1>1, AllocatorFields DEF AllocatorOK, AllocatorOKBut
      <4> QED BY <1>3, <4>1
    <3>3. ASSUME NEW all, NEW left, NEW now, all \in Nat, left \in Nat, now = left - 1, left # 0,
                 left = 0 \/ left + n <= all
          PROVE  now = 0 \/ now + (n + 1) <= all
      BY <3>3
    <3> QED BY <1>1, <2>9, <3>1, <3>2, <3>3
  <2>12. TakenFrom(s, size, n + 1, u)
    BY <2>6, <2>7, <2>8, <2>10, <2>11 DEF TakenFrom
  <2> QED BY <2>1, <2>12
<1> QED BY <1>2, <1>3

(* In the end a pool has the size, or none is empty.                       *)
AllTaken(s, size, t) ==
  /\ AllocatorOK(t)
  /\ t.pools = s.pools
  /\ \A d : d \in t.allPools \cup Kept(t.emptyPools) <=> d \in s.allPools \cup Kept(s.emptyPools)
  /\ Len(t.emptyPools) <= Len(s.emptyPools)
  /\ Holds(t, size) \/ Len(t.emptyPools) = 0

LEMMA TakeEmptiesIs ==
  ASSUME NEW s, AllocatorOK(s), NEW size \in 1 .. 32
  PROVE  AllTaken(s, size, TakeEmpties(s, size).now)
<1> DEFINE f == TakenFor(s, size)
           n == Len(s.emptyPools)
           Bad == {i \in Nat : ~ TakenFrom(s, size, i, f[i].now)}
<1>1. n \in Nat
  BY AllocatorFields DEF AllocatorOK, AllocatorOKBut
<1>2. /\ f[0] = Taken(s, 0) /\ (\A i \in Nat : f[i + 1] = TakeEmpty(f[i], size))
      /\ TakeEmpties(s, size) = f[n]
  BY TakenEquation
<1> HIDE DEF f, n
<1>3. Bad = {}
  <2>1. SUFFICES ASSUME Bad # {} PROVE FALSE
    OBVIOUS
  <2>2. PICK b \in Bad : \A i \in Bad : b <= i
    BY <2>1, MinOfNaturals
  <2>3. b # 0
    <3>1. f[0].now = s
      BY <1>2, TakenFields
    <3>2. TakenFrom(s, size, 0, s)
      BY <1>1 DEF TakenFrom, n
    <3> QED BY <2>2, <3>1, <3>2
  <2>4. b - 1 \in Nat /\ (b - 1) + 1 = b /\ b - 1 \notin Bad
    BY <2>2, <2>3
  <2>5. TakenFrom(s, size, b - 1, f[b - 1].now)
    BY <2>4
  <2>6. f[b] = TakeEmpty(f[b - 1], size)
    <3>1. f[(b - 1) + 1] = TakeEmpty(f[b - 1], size)
      BY <1>2, <2>4
    <3> QED BY <2>4, <3>1
  <2>7. TakenFrom(s, size, (b - 1) + 1, f[b].now)
    <3> HIDE DEF Bad
    <3> QED BY <1>1, <2>4, <2>5, <2>6, TakeEmptyStep DEF n
  <2> QED BY <2>2, <2>4, <2>7
<1>4. TakenFrom(s, size, n, f[n].now)
  BY <1>1, <1>3
<1> DEFINE t == f[n].now
<1> HIDE DEF t
<1>5. TakenFrom(s, size, n, t)
  BY <1>4 DEF t
<1>6. Len(t.emptyPools) \in Nat
  <2>1. AllocatorOK(t)
    BY <1>5 DEF TakenFrom
  <2>2. t.emptyPools \in Seq(PoolIds)
    BY <2>1, AllocatorFields DEF AllocatorOK, AllocatorOKBut
  <2> QED BY <2>2
<1>7. Holds(t, size) \/ Len(t.emptyPools) = 0
  <2>1. Holds(t, size) \/ Len(t.emptyPools) = 0 \/ Len(t.emptyPools) + n <= n
    BY <1>5 DEF TakenFrom, n
  <2> QED BY <1>1, <1>6, <2>1
<1>8. AllTaken(s, size, t)
  BY <1>5, <1>7 DEF TakenFrom, AllTaken
<1> QED BY <1>2, <1>8 DEF t

-----------------------------------------------------------------------------
(* A new pool has the size it is made for.                                 *)

LEMMA KindsOfHalves ==
  ASSUME NEW k \in {2, 4, 6, 8, 10, 12, 14, 16, 24, 28, 32}
  PROVE  k \in KindsIn[k] /\ \A j \in KindsIn[k \div 2] : j \in KindsIn[k]
<1>1. k \in Kinds /\ k \notin Leaves
  BY DEF Kinds, Leaves, Middles
<1>2. Kind(k, 1) = k \div 2
  <2>1. SplitOf[k] = Halves(k \div 2)
    BY TheSplits
  <2>2. \A j : Halves(j)[1].kind = j
    BY DEF Halves, Split
  <2> QED BY <2>1, <2>2 DEF Kind
<1> QED BY <1>1, <1>2, KindsInCases

LEMMA KindsOfSplit ==
  ASSUME NEW k \in Middles, NEW j, NEW n, NEW l, NEW i, SplitOf[k] = Split(j, n, l, i)
  PROVE  /\ k \in KindsIn[k]
         /\ \A h \in KindsIn[j] : h \in KindsIn[k]
         /\ \A h \in KindsIn[l] : h \in KindsIn[k]
<1>1. k \in Kinds /\ k \notin Leaves
  BY KindFacts
<1>2. Kind(k, 1) = j /\ Kind(k, 2) = l
  BY DEF Kind, Split
<1> QED BY <1>1, <1>2, KindsInCases

LEMMA KindsOfLeaf ==
  ASSUME NEW k \in Leaves
  PROVE  k \in KindsIn[k]
BY KindsInCases, KindFacts

LEMMA TheKindsIn ==
  /\ {1, 2, 4, 8, 16, 32} \subseteq KindsIn[32]
  /\ {3, 6, 9, 12, 18, 24} \subseteq KindsIn[72]
  /\ {5, 10, 15, 30} \subseteq KindsIn[30]
  /\ {7, 14, 21, 28} \subseteq KindsIn[84]
  /\ {20, 25} \subseteq KindsIn[100]
<1>1. 1 \in KindsIn[1] /\ 3 \in KindsIn[3] /\ 5 \in KindsIn[5] /\ 7 \in KindsIn[7]
      /\ 20 \in KindsIn[20] /\ 25 \in KindsIn[25]
  BY KindsOfLeaf DEF Leaves
<1>2. {1, 2, 4, 8, 16, 32} \subseteq KindsIn[32]
  <2>1. {1, 2} \subseteq KindsIn[2]
    BY <1>1, KindsOfHalves
  <2>2. {1, 2, 4} \subseteq KindsIn[4]
    BY <2>1, KindsOfHalves
  <2>3. {1, 2, 4, 8} \subseteq KindsIn[8]
    BY <2>2, KindsOfHalves
  <2>4. {1, 2, 4, 8, 16} \subseteq KindsIn[16]
    BY <2>3, KindsOfHalves
  <2> QED BY <2>4, KindsOfHalves
<1>3. {9, 15, 21, 18, 30, 72, 84, 100} \subseteq Middles
  BY DEF Middles
<1>4. {3, 6, 9, 12, 18, 24} \subseteq KindsIn[72]
  <2>1. {3, 6} \subseteq KindsIn[6]
    BY <1>1, KindsOfHalves
  <2>2. {3, 6, 12} \subseteq KindsIn[12]
    BY <2>1, KindsOfHalves
  <2>3. {3, 6, 12, 24} \subseteq KindsIn[24]
    BY <2>2, KindsOfHalves
  <2>4. 9 \in KindsIn[9]
    BY <1>3, KindsOfSplit, TheSplits DEF Thirds
  <2>5. {9, 18} \subseteq KindsIn[18]
    <3>1. SplitOf[18] = Split(6, 3, 9, 2)
      BY TheSplits
    <3> QED BY <1>3, <2>4, <3>1, KindsOfSplit
  <2>6. SplitOf[72] = Split(18, 4, 24, 3)
    BY TheSplits
  <2> QED BY <1>3, <2>3, <2>5, <2>6, KindsOfSplit
<1>5. {5, 10, 15, 30} \subseteq KindsIn[30]
  <2>1. {5, 10} \subseteq KindsIn[10]
    BY <1>1, KindsOfHalves
  <2>2. 15 \in KindsIn[15]
    BY <1>3, KindsOfSplit, TheSplits DEF Thirds
  <2>3. SplitOf[30] = Split(10, 3, 15, 2)
    BY TheSplits
  <2> QED BY <1>3, <2>1, <2>2, <2>3, KindsOfSplit
<1>6. {7, 14, 21, 28} \subseteq KindsIn[84]
  <2>1. {7, 14} \subseteq KindsIn[14]
    BY <1>1, KindsOfHalves
  <2>2. {7, 14, 28} \subseteq KindsIn[28]
    BY <2>1, KindsOfHalves
  <2>3. 21 \in KindsIn[21]
    BY <1>3, KindsOfSplit, TheSplits DEF Thirds
  <2>4. SplitOf[84] = Split(21, 4, 28, 3)
    BY TheSplits
  <2> QED BY <1>3, <2>2, <2>3, <2>4, KindsOfSplit
<1>7. {20, 25} \subseteq KindsIn[100]
  <2>1. SplitOf[100] = Split(20, 5, 25, 4)
    BY TheSplits
  <2> QED BY <1>1, <1>3, <2>1, KindsOfSplit
<1> QED BY <1>2, <1>4, <1>5, <1>6, <1>7

LEMMA TypeHasSize ==
  ASSUME NEW size \in Kinds, size <= 32
  PROVE  size \in KindsIn[sizeToPoolType[size]]
<1>1. size \in {1, 2, 4, 8, 16, 32} \/ size \in {3, 6, 9, 12, 18, 24}
      \/ size \in {5, 10, 15, 30} \/ size \in {7, 14, 21, 28} \/ size \in {20, 25}
  BY DEF Kinds, Leaves, Middles
<1>2. CASE size \in {1, 2, 4, 8, 16, 32}
  <2>1. sizeToPoolType[size] = 32
    BY <1>2 DEF sizeToPoolType
  <2> QED BY <1>2, <2>1, TheKindsIn
<1>3. CASE size \in {3, 6, 9, 12, 18, 24}
  <2>1. sizeToPoolType[size] = 72
    BY <1>3 DEF sizeToPoolType
  <2> QED BY <1>3, <2>1, TheKindsIn
<1>4. CASE size \in {5, 10, 15, 30}
  <2>1. sizeToPoolType[size] = 30
    BY <1>4 DEF sizeToPoolType
  <2> QED BY <1>4, <2>1, TheKindsIn
<1>5. CASE size \in {7, 14, 21, 28}
  <2>1. sizeToPoolType[size] = 84
    BY <1>5 DEF sizeToPoolType
  <2> QED BY <1>5, <2>1, TheKindsIn
<1>6. CASE size \in {20, 25}
  <2>1. sizeToPoolType[size] = 100
    BY <1>6 DEF sizeToPoolType
  <2> QED BY <1>6, <2>1, TheKindsIn
<1> QED BY <1>1, <1>2, <1>3, <1>4, <1>5, <1>6

(* Every type has a tree of its own kind.                                  *)
LEMMA FirstTree ==
  ASSUME NEW type \in Types
  PROVE  \E t \in Trees(type) : t.kind = type
<1> DEFINE arrays == Arrays(type)
           t == [at |-> ByteOffset(arrays, 1) + 0 * Bytes[arrays[1].kind],
                 unit |-> UnitOffset(arrays, 1) + 0 * arrays[1].kind,
                 kind |-> arrays[1].kind, array |-> 1, i |-> 0]
<1>1. \A k, n : Array(k, n).kind = k
  BY DEF Array
<1>2. arrays[1].kind = type
  <2>1. CASE type = 32
    BY <1>1, <2>1 DEF Arrays
  <2>2. CASE type = 84
    BY <1>1, <2>2 DEF Arrays
  <2>3. CASE type = 100
    BY <1>1, <2>3 DEF Arrays
  <2>4. CASE type = 72
    BY <1>1, <2>4 DEF Arrays
  <2>5. CASE type = 30
    BY <1>1, <2>5 DEF Arrays
  <2> QED BY <2>1, <2>2, <2>3, <2>4, <2>5 DEF Types
<1>3. 1 \in 1 .. Len(arrays) /\ 0 \in 0 .. arrays[1].number - 1
  BY ArraysFacts DEF AreArrays
<1>4. TreeIn(arrays, t, 1, 0)
  BY <1>3 DEF TreeIn
<1>5. t.kind = arrays[1].kind
  OBVIOUS
<1> HIDE DEF t
<1>6. t \in Trees(type)
  BY <1>3, <1>4, TreesAre
<1> QED BY <1>2, <1>5, <1>6

LEMMA NewPoolHas ==
  ASSUME NEW size \in Kinds, size <= 32
  PROVE  size \in All(getFreeSizeTypes(BlankMemory, sizeToPoolType[size]))
<1> DEFINE type == sizeToPoolType[size]
           m == BlankMemory
<1>1. type \in Types /\ type \in Types \cup {0}
  <2>1. size \in 1 .. 32
    BY KindsAreRound
  <2> QED BY <2>1, PoolTypes
<1>2. PoolGood(m, type) /\ m \in Memory
  <2>1. PoolGood(m, type)
    BY <1>1, BlankPool
  <2> QED BY <2>1 DEF PoolGood
<1>3. PICK t \in Trees(type) : t.kind = type
  BY <1>1, FirstTree
<1>4. t.kind \in Kinds /\ Within(t.at, t.kind) /\ Good(m, t.at, t.kind)
  BY <1>1, <1>2, TreeFacts DEF PoolGood
<1>5. isEmpty(m, t.at)
  <2>1. t.at \in Addresses
    BY <1>1, TreeAreas
  <2> QED BY <2>1 DEF isEmpty, Option, BlankMemory, Blank, Addresses
<1>6. size \in KindsIn[t.kind]
  BY <1>3, TypeHasSize
<1> HIDE DEF m, type
<1>7. FitsIn(m, t.at, t.kind, size)
  BY <1>2, <1>4, <1>5, <1>6, FitsCases
<1>8. size \in PoolFitting(m, type)
  BY <1>7 DEF PoolFitting
<1>9. All(getFreeSizeTypes(m, type)) = PoolFitting(m, type)
  BY <1>1, <1>2, PoolSizes
<1> QED BY <1>8, <1>9 DEF m, type

-----------------------------------------------------------------------------
(* alloc: what comes of it.                                                *)

SameIn(s, t, d) == BlocksIn(t.pools[d]) = BlocksIn(s.pools[d])
Refused(s, now) ==
  /\ AllocatorOK(now) /\ Len(now.emptyPools) <= Len(s.emptyPools)
  /\ \A d \in PoolIds : SameIn(s, now, d)
Granted(s, size, e, ptr, now) ==
  /\ AllocatorOK(now) /\ Len(now.emptyPools) <= Len(s.emptyPools)
  /\ e \in PoolIds /\ ptr \in Nat
  /\ \A d \in PoolIds : d # e => SameIn(s, now, d)
  /\ Block(ptr, size) \notin BlocksIn(s.pools[e])
  /\ BlocksIn(now.pools[e]) = BlocksIn(s.pools[e]) \cup {Block(ptr, size)}

LEMMA HoldsIs ==
  ASSUME NEW s, AllocatorOK(s), NEW size \in 1 .. 32
  PROVE  Holds(s, size) <=> \E e \in s.allPools : size \in All(s.pools[e].freeSizes)
<1>1. RightArrays(s.first, s.second, s.pools, s.allPools)
  BY DEF AllocatorOK, AllocatorOKBut
<1>2. \A d : /\ d \in s.first[size] <=> d \in s.allPools /\ size \in s.pools[d].freeSizes.first
             /\ d \in s.second[size] <=> d \in s.allPools /\ size \in s.pools[d].freeSizes.second
  BY <1>1 DEF RightArrays
<1> QED BY <1>2 DEF Holds, All

(* An alloc that finds a pool, in a state with the same blocks.            *)
LEMMA GrantedHeld ==
  ASSUME NEW s, NEW u, AllocatorOK(u), \A d \in PoolIds : SameIn(s, u, d),
         Len(u.emptyPools) <= Len(s.emptyPools),
         NEW size \in Kinds, size <= 32, Holds(u, size), NEW n
  PROVE  LET r == AllocHeld(u, size, n)
         IN  r.ptr # NoIndex /\ Granted(s, size, r.pool, r.ptr, r.now)
<1> DEFINE r == AllocHeld(u, size, n)
<1>1. AllocatedIn(u, size, r.pool, r.ptr, r.now)
  <2>1. size \in 1 .. 32 /\ roundSizeTable[size] = size
    BY KindsAreRound
  <2> QED BY <2>1, AllocHeldIs
<1> HIDE DEF r
<1>2. r.ptr # NoIndex
  <2>1. r.ptr \in Nat
    BY <1>1 DEF AllocatedIn
  <2> QED BY <2>1 DEF NoIndex
<1>3. \A d \in PoolIds : d # r.pool => SameIn(s, r.now, d)
  BY <1>1 DEF AllocatedIn, SameIn
<1>4. SameIn(s, u, r.pool)
  BY <1>1 DEF AllocatedIn
<1>5. Granted(s, size, r.pool, r.ptr, r.now)
  BY <1>1, <1>3, <1>4 DEF AllocatedIn, SameIn, Granted
<1> QED BY <1>2, <1>5 DEF r

(* A new pool, not yet used.                                               *)
LEMMA NewPoolInUse ==
  ASSUME NEW s, AllocatorOK(s), NEW e \in PoolIds, e \notin s.allPools \cup Kept(s.emptyPools),
         NEW size \in Kinds, size <= 32, NEW garbage \in Garbage \cup {0},
         NEW object, object = NewPool(garbage)
  PROVE  LET u == UsePool(s, e, object, size)
         IN  /\ AllocatorOK(u) /\ Holds(u, size) /\ u.emptyPools = s.emptyPools
             /\ \A d \in PoolIds : SameIn(s, u, d)
<1> DEFINE p == poolReset(object, sizeToPoolType[size])
           u == UsePool(s, e, object, size)
<1>1. size \in 1 .. 32
  BY KindsAreRound
<1>2. /\ GoodPool(object) /\ PoolOK(object) /\ BlocksIn(object) = {} /\ ~ object.memory
  <2>1. garbage \in Int
    BY AllocatorAssumption
  <2>2. /\ PoolOK(object) /\ BlocksIn(object) = {} /\ ~ object.memory
        /\ object.allocatedcount = garbage
    BY <2>1, NewPoolIsGood
  <2> QED BY <2>1, <2>2, FS_EmptySet DEF GoodPool, CountsItsBlocks
<1>3. /\ BlocksIn(p) = {}
      /\ p.freeSizes = getFreeSizeTypes(BlankMemory, sizeToPoolType[size])
  <2>1. sizeToPoolType[size] \in Types
    BY <1>1, PoolTypes
  <2> QED BY <1>2, <2>1, ResetPool
<1>4. InUse(s, e, p, u)
  <2>1. AllocatorOKBut(s, {e})
    BY DEF AllocatorOK, AllocatorOKBut
  <2> QED BY <1>1, <1>2, <2>1, UsePoolIs
<1> HIDE DEF p, u
<1>5. s.pools \in [PoolIds -> PoolObjects]
  BY AllocatorFields DEF AllocatorOK, AllocatorOKBut
<1>6. u.pools[e] = p /\ \A d \in PoolIds : d # e => u.pools[d] = s.pools[d]
  BY <1>4, <1>5 DEF InUse
<1>7. s.pools[e] = Unused
  BY DEF AllocatorOK, AllocatorOKBut
<1>8. \A d \in PoolIds : SameIn(s, u, d)
  BY <1>3, <1>6, <1>7, UnusedIs DEF SameIn
<1>9. Holds(u, size)
  <2>1. AllocatorOK(u) /\ e \in u.allPools
    BY <1>4 DEF InUse
  <2>2. size \in All(u.pools[e].freeSizes)
    BY <1>3, <1>6, NewPoolHas
  <2> QED BY <1>1, <2>1, <2>2, HoldsIs
<1> QED BY <1>4, <1>8, <1>9 DEF InUse, u

AllocOutcome(s, size, fresh, r) ==
  /\ IF r.ptr = NoIndex THEN Refused(s, r.now) ELSE Granted(s, size, r.pool, r.ptr, r.now)
  /\ r.ptr # NoIndex <=>
       \/ fresh # NoPool
       \/ \E e \in s.allPools \cup Kept(s.emptyPools) : size \in All(s.pools[e].freeSizes)

LEMMA AllocIs ==
  ASSUME NEW s, AllocatorOK(s), NEW size \in Kinds, size <= 32,
         NEW fresh \in PoolIds \cup {NoPool}, fresh \notin s.allPools \cup Kept(s.emptyPools),
         NEW garbage \in Garbage \cup {0}, NEW object, object = NewPool(garbage)
  PROVE  AllocOutcome(s, size, fresh, alloc(s, size, fresh, object))
<1> DEFINE t == TakeEmpties(s, size)
           u == UsePool(t.now, fresh, object, size)
           r == alloc(s, size, fresh, object)
<1>1. size \in 1 .. 32
  BY KindsAreRound
<1>2. AllTaken(s, size, t.now)
  BY <1>1, TakeEmptiesIs
<1>3. r = AllocOrNull(IF Holds(t.now, size) \/ fresh = NoPool THEN t
                      ELSE Taken(u, t.recursion + 1), size)
  BY DEF alloc, TakeFresh
<1> HIDE DEF t, u, r
<1>4. \A d \in PoolIds : SameIn(s, t.now, d)
  BY <1>2 DEF AllTaken, SameIn
<1>5. AllocatorOK(t.now) /\ Len(t.now.emptyPools) <= Len(s.emptyPools)
  BY <1>2 DEF AllTaken
<1>6. Holds(t.now, size) <=>
        \E e \in s.allPools \cup Kept(s.emptyPools) : size \in All(s.pools[e].freeSizes)
  <2>1. Holds(t.now, size) <=> \E e \in t.now.allPools : size \in All(s.pools[e].freeSizes)
    BY <1>1, <1>2, <1>5, HoldsIs DEF AllTaken
  <2>2. \A d : d \in t.now.allPools \cup Kept(t.now.emptyPools)
                 <=> d \in s.allPools \cup Kept(s.emptyPools)
    BY <1>2 DEF AllTaken
  <2>3. ~ Holds(t.now, size) => Kept(t.now.emptyPools) = {}
    BY <1>2 DEF AllTaken, Kept
  <2> QED BY <2>1, <2>2, <2>3
<1>7. CASE Holds(t.now, size)
  <2>1. r = AllocHeld(t.now, size, t.recursion)
    BY <1>3, <1>7 DEF AllocOrNull
  <2>2. r.ptr # NoIndex /\ Granted(s, size, r.pool, r.ptr, r.now)
    BY <1>4, <1>5, <1>7, <2>1, GrantedHeld
  <2>3. AllocOutcome(s, size, fresh, r)
    BY <1>6, <1>7, <2>2 DEF AllocOutcome
  <2> QED BY <2>3 DEF r
<1>8. CASE ~ Holds(t.now, size) /\ fresh # NoPool
  <2>1. fresh \in PoolIds /\ fresh \notin t.now.allPools \cup Kept(t.now.emptyPools)
    BY <1>2, <1>8 DEF AllTaken
  <2>2. /\ AllocatorOK(u) /\ Holds(u, size) /\ u.emptyPools = t.now.emptyPools
        /\ \A d \in PoolIds : SameIn(t.now, u, d)
    BY <1>5, <2>1, NewPoolInUse DEF u
  <2>3. \A d \in PoolIds : SameIn(s, u, d)
    BY <1>4, <2>2 DEF SameIn
  <2>4. r = AllocHeld(u, size, t.recursion + 1)
    <3>1. r = AllocOrNull(Taken(u, t.recursion + 1), size)
      BY <1>3, <1>8
    <3> QED BY <2>2, <3>1 DEF AllocOrNull, Taken
  <2>5. Len(u.emptyPools) <= Len(s.emptyPools)
    BY <1>5, <2>2
  <2>6. r.ptr # NoIndex /\ Granted(s, size, r.pool, r.ptr, r.now)
    BY <2>2, <2>3, <2>4, <2>5, GrantedHeld
  <2>7. AllocOutcome(s, size, fresh, r)
    BY <1>8, <2>6 DEF AllocOutcome
  <2> QED BY <2>7 DEF r
<1>9. CASE ~ Holds(t.now, size) /\ fresh = NoPool
  <2>1. r.now = t.now /\ r.ptr = NoIndex
    BY <1>3, <1>9 DEF AllocOrNull
  <2>2. Refused(s, r.now)
    BY <1>4, <1>5, <2>1 DEF Refused
  <2>3. AllocOutcome(s, size, fresh, r)
    BY <1>6, <1>9, <2>1, <2>2 DEF AllocOutcome
  <2> QED BY <2>3 DEF r
<1> QED BY <1>7, <1>8, <1>9

-----------------------------------------------------------------------------
(* The inductive invariant: the blocks of the pools are the callers', each *)
(* of its rounded size.                                                    *)

LiveBlocks == [pool : PoolIds, ptr : Nat, size : 1 .. 32]
Held(b) == Block(b.ptr, roundSizeTable[b.size])
InPool(L, e) == {b \in L : b.pool = e}
LiveOK(P, L) ==
  /\ L \subseteq LiveBlocks
  /\ \A e \in PoolIds : BlocksIn(P[e]) = {Held(b) : b \in InPool(L, e)}
  /\ \A b, c \in L : b.pool = c.pool /\ b.ptr = c.ptr => b = c
AllocInv ==
  /\ AllocatorOK(Now)
  /\ LiveOK(pools, live)
  /\ Len(emptyPools) <= ShouldBe + Tolerance

LEMMA NowFields ==
  /\ Now.pools = pools /\ Now.allPools = allPools /\ Now.emptyPools = emptyPools
  /\ Now.first = withoutDividing /\ Now.second = withDividing
BY DEF Now

LEMMA StoreIs ==
  ASSUME NEW s \in Allocators, Store(s)
  PROVE  Now' = s /\ pools' = s.pools /\ emptyPools' = s.emptyPools
<1> DEFINE O == PoolObjects
           B == SUBSET PoolIds
           C == Seq(PoolIds)
           D == Sets
<1>1. s = State(s.pools, s.allPools, s.emptyPools, s.first, s.second)
  <2>1. s \in Records(PoolIds, O, B, C, D)
    BY DEF Allocators, Records
  <2> HIDE DEF O, B, C, D
  <2> QED BY <2>1, SameRecord
<1>2. Now' = State(s.pools, s.allPools, s.emptyPools, s.first, s.second)
  BY DEF Store, Now, State
<1> QED BY <1>1, <1>2 DEF Store

LEMMA LiveSame ==
  ASSUME NEW P, NEW L, LiveOK(P, L), NEW Q,
         \A d \in PoolIds : BlocksIn(Q[d]) = BlocksIn(P[d])
  PROVE  LiveOK(Q, L)
BY DEF LiveOK

LEMMA LiveGranted ==
  ASSUME NEW P, NEW L, LiveOK(P, L), NEW e \in PoolIds, NEW ptr \in Nat, NEW size \in 1 .. 32,
         NEW k, k = roundSizeTable[size], NEW Q, PoolOK(Q[e]),
         \A d \in PoolIds : d # e => BlocksIn(Q[d]) = BlocksIn(P[d]),
         Block(ptr, k) \notin BlocksIn(P[e]),
         BlocksIn(Q[e]) = BlocksIn(P[e]) \cup {Block(ptr, k)}
  PROVE  LiveOK(Q, L \cup {[pool |-> e, ptr |-> ptr, size |-> size]})
<1> DEFINE new == [pool |-> e, ptr |-> ptr, size |-> size]
           M == L \cup {new}
<1>1. new.pool = e /\ new.ptr = ptr /\ new.size = size /\ new \in LiveBlocks
  BY DEF LiveBlocks
<1> HIDE DEF new
<1>2. Held(new) = Block(ptr, k)
  BY <1>1 DEF Held
<1>3. \A b \in L : b.pool = e => b.ptr # ptr
  <2>1. SUFFICES ASSUME NEW b \in L, b.pool = e, b.ptr = ptr PROVE FALSE
    OBVIOUS
  <2>2. Held(b) \in BlocksIn(P[e])
    BY <2>1 DEF LiveOK, InPool
  <2>3. Held(b) \in BlocksIn(Q[e]) /\ Held(new) \in BlocksIn(Q[e])
    BY <1>2, <2>2
  <2>4. Held(b).ptr = Held(new).ptr
    BY <1>1, <2>1 DEF Held, Block
  <2>5. Held(b) = Held(new)
    BY <2>3, <2>4, OneBlockAt
  <2> QED BY <1>2, <2>2, <2>5
<1>4. \A d \in PoolIds : BlocksIn(Q[d]) = {Held(b) : b \in InPool(M, d)}
  <2>1. SUFFICES ASSUME NEW d \in PoolIds PROVE BlocksIn(Q[d]) = {Held(b) : b \in InPool(M, d)}
    OBVIOUS
  <2>2. BlocksIn(P[d]) = {Held(b) : b \in InPool(L, d)}
    BY DEF LiveOK
  <2>3. CASE d = e
    <3>1. InPool(M, d) = InPool(L, d) \cup {new}
      BY <1>1, <2>3 DEF InPool
    <3> QED BY <1>2, <2>2, <2>3, <3>1
  <2>4. CASE d # e
    <3>1. InPool(M, d) = InPool(L, d)
      BY <1>1, <2>4 DEF InPool
    <3> QED BY <2>2, <2>4, <3>1
  <2> QED BY <2>3, <2>4
<1>5. \A b, c \in M : b.pool = c.pool /\ b.ptr = c.ptr => b = c
  BY <1>1, <1>3 DEF LiveOK
<1>6. M \subseteq LiveBlocks
  BY <1>1 DEF LiveOK
<1> QED BY <1>4, <1>5, <1>6 DEF LiveOK, new

LEMMA LiveFreed ==
  ASSUME NEW P, NEW L, LiveOK(P, L), NEW block \in L, NEW Q,
         \A d \in PoolIds : d # block.pool => BlocksIn(Q[d]) = BlocksIn(P[d]),
         BlocksIn(Q[block.pool]) = BlocksIn(P[block.pool]) \ {Held(block)}
  PROVE  LiveOK(Q, L \ {block})
<1> DEFINE M == L \ {block}
<1>1. \A b \in InPool(L, block.pool) : b # block => Held(b) # Held(block)
  BY DEF LiveOK, InPool, Held, Block
<1>2. \A d \in PoolIds : BlocksIn(Q[d]) = {Held(b) : b \in InPool(M, d)}
  <2>1. SUFFICES ASSUME NEW d \in PoolIds PROVE BlocksIn(Q[d]) = {Held(b) : b \in InPool(M, d)}
    OBVIOUS
  <2>2. BlocksIn(P[d]) = {Held(b) : b \in InPool(L, d)}
    BY DEF LiveOK
  <2>3. CASE d = block.pool
    <3>1. InPool(M, d) = InPool(L, d) \ {block} /\ block \in InPool(L, d)
      BY <2>3 DEF InPool
    <3> QED BY <1>1, <2>2, <2>3, <3>1
  <2>4. CASE d # block.pool
    <3>1. InPool(M, d) = InPool(L, d)
      BY <2>4 DEF InPool
    <3> QED BY <2>2, <2>4, <3>1
  <2> QED BY <2>3, <2>4
<1> QED BY <1>2 DEF LiveOK

(* Every place is free at first.                                           *)
LEMMA AllocatorInit ==
  ASSUME Init
  PROVE  AllocInv
<1>1. /\ pools = [e \in PoolIds |-> Unused] /\ allPools = {} /\ emptyPools = << >> /\ live = {}
      /\ withoutDividing = [k \in 1 .. 32 |-> {}] /\ withDividing = [k \in 1 .. 32 |-> {}]
  BY DEF Init
<1>2. /\ pools \in [PoolIds -> PoolObjects] /\ emptyPools \in Seq(PoolIds)
      /\ withoutDividing \in Sets /\ withDividing \in Sets /\ allPools \in SUBSET PoolIds
  BY <1>1, UnusedIs DEF Sets
<1>3. Now \in Allocators
  BY <1>2 DEF Now, Allocators
<1>4. \A e \in PoolIds : pools[e] = Unused
  BY <1>1
<1>5. RightArrays(withoutDividing, withDividing, pools, allPools)
  BY <1>1 DEF RightArrays
<1>6. Len(emptyPools) = 0 /\ Kept(emptyPools) = {} /\ Apart(allPools, emptyPools)
  BY <1>1 DEF Kept, Apart
<1>7. AllocatorOK(Now)
  BY <1>1, <1>3, <1>4, <1>5, <1>6, NowFields, UnusedIs DEF AllocatorOK, AllocatorOKBut
<1>8. LiveOK(pools, live)
  <2>1. \A e \in PoolIds : BlocksIn(pools[e]) = {} /\ InPool(live, e) = {}
    BY <1>1, <1>4, UnusedIs DEF InPool
  <2> QED BY <1>1, <2>1 DEF LiveOK
<1> QED BY <1>6, <1>7, <1>8, AllocatorAssumption DEF AllocInv

LEMMA EmptyIsFinite ==
  ASSUME NEW s, AllocatorOK(s)
  PROVE  s \in Allocators /\ Len(s.emptyPools) \in Nat
<1>1. s \in Allocators
  BY DEF AllocatorOK, AllocatorOKBut
<1>2. s.emptyPools \in Seq(PoolIds)
  BY <1>1, AllocatorFields
<1> QED BY <1>1, <1>2

LEMMA RangeIsKept ==
  ASSUME NEW E \in Seq(PoolIds)
  PROVE  Range(E) = Kept(E)
BY DEF Range, Kept

LEMMA AllocatorAllocStep ==
  ASSUME AllocInv, NEW size \in Sizes, NEW fresh \in FreePlaces \cup {NoPool}, NEW garbage \in Garbage,
         Alloc(size, fresh, garbage)
  PROVE  AllocInv'
<1> DEFINE k == roundSizeTable[size]
           r == alloc(Now, k, fresh, NewPool(garbage))
<1>1. AllocatorOK(Now) /\ LiveOK(pools, live) /\ Len(emptyPools) <= ShouldBe + Tolerance
  BY DEF AllocInv
<1>2. size \in 1 .. 32 /\ k \in Kinds /\ k <= 32
  <2>1. size \in 1 .. 32
    BY AllocatorAssumption
  <2> QED BY <2>1, Rounded
<1>3. fresh \in PoolIds \cup {NoPool} /\ fresh \notin Now.allPools \cup Kept(Now.emptyPools)
  <2>1. emptyPools \in Seq(PoolIds) /\ allPools \subseteq PoolIds
    BY <1>1, EmptyIsFinite, AllocatorFields, NowFields
  <2>2. Range(emptyPools) = Kept(emptyPools)
    BY <2>1, RangeIsKept
  <2>3. NoPool \notin PoolIds
    BY AllocatorAssumption
  <2>4. Kept(emptyPools) \subseteq PoolIds
    BY <2>1 DEF Kept
  <2> QED BY <2>1, <2>2, <2>3, <2>4, NowFields DEF FreePlaces
<1>4. AllocOutcome(Now, k, fresh, r)
  <2>1. garbage \in Garbage \cup {0}
    OBVIOUS
  <2> HIDE DEF k
  <2> QED BY <1>1, <1>2, <1>3, <2>1, AllocIs
<1>5. /\ Store(r.now)
      /\ live' = IF r.ptr = NoIndex THEN live
                 ELSE live \cup {[pool |-> r.pool, ptr |-> r.ptr, size |-> size]}
  BY DEF Alloc, Return
<1> HIDE DEF r
<1>6. AllocatorOK(r.now) /\ Len(r.now.emptyPools) <= Len(emptyPools)
  BY <1>4, NowFields DEF AllocOutcome, Refused, Granted
<1>7. Now' = r.now /\ pools' = r.now.pools /\ emptyPools' = r.now.emptyPools
  BY <1>5, <1>6, EmptyIsFinite, StoreIs
<1>8. LiveOK(pools', live')
  <2>1. CASE r.ptr = NoIndex
    <3>1. \A d \in PoolIds : BlocksIn(pools'[d]) = BlocksIn(pools[d])
      BY <1>4, <1>7, <2>1, NowFields DEF AllocOutcome, Refused, SameIn
    <3>2. live' = live
      BY <1>5, <2>1
    <3> QED BY <1>1, <3>1, <3>2, LiveSame
  <2>2. CASE r.ptr # NoIndex
    <3>1. Granted(Now, k, r.pool, r.ptr, r.now)
      BY <1>4, <2>2 DEF AllocOutcome
    <3>2. /\ r.pool \in PoolIds /\ r.ptr \in Nat
          /\ \A d \in PoolIds : d # r.pool => BlocksIn(pools'[d]) = BlocksIn(pools[d])
          /\ Block(r.ptr, k) \notin BlocksIn(pools[r.pool])
          /\ BlocksIn(pools'[r.pool]) = BlocksIn(pools[r.pool]) \cup {Block(r.ptr, k)}
      BY <1>7, <3>1, NowFields DEF Granted, SameIn
    <3>3. PoolOK(pools'[r.pool])
      BY <1>6, <1>7, <3>2 DEF AllocatorOK, AllocatorOKBut, GoodPool
    <3>4. live' = live \cup {[pool |-> r.pool, ptr |-> r.ptr, size |-> size]}
      BY <1>5, <2>2
    <3>5. LiveOK(pools', live \cup {[pool |-> r.pool, ptr |-> r.ptr, size |-> size]})
      BY <1>1, <1>2, <3>2, <3>3, LiveGranted
    <3> QED BY <3>4, <3>5
  <2> QED BY <2>1, <2>2
<1>9. Len(emptyPools') <= ShouldBe + Tolerance
  <2>1. Len(emptyPools') <= Len(emptyPools) /\ Len(emptyPools') \in Nat /\ Len(emptyPools) \in Nat
    BY <1>1, <1>6, <1>7, EmptyIsFinite, NowFields
  <2> QED BY <1>1, <2>1, AllocatorAssumption
<1> QED BY <1>6, <1>7, <1>8, <1>9 DEF AllocInv

LEMMA AllocatorDeallocStep ==
  ASSUME Garbage \subseteq Nat, AllocInv, NEW block \in live, Dealloc(block)
  PROVE  AllocInv'
<1> DEFINE e == block.pool
           b == Held(block)
           t == dealloc(Now, e, b.ptr)
<1>1. AllocatorOK(Now) /\ LiveOK(pools, live) /\ Len(emptyPools) <= ShouldBe + Tolerance
  BY DEF AllocInv
<1>2. e \in PoolIds /\ b \in BlocksIn(pools[e]) /\ b.ptr = block.ptr
  <2>1. e \in PoolIds
    BY <1>1 DEF LiveOK, LiveBlocks
  <2>2. block \in InPool(live, e)
    BY DEF InPool
  <2>3. b.ptr = block.ptr
    BY DEF Held, Block
  <2> HIDE DEF b, e
  <2> QED BY <1>1, <2>1, <2>2, <2>3 DEF LiveOK, b
<1>3. e \in allPools
  BY <1>1, <1>2, NowFields DEF AllocatorOK, AllocatorOKBut
<1>4. Store(t) /\ live' = live \ {block}
  BY <1>2, <1>3 DEF Dealloc
<1>5. FreedFrom(Now, e, b, t)
  <2>1. e \in Now.allPools /\ b \in BlocksIn(Now.pools[e])
    BY <1>2, <1>3, NowFields
  <2> HIDE DEF e, b
  <2> QED BY <1>1, <2>1, DeallocIs
<1> HIDE DEF t
<1>6. AllocatorOK(t)
  BY <1>5 DEF FreedFrom
<1>7. Now' = t /\ pools' = t.pools /\ emptyPools' = t.emptyPools
  BY <1>4, <1>6, EmptyIsFinite, StoreIs
<1>8. LiveOK(pools', live')
  <2>1. BlocksIn(pools'[e]) = BlocksIn(pools[e]) \ {b}
    BY <1>5, <1>7, NowFields DEF FreedFrom
  <2>2. ASSUME NEW d \in PoolIds, d # e PROVE BlocksIn(pools'[d]) = BlocksIn(pools[d])
    <3>1. pools'[d] = pools[d] \/ (d \notin allPools /\ pools'[d] = Unused)
      BY <1>5, <1>7, <2>2, NowFields DEF FreedFrom
    <3>2. d \notin allPools => BlocksIn(pools[d]) = {}
      BY <1>1, NowFields DEF AllocatorOK, AllocatorOKBut
    <3> QED BY <3>1, <3>2, UnusedIs
  <2>3. LiveOK(pools', live \ {block})
    BY <1>1, <2>1, <2>2, LiveFreed
  <2> QED BY <1>4, <2>3
<1>9. Len(emptyPools') <= ShouldBe + Tolerance
  <2>1. Len(emptyPools') <= Len(emptyPools) \/ Len(emptyPools') <= ShouldBe + Tolerance
    BY <1>5, <1>7, NowFields DEF FreedFrom
  <2>2. Len(emptyPools') \in Nat /\ Len(emptyPools) \in Nat
    BY <1>1, <1>6, <1>7, EmptyIsFinite, NowFields
  <2> QED BY <1>1, <2>1, <2>2, AllocatorAssumption
<1> QED BY <1>6, <1>7, <1>8, <1>9 DEF AllocInv

LEMMA CleanStep ==
  ASSUME AllocInv, NEW shouldBe \in Nat, NEW tolerance \in Nat, Clean(shouldBe, tolerance)
  PROVE  AllocInv'
<1> DEFINE t == clean(Now, shouldBe, tolerance)
<1>1. AllocatorOK(Now) /\ LiveOK(pools, live) /\ Len(emptyPools) <= ShouldBe + Tolerance
  BY DEF AllocInv
<1>2. Store(t) /\ live' = live
  BY DEF Clean
<1>3. CleanedTo(Now, t)
  BY <1>1, CleanIs
<1> HIDE DEF t
<1>4. Now' = t /\ pools' = t.pools /\ emptyPools' = t.emptyPools
  BY <1>2, <1>3, EmptyIsFinite, StoreIs DEF CleanedTo
<1>5. LiveOK(pools', live')
  <2>1. ASSUME NEW d \in PoolIds PROVE BlocksIn(pools'[d]) = BlocksIn(pools[d])
    <3>1. pools'[d] = pools[d] \/ (d \notin allPools /\ pools'[d] = Unused)
      BY <1>3, <1>4, NowFields DEF CleanedTo
    <3>2. d \notin allPools => BlocksIn(pools[d]) = {}
      BY <1>1, NowFields DEF AllocatorOK, AllocatorOKBut
    <3> QED BY <3>1, <3>2, UnusedIs
  <2> QED BY <1>1, <1>2, <2>1, LiveSame
<1>6. Len(emptyPools') <= ShouldBe + Tolerance
  <2>1. Len(emptyPools') <= Len(emptyPools)
    BY <1>3, <1>4, NowFields DEF CleanedTo
  <2>2. Len(emptyPools') \in Nat /\ Len(emptyPools) \in Nat
    BY <1>1, <1>3, <1>4, EmptyIsFinite, NowFields DEF CleanedTo
  <2> QED BY <1>1, <2>1, <2>2, AllocatorAssumption
<1> QED BY <1>3, <1>4, <1>5, <1>6 DEF AllocInv, CleanedTo

(* The allocator's arrays, pools and blocks stay right, whatever the count *)
(* of a new pool holds, if it is not so near its width that a pool's 512   *)
(* blocks wrap it round.                                                   *)
THEOREM AllocatorCorrect ==
  ASSUME Garbage \subseteq Nat
  PROVE  Spec => []AllocInv
<1>1. Init => AllocInv
  BY AllocatorInit
<1>2. AllocInv /\ [Next]_vars => AllocInv'
  <2> SUFFICES ASSUME AllocInv, [Next]_vars PROVE AllocInv'
    OBVIOUS
  <2>1. ASSUME NEW size \in Sizes, NEW fresh \in FreePlaces \cup {NoPool}, NEW garbage \in Garbage,
               Alloc(size, fresh, garbage)
        PROVE  AllocInv'
    BY <2>1, AllocatorAllocStep
  <2>2. ASSUME NEW block \in live, Dealloc(block) PROVE AllocInv'
    BY <2>2, AllocatorDeallocStep
  <2>3. CASE Clean(0, 0)
    BY <2>3, CleanStep
  <2>4. CASE UNCHANGED vars
    BY <2>4 DEF vars, AllocInv, Now
  <2> QED BY <2>1, <2>2, <2>3, <2>4 DEF Next
<1> QED BY <1>1, <1>2, PTL DEF Spec

-----------------------------------------------------------------------------
(* What the invariant says, property by property.                          *)

LEMMA AllocatorFacts ==
  ASSUME AllocInv
  PROVE  /\ pools \in [PoolIds -> PoolObjects] /\ allPools \subseteq PoolIds
         /\ emptyPools \in Seq(PoolIds) /\ withoutDividing \in Sets /\ withDividing \in Sets
         /\ Range(emptyPools) = Kept(emptyPools) /\ Kept(emptyPools) \subseteq PoolIds
         /\ \A e \in PoolIds : GoodPool(pools[e]) /\ PoolOK(pools[e])
         /\ Apart(allPools, emptyPools)
         /\ \A e \in PoolIds \ allPools : BlocksIn(pools[e]) = {}
         /\ \A e \in PoolIds : e \notin allPools \cup Kept(emptyPools) => pools[e] = Unused
         /\ RightArrays(withoutDividing, withDividing, pools, allPools)
<1>1. AllocatorOK(Now)
  BY DEF AllocInv
<1>2. /\ pools \in [PoolIds -> PoolObjects] /\ allPools \subseteq PoolIds
      /\ emptyPools \in Seq(PoolIds) /\ withoutDividing \in Sets /\ withDividing \in Sets
  BY <1>1, EmptyIsFinite, AllocatorFields, NowFields
<1>3. Range(emptyPools) = Kept(emptyPools) /\ Kept(emptyPools) \subseteq PoolIds
  BY <1>2, RangeIsKept DEF Kept
<1> QED BY <1>1, <1>2, <1>3, NowFields DEF AllocatorOK, AllocatorOKBut, GoodPool

(* A caller's block lies in a pool in use.                                 *)
LEMMA LiveFacts ==
  ASSUME AllocInv, NEW b \in live
  PROVE  /\ b.pool \in allPools /\ b.pool \in PoolIds /\ b.ptr \in Nat /\ b.size \in 1 .. 32
         /\ Held(b) \in BlocksIn(pools[b.pool]) /\ Held(b).ptr = b.ptr /\ Held(b).size \in Nat
         /\ b.size <= Held(b).size
         /\ pools[b.pool].memory /\ pools[b.pool].blockType \in Types
         /\ Units(pools[b.pool].blockType) \in Nat /\ Units(pools[b.pool].blockType) <= 512
         /\ b.ptr + Held(b).size <= Units(pools[b.pool].blockType)
<1> DEFINE e == b.pool
           p == pools[e]
<1>1. LiveOK(pools, live)
  BY DEF AllocInv
<1>2. e \in PoolIds /\ b.ptr \in Nat /\ b.size \in 1 .. 32
  BY <1>1 DEF LiveOK, LiveBlocks
<1>3. Held(b).ptr = b.ptr /\ Held(b).size = roundSizeTable[b.size]
  BY DEF Held, Block
<1>4. Held(b) \in BlocksIn(p)
  <2>1. b \in InPool(live, e)
    BY DEF InPool
  <2> QED BY <1>1, <1>2, <2>1 DEF LiveOK
<1>5. e \in allPools
  BY <1>2, <1>4, AllocatorFacts
<1>6. PoolOK(p)
  BY <1>2, AllocatorFacts
<1> HIDE DEF p, e
<1>7. p.blockType \in Types \cup {0} /\ (p.memory <=> p.blockType # 0)
  BY <1>6 DEF PoolOK, PoolObjects
<1>8. /\ Held(b).ptr + Held(b).size <= Units(p.blockType) /\ p.blockType \in Types
      /\ Units(p.blockType) \in Nat
  BY <1>4, <1>7, PoolBlocksApart DEF BlocksIn
<1>9. p.memory /\ Units(p.blockType) <= 512
  BY <1>7, <1>8, AllocatorAssumption DEF Types
<1>10. b.size <= Held(b).size /\ Held(b).size \in Nat
  BY <1>2, <1>3, Rounded
<1> QED BY <1>2, <1>3, <1>4, <1>5, <1>8, <1>9, <1>10 DEF p, e

(* The sets alloc chooses from hold the pools in use that advertise the    *)
(* size, and no other.                                                     *)
THEOREM ArraysCorrect ==
  ASSUME Garbage \subseteq Nat
  PROVE  Spec => []ArraysMatchPools
<1>1. AllocInv => ArraysMatchPools
  <2> SUFFICES ASSUME AllocInv, NEW k \in 1 .. 32
               PROVE  /\ withoutDividing[k] = {e \in allPools : k \in pools[e].freeSizes.first}
                      /\ withDividing[k] = {e \in allPools : k \in pools[e].freeSizes.second}
    BY DEF ArraysMatchPools
  <2>1. \A d : /\ d \in withoutDividing[k] <=> d \in allPools /\ k \in pools[d].freeSizes.first
               /\ d \in withDividing[k] <=> d \in allPools /\ k \in pools[d].freeSizes.second
    BY AllocatorFacts DEF RightArrays
  <2> QED BY <2>1
<1> QED BY <1>1, AllocatorCorrect, PTL

(* alloc returns null only when no pool, in use or empty, has a place for  *)
(* the size and no new pool can be had.                                    *)
THEOREM AllocServesCorrect ==
  ASSUME Garbage \subseteq Nat
  PROVE  Spec => []AllocServes
<1>1. AllocInv => AllocServes
  <2> SUFFICES ASSUME AllocInv, NEW size \in Sizes, NEW fresh \in FreePlaces \cup {NoPool}
               PROVE  LET k == roundSizeTable[size]
                          Has(e) == k \in pools[e].freeSizes.first \cup pools[e].freeSizes.second
                      IN  alloc(Now, k, fresh, NewPool(0)).ptr # NoIndex <=>
                            fresh # NoPool \/ \E e \in allPools \cup Range(emptyPools) : Has(e)
    BY DEF AllocServes
  <2> DEFINE k == roundSizeTable[size]
             Has(e) == k \in pools[e].freeSizes.first \cup pools[e].freeSizes.second
             got == alloc(Now, k, fresh, NewPool(0))
  <2>1. k \in Kinds /\ k <= 32
    <3>1. size \in 1 .. 32
      BY AllocatorAssumption
    <3> QED BY <3>1, Rounded
  <2>2. NoPool \notin PoolIds /\ allPools \subseteq PoolIds /\ Kept(emptyPools) \subseteq PoolIds
        /\ Range(emptyPools) = Kept(emptyPools)
    BY AllocatorFacts, AllocatorAssumption
  <2>3. fresh \in PoolIds \cup {NoPool} /\ fresh \notin allPools \cup Kept(emptyPools)
    BY <2>2 DEF FreePlaces
  <2>4. AllocatorOK(Now) /\ 0 \in Garbage \cup {0} /\ fresh \notin Now.allPools \cup Kept(Now.emptyPools)
    BY <2>3, NowFields DEF AllocInv
  <2> HIDE DEF k
  <2>5. AllocOutcome(Now, k, fresh, got)
    BY <2>1, <2>3, <2>4, AllocIs
  <2>6. got.ptr # NoIndex <=> fresh # NoPool \/ \E e \in allPools \cup Kept(emptyPools) : Has(e)
    <3> HIDE DEF got
    <3> QED BY <2>5, NowFields DEF AllocOutcome, All
  <2> QED BY <2>2, <2>6 DEF k
<1> QED BY <1>1, AllocatorCorrect, PTL

(* The blocks handed out never overlap, and each lies in memory a pool     *)
(* still has.                                                              *)
THEOREM BlocksApartCorrect ==
  ASSUME Garbage \subseteq Nat
  PROVE  Spec => []BlocksApart
<1>1. AllocInv => BlocksApart
  <2> SUFFICES ASSUME AllocInv PROVE BlocksApart
    OBVIOUS
  <2> DEFINE Buffer(b) == [at |-> 512 * b.pool + b.ptr, len |-> b.size]
  <2>1. \A b \in live : b.pool \in Nat
    BY LiveFacts, AllocatorAssumption
  <2>2. ASSUME NEW a \in live, NEW b \in live, a.pool < b.pool
        PROVE  Heap!Apart(Buffer(a), Buffer(b))
    <3>1. /\ a.pool \in Nat /\ b.pool \in Nat /\ a.ptr \in Nat /\ b.ptr \in Nat
          /\ a.size \in Nat /\ a.ptr + a.size <= 512
      <4>1. /\ a.ptr \in Nat /\ b.ptr \in Nat /\ a.size \in 1 .. 32 /\ Held(a).size \in Nat
            /\ a.size <= Held(a).size
            /\ Units(pools[a.pool].blockType) \in Nat /\ Units(pools[a.pool].blockType) <= 512
            /\ a.ptr + Held(a).size <= Units(pools[a.pool].blockType)
        BY LiveFacts
      <4> QED BY <2>1, <4>1
    <3>2. (512 * a.pool + a.ptr) + a.size <= 512 * b.pool + b.ptr
      BY <2>2, <3>1
    <3> QED BY <3>2 DEF Heap!Apart
  <2>3. ASSUME NEW a \in live, NEW b \in live, a.pool = b.pool, a # b
        PROVE  Heap!Apart(Buffer(a), Buffer(b))
    <3> DEFINE e == a.pool
               p == pools[e]
    <3>1. /\ a.ptr \in Nat /\ b.ptr \in Nat /\ a.size \in 1 .. 32 /\ b.size \in 1 .. 32
          /\ Held(a).size \in Nat /\ Held(b).size \in Nat
          /\ a.size <= Held(a).size /\ b.size <= Held(b).size
          /\ Held(a).ptr = a.ptr /\ Held(b).ptr = b.ptr
          /\ Held(a) \in BlocksIn(p) /\ Held(b) \in BlocksIn(p) /\ p.blockType \in Types
      BY <2>3, LiveFacts
    <3>2. Held(a) = Held(b) \/ Before(Held(a), Held(b)) \/ Before(Held(b), Held(a))
      BY <3>1, PoolBlocksApart DEF BlocksIn
    <3>3. a.ptr # b.ptr
      BY <2>3 DEF AllocInv, LiveOK
    <3>4. a.ptr + Held(a).size <= b.ptr \/ b.ptr + Held(b).size <= a.ptr
      BY <3>1, <3>2, <3>3 DEF Before
    <3>5. a.ptr + a.size <= b.ptr \/ b.ptr + b.size <= a.ptr
      BY <3>1, <3>4
    <3>6. \/ (512 * a.pool + a.ptr) + a.size <= 512 * b.pool + b.ptr
          \/ (512 * b.pool + b.ptr) + b.size <= 512 * a.pool + a.ptr
      BY <2>1, <2>3, <3>1, <3>5
    <3> QED BY <3>6 DEF Heap!Apart
  <2>4. ASSUME NEW a \in live, NEW b \in live, Buffer(a) # Buffer(b)
        PROVE  Heap!Apart(Buffer(a), Buffer(b))
    <3>1. a # b
      BY <2>4
    <3>2. a.pool < b.pool \/ b.pool < a.pool \/ a.pool = b.pool
      BY <2>1
    <3>3. \A x, y : Heap!Apart(x, y) <=> Heap!Apart(y, x)
      BY DEF Heap!Apart
    <3> HIDE DEF Buffer
    <3> QED BY <2>2, <2>3, <3>1, <3>2, <3>3
  <2>5. ASSUME NEW a \in live
        PROVE  \E block \in {PoolArea(e) : e \in {d \in PoolIds : pools[d].memory}} :
                 Heap!Inside(Buffer(a), block)
    <3>1. /\ a.pool \in PoolIds /\ pools[a.pool].memory
          /\ a.ptr \in Nat /\ a.size \in 1 .. 32 /\ Held(a).size \in Nat /\ a.size <= Held(a).size
          /\ Units(pools[a.pool].blockType) \in Nat
          /\ a.ptr + Held(a).size <= Units(pools[a.pool].blockType)
      BY LiveFacts
    <3>2. /\ 512 * a.pool <= 512 * a.pool + a.ptr
          /\ (512 * a.pool + a.ptr) + a.size <= 512 * a.pool + Units(pools[a.pool].blockType)
      BY <2>1, <3>1
    <3>3. Heap!Inside(Buffer(a), PoolArea(a.pool))
      BY <3>2 DEF Heap!Inside, PoolArea
    <3> QED BY <3>1, <3>3
  <2> QED BY <2>4, <2>5 DEF BlocksApart, Heap!BuffersApart
<1> QED BY <1>1, AllocatorCorrect, PTL

-----------------------------------------------------------------------------
(* The counts.                                                             *)

(* A pool counts the callers' blocks in it, from where it started.         *)
LEMMA CountIs ==
  ASSUME Garbage \subseteq Nat, AllocInv, NEW e \in PoolIds
  PROVE  /\ pools[e].allocatedcount \in Nat
         /\ pools[e].allocatedcount - Cardinality(InPool(live, e)) \in Garbage \cup {0}
<1> DEFINE p == pools[e]
           L == InPool(live, e)
           f == [b \in L |-> Held(b)]
<1>1. /\ IsFiniteSet(BlocksIn(p)) /\ p.allocatedcount \in Int /\ Cardinality(BlocksIn(p)) \in Nat
      /\ p.allocatedcount - Cardinality(BlocksIn(p)) \in Garbage \cup {0}
  <2>1. GoodPool(p)
    BY AllocatorFacts
  <2> QED BY <2>1, BlocksCounted DEF CountsItsBlocks, GoodPool
<1>2. p.allocatedcount \in Nat
  <2>1. p.allocatedcount - Cardinality(BlocksIn(p)) \in Nat
    BY <1>1
  <2> QED BY <1>1, <2>1
<1>3. BlocksIn(p) = {Held(b) : b \in L} /\ \A b \in L : b \in live /\ b.pool = e
  BY DEF AllocInv, LiveOK, InPool
<1>4. \A b, c \in L : Held(b) = Held(c) => b = c
  <2> SUFFICES ASSUME NEW b \in L, NEW c \in L, Held(b) = Held(c) PROVE b = c
    OBVIOUS
  <2>1. b \in live /\ c \in live /\ b.pool = c.pool
    BY <1>3
  <2>2. b.ptr = c.ptr
    BY <2>1, LiveFacts
  <2> QED BY <2>1, <2>2 DEF AllocInv, LiveOK
<1> HIDE DEF L
<1>5. f \in [L -> BlocksIn(p)]
  BY <1>3
<1>6. f \in Injection(L, BlocksIn(p))
  <2>1. \A b, c \in L : f[b] = f[c] => b = c
    BY <1>4
  <2> QED BY <1>5, <2>1 DEF Injection, IsInjective
<1>7. f \in Surjection(L, BlocksIn(p))
  <2>1. \A t \in BlocksIn(p) : \E b \in L : f[b] = t
    BY <1>3
  <2> QED BY <1>5, <2>1 DEF Surjection
<1> HIDE DEF f, p
<1>8. Cardinality(L) = Cardinality(BlocksIn(p))
  BY <1>1, <1>6, <1>7, FS_Injection
<1> QED BY <1>1, <1>2, <1>8 DEF L, p

(* The fields have their types; the count of blocks never goes below 0.    *)
THEOREM AllocatorTypeCorrect ==
  ASSUME Garbage \subseteq Nat
  PROVE  Spec => []TypeOK
<1>1. AllocInv => TypeOK
  <2> SUFFICES ASSUME AllocInv PROVE TypeOK
    OBVIOUS
  <2>1. ASSUME NEW e \in PoolIds
        PROVE  /\ pools[e].chunkTypes \in [0 .. SIZEOF - 1 -> [Option : 0 .. 3, fullChilds : 0 .. 63]]
               /\ pools[e].blockType \in Types \cup {0}
               /\ pools[e].allocatedcount \in Nat
    <3>1. GoodPool(pools[e]) /\ PoolOK(pools[e])
      BY AllocatorFacts
    <3>2. pools[e].blockType \in Types \cup {0}
      BY <3>1 DEF PoolOK, PoolObjects
    <3>3. pools[e].chunkTypes \in [0 .. SIZEOF - 1 -> [Option : 0 .. 3, fullChilds : 0 .. 63]]
      BY <3>1, <3>2, MemoryType DEF PoolOK
    <3>4. pools[e].allocatedcount \in Nat
      BY CountIs
    <3> QED BY <3>2, <3>3, <3>4
  <2>2. \A block \in live : block.pool \in PoolIds /\ block.ptr \in 0 .. 511
    <3> SUFFICES ASSUME NEW b \in live PROVE b.pool \in PoolIds /\ b.ptr \in 0 .. 511
      OBVIOUS
    <3>1. /\ b.pool \in PoolIds /\ b.ptr \in Nat /\ b.size \in 1 .. 32 /\ Held(b).size \in Nat
          /\ b.size <= Held(b).size
          /\ Units(pools[b.pool].blockType) \in Nat /\ Units(pools[b.pool].blockType) <= 512
          /\ b.ptr + Held(b).size <= Units(pools[b.pool].blockType)
      BY LiveFacts
    <3> QED BY <3>1
  <2>3. /\ allPools \subseteq PoolIds /\ Range(emptyPools) \subseteq PoolIds
        /\ withoutDividing \in [1 .. 32 -> SUBSET PoolIds]
        /\ withDividing \in [1 .. 32 -> SUBSET PoolIds]
    BY AllocatorFacts DEF Sets
  <2> QED BY <2>1, <2>2, <2>3 DEF TypeOK
<1> QED BY <1>1, AllocatorCorrect, PTL

(* Every pool is in use, kept empty or gone; a block's pool is in use, and *)
(* the pool's count goes with its blocks; no more empty pools are kept     *)
(* than clean allows.                                                      *)
THEOREM PoolsAccountedCorrect ==
  ASSUME Garbage \subseteq Nat
  PROVE  Spec => []PoolsAccounted
<1>1. AllocInv => PoolsAccounted
  <2> SUFFICES ASSUME AllocInv PROVE PoolsAccounted
    OBVIOUS
  <2>1. DOMAIN emptyPools = 1 .. Len(emptyPools) /\ Range(emptyPools) = Kept(emptyPools)
        /\ Apart(allPools, emptyPools)
    BY AllocatorFacts
  <2>2. /\ \A i, j \in DOMAIN emptyPools : emptyPools[i] = emptyPools[j] => i = j
        /\ allPools \cap Range(emptyPools) = {}
    BY <2>1 DEF Apart, Kept
  <2>3. \A e \in FreePlaces : pools[e] = Unused
    BY <2>1, AllocatorFacts DEF FreePlaces
  <2>4. DeallocFindsPool
    BY LiveFacts DEF DeallocFindsPool
  <2>5. \A e \in PoolIds : pools[e].allocatedcount - Cardinality({block \in live : block.pool = e})
                             \in Garbage \cup {0}
    BY CountIs DEF InPool
  <2>6. Len(emptyPools) <= ShouldBe + Tolerance
    BY DEF AllocInv
  <2> QED BY <2>2, <2>3, <2>4, <2>5, <2>6 DEF PoolsAccounted
<1> QED BY <1>1, AllocatorCorrect, PTL
=============================================================================
