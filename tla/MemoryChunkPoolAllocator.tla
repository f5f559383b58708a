----------------------- MODULE MemoryChunkPoolAllocator -----------------------
(***************************************************************************)
(* The allocator of pools,                                                 *)
(* src/VirtualMachineProject/MemoryChunkPoolAllocator.h: it keeps pools of *)
(* all types, picks one by the free sizes it advertises, and keeps a pool  *)
(* whose last block came back for another use.                             *)
(*                                                                         *)
(* Every public call holds the mutex to its end, so a call is one action.  *)
(* dealloc calls clean, which locks that mutex again: the build modelled   *)
(* is one whose mutex lets its owner lock again.  Asserts are compiled     *)
(* out.  A pool is named by its place in the order of MemoryPool*, by      *)
(* which *begin() chooses.                                                 *)
(***************************************************************************)
EXTENDS MemoryPool, SequencesExt

CONSTANTS PoolIds,      \* the places a pool object can have: 1 .. n
          Sizes,        \* the sizes asked, in units
          Garbage,      \* what the uninitialised allocatedcount may hold,
                        \* a number from the wrap's end as one below 0
          ShouldBe, Tolerance   \* clean's defaults, 8 and 8 in the code

NoPool == 0
ASSUME AllocatorAssumption ==
  /\ PoolIds \subseteq Nat \ {NoPool} /\ Sizes \subseteq 1 .. 32 /\ Garbage \subseteq Int
  /\ ShouldBe \in Nat /\ Tolerance \in Nat
  /\ \A type \in Types : Units(type) <= 512      \* a pool has 1 MB

VARIABLES pools,            \* the object at each place, Unused if there is none
          allPools,         \* places of the pools in use, by their range
          withoutDividing, withDividing,   \* for each size, the pools that have it
          emptyPools,       \* pools kept without a block, the last used first
          live,             \* the callers' blocks, [pool, ptr, size]
          recursion         \* recursionCounter where alloc last took a pool
vars == <<pools, allPools, withoutDividing, withDividing, emptyPools, live, recursion>>

Unused == NewPool(0)

sizeToPoolType ==
  <<32, 32, 72, 32, 30, 72, 84, 32, 72, 30, 72, 72, 84, 84, 30, 32,
    72, 72, 100, 100, 84, 72, 72, 72, 100, 84, 84, 84, 30, 30, 32, 32>>

(* The allocator's fields, as alloc and its recursion pass them on.        *)
Now == [pools |-> pools, allPools |-> allPools, emptyPools |-> emptyPools,
        first |-> withoutDividing, second |-> withDividing]

(* repairArrays: pool e had the free sizes old and has the sizes new.      *)
Moved(sets, e, old, new) ==
  [k \in DOMAIN sets |-> IF k \in new \ old THEN sets[k] \cup {e}
                         ELSE IF k \in old \ new THEN sets[k] \ {e} ELSE sets[k]]
repairArrays_FirstOnly(s, e, old, new) ==
  [s EXCEPT !.first = Moved(@, e, old.first, new.first)]
repairArrays(s, e, old, new) ==
  [s EXCEPT !.first = Moved(@, e, old.first, new.first),
            !.second = Moved(@, e, old.second, new.second)]

(* alloc in pool e, which has the size.                                    *)
Served(s, e, result, recursionCounter) ==
  [now |-> repairArrays([s EXCEPT !.pools[e] = result.pool], e,
                        s.pools[e].freeSizes, result.pool.freeSizes),
   pool |-> e, ptr |-> result.index,
   recursion |-> IF recursionCounter = 0 THEN 0 ELSE recursionCounter - 1]
AllocIn(s, e, size, recursionCounter) ==
  Served(s, e, poolAlloc(s.pools[e], size), recursionCounter)

(* A pool is reset for the size's type, unless its bytes are blank, and    *)
(* put among the pools in use.                                             *)
UsePool_NoRepair(s, e, object, size) ==
  [s EXCEPT !.pools[e] = poolReset(object, sizeToPoolType[size]), !.allPools = @ \cup {e}]
PutInUse(s, e, p) ==
  repairArrays([s EXCEPT !.pools[e] = p, !.allPools = @ \cup {e}], e, NoSizes, p.freeSizes)
UsePool(s, e, object, size) == PutInUse(s, e, poolReset(object, sizeToPoolType[size]))

(* alloc is in the first pool that has the size undivided, else the first  *)
(* that can divide.                                                        *)
Holds(s, size) == s.first[size] \cup s.second[size] # {}
AllocHeld(s, size, recursionCounter) ==
  AllocIn(s, Min(IF s.first[size] # {} THEN s.first[size] ELSE s.second[size]),
          size, recursionCounter)

(* Without one, alloc takes the empty pool last used and calls itself: so  *)
(* on until a pool has the size or none is empty.                          *)
Taken(s, recursionCounter) == [now |-> s, recursion |-> recursionCounter]
TakeEmpty(t, size) ==
  IF Holds(t.now, size) \/ t.now.emptyPools = << >> THEN t
  ELSE LET e == Last(t.now.emptyPools)
       IN  Taken(UsePool([t.now EXCEPT !.emptyPools = Front(@)], e, t.now.pools[e], size),
                 t.recursion + 1)
TakeEmpties(s, size) ==
  LET taken[n \in Nat] == IF n = 0 THEN Taken(s, 0) ELSE TakeEmpty(taken[n - 1], size)
  IN  taken[Len(s.emptyPools)]

(* Then it makes a new pool.  fresh is the new pool's place, NoPool if it  *)
(* or its memory cannot be had; an empty pool may serve nothing, a new one *)
(* serves the size, so one call makes one new pool at the most.            *)
AllocOrNull(t, size) ==
  IF Holds(t.now, size) THEN AllocHeld(t.now, size, t.recursion)
  ELSE [now |-> t.now, pool |-> NoPool, ptr |-> NoIndex, recursion |-> t.recursion]
TakeFresh(t, size, fresh, object) ==
  IF Holds(t.now, size) \/ fresh = NoPool THEN t
  ELSE Taken(UsePool(t.now, fresh, object, size), t.recursion + 1)
alloc(s, size, fresh, object) ==
  AllocOrNull(TakeFresh(TakeEmpties(s, size), size, fresh, object), size)

(* clean: keep shouldBe empty pools once there are more than the tolerance *)
(* allows; the others and their memory are freed.                          *)
clean_OneMore(s, shouldBe, tolerance) ==
  IF Len(s.emptyPools) <= shouldBe + tolerance + 1 THEN s
  ELSE [s EXCEPT !.emptyPools = SubSeq(@, 1, shouldBe),
                 !.pools = [e \in PoolIds |->
                              IF \E i \in shouldBe + 1 .. Len(s.emptyPools) : s.emptyPools[i] = e
                              THEN Unused ELSE @[e]]]
clean(s, shouldBe, tolerance) ==
  IF Len(s.emptyPools) <= shouldBe + tolerance THEN s
  ELSE [s EXCEPT !.emptyPools = SubSeq(@, 1, shouldBe),
                 !.pools = [e \in PoolIds |->
                              IF \E i \in shouldBe + 1 .. Len(s.emptyPools) : s.emptyPools[i] = e
                              THEN Unused ELSE @[e]]]

(* dealloc of a block of pool e, which is in use.                          *)
putAwayIfEmpty_OneLeft(s, e, old, p) ==
  LET freed == [s EXCEPT !.pools[e] = p]
  IN  IF p.allocatedcount <= 1
      THEN clean([repairArrays(freed, e, old, NoSizes) EXCEPT
                    !.allPools = @ \ {e}, !.emptyPools = Append(@, e)], ShouldBe, Tolerance)
      ELSE repairArrays(freed, e, old, p.freeSizes)
putAwayIfEmpty(s, e, old, p) ==
  LET freed == [s EXCEPT !.pools[e] = p]
  IN  IF p.allocatedcount = 0
      THEN clean([repairArrays(freed, e, old, NoSizes) EXCEPT
                    !.allPools = @ \ {e}, !.emptyPools = Append(@, e)], ShouldBe, Tolerance)
      ELSE repairArrays(freed, e, old, p.freeSizes)
dealloc(s, e, ptr) ==
  putAwayIfEmpty(s, e, s.pools[e].freeSizes, poolDealloc(s.pools[e], ptr).pool)

-----------------------------------------------------------------------------
Store(s) ==
  /\ pools' = s.pools
  /\ allPools' = s.allPools
  /\ emptyPools' = s.emptyPools
  /\ withoutDividing' = s.first
  /\ withDividing' = s.second

Init ==
  /\ pools = [e \in PoolIds |-> Unused]
  /\ allPools = {}
  /\ withoutDividing = [k \in 1 .. 32 |-> {}]
  /\ withDividing = [k \in 1 .. 32 |-> {}]
  /\ emptyPools = << >>
  /\ live = {}
  /\ recursion = 0

FreePlaces == PoolIds \ (allPools \cup Range(emptyPools))

Return(result, size) ==
  /\ Store(result.now)
  /\ live' = IF result.ptr = NoIndex THEN live
             ELSE live \cup {[pool |-> result.pool, ptr |-> result.ptr, size |-> size]}
  /\ recursion' = result.recursion
Alloc(size, fresh, garbage) ==
  Return(alloc(Now, roundSizeTable[size], fresh, NewPool(garbage)), size)

(* A block whose pool is not found is left alone.                          *)
Dealloc(block) ==
  /\ Store(IF block.pool \in allPools THEN dealloc(Now, block.pool, block.ptr) ELSE Now)
  /\ live' = live \ {block}
  /\ UNCHANGED recursion

Clean(shouldBe, tolerance) ==
  /\ Store(clean(Now, shouldBe, tolerance))
  /\ UNCHANGED <<live, recursion>>

Next ==
  \/ \E size \in Sizes, fresh \in FreePlaces \cup {NoPool}, garbage \in Garbage :
       Alloc(size, fresh, garbage)
  \/ \E block \in live : Dealloc(block)
  \/ Clean(0, 0)

Spec == Init /\ [][Next]_vars

-----------------------------------------------------------------------------
TypeOK ==
  /\ \A e \in PoolIds :
       /\ pools[e].chunkTypes \in [0 .. SIZEOF - 1 -> [Option : 0 .. 3, fullChilds : 0 .. 63]]
       /\ pools[e].blockType \in Types \cup {0}
       /\ pools[e].allocatedcount \in Nat
  /\ allPools \subseteq PoolIds
  /\ withoutDividing \in [1 .. 32 -> SUBSET PoolIds]
  /\ withDividing \in [1 .. 32 -> SUBSET PoolIds]
  /\ Range(emptyPools) \subseteq PoolIds
  /\ \A block \in live : block.pool \in PoolIds /\ block.ptr \in 0 .. 511

(* A block is freed through the pool it lies in, which is in use: the      *)
(* assert in dealloc when the pool is not found.                           *)
DeallocFindsPool == \A block \in live : block.pool \in allPools

(* Every pool is in use, empty or gone, and one that is put away has no    *)
(* block in it; a pool's count stays as far from the number of its blocks  *)
(* as the constructor left it; no more empty pools are kept than clean     *)
(* allows.                                                                 *)
PoolsAccounted ==
  /\ \A i, j \in DOMAIN emptyPools : emptyPools[i] = emptyPools[j] => i = j
  /\ allPools \cap Range(emptyPools) = {}
  /\ \A e \in FreePlaces : pools[e] = Unused
  /\ DeallocFindsPool
  /\ \A e \in PoolIds :
       pools[e].allocatedcount - Cardinality({block \in live : block.pool = e})
         \in Garbage \cup {0}
  /\ Len(emptyPools) <= ShouldBe + Tolerance

(* The sets alloc chooses from hold the pools in use that advertise the    *)
(* size, and no pool that was put away or freed (the asserts of            *)
(* repairArrays).                                                          *)
ArraysMatchPools ==
  \A k \in 1 .. 32 :
    /\ withoutDividing[k] = {e \in allPools : k \in pools[e].freeSizes.first}
    /\ withDividing[k] = {e \in allPools : k \in pools[e].freeSizes.second}

(* alloc returns null only for want of a pool: a place in any pool, in use *)
(* or empty, is found whatever type an empty pool was left with, and a new *)
(* pool always serves.                                                     *)
AllocServes ==
  \A size \in Sizes, fresh \in FreePlaces \cup {NoPool} :
    LET k == roundSizeTable[size]
        Has(e) == k \in pools[e].freeSizes.first \cup pools[e].freeSizes.second
    IN  alloc(Now, k, fresh, NewPool(0)).ptr # NoIndex <=>
          fresh # NoPool \/ \E e \in allPools \cup Range(emptyPools) : Has(e)

PoolArea(e) == [at |-> 512 * e, len |-> Units(pools[e].blockType)]
Heap == INSTANCE AllocatorHeap WITH
  Places <- Nat, Lengths <- Nat,
  blocks <- {PoolArea(e) : e \in {d \in PoolIds : pools[d].memory}},
  buffers <- {[at |-> 512 * block.pool + block.ptr, len |-> block.size] : block \in live}

(* The blocks handed out never overlap, and each lies in memory a pool     *)
(* still has: a pool's memory is freed when no block is in it.             *)
BlocksApart == Heap!BuffersApart

(* The branch that takes a pool asserts that it is not taken twice.        *)
NotTakenTwice == recursion = 0
=============================================================================
