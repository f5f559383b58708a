------------------------ MODULE MemoryManagerProofs -------------------------
(***************************************************************************)
(* The theorems about MemoryManagerParallel, for all values of its         *)
(* constants, in three parts.                                              *)
(*                                                                         *)
(* The first ends the proof that IndInv is an invariant of Spec: steps that*)
(* free a slot, give a chunk to a store, or destroy it, keep it too.  The  *)
(* properties of MemoryManagerInvariants about locks, lists, chunks and    *)
(* searches follow.                                                        *)
(*                                                                         *)
(* The second is the refinement: the manager implements AllocatorHeap, as  *)
(* every step of every thread is one step of a heap of blocks and buffers, *)
(* or none.                                                                *)
(*                                                                         *)
(* The third is the counters of empty chunks: they are exact, up to what   *)
(* each thread still owes them, and no counter that has wrapped meets a    *)
(* threshold.                                                              *)
(***************************************************************************)
EXTENDS MemoryManagerSteps

-----------------------------------------------------------------------------
(* Steps that free, list or destroy.                                       *)

(* What the result of a chunk's dealloc says.                              *)
LEMMA DealocResultFacts ==
  ASSUME NEW c, NEW rest
  PROVE  /\ DealocResult(c, rest) \in {"NOW_IS_EMPTY_CHUNK", "WAS_FULL_IS_EMPTY"} <=> rest = {}
         /\ DealocResult(c, rest) \in {"WAS_FULL_CHUNK", "WAS_FULL_IS_EMPTY"} <=> full(c)
         /\ DealocResult(c, rest) = "WAS_FULL_CHUNK" => full(c) /\ rest # {}
         /\ DealocResult(c, rest) = "OK" => ~ full(c) /\ rest # {}
<1>1. CASE full(c) /\ rest = {}
  BY <1>1 DEF DealocResult
<1>2. CASE full(c) /\ rest # {}
  BY <1>2 DEF DealocResult
<1>3. CASE ~ full(c) /\ rest = {}
  BY <1>3 DEF DealocResult
<1>4. CASE ~ full(c) /\ rest # {}
  BY <1>4 DEF DealocResult
<1> QED BY <1>1, <1>2, <1>3, <1>4

(* The chunk dealloc finds is the one whose slot the pointer is.           *)
LEMMA FoundChunk ==
  ASSUME IndInv, NEW t \in Threads, pc[t] = "d_find", NEW c \in Found(t),
         NEW i, i = ElementIndex(c, local[t].ptr)
  PROVE  /\ c \in Mapped /\ c \in PoolAddresses /\ local[t].bkt = getMemoryBucket(c)
         /\ c \in memory[getMemoryBucket(c)] /\ getMemoryBucket(c) \in Buckets
         /\ i \in used[c] /\ i \in Slots(c) /\ local[t].ptr = ElementAddress(c, i)
         /\ \A u \in Threads : c \notin FreshBy(u) /\ c \notin DoomedBy(u)
<1>1. /\ TypeOK /\ ChunkInv /\ BufferInv /\ RoomInv /\ local[t] \in Locals /\ Mapped \subseteq PoolAddresses
  BY ThreadFacts, InvFacts
<1>2. local[t].bkt \in Buckets /\ c \in memory[local[t].bkt] /\ Covers(c, local[t].ptr)
  BY <1>1 DEF Locals, Found
<1>3. c \in Mapped /\ local[t].bkt = getMemoryBucket(c)
  BY <1>1, <1>2 DEF ChunkInv
<1>4. local[t].ptr \in UsedAddresses
  BY <1>1 DEF BufferInv, InFlight
<1>5. PICK d \in Mapped : \E j \in used[d] :
        /\ local[t].ptr = ElementAddress(d, j) /\ j \in Slots(d) /\ j = ElementIndex(d, local[t].ptr)
        /\ local[t].ptr \in Nat /\ Covers(d, local[t].ptr)
  BY <1>4, UsedChunk
<1>6. local[t].ptr \in Nat /\ Covers(d, local[t].ptr)
  BY <1>5
<1>7. d = c
  BY <1>1, <1>2, <1>3, <1>6, CoverFacts
<1>8. i \in used[c] /\ i \in Slots(c) /\ local[t].ptr = ElementAddress(c, i)
  BY <1>5, <1>7
<1>9. \A u \in Threads : c \notin FreshBy(u) /\ c \notin DoomedBy(u)
  <2> SUFFICES ASSUME NEW u \in Threads PROVE c \notin FreshBy(u) /\ c \notin DoomedBy(u)
    OBVIOUS
  <2>1. ~ empty(c)
    BY <1>8 DEF empty
  <2>2. Hand(u)
    BY ThreadFacts
  <2> QED BY <1>1, <2>1, <2>2 DEF Hand, FreshBy, RoomInv
<1> QED BY <1>1, <1>2, <1>3, <1>8, <1>9

(* dealloc frees the slot of its pointer.                                  *)
LEMMA DeallocHitStep ==
  ASSUME IndInv, NEW t \in Threads, DeallocHit(t)
  PROVE  IndInv'
<1> DEFINE my == local[t]
<1>1. PICK c \in Found(t) :
       LET rest == used[c] \ {ElementIndex(c, local[t].ptr)}
           result == DealocResult(c, rest)
           needClean == result \in {"NOW_IS_EMPTY_CHUNK", "WAS_FULL_IS_EMPTY"}
           toFreestore == result \in {"WAS_FULL_CHUNK", "WAS_FULL_IS_EMPTY"}
           found == [local[t] EXCEPT !.ch = c, !.needClean = needClean, !.toFreestore = toFreestore]
       IN  /\ used' = [used EXCEPT ![c] = rest]
           /\ \/ needClean /\ KeepBucket(t, local[t].bkt) /\ GotoWith(t, "d_size", found)
              \/ result = "WAS_FULL_CHUNK" /\ GotoWith(t, "d_store", found) /\ UNCHANGED bucketLock
              \/ result = "OK" /\ Return(t) /\ UNCHANGED bucketLock
  BY DEF DeallocHit
<1>2. /\ pc[t] = "d_find" /\ bucketLock[my.bkt] = NoThread
      /\ UNCHANGED <<memory, chunkRange, memorysize, listVars, counterVars, cleanVars, contextLock, storeLock, live>>
  BY DEF DeallocHit
<1> PICK i : i = ElementIndex(c, my.ptr)
  OBVIOUS
<1> PICK b : b = getMemoryBucket(c)
  OBVIOUS
<1> PICK rest : rest = used[c] \ {i}
  OBVIOUS
<1>3. /\ c \in Mapped /\ c \in PoolAddresses /\ my.bkt = b /\ c \in memory[b] /\ b \in Buckets
      /\ i \in used[c] /\ i \in Slots(c) /\ my.ptr = ElementAddress(c, i)
      /\ \A u \in Threads : c \notin FreshBy(u) /\ c \notin DoomedBy(u)
  BY <1>2, FoundChunk
<1>4. /\ TypeOK /\ LocksOf(t) /\ LocksMatchCode /\ my \in Locals /\ my.toDelete = <<>> /\ t # NoThread
      /\ ChunkInv /\ ListPlaceInv /\ ThreadPlaceInv /\ RoomInv /\ HandInv /\ BufferInv /\ SearchInv
      /\ Mapped \subseteq PoolAddresses
      /\ Held(notfullchunks) \subseteq Mapped /\ Held(freeStore) \subseteq Mapped
  BY <1>2, ThreadFacts, InvFacts
<1> PICK store : store = full(c)
  OBVIOUS
<1>5. PICK label \in {"d_size", "d_store", "idle"}, locals \in Locals :
        /\ GotoWith(t, label, locals) /\ locals.toDelete = <<>>
        /\ label = "d_size" => LockBucket(t, b) /\ locals.bkt = b
        /\ label # "d_size" => UNCHANGED bucketLock
        /\ label \in {"d_size", "d_store"} => locals.ch = c /\ (locals.toFreestore <=> store)
        /\ label = "d_store" => store /\ locals.toFreestore
        /\ label = "idle" => ~ store
  <2> DEFINE result == DealocResult(c, rest)
             needClean == result \in {"NOW_IS_EMPTY_CHUNK", "WAS_FULL_IS_EMPTY"}
             toFreestore == result \in {"WAS_FULL_CHUNK", "WAS_FULL_IS_EMPTY"}
             found == [my EXCEPT !.ch = c, !.needClean = needClean, !.toFreestore = toFreestore]
  <2>1. /\ \/ needClean /\ LockBucket(t, my.bkt) /\ GotoWith(t, "d_size", found)
           \/ result = "WAS_FULL_CHUNK" /\ GotoWith(t, "d_store", found) /\ UNCHANGED bucketLock
           \/ result = "OK" /\ Return(t) /\ UNCHANGED bucketLock
    BY <1>1 DEF KeepBucket
  <2>2. /\ toFreestore <=> store
        /\ result = "WAS_FULL_CHUNK" => store /\ rest # {}
        /\ result = "OK" => ~ store /\ rest # {}
    BY DealocResultFacts
  <2> HIDE DEF result
  <2>3. needClean \in BOOLEAN /\ toFreestore \in BOOLEAN
    OBVIOUS
  <2> HIDE DEF needClean, toFreestore
  <2>4. /\ found \in Locals /\ found.toDelete = <<>> /\ found.bkt = my.bkt
        /\ found.ch = c /\ found.toFreestore = toFreestore
    <3> HIDE DEF my
    <3> QED BY <1>3, <1>4, <2>3 DEF Locals
  <2> HIDE DEF found
  <2>5. NoLocals \in Locals /\ NoLocals.toDelete = <<>>
    BY NoLocalsType DEF NoLocals
  <2>6. CASE needClean /\ LockBucket(t, my.bkt) /\ GotoWith(t, "d_size", found)
    BY <1>3, <2>2, <2>4, <2>6
  <2>7. CASE result = "WAS_FULL_CHUNK" /\ GotoWith(t, "d_store", found) /\ UNCHANGED bucketLock
    BY <2>2, <2>4, <2>7
  <2>8. CASE result = "OK" /\ Return(t) /\ UNCHANGED bucketLock
    BY <2>2, <2>5, <2>8 DEF Return
  <2> QED BY <2>1, <2>6, <2>7, <2>8
<1>6. label \in Places
  BY DEF Places
<1>7. /\ pc' \in [Threads -> Places] /\ local' \in [Threads -> Locals]
      /\ pc'[t] = label /\ local'[t] = locals /\ Others(t)
  BY <1>4, <1>5, <1>6, GotoWithFacts
<1>8. /\ UNCHANGED <<notfullchunks, freeStore, freelistNode, emptyBlocksSize, emptyBlocksCount, cleanMutex, cleanCounter>>
  BY <1>2 DEF listVars, counterVars, cleanVars
<1>9. /\ used' \in [PoolAddresses -> SUBSET Nat] /\ used'[c] = used[c] \ {i}
      /\ \A d \in PoolAddresses : d # c => used'[d] = used[d]
      /\ \A d \in PoolAddresses : used'[d] \subseteq used[d]
  <2>1. used \in [PoolAddresses -> SUBSET Nat] /\ used' = [used EXCEPT ![c] = used[c] \ {i}]
    BY <1>1, <1>4 DEF TypeOK
  <2> QED BY <1>3, <2>1
<1>10. TypeOK'
  <2>1. bucketLock' \in [Buckets -> Owner]
    BY <1>4, <1>5 DEF TypeOK, LockBucket, Owner
  <2> QED BY <1>2, <1>4, <1>7, <1>8, <1>9, <2>1 DEF TypeOK
<1>11. LocksMatchCode'
  <2>1. \A x \in Buckets : bucketLock[x] # t
    BY <1>2, <1>4 DEF LocksOf, HoldsBucket
  <2>2. \A x \in Buckets : bucketLock'[x] = t <=> label = "d_size" /\ x = b
    BY <1>3, <1>4, <1>5, <2>1 DEF LockBucket, TypeOK
  <2>3. LocksOf(t)'
    BY <1>2, <1>4, <1>5, <1>7, <1>8, <2>2 DEF LocksOf, HoldsBucket, HoldsContext, HoldsStore, HoldsClean
  <2>4. LocksStep(t)
    BY <1>2, <1>3, <1>4, <1>5, <1>8 DEF LocksStep, LockBucket, TypeOK
  <2> QED BY <1>4, <1>7, <2>3, <2>4, LocksFrame
<1>12. /\ \A d : Slots(d)' = Slots(d) /\ elSize(d)' = elSize(d)
       /\ Mapped' = Mapped
       /\ \A d \in PoolAddresses : d # c => full(d)' = full(d) /\ empty(d)' = empty(d)
       /\ \A d \in PoolAddresses : empty(d) => empty(d)'
       /\ ~ full(c)' /\ ~ empty(c)
       /\ Held(notfullchunks)' = Held(notfullchunks) /\ Held(freeStore)' = Held(freeStore) /\ Listed' = Listed
  <2>1. /\ \A d : Slots(d)' = Slots(d) /\ elSize(d)' = elSize(d)
        /\ Mapped' = Mapped
    BY <1>2 DEF Slots, elSize, Mapped
  <2>2. Held(notfullchunks)' = Held(notfullchunks) /\ Held(freeStore)' = Held(freeStore) /\ Listed' = Listed
    BY <1>8 DEF Held, Listed
  <2> QED BY <1>3, <1>9, <2>1, <2>2 DEF full, empty
<1>13. /\ \A d \in PoolAddresses : t \notin Listing(d) /\ ((t \in Listing(d))' <=> d = c /\ store)
       /\ FreshBy(t) = {}
       /\ \A u \in Threads : u # t => \A d : (u \in Listing(d))' <=> u \in Listing(d)
       /\ \A u \in Threads : /\ SplicedBy(u)' = SplicedBy(u) /\ DoomedBy(u)' = DoomedBy(u)
                             /\ local'[u].toDelete = local[u].toDelete
  <2>1. \A d \in PoolAddresses : t \notin Listing(d)
    BY <1>2 DEF Listing
  <2>2. \A d \in PoolAddresses : (t \in Listing(d))' <=> d = c /\ store
    BY <1>3, <1>5, <1>7 DEF Listing
  <2>3. FreshBy(t) = {} /\ SplicedBy(t) = {} /\ SplicedBy(t)' = {}
    BY <1>2, <1>7 DEF FreshBy, SplicedBy
  <2>4. DoomedBy(t)' = DoomedBy(t) /\ local'[t].toDelete = local[t].toDelete
    BY <1>4, <1>5, <1>7 DEF DoomedBy
  <2> QED BY <1>7, <2>1, <2>2, <2>3, <2>4, OthersKeep DEF Others
<1>14. store => c \in freelistNode /\ \A u \in Threads : u \notin Listing(c)
  <2> SUFFICES ASSUME store PROVE c \in freelistNode /\ \A u \in Threads : u \notin Listing(c)
    OBVIOUS
  <2>1. \A u \in Threads : u \notin Listing(c) /\ c \notin SplicedBy(u)
    BY <1>4 DEF HandInv, Hand, SplicedBy, Listing
  <2>2. c \notin Listed
    BY <1>4 DEF RoomInv
  <2> QED BY <1>3, <1>4, <2>1, <2>2 DEF ThreadPlaceInv
<1>15. ChunkInv'
  <2>1. \A d \in Mapped : used'[d] \subseteq Slots(d)
    BY <1>4, <1>9, InvFacts
  <2>2. \A d \in PoolAddresses \ Mapped : used'[d] = {}
    BY <1>3, <1>4, <1>9 DEF ChunkInv
  <2> QED BY <1>2, <1>7, <1>13, <2>1, <2>2, ChunkFrame
<1>16. ListPlaceInv'
  <2>1. Once(notfullchunks)' /\ Once(freeStore)'
    BY <1>4, <1>8 DEF ListPlaceInv, Once
  <2> QED BY <1>4, <1>8, <1>12, <2>1 DEF ListPlaceInv
<1>17. ThreadPlaceInv'
  <2>1. \A u \in Threads : local'[u].toDelete # <<>> => pc'[u] \in {"c_look", "c_drop", "c_delete"}
    BY <1>4, <1>7, <1>13 DEF ThreadPlaceInv, Others
  <2> QED BY <1>4, <1>8, <1>12, <1>13, <2>1 DEF ThreadPlaceInv
<1>18. RoomInv'
  <2>1. \A d \in Listed' : ~ full(d)'
    BY <1>4, <1>12 DEF RoomInv, Listed
  <2>2. OfTheirRow(notfullchunks)' /\ OfTheirRow(freeStore)'
    <3>1. chunkRange' = chunkRange
      BY <1>2
    <3> QED BY <1>4, <1>8, <3>1 DEF RoomInv, OfTheirRow
  <2>3. \A d \in freelistNode' : full(d)' \/ \E u \in Threads : (u \in Listing(d))'
    <3> SUFFICES ASSUME NEW d \in freelistNode
                 PROVE  full(d)' \/ \E u \in Threads : (u \in Listing(d))'
      BY <1>8
    <3>1. d \in PoolAddresses /\ (full(d) \/ \E u \in Threads : u \in Listing(d))
      BY <1>4 DEF RoomInv, TypeOK
    <3>2. CASE d = c /\ store
      BY <1>13, <3>1, <3>2
    <3>3. CASE d = c /\ ~ store
      <4>1. PICK u \in Threads : u \in Listing(d)
        BY <3>1, <3>3
      <4> QED BY <1>13, <3>1, <4>1
    <3>4. CASE d # c
      BY <1>12, <1>13, <3>1, <3>4
    <3> QED BY <3>2, <3>3, <3>4
  <2>4. \A u \in Threads : \A d \in DoomedBy(u)' : empty(d)'
    BY <1>4, <1>12, <1>13 DEF RoomInv, ThreadPlaceInv
  <2> QED BY <2>1, <2>2, <2>3, <2>4 DEF RoomInv
<1>19. CursorInv'
  <2>1. Cursor(t)'
    BY <1>7 DEF Cursor
  <2>2. \A d \in Held(freeStore) : empty(d) => empty(d)'
    BY <1>4, <1>12
  <2>3. \A u \in Threads : u # t => Cursor(u)'
    BY <1>7, <1>8, <2>2, OtherCursors
  <2> QED BY <2>1, <2>3 DEF CursorInv
<1>20. HandInv'
  <2>1. Hand(t)'
    BY <1>2, <1>3, <1>5, <1>7, <1>8, <1>12, <1>14 DEF Hand, Listing
  <2>2. ASSUME NEW u \in Threads, u # t PROVE Hand(u)'
    <3> DEFINE his == local[u]
    <3>1. Hand(u) /\ LocksOf(u) /\ u # NoThread /\ pc'[u] = pc[u] /\ local'[u] = his
      BY <1>7, <2>2, ThreadFacts DEF Others
    <3>2. (u \in Listing(his.ch))' <=> u \in Listing(his.ch)
      BY <3>1 DEF Listing
    <3>3. pc[u] = "a_count" => his.ch # c
      BY <1>2, <1>3, <3>1 DEF LocksOf, HoldsBucket
    <3>4. /\ pc[u] \in {"a_spliced", "a_fresh", "a_count"} => his.ch \in PoolAddresses
          /\ u \in Listing(his.ch) => his.ch \in PoolAddresses
      BY <1>4, <3>1, HandBucket DEF Hand, ChunkInv, TypeOK
    <3> HIDE DEF his
    <3>5. \A d \in PoolAddresses : ~ full(d) => ~ full(d)'
      BY <1>12
    <3>6. \A d \in PoolAddresses : d # c /\ ~ empty(d) => ~ empty(d)'
      BY <1>12
    <3> QED BY <1>2, <1>8, <1>12, <3>1, <3>2, <3>3, <3>4, <3>5, <3>6 DEF Hand, his
  <2>3. \A u, v \in Threads : \A d \in PoolAddresses : (u \in Listing(d))' /\ (v \in Listing(d))' => u = v
    BY <1>4, <1>13, <1>14 DEF HandInv
  <2> QED BY <2>1, <2>2, <2>3 DEF HandInv
<1> PICK p : p = my.ptr
  OBVIOUS
<1>21. UsedAddresses' = UsedAddresses \ {p}
  <2>1. \A d, j : ElementAddress(d, j)' = ElementAddress(d, j)
    BY <1>12 DEF ElementAddress
  <2>2. ASSUME NEW q \in UsedAddresses' PROVE q \in UsedAddresses \ {p}
    <3>1. PICK d \in Mapped : \E j \in used'[d] : q = ElementAddress(d, j)
      BY <1>12, <2>1 DEF UsedAddresses
    <3>2. PICK j \in used'[d] : q = ElementAddress(d, j)
      BY <3>1
    <3>3. j \in used[d] /\ j \in Slots(d) /\ d \in PoolAddresses
      BY <1>4, <1>9, InvFacts
    <3>4. q \in UsedAddresses
      BY <3>2, <3>3 DEF UsedAddresses
    <3>5. ASSUME q = p PROVE FALSE
      <4>1. ElementAddress(c, i) = ElementAddress(d, j)
        BY <1>3, <3>2, <3>5
      <4>2. c = d /\ i = j
        <5>1. c \in Mapped /\ i \in Slots(c) /\ d \in Mapped /\ j \in Slots(d)
          BY <1>3, <3>3
        <5> QED BY <4>1, <5>1, AddressFacts, ZenonT(30)
      <4> QED BY <1>9, <3>2, <4>2
    <3> QED BY <3>4, <3>5
  <2>3. ASSUME NEW q \in UsedAddresses, q # p PROVE q \in UsedAddresses'
    <3>1. PICK d \in Mapped : \E j \in used[d] : q = ElementAddress(d, j)
      BY DEF UsedAddresses
    <3>2. PICK j \in used[d] : q = ElementAddress(d, j)
      BY <3>1
    <3>3. j \in used'[d]
      BY <1>3, <1>4, <1>9, <2>3, <3>2
    <3> QED BY <1>12, <2>1, <3>2, <3>3 DEF UsedAddresses
  <2> QED BY <2>2, <2>3
<1>22. BufferInv'
  <2>1. /\ t \in InFlight /\ InFlight' = InFlight \ {t} /\ live' = live
        /\ \A u \in InFlight' : local'[u].ptr = local[u].ptr
    BY <1>2, <1>7 DEF InFlight, Others
  <2>2. /\ \A a \in live : a.ptr # p
        /\ \A u \in InFlight' : u \in InFlight /\ local[u].ptr # p
    BY <1>4, <2>1 DEF BufferInv
  <2> QED BY <1>4, <1>21, <2>1, <2>2 DEF BufferInv
<1>23. SearchInv'
  <2>1. \A u \in Threads : pc'[u] \in {"d_find", "g_find"} => pc'[u] = pc[u] /\ local'[u] = local[u]
    BY <1>7 DEF Others
  <2>2. memory' = memory /\ memorysize' = memorysize /\ live' = live
    BY <1>2
  <2>3. SearchCannotFail'
    BY <1>4, <1>12, <2>1, <2>2 DEF SearchInv, SearchCannotFail, Covers
  <2> QED BY <1>4, <2>1, <2>2, <2>3 DEF SearchInv
<1> QED BY <1>10, <1>11, <1>15, <1>16, <1>17, <1>18, <1>19, <1>20, <1>22, <1>23 DEF IndInv

(* dealloc gives a chunk that was full to the store.                       *)
LEMMA DeallocStoreStep ==
  ASSUME IndInv, NEW t \in Threads, DeallocStore(t)
  PROVE  IndInv'
<1> DEFINE my == local[t]
<1> PICK c : c = my.ch
  OBVIOUS
<1> PICK x : x = my.fs
  OBVIOUS
<1> PICK row : row = getSizeRange(elSize(c))
  OBVIOUS
<1>1. /\ pc[t] = "d_store" /\ storeLock[x] = NoThread
      /\ freeStore' = PushFront(freeStore, x, row, c) /\ freelistNode' = freelistNode \ {c}
      /\ IF my.needClean THEN CallClean(t) ELSE Return(t)
      /\ UNCHANGED <<memoryVars, notfullchunks, counterVars, cleanVars, lockVars, live>>
  BY DEF DeallocStore
<1>2. /\ TypeOK /\ LocksOf(t) /\ LocksMatchCode /\ Hand(t) /\ my \in Locals /\ my.toDelete = <<>> /\ t # NoThread
      /\ ChunkInv /\ ListPlaceInv /\ ThreadPlaceInv /\ RoomInv /\ HandInv
      /\ Mapped \subseteq PoolAddresses /\ freelistNode \subseteq Mapped
      /\ Held(notfullchunks) \subseteq Mapped /\ Held(freeStore) \subseteq Mapped
      /\ notfullchunks \in ListFamilies(Contexts) /\ freeStore \in ListFamilies(Stores)
      /\ Once(freeStore) /\ x \in Stores
  BY <1>1, ThreadFacts, InvFacts DEF Locals, ListPlaceInv
<1>3. /\ t \in Listing(c) /\ c \in freelistNode /\ ~ full(c) /\ c \in Mapped /\ c \in PoolAddresses
      /\ \A u \in Threads : u # t => u \notin Listing(c)
  <2>1. t \in Listing(c)
    BY <1>1, <1>2 DEF Hand, Listing
  <2>2. c \in freelistNode /\ ~ full(c)
    BY <1>2, <2>1 DEF Hand
  <2> QED BY <1>2, <2>1, <2>2 DEF HandInv
<1>4. c \notin Listed /\ \A u \in Threads : c \notin SplicedBy(u) \cup DoomedBy(u)
  BY <1>2, <1>3 DEF ListPlaceInv, ThreadPlaceInv
<1>5. row = chunkRange[c] /\ row \in Ranges
  BY <1>2, <1>3, InvFacts DEF ChunkInv, ChunkOK
<1>6. PICK label \in {"c_try", "idle"}, locals \in Locals :
        GotoWith(t, label, locals) /\ locals.toDelete = <<>> /\ locals.pos = 1
  <2>1. NoLocals \in Locals /\ NoLocals.toDelete = <<>> /\ NoLocals.pos = 1
    BY NoLocalsType DEF NoLocals
  <2>2. /\ CleanLocals(FALSE, ThreadHash[t]) \in Locals
        /\ CleanLocals(FALSE, ThreadHash[t]).toDelete = <<>> /\ CleanLocals(FALSE, ThreadHash[t]).pos = 1
    BY CleanLocalsType, IdsAssumption
  <2> HIDE DEF my
  <2>3. CASE my.needClean
    BY <1>1, <2>2, <2>3 DEF CallClean
  <2>4. CASE ~ my.needClean
    BY <1>1, <2>1, <2>4 DEF Return
  <2> QED BY <2>3, <2>4
<1>7. label \in Places
  BY DEF Places
<1>8. /\ pc' \in [Threads -> Places] /\ local' \in [Threads -> Locals]
      /\ pc'[t] = label /\ local'[t] = locals /\ Others(t)
  BY <1>2, <1>6, <1>7, GotoWithFacts
<1>9. Pushed(Stores, freeStore, freeStore', x, row, c)
  <2>1. Pushed(Stores, freeStore, PushFront(freeStore, x, row, c), x, row, c)
    BY <1>2, <1>3, <1>5, PushFrontFacts, Zenon
  <2> QED BY <1>1, <2>1
<1>10. /\ freeStore' \in ListFamilies(Stores) /\ Once(freeStore') /\ Held(freeStore') = Held(freeStore) \cup {c}
       /\ \A y \in Stores, q \in Ranges :
            ToSet(freeStore'[y][q]) = ToSet(freeStore[y][q]) \cup {d \in {c} : y = x /\ q = row}
       /\ \A y \in Stores : y # x => freeStore'[y] = freeStore[y]
  <2>1. \A y \in Stores : y # x => freeStore'[y] = freeStore[y]
    BY <1>1, <1>2 DEF PushFront, ListFamilies
  <2> QED BY <1>2, <1>4, <1>9, <2>1 DEF Pushed, Listed
<1>11. UNCHANGED <<memory, chunkRange, memorysize, used, contextLock, storeLock, bucketLock, cleanMutex,
                   cleanCounter, emptyBlocksSize, emptyBlocksCount, notfullchunks, live>>
  BY <1>1 DEF memoryVars, lockVars, cleanVars, counterVars
<1>12. TypeOK'
  <2>1. freeStore' \in [Stores -> [Ranges -> Seq(PoolAddresses)]]
    BY <1>10 DEF ListFamilies
  <2> QED BY <1>1, <1>2, <1>8, <1>11, <2>1 DEF TypeOK
<1>13. LocksMatchCode'
  <2>1. LocksStep(t) /\ LocksOf(t)'
    BY <1>1, <1>2, <1>8, <1>11 DEF LocksStep, LocksOf, HoldsBucket, HoldsContext, HoldsStore, HoldsClean
  <2> QED BY <1>2, <1>8, <2>1, LocksFrame
<1>14. ChunkInv' /\ Mapped' = Mapped
  <2>1. FreshBy(t) = {}
    BY <1>1 DEF FreshBy
  <2>2. /\ \A d \in Mapped : used'[d] \subseteq Slots(d)
        /\ \A d \in PoolAddresses \ Mapped : used'[d] = {}
    BY <1>2, <1>11, InvFacts DEF ChunkInv
  <2> QED BY <1>8, <1>11, <2>1, <2>2, ChunkFrame
<1>15. /\ \A d : full(d)' = full(d) /\ empty(d)' = empty(d)
       /\ Held(notfullchunks)' = Held(notfullchunks) /\ Held(freeStore)' = Held(freeStore) \cup {c}
       /\ Listed' = Listed \cup {c}
  BY <1>10, <1>11 DEF full, empty, Slots, Listed, Held
<1>16. /\ \A u \in Threads : /\ SplicedBy(u)' = SplicedBy(u) /\ DoomedBy(u)' = DoomedBy(u)
                             /\ local'[u].toDelete = local[u].toDelete
       /\ \A u \in Threads : u # t => \A d : (u \in Listing(d))' <=> u \in Listing(d)
       /\ \A d : ~ (t \in Listing(d))' /\ (t \in Listing(d) => d = c)
  <2>1. SplicedBy(t)' = SplicedBy(t) /\ DoomedBy(t)' = DoomedBy(t) /\ local'[t].toDelete = local[t].toDelete
    BY <1>1, <1>2, <1>6, <1>8 DEF SplicedBy, DoomedBy
  <2>2. \A d : ~ (t \in Listing(d))' /\ (t \in Listing(d) => d = c)
    BY <1>8 DEF Listing
  <2> QED BY <1>8, <2>1, <2>2, OthersKeep DEF Others
<1>17. ListPlaceInv'
  <2>1. Once(notfullchunks)' /\ Once(freeStore)'
    <3>1. Once(notfullchunks) /\ notfullchunks' = notfullchunks
      BY <1>2, <1>11 DEF ListPlaceInv
    <3> QED BY <1>10, <3>1
  <2> QED BY <1>1, <1>2, <1>3, <1>4, <1>14, <1>15, <2>1 DEF ListPlaceInv, Listed
<1>18. ThreadPlaceInv'
  <2>1. \A u \in Threads : /\ SplicedBy(u)' \cup DoomedBy(u)' \subseteq Mapped \ (freelistNode' \cup Listed')
                           /\ IsInjective(local'[u].toDelete)
                           /\ local'[u].toDelete # <<>> => pc'[u] \in {"c_look", "c_drop", "c_delete"}
    <3>1. \A u \in Threads : local'[u].toDelete # <<>> => pc'[u] \in {"c_look", "c_drop", "c_delete"}
      BY <1>2, <1>8, <1>16 DEF ThreadPlaceInv, Others
    <3> QED BY <1>1, <1>2, <1>4, <1>15, <1>16, <3>1 DEF ThreadPlaceInv
  <2> QED BY <1>1, <1>2, <1>14, <1>15, <1>16, <2>1 DEF ThreadPlaceInv
<1>19. RoomInv'
  <2>1. \A d \in Listed' : ~ full(d)'
    BY <1>2, <1>3, <1>15 DEF RoomInv
  <2>2. OfTheirRow(notfullchunks)' /\ OfTheirRow(freeStore)'
    <3>1. DOMAIN freeStore = Stores /\ DOMAIN freeStore' = Stores
      BY <1>2, <1>10 DEF ListFamilies
    <3>2. chunkRange' = chunkRange /\ notfullchunks' = notfullchunks
      BY <1>11
    <3>3. OfTheirRow(notfullchunks)'
      BY <1>2, <3>2 DEF RoomInv, OfTheirRow
    <3>4. \A y \in Stores, q \in Ranges : \A d \in ToSet(freeStore'[y][q]) : chunkRange[d] = q
      BY <1>2, <1>5, <1>10, <3>1 DEF RoomInv, OfTheirRow
    <3>5. OfTheirRow(freeStore)'
      BY <3>1, <3>2, <3>4 DEF OfTheirRow
    <3> QED BY <3>3, <3>5
  <2>3. \A d \in freelistNode' : full(d)' \/ \E u \in Threads : (u \in Listing(d))'
    <3> SUFFICES ASSUME NEW d \in freelistNode, d # c
                 PROVE  full(d)' \/ \E u \in Threads : (u \in Listing(d))'
      BY <1>1
    <3>1. full(d) \/ \E u \in Threads : u \in Listing(d)
      BY <1>2 DEF RoomInv
    <3>2. \A u \in Threads : u \in Listing(d) => (u \in Listing(d))'
      BY <1>16
    <3> QED BY <1>15, <3>1, <3>2
  <2>4. \A u \in Threads : \A d \in DoomedBy(u)' : empty(d)'
    BY <1>2, <1>15, <1>16 DEF RoomInv
  <2> QED BY <2>1, <2>2, <2>3, <2>4 DEF RoomInv
<1>20. CursorInv'
  <2>1. Cursor(t)'
    BY <1>6, <1>8 DEF Cursor
  <2>2. /\ \A y \in Contexts : notfullchunks'[y] = notfullchunks[y]
        /\ \A y \in Stores : storeLock[y] \notin {NoThread, t} => freeStore'[y] = freeStore[y]
    BY <1>1, <1>10, <1>11
  <2>3. \A u \in Threads : u # t => Cursor(u)'
    BY <1>8, <1>15, <2>2, OtherCursors
  <2> QED BY <2>1, <2>3 DEF CursorInv
<1>21. HandInv'
  <2>1. Hand(t)'
    BY <1>8 DEF Hand, Listing
  <2>2. ASSUME NEW u \in Threads, u # t PROVE Hand(u)'
    <3> DEFINE his == local[u]
    <3>1. Hand(u) /\ pc'[u] = pc[u] /\ local'[u] = his
      BY <1>8, <2>2, ThreadFacts DEF Others
    <3>2. (u \in Listing(his.ch))' <=> u \in Listing(his.ch)
      BY <3>1 DEF Listing
    <3>3. /\ u \in Listing(his.ch) => his.ch \in freelistNode'
          /\ pc[u] = "a_fresh" => his.ch \in freelistNode'
      BY <1>1, <1>3, <2>2, <3>1 DEF Hand, Listing
    <3> HIDE DEF his
    <3> QED BY <1>11, <1>14, <1>15, <3>1, <3>2, <3>3 DEF Hand, his
  <2> QED BY <1>2, <1>16, <2>1, <2>2 DEF HandInv
<1>22. BufferInv' /\ SearchInv'
  <2>1. UNCHANGED memoryVars /\ UNCHANGED live
    BY <1>1
  <2> QED BY <1>1, <1>8, <2>1, BuffersFrame
<1> QED BY <1>12, <1>13, <1>14, <1>17, <1>18, <1>19, <1>20, <1>21, <1>22 DEF IndInv

-----------------------------------------------------------------------------
(* clean takes empty chunks out of its store and destroys them.            *)

(* clean's sweep moves an empty chunk to toDeleteList.                     *)
LEMMA CleanDropStep ==
  ASSUME IndInv, NEW t \in Threads, CleanDrop(t)
  PROVE  IndInv'
<1> DEFINE my == local[t]
<1> PICK x : x = my.fs
  OBVIOUS
<1> PICK row : row = my.row
  OBVIOUS
<1> PICK k : k = my.pos
  OBVIOUS
<1> PICK c : c = freeStore[x][row][k]
  OBVIOUS
<1> DEFINE dropped == [my EXCEPT !.toDelete = Cons(c, @)]
<1>1. /\ pc[t] = "c_drop"
      /\ emptyBlocksCount' = Minus(emptyBlocksCount, 1)
      /\ freeStore' = TakeOut(freeStore, x, row, k)
      /\ SweepOn(t, dropped, k, freeStore'[x][row])
      /\ UNCHANGED <<memoryVars, notfullchunks, freelistNode, emptyBlocksSize, cleanVars, contextLock, bucketLock, live>>
  BY DEF CleanDrop
<1>2. /\ TypeOK /\ LocksOf(t) /\ LocksMatchCode /\ Cursor(t) /\ my \in Locals /\ t # NoThread
      /\ ChunkInv /\ ListPlaceInv /\ ThreadPlaceInv /\ RoomInv /\ HandInv
      /\ Mapped \subseteq PoolAddresses /\ freelistNode \subseteq Mapped
      /\ Held(notfullchunks) \subseteq Mapped /\ Held(freeStore) \subseteq Mapped
      /\ notfullchunks \in ListFamilies(Contexts) /\ freeStore \in ListFamilies(Stores)
      /\ Once(freeStore) /\ x \in Stores /\ my.toDelete \in Seq(PoolAddresses)
  BY <1>1, ThreadFacts, InvFacts DEF Locals, ListPlaceInv
<1>3. /\ row \in Ranges /\ k \in 1 .. Len(freeStore[x][row]) /\ empty(c) /\ k \in Nat \ {0}
      /\ freeStore[x][row] \in Seq(PoolAddresses)
  <2>1. my.row \in Ranges /\ my.pos \in 1 .. Len(freeStore[my.fs][my.row]) /\ empty(freeStore[my.fs][my.row][my.pos])
    BY <1>1, <1>2 DEF Cursor
  <2>2. row \in Ranges /\ k \in 1 .. Len(freeStore[x][row]) /\ empty(c)
    BY <2>1
  <2>3. freeStore[x][row] \in Seq(PoolAddresses)
    BY <1>2, <2>2 DEF ListFamilies
  <2>4. k \in Nat \ {0}
    BY <2>2
  <2> QED BY <2>2, <2>3, <2>4
<1>4. Taken(Stores, freeStore, freeStore', x, row, k, c)
  <2>1. Taken(Stores, freeStore, TakeOut(freeStore, x, row, k), x, row, k, freeStore[x][row][k])
    BY <1>2, <1>3, TakeOutFacts, Zenon
  <2> QED BY <1>1, <2>1
<1>5. /\ c \in PoolAddresses /\ c \in Held(freeStore) /\ c \in ToSet(freeStore[x][row])
      /\ freeStore' \in ListFamilies(Stores) /\ Once(freeStore')
      /\ Held(freeStore') = Held(freeStore) \ {c}
      /\ \A y \in Stores, q \in Ranges : ToSet(freeStore'[y][q]) = ToSet(freeStore[y][q]) \ {c}
      /\ \A y \in Stores, q \in Ranges : ~ (y = x /\ q = row) => freeStore'[y][q] = freeStore[y][q]
      /\ Len(freeStore'[x][row]) \in Nat
  <2>1. Taken(Stores, freeStore, freeStore', x, row, k, c)
    BY <1>4
  <2>2. Len(freeStore'[x][row]) \in Nat
    <3>1. Len(freeStore[x][row]) \in Nat /\ Len(freeStore[x][row]) >= 1
      BY <1>3
    <3>2. Len(freeStore'[x][row]) = Len(freeStore[x][row]) - 1
      BY <2>1 DEF Taken
    <3> QED BY <3>1, <3>2
  <2> HIDE DEF my
  <2> QED BY <2>1, <2>2, Zenon DEF Taken
<1>6. /\ c \in Mapped /\ c \in Listed /\ c \notin freelistNode /\ c \notin Held(notfullchunks)
      /\ \A u \in Threads : c \notin SplicedBy(u) \cup DoomedBy(u)
  BY <1>2, <1>5 DEF ListPlaceInv, ThreadPlaceInv, Listed
<1>7. /\ Cons(c, my.toDelete) \in Seq(PoolAddresses) /\ IsInjective(Cons(c, my.toDelete))
      /\ ToSet(Cons(c, my.toDelete)) = DoomedBy(t) \cup {c}
  <2>1. IsInjective(my.toDelete)
    BY <1>2 DEF ThreadPlaceInv
  <2>2. c \notin ToSet(my.toDelete) /\ c \in PoolAddresses
    BY <1>2, <1>6 DEF DoomedBy
  <2>3. my.toDelete \in Seq(PoolAddresses) /\ DoomedBy(t) = ToSet(my.toDelete)
    BY <1>2 DEF DoomedBy
  <2>4. PICK s : s = my.toDelete
    OBVIOUS
  <2>5. s \in Seq(PoolAddresses) /\ IsInjective(s) /\ c \notin ToSet(s) /\ c \in PoolAddresses
    BY <2>1, <2>2, <2>3, <2>4
  <2>6. Cons(c, s) \in Seq(PoolAddresses) /\ IsInjective(Cons(c, s)) /\ ToSet(Cons(c, s)) = ToSet(s) \cup {c}
    BY <2>5, ConsFacts
  <2> QED BY <2>3, <2>4, <2>6
<1>8. /\ dropped \in Locals /\ dropped.toDelete = Cons(c, my.toDelete) /\ dropped.fs = x /\ dropped.row = row
  <2> HIDE DEF my
  <2>1. x = my.fs /\ row = my.row
    BY DEF my
  <2> QED BY <1>2, <1>7, <2>1 DEF Locals
<1> HIDE DEF dropped
<1>9. PICK label \in {"c_look", "c_delete"}, locals \in Locals :
        /\ GotoWith(t, label, locals)
        /\ locals.fs = x /\ locals.toDelete = Cons(c, my.toDelete)
        /\ label = "c_delete" => UnlockStore(x)
        /\ label = "c_look" =>
             /\ UNCHANGED storeLock
             /\ \/ locals.row = row /\ locals.pos = k /\ k \in 1 .. Len(freeStore'[x][row])
                \/ /\ locals.row \in Ranges /\ locals.row > row /\ locals.pos = 1
                   /\ 1 \in 1 .. Len(freeStore[x][locals.row])
  <2>1. dropped.row \in Ranges /\ SweepOn(t, dropped, k, freeStore'[x][row])
    BY <1>1, <1>3, <1>8
  <2>2. \E label \in {"c_look", "c_delete"}, locals \in Locals :
           /\ GotoWith(t, label, locals)
           /\ locals.fs = dropped.fs /\ locals.toDelete = dropped.toDelete
           /\ label = "c_delete" => UnlockStore(dropped.fs)
           /\ label = "c_look" =>
                /\ UNCHANGED storeLock
                /\ \/ locals.row = dropped.row /\ locals.pos = k /\ k \in 1 .. Len(freeStore'[x][row])
                   \/ /\ locals.row \in Ranges /\ locals.row > dropped.row /\ locals.pos = 1
                      /\ 1 \in 1 .. Len(freeStore[dropped.fs][locals.row])
    <3>1. PICK list : list = freeStore'[x][row]
      OBVIOUS
    <3>2. SweepOn(t, dropped, k, list) /\ Len(list) \in Nat
      BY <1>5, <2>1, <3>1
    <3>3. \E label \in {"c_look", "c_delete"}, locals \in Locals :
           /\ GotoWith(t, label, locals)
           /\ locals.fs = dropped.fs /\ locals.toDelete = dropped.toDelete
           /\ label = "c_delete" => UnlockStore(dropped.fs)
           /\ label = "c_look" =>
                /\ UNCHANGED storeLock
                /\ \/ locals.row = dropped.row /\ locals.pos = k /\ k \in 1 .. Len(list)
                   \/ /\ locals.row \in Ranges /\ locals.row > dropped.row /\ locals.pos = 1
                      /\ 1 \in 1 .. Len(freeStore[dropped.fs][locals.row])
      <4> HIDE DEF my
      <4>1. TypeOK /\ dropped \in Locals /\ dropped.row \in Ranges /\ k \in Nat \ {0}
        BY <1>2, <1>3, <1>8
      <4> QED BY <2>1, <3>2, <4>1, SweepOnFacts
    <3> QED BY <3>1, <3>3
  <2> QED BY <1>8, <2>2
<1>10. label \in Places
  BY DEF Places, HoldsClean
<1>11. /\ pc' \in [Threads -> Places] /\ local' \in [Threads -> Locals]
       /\ pc'[t] = label /\ local'[t] = locals /\ Others(t)
  BY <1>2, <1>9, <1>10, GotoWithFacts
<1>12. UNCHANGED <<memory, chunkRange, memorysize, used, contextLock, bucketLock, cleanMutex,
                   cleanCounter, emptyBlocksSize, notfullchunks, freelistNode, live>>
  BY <1>1 DEF memoryVars, cleanVars
<1>13. TypeOK'
  <2>1. freeStore' \in [Stores -> [Ranges -> Seq(PoolAddresses)]]
    BY <1>5 DEF ListFamilies
  <2>2. storeLock' \in [Stores -> Owner]
    BY <1>2, <1>9 DEF TypeOK, UnlockStore, Owner
  <2>3. emptyBlocksCount' \in 0 .. Word - 1
    BY <1>1, <1>2, IndexTypes DEF TypeOK
  <2> QED BY <1>2, <1>11, <1>12, <2>1, <2>2, <2>3 DEF TypeOK
<1>14. LocksMatchCode'
  <2>1. \A y \in Stores : storeLock[y] = t <=> y = x
    BY <1>1, <1>2 DEF LocksOf, HoldsStore
  <2>2. \A y \in Stores : storeLock'[y] = t <=> label = "c_look" /\ y = x
    BY <1>2, <1>9, <2>1 DEF UnlockStore, TypeOK
  <2>3. LocksOf(t)'
    BY <1>1, <1>2, <1>9, <1>11, <1>12, <2>2 DEF LocksOf, HoldsBucket, HoldsContext, HoldsStore, HoldsClean
  <2>4. LocksStep(t)
    BY <1>2, <1>9, <1>12, <2>1 DEF LocksStep, UnlockStore, TypeOK
  <2> QED BY <1>2, <1>11, <2>3, <2>4, LocksFrame
<1>15. ChunkInv' /\ Mapped' = Mapped
  <2>1. FreshBy(t) = {}
    BY <1>1 DEF FreshBy
  <2>2. /\ \A d \in Mapped : used'[d] \subseteq Slots(d)
        /\ \A d \in PoolAddresses \ Mapped : used'[d] = {}
    BY <1>2, <1>12, InvFacts DEF ChunkInv
  <2> QED BY <1>11, <1>12, <2>1, <2>2, ChunkFrame
<1>16. /\ \A d : full(d)' = full(d) /\ empty(d)' = empty(d)
       /\ Held(notfullchunks)' = Held(notfullchunks) /\ Held(freeStore)' = Held(freeStore) \ {c}
       /\ Listed' = Listed \ {c}
  <2>1. \A d : full(d)' = full(d) /\ empty(d)' = empty(d)
    BY <1>12 DEF full, empty, Slots
  <2>2. notfullchunks' = notfullchunks
    BY <1>12
  <2>3. Held(notfullchunks)' = Held(notfullchunks)
    BY <2>2
  <2>4. Held(freeStore)' = Held(freeStore) \ {c}
    BY <1>5
  <2> QED BY <1>6, <2>1, <2>3, <2>4 DEF Listed
<1>17. /\ \A u \in Threads : SplicedBy(u)' = SplicedBy(u) /\ \A d : (u \in Listing(d))' <=> u \in Listing(d)
       /\ DoomedBy(t)' = DoomedBy(t) \cup {c}
       /\ \A u \in Threads : u # t => DoomedBy(u)' = DoomedBy(u) /\ local'[u] = local[u] /\ pc'[u] = pc[u]
  <2>1. SplicedBy(t)' = SplicedBy(t) /\ \A d : (t \in Listing(d))' <=> t \in Listing(d)
    BY <1>1, <1>11 DEF SplicedBy, Listing
  <2>2. DoomedBy(t)' = DoomedBy(t) \cup {c}
    BY <1>7, <1>9, <1>11 DEF DoomedBy
  <2> QED BY <1>11, <2>1, <2>2, OthersKeep DEF Others
<1>18. ListPlaceInv'
  <2>1. Once(notfullchunks)' /\ Once(freeStore)'
    <3>1. Once(notfullchunks) /\ notfullchunks' = notfullchunks
      BY <1>2, <1>12 DEF ListPlaceInv
    <3> QED BY <1>5, <3>1
  <2> QED BY <1>2, <1>12, <1>15, <1>16, <2>1 DEF ListPlaceInv
<1>19. ThreadPlaceInv'
  <2>1. ASSUME NEW u \in Threads
        PROVE  /\ SplicedBy(u)' \cup DoomedBy(u)' \subseteq Mapped \ (freelistNode' \cup Listed')
               /\ IsInjective(local'[u].toDelete)
               /\ local'[u].toDelete # <<>> => pc'[u] \in {"c_look", "c_drop", "c_delete"}
    <3>1. CASE u = t
      <4>1. SplicedBy(t)' \cup DoomedBy(t)' \subseteq Mapped \ (freelistNode' \cup Listed')
        <5>1. SplicedBy(t) \cup DoomedBy(t) \subseteq Mapped \ (freelistNode \cup Listed)
          BY <1>2 DEF ThreadPlaceInv
        <5>2. SplicedBy(t)' \cup DoomedBy(t)' \subseteq SplicedBy(t) \cup DoomedBy(t) \cup {c}
          BY <1>17
        <5>3. c \in Mapped /\ c \notin freelistNode' /\ c \notin Listed'
          BY <1>6, <1>12, <1>16
        <5>4. freelistNode' = freelistNode /\ Listed' \subseteq Listed
          BY <1>12, <1>16
        <5> QED BY <5>1, <5>2, <5>3, <5>4
      <4>2. local'[t].toDelete = Cons(c, my.toDelete) /\ pc'[t] \in {"c_look", "c_delete"}
        BY <1>9, <1>11
      <4>3. IsInjective(local'[t].toDelete)
        BY <1>7, <4>2
      <4> QED BY <3>1, <4>1, <4>2, <4>3
    <3>2. CASE u # t
      BY <1>2, <1>12, <1>16, <1>17, <3>2 DEF ThreadPlaceInv
    <3> QED BY <3>1, <3>2
  <2>2. /\ \A u, v \in Threads : DoomedBy(u)' \cap SplicedBy(v)' = {}
        /\ \A u, v \in Threads : u # v => SplicedBy(u)' \cap SplicedBy(v)' = {}
    BY <1>2, <1>6, <1>17 DEF ThreadPlaceInv
  <2>3. \A d \in Mapped : d \in freelistNode' \cup Listed' \/ \E u \in Threads : d \in SplicedBy(u)' \cup DoomedBy(u)'
    <3> SUFFICES ASSUME NEW d \in Mapped, d # c
                 PROVE  d \in freelistNode' \cup Listed' \/ \E u \in Threads : d \in SplicedBy(u)' \cup DoomedBy(u)'
      BY <1>17
    <3>1. d \in freelistNode \cup Listed \/ \E u \in Threads : d \in SplicedBy(u) \cup DoomedBy(u)
      BY <1>2 DEF ThreadPlaceInv
    <3>2. \A u \in Threads : d \in SplicedBy(u) \cup DoomedBy(u) => d \in SplicedBy(u)' \cup DoomedBy(u)'
      BY <1>17
    <3> QED BY <1>12, <1>16, <3>1, <3>2
  <2> QED BY <1>12, <1>15, <2>1, <2>2, <2>3 DEF ThreadPlaceInv
<1>20. RoomInv'
  <2>1. \A d \in Listed' : ~ full(d)'
    BY <1>2, <1>16 DEF RoomInv
  <2>2. OfTheirRow(notfullchunks)' /\ OfTheirRow(freeStore)'
    <3>1. DOMAIN freeStore = Stores /\ DOMAIN freeStore' = Stores
      BY <1>2, <1>5 DEF ListFamilies
    <3>2. chunkRange' = chunkRange /\ notfullchunks' = notfullchunks
      BY <1>12
    <3>3. OfTheirRow(notfullchunks)'
      BY <1>2, <3>2 DEF RoomInv, OfTheirRow
    <3>4. \A y \in Stores, q \in Ranges : \A d \in ToSet(freeStore'[y][q]) : chunkRange[d] = q
      BY <1>2, <1>5, <3>1, SMTT(30) DEF RoomInv, OfTheirRow
    <3>5. OfTheirRow(freeStore)'
      BY <3>1, <3>2, <3>4 DEF OfTheirRow
    <3> QED BY <3>3, <3>5
  <2>3. \A d \in freelistNode' : full(d)' \/ \E u \in Threads : (u \in Listing(d))'
    BY <1>2, <1>12, <1>16, <1>17 DEF RoomInv
  <2>4. \A u \in Threads : \A d \in DoomedBy(u)' : empty(d)'
    <3> SUFFICES ASSUME NEW u \in Threads, NEW d \in DoomedBy(u)' PROVE empty(d)'
      OBVIOUS
    <3>1. d = c \/ d \in DoomedBy(u)
      BY <1>17
    <3> QED BY <1>2, <1>3, <1>16, <3>1 DEF RoomInv
  <2> QED BY <2>1, <2>2, <2>3, <2>4 DEF RoomInv
<1>21. CursorInv'
  <2>1. Cursor(t)'
    <3>1. \A q \in Ranges : q > row => freeStore'[x][q] = freeStore[x][q]
      <4>1. row \in Int
        BY <1>3, SizesAssumption DEF Ranges
      <4> QED BY <1>2, <1>5, <4>1, SMTT(30)
    <3> QED BY <1>3, <1>9, <1>11, <3>1 DEF Cursor
  <2>2. storeLock[x] = t
    BY <1>1, <1>2 DEF LocksOf, HoldsStore
  <2>3. \A y \in Stores : y # x => freeStore'[y] = freeStore[y]
    BY <1>1, <1>2 DEF TakeOut, ListFamilies
  <2>4. /\ \A y \in Contexts : notfullchunks'[y] = notfullchunks[y]
        /\ \A y \in Stores : storeLock[y] \notin {NoThread, t} => freeStore'[y] = freeStore[y]
        /\ \A d \in Held(freeStore) : empty(d) => empty(d)'
    BY <1>12, <1>16, <2>2, <2>3
  <2>5. \A u \in Threads : u # t => Cursor(u)'
    BY <1>11, <2>4, OtherCursors
  <2> QED BY <2>1, <2>5 DEF CursorInv
<1>22. HandInv'
  <2>1. Hand(t)'
    BY <1>11 DEF Hand, Listing
  <2>2. ASSUME NEW u \in Threads, u # t PROVE Hand(u)'
    <3> DEFINE his == local[u]
    <3>1. Hand(u) /\ pc'[u] = pc[u] /\ local'[u] = his
      BY <1>11, <2>2, ThreadFacts DEF Others
    <3>2. (u \in Listing(his.ch))' <=> u \in Listing(his.ch)
      BY <3>1 DEF Listing
    <3> HIDE DEF his
    <3> QED BY <1>12, <1>15, <1>16, <3>1, <3>2 DEF Hand, his
  <2> QED BY <1>2, <1>17, <2>1, <2>2 DEF HandInv
<1>23. BufferInv' /\ SearchInv'
  <2>1. UNCHANGED memoryVars /\ UNCHANGED live
    BY <1>1
  <2> QED BY <1>1, <1>11, <2>1, BuffersFrame
<1> QED BY <1>13, <1>14, <1>15, <1>18, <1>19, <1>20, <1>21, <1>22, <1>23 DEF IndInv

-----------------------------------------------------------------------------
(* clean moves chunks from a context's list to its store.                  *)

(* A step that moves chunks between lists and leaves the chunks themselves *)
(* alone disturbs neither the other threads nor what a list may hold.      *)
LEMMA ShuffleFrame ==
  ASSUME IndInv, NEW t \in Threads, Others(t), UNCHANGED <<memoryVars, freelistNode>>,
         TypeOK', LocksStep(t), LocksOf(t)', KeepsHand(t), Cursor(t)', Hand(t)',
         BufferInv', SearchInv',
         Once(notfullchunks'), Once(freeStore'),
         Held(notfullchunks') \cap Held(freeStore') = {},
         Held(notfullchunks') \cup Held(freeStore') = Listed,
         OfTheirRow(notfullchunks)', OfTheirRow(freeStore)',
         \A x \in Contexts : contextLock[x] \notin {NoThread, t} => notfullchunks'[x] = notfullchunks[x],
         \A x \in Stores : storeLock[x] \notin {NoThread, t} => freeStore'[x] = freeStore[x]
  PROVE  IndInv'
<1>1. UNCHANGED <<memory, chunkRange, memorysize, used, freelistNode>>
  BY DEF memoryVars
<1>2. /\ TypeOK /\ LocksMatchCode /\ ChunkInv /\ ListPlaceInv /\ ThreadPlaceInv /\ RoomInv /\ HandInv
      /\ freelistNode \subseteq PoolAddresses /\ Mapped \subseteq PoolAddresses
  BY InvFacts DEF TypeOK
<1>3. LocksMatchCode'
  BY <1>2, LocksFrame
<1>4. \A u \in Threads : /\ SplicedBy(u)' = SplicedBy(u)
                         /\ FreshBy(u)' = FreshBy(u)
                         /\ DoomedBy(u)' = DoomedBy(u)
                         /\ \A c \in PoolAddresses : (u \in Listing(c))' <=> u \in Listing(c)
  BY OthersKeep DEF KeepsHand, DoomedBy
<1>5. Mapped' = Mapped /\ Listed' = Listed
  BY <1>1 DEF Mapped, Listed
<1>6. \A c : /\ elSize(c)' = elSize(c) /\ Slots(c)' = Slots(c)
             /\ full(c)' = full(c) /\ empty(c)' = empty(c)
  BY <1>1 DEF elSize, Slots, full, empty
<1>7. ChunkInv'
  <2>1. \A c \in Mapped : ChunkOK(c)'
    BY <1>1, <1>2, <1>4, <1>6 DEF ChunkInv, ChunkOK
  <2> QED BY <1>1, <1>2, <1>5, <2>1 DEF ChunkInv
<1>8. ListPlaceInv'
  <2>1. freelistNode' \cap Listed' = {} /\ freelistNode' \cup Listed' \subseteq Mapped'
    BY <1>1, <1>2, <1>5 DEF ListPlaceInv
  <2> QED BY <2>1 DEF ListPlaceInv
<1>9. ThreadPlaceInv'
  <2>1. \A u \in Threads :
          /\ (SplicedBy(u) \cup DoomedBy(u) \subseteq Mapped \ (freelistNode \cup Listed))'
          /\ (IsInjective(local[u].toDelete))'
          /\ (local[u].toDelete # <<>> => pc[u] \in {"c_look", "c_drop", "c_delete"})'
    BY <1>1, <1>2, <1>4, <1>5 DEF ThreadPlaceInv, KeepsHand, Others
  <2> QED BY <1>1, <1>2, <1>4, <1>5, <2>1 DEF ThreadPlaceInv
<1>10. RoomInv'
  <2>1. \A c \in freelistNode : full(c)' \/ \E u \in Threads : (u \in Listing(c))'
    BY <1>2, <1>4, <1>6 DEF RoomInv
  <2> QED BY <1>1, <1>2, <1>4, <1>5, <1>6, <2>1 DEF RoomInv
<1>11. CursorInv'
  <2>1. \A c \in Held(freeStore) : empty(c) => empty(c)'
    BY <1>6
  <2>2. \A u \in Threads : u # t => Cursor(u)'
    BY <2>1, OtherCursors
  <2> QED BY <2>2 DEF CursorInv
<1>12. HandInv'
  <2>1. ASSUME NEW u \in Threads, u # t PROVE Hand(u)'
    <3> PICK his : his = local[u]
      OBVIOUS
    <3>1. Hand(u) /\ pc'[u] = pc[u] /\ local'[u] = his /\ LocksOf(u) /\ u # NoThread /\ his.ctx \in Contexts
      BY <2>1, ThreadFacts DEF Others, Locals
    <3>2. \A c : (u \in Listing(c))' <=> u \in Listing(c)
      BY <2>1, OthersKeep
    <3>3. pc[u] = "a_listed" => notfullchunks'[his.ctx] = notfullchunks[his.ctx]
      BY <2>1, <3>1 DEF LocksOf, HoldsContext
    <3> QED BY <1>1, <1>5, <1>6, <3>1, <3>2, <3>3 DEF Hand
  <2> QED BY <1>2, <1>4, <2>1 DEF HandInv
<1> QED BY <1>3, <1>7, <1>8, <1>9, <1>10, <1>11, <1>12 DEF IndInv

(* The chunk clean visits stays in its list or goes to the front of the    *)
(* list of the store for the same row.                                     *)
LEMMA VisitLists ==
  ASSUME IndInv, NEW t \in Threads, NEW x \in Contexts, NEW fs \in Stores, NEW row \in Ranges,
         NEW k \in 1 .. Len(notfullchunks[x][row]),
         \/ /\ notfullchunks' = TakeOut(notfullchunks, x, row, k)
            /\ freeStore' = PushFront(freeStore, fs, row, notfullchunks[x][row][k])
         \/ UNCHANGED <<notfullchunks, freeStore>>,
         chunkRange' = chunkRange
  PROVE  /\ notfullchunks' \in ListFamilies(Contexts) /\ freeStore' \in ListFamilies(Stores)
         /\ Once(notfullchunks') /\ Once(freeStore')
         /\ Held(notfullchunks') \cap Held(freeStore') = {}
         /\ Held(notfullchunks') \cup Held(freeStore') = Listed
         /\ OfTheirRow(notfullchunks)' /\ OfTheirRow(freeStore)'
         /\ \A y \in Contexts : y # x => notfullchunks'[y] = notfullchunks[y]
         /\ \A y \in Stores : y # fs => freeStore'[y] = freeStore[y]
         /\ \A q \in Ranges : q # row => notfullchunks'[x][q] = notfullchunks[x][q]
<1>1. /\ notfullchunks \in ListFamilies(Contexts) /\ freeStore \in ListFamilies(Stores)
      /\ Once(notfullchunks) /\ Once(freeStore)
      /\ Held(notfullchunks) \cap Held(freeStore) = {}
      /\ OfTheirRow(notfullchunks) /\ OfTheirRow(freeStore)
      /\ DOMAIN notfullchunks = Contexts /\ DOMAIN freeStore = Stores
  BY InvFacts DEF ListPlaceInv, RoomInv, ListFamilies
<1>2. CASE UNCHANGED <<notfullchunks, freeStore>>
  <2>1. notfullchunks' = notfullchunks /\ freeStore' = freeStore
    BY <1>2
  <2>2. OfTheirRow(notfullchunks)' /\ OfTheirRow(freeStore)'
    BY <1>1, <2>1 DEF OfTheirRow
  <2> QED BY <1>1, <2>1, <2>2 DEF Listed
<1>3. CASE /\ notfullchunks' = TakeOut(notfullchunks, x, row, k)
           /\ freeStore' = PushFront(freeStore, fs, row, notfullchunks[x][row][k])
  <2> PICK c : c = notfullchunks[x][row][k]
    OBVIOUS
  <2>1. Taken(Contexts, notfullchunks, notfullchunks', x, row, k, c)
    <3>1. Taken(Contexts, notfullchunks, TakeOut(notfullchunks, x, row, k), x, row, k,
                notfullchunks[x][row][k])
      BY <1>1, TakeOutFacts, Zenon
    <3> QED BY <1>3, <3>1
  <2>2. c \in PoolAddresses /\ c \in ToSet(notfullchunks[x][row]) /\ c \in Held(notfullchunks)
    BY <2>1 DEF Taken
  <2>3. Pushed(Stores, freeStore, freeStore', fs, row, c)
    <3>1. Pushed(Stores, freeStore, PushFront(freeStore, fs, row, c), fs, row, c)
      BY <1>1, <2>2, PushFrontFacts, Zenon
    <3> QED BY <1>3, <3>1
  <2>4. /\ notfullchunks' \in ListFamilies(Contexts) /\ Once(notfullchunks')
        /\ Held(notfullchunks') = Held(notfullchunks) \ {c}
        /\ \A y \in Contexts, q \in Ranges :
             ToSet(notfullchunks'[y][q]) = ToSet(notfullchunks[y][q]) \ {c}
        /\ \A y \in Contexts, q \in Ranges :
             ~ (y = x /\ q = row) => notfullchunks'[y][q] = notfullchunks[y][q]
    BY <2>1, Zenon DEF Taken
  <2>5. /\ freeStore' \in ListFamilies(Stores) /\ Once(freeStore')
        /\ Held(freeStore') = Held(freeStore) \cup {c}
        /\ \A y \in Stores, q \in Ranges :
             ToSet(freeStore'[y][q]) = ToSet(freeStore[y][q]) \cup {d \in {c} : y = fs /\ q = row}
    BY <1>1, <2>2, <2>3 DEF Pushed
  <2>6. chunkRange[c] = row
    BY <1>1, <2>2 DEF OfTheirRow
  <2>7. OfTheirRow(notfullchunks)' /\ OfTheirRow(freeStore)'
    <3>1. DOMAIN notfullchunks' = Contexts /\ DOMAIN freeStore' = Stores
      BY <2>4, <2>5 DEF ListFamilies
    <3>2. \A y \in Contexts, q \in Ranges : \A d \in ToSet(notfullchunks'[y][q]) : chunkRange[d] = q
      BY <1>1, <2>4 DEF OfTheirRow
    <3>3. \A y \in Stores, q \in Ranges : \A d \in ToSet(freeStore'[y][q]) : chunkRange[d] = q
      BY <1>1, <2>5, <2>6 DEF OfTheirRow
    <3> QED BY <3>1, <3>2, <3>3 DEF OfTheirRow
  <2>8. /\ \A y \in Contexts : y # x => notfullchunks'[y] = notfullchunks[y]
        /\ \A y \in Stores : y # fs => freeStore'[y] = freeStore[y]
    BY <1>1, <1>3 DEF TakeOut, PushFront
  <2> QED BY <1>1, <2>2, <2>4, <2>5, <2>7, <2>8 DEF Listed
<1> QED BY <1>2, <1>3

(* From a chunk clean goes on to another of the same list, to the next     *)
(* list of the context, to the next context, or to the sweep.              *)
LEMMA VisitGoesOn ==
  ASSUME IndInv, NEW t \in Threads, CleanVisit(t), NEW my \in Locals, my = local[t], my.row \in Ranges,
         \A q \in Ranges : q # my.row => notfullchunks'[my.ctx][q] = notfullchunks[my.ctx][q],
         Len(notfullchunks'[my.ctx][my.row]) \in Nat, my.pos \in Nat \ {0}
  PROVE  \E label \in {"c_visit", "c_list", "c_context", "c_sweep"}, locals \in Locals :
           /\ GotoWith(t, label, locals)
           /\ locals.toDelete = my.toDelete
           /\ label = "c_visit" =>
                /\ locals.ctx = my.ctx /\ locals.fs = my.fs /\ locals.row = my.row
                /\ locals.pos \in 1 .. Len(notfullchunks'[my.ctx][my.row])
                /\ UNCHANGED <<contextLock, storeLock>>
           /\ label # "c_visit" => locals.pos = 1 /\ UnlockStore(my.fs)
           /\ label = "c_list" =>
                /\ locals.ctx = my.ctx /\ locals.fs = my.fs
                /\ locals.row \in Ranges /\ 1 \in 1 .. Len(notfullchunks'[my.ctx][locals.row])
                /\ UNCHANGED contextLock
           /\ label \in {"c_context", "c_sweep"} => UnlockContext(my.ctx)
<1> DEFINE moved == empty(notfullchunks[my.ctx][my.row][my.pos]) \/ my.force
           next == IF moved THEN my.pos ELSE my.pos + 1
           r == NextList(notfullchunks[my.ctx], my.row + 1)
<1>1. IF next <= Len(notfullchunks'[my.ctx][my.row])
        THEN /\ GotoWith(t, "c_visit", [my EXCEPT !.pos = next])
             /\ UNCHANGED <<contextLock, storeLock>>
        ELSE /\ UnlockStore(my.fs)
             /\ IF r \in Ranges
                  THEN /\ GotoWith(t, "c_list", [my EXCEPT !.row = r, !.pos = 1])
                       /\ UNCHANGED contextLock
                  ELSE NextContext(t, my) /\ UnlockContext(my.ctx)
  BY DEF CleanVisit
<1>2. TypeOK /\ notfullchunks[my.ctx] \in [Ranges -> Seq(PoolAddresses)] /\ my.row \in Nat
  BY InvFacts, SizesAssumption DEF Locals, TypeOK, Ranges
<1>3. next \in Nat \ {0}
  OBVIOUS
<1>4. r \in Nat /\ (r \in Ranges => r > my.row /\ 1 \in 1 .. Len(notfullchunks[my.ctx][r]))
  <2>1. my.row + 1 \in Nat \ {0}
    BY <1>2
  <2>2. r \in Nat /\ (r \in Ranges => r >= my.row + 1 /\ 1 \in 1 .. Len(notfullchunks[my.ctx][r]))
    BY <1>2, <2>1, NextListFacts, Zenon
  <2> HIDE DEF r
  <2> QED BY <1>2, <2>2
<1> HIDE DEF r, next
<1>5. CASE next <= Len(notfullchunks'[my.ctx][my.row])
  <2> PICK locals : locals = [my EXCEPT !.pos = next]
    OBVIOUS
  <2>1. GotoWith(t, "c_visit", locals) /\ UNCHANGED <<contextLock, storeLock>>
    BY <1>1, <1>5
  <2>2. /\ locals \in Locals /\ locals.ctx = my.ctx /\ locals.fs = my.fs /\ locals.row = my.row
        /\ locals.pos = next /\ locals.toDelete = my.toDelete
    BY <1>3 DEF Locals
  <2>3. next \in 1 .. Len(notfullchunks'[my.ctx][my.row])
    BY <1>3, <1>5
  <2> QED BY <2>1, <2>2, <2>3
<1>6. CASE ~ (next <= Len(notfullchunks'[my.ctx][my.row])) /\ r \in Ranges
  <2> PICK locals : locals = [my EXCEPT !.row = r, !.pos = 1]
    OBVIOUS
  <2>1. GotoWith(t, "c_list", locals) /\ UnlockStore(my.fs) /\ UNCHANGED contextLock
    BY <1>1, <1>6
  <2>2. /\ locals \in Locals /\ locals.ctx = my.ctx /\ locals.fs = my.fs /\ locals.row = r
        /\ locals.pos = 1 /\ locals.toDelete = my.toDelete
    BY <1>4 DEF Locals
  <2>3. 1 \in 1 .. Len(notfullchunks'[my.ctx][r])
    <3>1. r # my.row
      BY <1>2, <1>4, <1>6
    <3>2. notfullchunks'[my.ctx][r] = notfullchunks[my.ctx][r]
      BY <1>6, <3>1
    <3> QED BY <1>4, <1>6, <3>2
  <2> QED BY <1>6, <2>1, <2>2, <2>3
<1>7. CASE ~ (next <= Len(notfullchunks'[my.ctx][my.row])) /\ r \notin Ranges
  <2>1. NextContext(t, my) /\ UnlockStore(my.fs) /\ UnlockContext(my.ctx)
    BY <1>1, <1>7
  <2>2. PICK label \in {"c_context", "c_sweep"}, locals \in Locals :
          GotoWith(t, label, locals) /\ locals.pos = 1 /\ locals.toDelete = my.toDelete
    BY <1>2, <2>1, NextContextFacts
  <2> QED BY <2>1, <2>2
<1> QED BY <1>5, <1>6, <1>7

(* clean visits one chunk of a context's list.                             *)
LEMMA CleanVisitStep ==
  ASSUME IndInv, NEW t \in Threads, CleanVisit(t)
  PROVE  IndInv'
<1> PICK my : my = local[t]
  OBVIOUS
<1>1. /\ pc[t] = "c_visit"
      /\ \/ /\ notfullchunks' = TakeOut(notfullchunks, my.ctx, my.row, my.pos)
            /\ freeStore' = PushFront(freeStore, my.fs, my.row, notfullchunks[my.ctx][my.row][my.pos])
         \/ UNCHANGED <<notfullchunks, freeStore>>
      /\ UNCHANGED <<memoryVars, freelistNode, counterVars, cleanVars, bucketLock, live>>
  BY DEF CleanVisit
<1>2. /\ TypeOK /\ LocksOf(t) /\ Cursor(t) /\ my \in Locals /\ my.toDelete = <<>> /\ t # NoThread
      /\ my.ctx \in Contexts /\ my.fs \in Stores
      /\ my.row \in Ranges /\ my.pos \in 1 .. Len(notfullchunks[my.ctx][my.row])
  BY <1>1, ThreadFacts DEF Locals, Cursor
<1>3. /\ notfullchunks' \in ListFamilies(Contexts) /\ freeStore' \in ListFamilies(Stores)
      /\ Once(notfullchunks') /\ Once(freeStore')
      /\ Held(notfullchunks') \cap Held(freeStore') = {}
      /\ Held(notfullchunks') \cup Held(freeStore') = Listed
      /\ OfTheirRow(notfullchunks)' /\ OfTheirRow(freeStore)'
      /\ \A y \in Contexts : y # my.ctx => notfullchunks'[y] = notfullchunks[y]
      /\ \A y \in Stores : y # my.fs => freeStore'[y] = freeStore[y]
      /\ \A q \in Ranges : q # my.row => notfullchunks'[my.ctx][q] = notfullchunks[my.ctx][q]
  <2>1. chunkRange' = chunkRange
    BY <1>1 DEF memoryVars
  <2> QED BY <1>1, <1>2, <2>1, VisitLists
<1>4. PICK label \in {"c_visit", "c_list", "c_context", "c_sweep"}, locals \in Locals :
        /\ GotoWith(t, label, locals)
        /\ locals.toDelete = my.toDelete
        /\ label = "c_visit" =>
             /\ locals.ctx = my.ctx /\ locals.fs = my.fs /\ locals.row = my.row
             /\ locals.pos \in 1 .. Len(notfullchunks'[my.ctx][my.row])
             /\ UNCHANGED <<contextLock, storeLock>>
        /\ label # "c_visit" => locals.pos = 1 /\ UnlockStore(my.fs)
        /\ label = "c_list" =>
             /\ locals.ctx = my.ctx /\ locals.fs = my.fs
             /\ locals.row \in Ranges /\ 1 \in 1 .. Len(notfullchunks'[my.ctx][locals.row])
             /\ UNCHANGED contextLock
        /\ label \in {"c_context", "c_sweep"} => UnlockContext(my.ctx)
  <2>1. Len(notfullchunks'[my.ctx][my.row]) \in Nat /\ my.pos \in Nat \ {0}
    BY <1>2, <1>3 DEF ListFamilies
  <2> QED BY <1>2, <1>3, <2>1, VisitGoesOn
<1>5. label \in Places
  BY DEF Places, HoldsClean
<1>6. /\ pc' \in [Threads -> Places] /\ local' \in [Threads -> Locals]
      /\ pc'[t] = label /\ local'[t] = locals /\ Others(t)
  BY <1>2, <1>4, <1>5, GotoWithFacts
<1>7. UNCHANGED <<memory, chunkRange, memorysize, used, freelistNode, emptyBlocksSize, emptyBlocksCount,
                  cleanMutex, cleanCounter, bucketLock, live>>
  BY <1>1 DEF memoryVars, counterVars, cleanVars
<1>8. /\ \A y \in Contexts : contextLock[y] = t <=> y = my.ctx
      /\ \A y \in Stores : storeLock[y] = t <=> y = my.fs
  BY <1>1, <1>2 DEF LocksOf, HoldsContext, HoldsStore
<1>9. /\ \A y \in Contexts : contextLock'[y] = t <=> label \in {"c_visit", "c_list"} /\ y = my.ctx
      /\ \A y \in Stores : storeLock'[y] = t <=> label = "c_visit" /\ y = my.fs
      /\ contextLock' \in [Contexts -> Owner] /\ storeLock' \in [Stores -> Owner]
      /\ LocksStep(t)
  <2>1. /\ contextLock \in [Contexts -> Owner] /\ storeLock \in [Stores -> Owner] /\ NoThread \in Owner
    BY <1>2 DEF TypeOK, Owner
  <2>2. \/ label \in {"c_visit", "c_list"} /\ contextLock' = contextLock
        \/ label \notin {"c_visit", "c_list"} /\ contextLock' = [contextLock EXCEPT ![my.ctx] = NoThread]
    BY <1>4 DEF UnlockContext
  <2>3. \/ label = "c_visit" /\ storeLock' = storeLock
        \/ label # "c_visit" /\ storeLock' = [storeLock EXCEPT ![my.fs] = NoThread]
    BY <1>4 DEF UnlockStore
  <2>4. /\ \A y \in Contexts : contextLock'[y] = t <=> label \in {"c_visit", "c_list"} /\ y = my.ctx
        /\ contextLock' \in [Contexts -> Owner]
    BY <1>2, <1>8, <2>1, <2>2
  <2>5. /\ \A y \in Stores : storeLock'[y] = t <=> label = "c_visit" /\ y = my.fs
        /\ storeLock' \in [Stores -> Owner]
    BY <1>2, <1>8, <2>1, <2>3
  <2>6. LocksStep(t)
    BY <1>2, <1>7, <1>8, <2>1, <2>2, <2>3 DEF LocksStep
  <2> QED BY <2>4, <2>5, <2>6
<1>10. TypeOK'
  <2>1. /\ notfullchunks' \in [Contexts -> [Ranges -> Seq(PoolAddresses)]]
        /\ freeStore' \in [Stores -> [Ranges -> Seq(PoolAddresses)]]
    BY <1>3 DEF ListFamilies
  <2> QED BY <1>2, <1>6, <1>7, <1>9, <2>1 DEF TypeOK
<1>11. LocksOf(t)'
  <2>1. label \in {"c_visit", "c_list"} => locals.ctx = my.ctx
    BY <1>4
  <2>2. label = "c_visit" => locals.fs = my.fs
    BY <1>4
  <2> QED BY <1>1, <1>2, <1>6, <1>7, <1>9, <2>1, <2>2
          DEF LocksOf, HoldsBucket, HoldsContext, HoldsStore, HoldsClean
<1>12. KeepsHand(t)
  BY <1>1, <1>2, <1>4, <1>6 DEF KeepsHand, SplicedBy, FreshBy, Listing
<1>13. Cursor(t)' /\ Hand(t)'
  <2>1. Hand(t)'
    BY <1>6 DEF Hand, Listing
  <2>2. Cursor(t)'
    BY <1>2, <1>4, <1>6 DEF Cursor
  <2> QED BY <2>1, <2>2
<1>14. BufferInv' /\ SearchInv'
  <2>1. UNCHANGED memoryVars /\ UNCHANGED live
    BY <1>1
  <2> QED BY <1>1, <1>6, <2>1, BuffersFrame
<1>15. /\ \A y \in Contexts : contextLock[y] \notin {NoThread, t} => notfullchunks'[y] = notfullchunks[y]
       /\ \A y \in Stores : storeLock[y] \notin {NoThread, t} => freeStore'[y] = freeStore[y]
  BY <1>3, <1>8
<1>16. UNCHANGED <<memoryVars, freelistNode>>
  BY <1>1
<1> QED BY <1>3, <1>6, <1>9, <1>10, <1>11, <1>12, <1>13, <1>14, <1>15, <1>16, ShuffleFrame

-----------------------------------------------------------------------------
(* clean destroys the chunks it has taken out of the lists.                *)

(* No thread but the one inside clean has chunks to delete.                *)
LEMMA OneDeletes ==
  ASSUME IndInv, NEW t \in Threads, pc[t] \in {"c_look", "c_drop", "c_delete"},
         NEW u \in Threads, u # t
  PROVE  DoomedBy(u) = {} /\ local[u].toDelete = <<>>
<1>1. cleanMutex = t
  BY ThreadFacts DEF LocksOf, HoldsClean
<1>2. pc[u] \notin {"c_look", "c_drop", "c_delete"}
  BY <1>1, ThreadFacts DEF LocksOf, HoldsClean
<1>3. local[u].toDelete = <<>>
  BY <1>2, ThreadFacts
<1>4. ToSet(<<>>) = {}
  <2>1. <<>> \in Seq(PoolAddresses)
    OBVIOUS
  <2> QED BY <2>1, ToSetFacts, Zenon
<1> QED BY <1>3, <1>4 DEF DoomedBy

(* A chunk on toDeleteList is in no list and in no other thread's hand.    *)
LEMMA DoomedChunk ==
  ASSUME IndInv, NEW t \in Threads, NEW c \in DoomedBy(t),
         bucketLock[getMemoryBucket(c)] = NoThread
  PROVE  /\ c \in Mapped /\ c \in PoolAddresses /\ empty(c) /\ c \notin freelistNode /\ c \notin Listed
         /\ getMemoryBucket(c) \in Buckets
         /\ \A u \in Threads :
              /\ c \notin SplicedBy(u) /\ u \notin Listing(c)
              /\ pc[u] \in {"a_spliced", "a_fresh", "a_count", "d_size", "d_count", "d_store"} =>
                   local[u].ch # c
<1>1. /\ c \in Mapped /\ c \in PoolAddresses /\ empty(c) /\ c \notin freelistNode /\ c \notin Listed
      /\ \A u \in Threads : c \notin SplicedBy(u)
  BY InvFacts DEF ThreadPlaceInv, RoomInv
<1>2. getMemoryBucket(c) \in Buckets
  <2>1. c \in Nat
    BY <1>1, SizesAssumption
  <2> QED BY <2>1, IndexTypes
<1>3. ASSUME NEW u \in Threads
      PROVE  /\ u \notin Listing(c)
             /\ pc[u] \in {"a_spliced", "a_fresh", "a_count", "d_size", "d_count", "d_store"} =>
                  local[u].ch # c
  <2>1. Hand(u) /\ LocksOf(u) /\ u # NoThread
    BY ThreadFacts
  <2>2. u \notin Listing(c)
    BY <1>1, <2>1 DEF Hand, Listing
  <2>3. pc[u] = "a_spliced" => local[u].ch # c
    BY <1>1 DEF SplicedBy
  <2>4. pc[u] = "a_fresh" => local[u].ch # c
    BY <2>2 DEF Listing
  <2>5. pc[u] = "a_count" => local[u].ch # c
    BY <1>1, <2>1 DEF Hand
  <2>6. pc[u] \in {"d_size", "d_count"} => local[u].ch # c
    BY <1>2, <2>1 DEF Hand, LocksOf, HoldsBucket
  <2>7. pc[u] = "d_store" => local[u].ch # c
    BY <2>1, <2>2 DEF Hand, Listing
  <2> QED BY <2>2, <2>3, <2>4, <2>5, <2>6, <2>7
<1> QED BY <1>1, <1>2, <1>3

(* clean erases the first chunk of toDeleteList under its bucket's lock.   *)
LEMMA CleanDeleteStep ==
  ASSUME IndInv, NEW t \in Threads, CleanDelete(t)
  PROVE  IndInv'
<1> PICK my : my = local[t]
  OBVIOUS
<1> PICK c : c = Head(my.toDelete)
  OBVIOUS
<1> PICK b : b = getMemoryBucket(c)
  OBVIOUS
<1> PICK locals : locals = [my EXCEPT !.toDelete = Tail(my.toDelete)]
  OBVIOUS
<1>1. /\ pc[t] = "c_delete" /\ my.toDelete # <<>> /\ bucketLock[b] = NoThread
      /\ memory' = [memory EXCEPT ![b] = @ \ {c}]
      /\ chunkRange' = [chunkRange EXCEPT ![c] = 0]
      /\ memorysize' = [memorysize EXCEPT ![c] = 0]
      /\ used' = [used EXCEPT ![c] = {}]
      /\ local' = [local EXCEPT ![t].toDelete = Tail(@)]
      /\ UNCHANGED <<listVars, counterVars, cleanVars, lockVars, live, pc>>
  BY DEF CleanDelete
<1>2. /\ TypeOK /\ LocksOf(t) /\ LocksMatchCode /\ my \in Locals /\ my.toDelete \in Seq(PoolAddresses)
      /\ ChunkInv /\ ListPlaceInv /\ ThreadPlaceInv /\ RoomInv /\ HandInv
      /\ Mapped \subseteq PoolAddresses /\ freelistNode \subseteq Mapped
      /\ Held(notfullchunks) \subseteq Mapped /\ Held(freeStore) \subseteq Mapped
      /\ notfullchunks \in ListFamilies(Contexts) /\ freeStore \in ListFamilies(Stores)
      /\ IsInjective(my.toDelete)
  BY ThreadFacts, InvFacts DEF Locals, ThreadPlaceInv
<1>3. /\ c \in DoomedBy(t)
      /\ Tail(my.toDelete) \in Seq(PoolAddresses) /\ IsInjective(Tail(my.toDelete))
      /\ ToSet(Tail(my.toDelete)) = DoomedBy(t) \ {c}
  <2> PICK s : s = my.toDelete
    OBVIOUS
  <2>1. s \in Seq(PoolAddresses) /\ s # <<>> /\ IsInjective(s)
    BY <1>1, <1>2
  <2>2. 1 \in 1 .. Len(s) /\ Head(s) = s[1] /\ s[1] \in ToSet(s) /\ Tail(s) = RemoveAt(s, 1)
    BY <2>1, HeadTailFacts
  <2>3. /\ RemoveAt(s, 1) \in Seq(PoolAddresses) /\ IsInjective(RemoveAt(s, 1))
        /\ ToSet(RemoveAt(s, 1)) = ToSet(s) \ {s[1]}
    BY <2>1, <2>2, RemoveAtFacts
  <2>4. c = s[1] /\ DoomedBy(t) = ToSet(s)
    BY <2>2 DEF DoomedBy
  <2> QED BY <2>2, <2>3, <2>4
<1>4. /\ c \in Mapped /\ c \in PoolAddresses /\ empty(c) /\ c \notin freelistNode /\ c \notin Listed
      /\ b \in Buckets
      /\ \A u \in Threads :
           /\ c \notin SplicedBy(u) /\ u \notin Listing(c)
           /\ pc[u] \in {"a_spliced", "a_fresh", "a_count", "d_size", "d_count", "d_store"} =>
                local[u].ch # c
  BY <1>1, <1>3, DoomedChunk
<1>5. locals \in Locals /\ locals.toDelete = Tail(my.toDelete)
  BY <1>2, <1>3 DEF Locals
<1>6. /\ pc' \in [Threads -> Places] /\ local' \in [Threads -> Locals]
      /\ pc'[t] = "c_delete" /\ local'[t] = locals /\ Others(t)
  <2>1. pc' = pc /\ pc \in [Threads -> Places] /\ local \in [Threads -> Locals]
    BY <1>1, <1>2 DEF TypeOK
  <2>2. local' = [local EXCEPT ![t] = locals]
    BY <1>1, <2>1
  <2> HIDE DEF Locals, Places
  <2> QED BY <1>1, <1>5, <2>1, <2>2 DEF Others
<1>7. UNCHANGED <<contextLock, storeLock, bucketLock, cleanMutex, cleanCounter, emptyBlocksSize,
                  emptyBlocksCount, notfullchunks, freeStore, freelistNode, live>>
  BY <1>1 DEF listVars, counterVars, cleanVars, lockVars
<1>8. /\ \A d \in PoolAddresses : d # c =>
           chunkRange'[d] = chunkRange[d] /\ memorysize'[d] = memorysize[d] /\ used'[d] = used[d]
      /\ chunkRange'[c] = 0 /\ used'[c] = {}
      /\ \A d \in Buckets : memory'[d] = memory[d] \ {e \in {c} : d = b}
      /\ Mapped' = Mapped \ {c}
  <2>1. /\ chunkRange \in [PoolAddresses -> Ranges \cup {0}] /\ memorysize \in [PoolAddresses -> Nat]
        /\ used \in [PoolAddresses -> SUBSET Nat] /\ memory \in [Buckets -> SUBSET PoolAddresses]
    BY <1>2 DEF TypeOK
  <2>2. /\ \A d \in PoolAddresses : d # c =>
             chunkRange'[d] = chunkRange[d] /\ memorysize'[d] = memorysize[d] /\ used'[d] = used[d]
        /\ chunkRange'[c] = 0 /\ used'[c] = {}
        /\ \A d \in Buckets : memory'[d] = memory[d] \ {e \in {c} : d = b}
    BY <1>1, <1>4, <2>1
  <2> QED BY <1>4, <2>2 DEF Mapped
<1>9. TypeOK'
  <2>1. /\ chunkRange' \in [PoolAddresses -> Ranges \cup {0}] /\ memorysize' \in [PoolAddresses -> Nat]
        /\ used' \in [PoolAddresses -> SUBSET Nat] /\ memory' \in [Buckets -> SUBSET PoolAddresses]
    BY <1>1, <1>2, <1>4 DEF TypeOK
  <2> QED BY <1>2, <1>6, <1>7, <2>1 DEF TypeOK
<1>10. LocksMatchCode'
  <2>1. LocksStep(t) /\ LocksOf(t)'
    BY <1>1, <1>2, <1>6, <1>7 DEF LocksStep, LocksOf, HoldsBucket, HoldsContext, HoldsStore, HoldsClean
  <2> QED BY <1>2, <1>6, <2>1, LocksFrame
<1>11. /\ \A d \in Mapped : d # c =>
           /\ elSize(d)' = elSize(d) /\ Slots(d)' = Slots(d) /\ full(d)' = full(d) /\ empty(d)' = empty(d)
  BY <1>2, <1>8 DEF elSize, Slots, full, empty
<1>12. /\ \A u \in Threads : /\ SplicedBy(u)' = SplicedBy(u) /\ FreshBy(u)' = FreshBy(u)
                             /\ \A d : (u \in Listing(d))' <=> u \in Listing(d)
       /\ DoomedBy(t)' = DoomedBy(t) \ {c}
       /\ \A u \in Threads : u # t =>
            DoomedBy(u)' = DoomedBy(u) /\ local'[u] = local[u] /\ pc'[u] = pc[u] /\ c \notin DoomedBy(u)
  <2>1. /\ SplicedBy(t)' = SplicedBy(t) /\ FreshBy(t)' = FreshBy(t)
        /\ \A d : (t \in Listing(d))' <=> t \in Listing(d)
    BY <1>1, <1>6 DEF SplicedBy, FreshBy, Listing
  <2>2. DoomedBy(t)' = DoomedBy(t) \ {c}
    BY <1>3, <1>5, <1>6 DEF DoomedBy
  <2>3. \A u \in Threads : u # t => c \notin DoomedBy(u)
    BY <1>1, OneDeletes
  <2> QED BY <1>6, <2>1, <2>2, <2>3, OthersKeep DEF Others
<1>13. ChunkInv'
  <2>1. ASSUME NEW d \in Mapped, d # c PROVE ChunkOK(d)'
    <3>1. ChunkOK(d) /\ chunkRange'[d] = chunkRange[d] /\ memorysize'[d] = memorysize[d] /\ used'[d] = used[d]
      BY <1>2, <1>8, <2>1 DEF ChunkInv
    <3>2. \A u \in Threads : d \in FreshBy(u) => d \in FreshBy(u)'
      BY <1>12
    <3>3. getMemoryBucket(d) \in Buckets
      <4>1. d \in Nat
        BY <1>2, SizesAssumption
      <4> QED BY <4>1, IndexTypes
    <3>4. d \in memory[getMemoryBucket(d)] => d \in memory'[getMemoryBucket(d)]
      BY <1>8, <2>1, <3>3
    <3> QED BY <1>11, <2>1, <3>1, <3>2, <3>4 DEF ChunkOK
  <2>2. \A d \in PoolAddresses \ Mapped' : used'[d] = {}
    BY <1>2, <1>8 DEF ChunkInv
  <2>3. \A d \in Buckets : \A e \in memory'[d] : e \in Mapped' /\ getMemoryBucket(e) = d
    BY <1>2, <1>8 DEF ChunkInv
  <2>4. \A d, e \in Mapped' : d # e => d + memorysize'[d] <= e \/ e + memorysize'[e] <= d
    BY <1>2, <1>8 DEF ChunkInv
  <2> QED BY <1>8, <2>1, <2>2, <2>3, <2>4 DEF ChunkInv
<1>14. /\ notfullchunks' = notfullchunks /\ freeStore' = freeStore /\ freelistNode' = freelistNode
       /\ Listed' = Listed
  BY <1>7 DEF Listed
<1>15. ListPlaceInv'
  <2>1. Once(notfullchunks) /\ Once(freeStore) /\ Held(notfullchunks) \cap Held(freeStore) = {}
    BY <1>2 DEF ListPlaceInv
  <2>2. freelistNode' \cap Listed' = {} /\ freelistNode' \cup Listed' \subseteq Mapped'
    BY <1>2, <1>4, <1>8, <1>14 DEF ListPlaceInv
  <2> QED BY <1>14, <2>1, <2>2 DEF ListPlaceInv
<1>16. ThreadPlaceInv'
  <2>1. ASSUME NEW u \in Threads
        PROVE  /\ SplicedBy(u)' \cup DoomedBy(u)' \subseteq Mapped' \ (freelistNode' \cup Listed')
               /\ IsInjective(local'[u].toDelete)
               /\ local'[u].toDelete # <<>> => pc'[u] \in {"c_look", "c_drop", "c_delete"}
    <3>1. CASE u = t
      <4>1. SplicedBy(t)' \cup DoomedBy(t)' \subseteq Mapped' \ (freelistNode' \cup Listed')
        BY <1>2, <1>4, <1>8, <1>12, <1>14 DEF ThreadPlaceInv
      <4>2. local'[t].toDelete = Tail(my.toDelete) /\ pc'[t] = "c_delete"
        BY <1>5, <1>6
      <4>3. IsInjective(local'[t].toDelete)
        BY <1>3, <4>2
      <4> QED BY <3>1, <4>1, <4>2, <4>3
    <3>2. CASE u # t
      BY <1>2, <1>4, <1>8, <1>12, <1>14, <3>2 DEF ThreadPlaceInv
    <3> QED BY <3>1, <3>2
  <2>2. /\ \A u, v \in Threads : DoomedBy(u)' \cap SplicedBy(v)' = {}
        /\ \A u, v \in Threads : u # v => SplicedBy(u)' \cap SplicedBy(v)' = {}
    BY <1>2, <1>12 DEF ThreadPlaceInv
  <2>3. \A d \in Mapped' : d \in freelistNode' \cup Listed' \/ \E u \in Threads : d \in SplicedBy(u)' \cup DoomedBy(u)'
    <3> SUFFICES ASSUME NEW d \in Mapped, d # c
                 PROVE  d \in freelistNode' \cup Listed' \/ \E u \in Threads : d \in SplicedBy(u)' \cup DoomedBy(u)'
      BY <1>8
    <3>1. d \in freelistNode \cup Listed \/ \E u \in Threads : d \in SplicedBy(u) \cup DoomedBy(u)
      BY <1>2 DEF ThreadPlaceInv
    <3>2. \A u \in Threads : d \in SplicedBy(u) \cup DoomedBy(u) => d \in SplicedBy(u)' \cup DoomedBy(u)'
      BY <1>12
    <3> QED BY <1>14, <3>1, <3>2
  <2> QED BY <2>1, <2>2, <2>3 DEF ThreadPlaceInv
<1>17. RoomInv'
  <2>1. \A d \in Listed' : ~ full(d)'
    BY <1>2, <1>4, <1>11, <1>14 DEF RoomInv, Listed
  <2>2. OfTheirRow(notfullchunks)' /\ OfTheirRow(freeStore)'
    <3>1. DOMAIN notfullchunks = Contexts /\ DOMAIN freeStore = Stores
      BY <1>2 DEF ListFamilies
    <3>2. \A d \in Listed : d \in PoolAddresses /\ d # c
      BY <1>2, <1>4 DEF Listed
    <3>3. /\ \A x \in Contexts, r \in Ranges : \A d \in ToSet(notfullchunks[x][r]) : chunkRange'[d] = r
          /\ \A x \in Stores, r \in Ranges : \A d \in ToSet(freeStore[x][r]) : chunkRange'[d] = r
      BY <1>2, <1>8, <3>1, <3>2, HeldIn DEF RoomInv, OfTheirRow, Listed
    <3> QED BY <1>14, <3>1, <3>3 DEF OfTheirRow
  <2>3. \A d \in freelistNode' : full(d)' \/ \E u \in Threads : (u \in Listing(d))'
    <3> SUFFICES ASSUME NEW d \in freelistNode
                 PROVE  full(d)' \/ \E u \in Threads : (u \in Listing(d))'
      BY <1>14
    <3>1. d \in Mapped /\ d # c
      BY <1>2, <1>4
    <3>2. full(d) \/ \E u \in Threads : u \in Listing(d)
      BY <1>2 DEF RoomInv
    <3> QED BY <1>11, <1>12, <3>1, <3>2
  <2>4. \A u \in Threads : \A d \in DoomedBy(u)' : empty(d)'
    BY <1>2, <1>11, <1>12 DEF RoomInv, ThreadPlaceInv
  <2> QED BY <2>1, <2>2, <2>3, <2>4 DEF RoomInv
<1>18. CursorInv'
  <2>1. Cursor(t)'
    BY <1>6 DEF Cursor
  <2>2. \A d \in Held(freeStore) : empty(d) => empty(d)'
    BY <1>2, <1>4, <1>11 DEF Listed
  <2>3. \A u \in Threads : u # t => Cursor(u)'
    BY <1>6, <1>14, <2>2, OtherCursors
  <2> QED BY <2>1, <2>3 DEF CursorInv
<1>19. HandInv'
  <2>1. Hand(t)'
    BY <1>6 DEF Hand, Listing
  <2>2. ASSUME NEW u \in Threads, u # t PROVE Hand(u)'
    <3> PICK his : his = local[u]
      OBVIOUS
    <3>1. Hand(u) /\ pc'[u] = pc[u] /\ local'[u] = his /\ getMemoryBucket(his.ch) \in Buckets
      BY <1>12, <2>2, ThreadFacts, HandBucket
    <3>2. (u \in Listing(his.ch))' <=> u \in Listing(his.ch)
      BY <1>12
    <3>3. CASE pc[u] \in {"a_spliced", "a_fresh", "a_count", "d_size", "d_count", "d_store"}
      <4>1. his.ch # c
        BY <1>4, <3>3
      <4>2. his.ch \in Mapped
        BY <1>2, <3>1, <3>3 DEF Hand, ChunkInv
      <4>3. /\ full(his.ch)' = full(his.ch) /\ empty(his.ch)' = empty(his.ch)
            /\ chunkRange'[his.ch] = chunkRange[his.ch] /\ his.ch \in Mapped'
            /\ his.ch \in memory[getMemoryBucket(his.ch)] => his.ch \in memory'[getMemoryBucket(his.ch)]
            /\ \A d \in Buckets : memory'[d] \subseteq memory[d]
        BY <1>2, <1>8, <1>11, <3>1, <4>1, <4>2
      <4> QED BY <1>14, <3>1, <3>2, <3>3, <4>3 DEF Hand
    <3>4. CASE pc[u] \notin {"a_spliced", "a_fresh", "a_count", "d_size", "d_count", "d_store"}
      <4>1. u \notin Listing(his.ch)
        BY <3>4 DEF Listing
      <4> QED BY <1>14, <3>1, <3>2, <3>4, <4>1 DEF Hand
    <3> QED BY <3>3, <3>4
  <2> QED BY <1>2, <1>12, <2>1, <2>2 DEF HandInv
<1>20. BufferInv' /\ SearchInv'
  <2>1. \A d \in Mapped : used[d] # {} =>
          /\ d \in Mapped' /\ used'[d] = used[d]
          /\ chunkRange'[d] = chunkRange[d] /\ memorysize'[d] = memorysize[d]
          /\ \A e \in Buckets : d \in memory[e] => d \in memory'[e]
    BY <1>2, <1>4, <1>8 DEF empty
  <2>2. \A d \in Mapped' : used'[d] # {} => d \in Mapped /\ used[d] # {}
    BY <1>2, <1>8
  <2> QED BY <1>1, <1>6, <1>7, <2>1, <2>2, SameBuffers
<1> QED BY <1>9, <1>10, <1>13, <1>15, <1>16, <1>17, <1>18, <1>19, <1>20 DEF IndInv

-----------------------------------------------------------------------------
(* IndInv is an invariant.                                                 *)

(* An empty family holds nothing.                                          *)
LEMMA NoLists ==
  ASSUME NEW X, NEW lists, lists = [x \in X |-> [r \in Ranges |-> <<>>]]
  PROVE  Held(lists) = {} /\ Once(lists) /\ OfTheirRow(lists) /\ lists \in ListFamilies(X)
<1>1. <<>> \in Seq(PoolAddresses)
  OBVIOUS
<1>2. ToSet(<<>>) = {}
  BY <1>1, ToSetFacts, Zenon
<1>3. IsInjective(<<>>)
  BY DEF IsInjective
<1>4. DOMAIN lists = X /\ \A x \in X, r \in Ranges : lists[x][r] = <<>>
  OBVIOUS
<1>5. Held(lists) = {}
  BY <1>2, <1>4 DEF Held
<1>6. Once(lists) /\ OfTheirRow(lists)
  BY <1>2, <1>3, <1>4 DEF Once, OfTheirRow
<1>7. lists \in ListFamilies(X)
  BY <1>1 DEF ListFamilies
<1> QED BY <1>5, <1>6, <1>7

(* No chunk, no buffer, no lock, every thread idle.                        *)
LEMMA InitInv == Init => IndInv
<1> SUFFICES ASSUME Init PROVE IndInv
  OBVIOUS
<1>1. \A t \in Threads : pc[t] = "idle" /\ local[t] = NoLocals
  BY DEF Init
<1>2. /\ notfullchunks \in ListFamilies(Contexts) /\ freeStore \in ListFamilies(Stores)
      /\ Held(notfullchunks) = {} /\ Held(freeStore) = {}
      /\ Once(notfullchunks) /\ Once(freeStore) /\ OfTheirRow(notfullchunks) /\ OfTheirRow(freeStore)
  BY NoLists DEF Init
<1>3. Mapped = {} /\ freelistNode = {} /\ Listed = {} /\ live = {}
  BY <1>2 DEF Init, Mapped, Listed
<1>4. TypeOK
  <2>1. local \in [Threads -> Locals]
    <3> HIDE DEF NoLocals, Locals
    <3> QED BY NoLocalsType DEF Init
  <2>2. pc \in [Threads -> Places]
    BY DEF Init, Places
  <2>3. /\ contextLock \in [Contexts -> Owner] /\ storeLock \in [Stores -> Owner]
        /\ bucketLock \in [Buckets -> Owner] /\ cleanMutex \in Owner
    BY DEF Init, Owner
  <2>4. /\ emptyBlocksSize \in 0 .. Word - 1 /\ emptyBlocksCount \in 0 .. Word - 1
        /\ cleanCounter \in 0 .. ForcePeriod - 1
    BY CountsAssumption DEF Init
  <2>5. /\ memory \in [Buckets -> SUBSET PoolAddresses]
        /\ chunkRange \in [PoolAddresses -> Ranges \cup {0}]
        /\ memorysize \in [PoolAddresses -> Nat]
        /\ used \in [PoolAddresses -> SUBSET Nat]
    BY DEF Init
  <2> QED BY <1>2, <1>3, <2>1, <2>2, <2>3, <2>4, <2>5 DEF TypeOK, ListFamilies
<1>5. LocksMatchCode
  BY <1>1, ThreadsAssumption
     DEF Init, LocksMatchCode, LocksOf, HoldsBucket, HoldsContext, HoldsStore, HoldsClean
<1>6. \A t \in Threads : /\ SplicedBy(t) = {} /\ DoomedBy(t) = {} /\ local[t].toDelete = <<>>
                         /\ \A c : t \notin Listing(c)
  <2>1. ToSet(<<>>) = {}
    <3>1. <<>> \in Seq(PoolAddresses)
      OBVIOUS
    <3> QED BY <3>1, ToSetFacts, Zenon
  <2> QED BY <1>1, <2>1 DEF SplicedBy, DoomedBy, Listing, NoLocals
<1>7. ChunkInv
  BY <1>3 DEF Init, ChunkInv
<1>8. ListPlaceInv
  BY <1>2, <1>3 DEF ListPlaceInv
<1>9. ThreadPlaceInv
  <2>1. IsInjective(<<>>)
    BY DEF IsInjective
  <2> QED BY <1>3, <1>6, <2>1 DEF ThreadPlaceInv
<1>10. RoomInv
  BY <1>2, <1>3, <1>6 DEF RoomInv
<1>11. CursorInv
  BY <1>1 DEF CursorInv, Cursor
<1>12. HandInv
  BY <1>1, <1>6 DEF HandInv, Hand
<1>13. BufferInv /\ SearchInv
  BY <1>1, <1>3 DEF BufferInv, SearchInv, SearchCannotFail, UsedAddresses, InFlight
<1> QED BY <1>4, <1>5, <1>7, <1>8, <1>9, <1>10, <1>11, <1>12, <1>13 DEF IndInv

(* No call and no step of any thread breaks it.                            *)
LEMMA NextInv == IndInv /\ [Next]_vars => IndInv'
<1> SUFFICES ASSUME IndInv, [Next]_vars PROVE IndInv'
  OBVIOUS
<1>1. CASE UNCHANGED vars
  <2>1. UNCHANGED <<memory, chunkRange, memorysize, used, notfullchunks, freeStore, freelistNode,
                    emptyBlocksSize, emptyBlocksCount, cleanMutex, cleanCounter, contextLock, storeLock,
                    bucketLock, live, pc, local>>
    BY <1>1 DEF vars, memoryVars, listVars, counterVars, cleanVars, lockVars
  <2>2. TypeOK' /\ LocksMatchCode'
    BY <2>1 DEF IndInv, TypeOK, LocksMatchCode, LocksOf, HoldsBucket
  <2>3. ChunkInv'
    BY <2>1 DEF IndInv, ChunkInv, ChunkOK, Mapped, elSize, Slots, FreshBy
  <2>4. ListPlaceInv' /\ ThreadPlaceInv'
    BY <2>1 DEF IndInv, ListPlaceInv, ThreadPlaceInv, Mapped, Listed, SplicedBy, DoomedBy
  <2>5. RoomInv'
    BY <2>1 DEF IndInv, RoomInv, OfTheirRow, Listed, Listing, DoomedBy, full, empty, Slots
  <2>6. CursorInv' /\ HandInv'
    BY <2>1 DEF IndInv, CursorInv, Cursor, HandInv, Hand, Mapped, Listing, full, empty, Slots
  <2>7. UsedAddresses' = UsedAddresses /\ InFlight' = InFlight /\ Mapped' = Mapped
    BY <2>1 DEF UsedAddresses, ElementAddress, elSize, Mapped, InFlight
  <2>8. BufferInv' /\ SearchInv'
    BY <2>1, <2>7 DEF IndInv, BufferInv, SearchInv, SearchCannotFail, Covers
  <2> QED BY <2>2, <2>3, <2>4, <2>5, <2>6, <2>8 DEF IndInv
<1>2. ASSUME NEW t \in Threads, Call(t) PROVE IndInv'
  <2>1. ASSUME NEW size \in Sizes, NEW id \in IDs(t), Alloc(t, size, id) PROVE IndInv'
    BY <2>1, AllocStep
  <2>2. ASSUME NEW buffer \in live, NEW id \in IDs(t), Dealloc(t, buffer, id) PROVE IndInv'
    BY <2>2, DeallocStep
  <2>3. ASSUME NEW buffer \in live, GetInfo(t, buffer) PROVE IndInv'
    BY <2>3, GetInfoStep
  <2>4. ASSUME NEW force \in BOOLEAN, NEW id \in IDs(t), Clean(t, force, id) PROVE IndInv'
    BY <2>4, CleanStep
  <2> QED BY <1>2, <2>1, <2>2, <2>3, <2>4 DEF Call
<1>3. ASSUME NEW t \in Threads, Step(t) PROVE IndInv'
  <2>1. AllocFromStore(t) => IndInv'
    BY AllocFromStoreStep, AllocFromEmptyStoreStep
  <2>2. /\ AllocLockContext(t) => IndInv'
        /\ AllocCreateChunk(t) => IndInv'
        /\ AllocPoolExhausted(t) => IndInv'
        /\ AllocThrow(t) => IndInv'
        /\ AllocFromListed(t) => IndInv'
        /\ AllocFromSpliced(t) => IndInv'
        /\ AllocFromFresh(t) => IndInv'
        /\ AllocCount(t) => IndInv'
    BY AllocLockContextStep, AllocCreateChunkStep, AllocPoolExhaustedStep, AllocThrowStep,
       AllocFromListedStep, AllocFromSplicedStep, AllocFromFreshStep, AllocCountStep
  <2>3. /\ SearchMiss(t) => IndInv'
        /\ GetInfoHit(t) => IndInv'
        /\ DeallocHit(t) => IndInv'
        /\ DeallocSize(t) => IndInv'
        /\ DeallocCount(t) => IndInv'
        /\ DeallocStore(t) => IndInv'
    BY SearchMissStep, GetInfoHitStep, DeallocHitStep, DeallocSizeStep, DeallocCountStep, DeallocStoreStep
  <2>4. /\ CleanTryLock(t) => IndInv'
        /\ CleanTest(t) => IndInv'
        /\ CleanLockContext(t) => IndInv'
        /\ CleanLockStore(t) => IndInv'
        /\ CleanVisit(t) => IndInv'
    BY CleanTryLockStep, CleanTestStep, CleanLockContextStep, CleanLockStoreStep, CleanVisitStep
  <2>5. /\ CleanLockSweep(t) => IndInv'
        /\ CleanLook(t) => IndInv'
        /\ CleanDrop(t) => IndInv'
        /\ CleanDelete(t) => IndInv'
        /\ CleanEnd(t) => IndInv'
    BY CleanLockSweepStep, CleanLookStep, CleanDropStep, CleanDeleteStep, CleanEndStep
  <2> QED BY <1>3, <2>1, <2>2, <2>3, <2>4, <2>5 DEF Step
<1> QED BY <1>1, <1>2, <1>3 DEF Next

(* What every thread may rely on, in every reachable state.                *)
THEOREM Inductive == Spec => []IndInv
BY InitInv, NextInv, PTL DEF Spec

-----------------------------------------------------------------------------
(* What follows.                                                           *)

(* Every list holds pool blocks and every counter is an unsigned value.    *)
THEOREM TypeCorrect == Spec => []TypeOK
<1>1. IndInv => TypeOK
  BY DEF IndInv
<1> QED BY <1>1, Inductive, PTL

(* Every lock's owner is the thread whose place is in the lock's scope.    *)
THEOREM LocksCorrect == Spec => []LocksMatchCode
<1>1. IndInv => LocksMatchCode
  BY DEF IndInv
<1> QED BY <1>1, Inductive, PTL

(* The bucket search of dealloc and getInfo cannot miss the pointer's      *)
(* chunk, whatever other threads create and destroy meanwhile.             *)
THEOREM SearchCorrect == Spec => []SearchCannotFail
<1>1. IndInv => SearchCannotFail
  BY DEF IndInv, SearchInv
<1> QED BY <1>1, Inductive, PTL

(* The lists, by their positions.                                          *)
LEMMA ListedByPosition ==
  ASSUME IndInv
  PROVE  /\ \A x \in Contexts, r \in Ranges : \A i \in DOMAIN notfullchunks[x][r] :
              LET c == notfullchunks[x][r][i] IN c \in Listed /\ chunkRange[c] = r
         /\ \A x \in Stores, r \in Ranges : \A i \in DOMAIN freeStore[x][r] :
              LET c == freeStore[x][r][i] IN c \in Listed /\ chunkRange[c] = r
<1>1. /\ notfullchunks \in ListFamilies(Contexts) /\ freeStore \in ListFamilies(Stores)
      /\ OfTheirRow(notfullchunks) /\ OfTheirRow(freeStore)
      /\ DOMAIN notfullchunks = Contexts /\ DOMAIN freeStore = Stores
  BY InvFacts DEF RoomInv, ListFamilies
<1>2. ASSUME NEW x \in Contexts, NEW r \in Ranges, NEW i \in DOMAIN notfullchunks[x][r]
      PROVE  notfullchunks[x][r][i] \in Listed /\ chunkRange[notfullchunks[x][r][i]] = r
  <2>1. notfullchunks[x][r][i] \in ToSet(notfullchunks[x][r])
    BY DEF ToSet
  <2> QED BY <1>1, <2>1, HeldIn DEF OfTheirRow, Listed
<1>3. ASSUME NEW x \in Stores, NEW r \in Ranges, NEW i \in DOMAIN freeStore[x][r]
      PROVE  freeStore[x][r][i] \in Listed /\ chunkRange[freeStore[x][r][i]] = r
  <2>1. freeStore[x][r][i] \in ToSet(freeStore[x][r])
    BY DEF ToSet
  <2> QED BY <1>1, <2>1, HeldIn DEF OfTheirRow, Listed
<1> QED BY <1>2, <1>3

(* A listed or chosen chunk is of its row and has a free slot, so that     *)
(* alloc never gets a null pointer from a chunk.                           *)
THEOREM RoomCorrect == Spec => []ListedChunksHaveRoom
<1>1. ASSUME IndInv PROVE ListedChunksHaveRoom
  <2>1. \A c \in Listed : ~ full(c)
    BY <1>1, InvFacts DEF RoomInv
  <2>2. ASSUME NEW t \in Threads, pc[t] \in {"a_listed", "a_spliced", "a_fresh"}
        PROVE  chunkRange[local[t].ch] = getSizeRange(local[t].size) /\ ~ full(local[t].ch)
    BY <1>1, <2>2, ChunkInHand
  <2> QED BY <1>1, <2>1, <2>2, ListedByPosition DEF ListedChunksHaveRoom
<1> QED BY <1>1, Inductive, PTL

(* A chunk in no list but its own is full, or exactly one thread is on its *)
(* way to list it: free slots are never lost.                              *)
THEOREM NoStrandedChunk == Spec => []NoChunkIsStranded
<1>1. ASSUME IndInv PROVE NoChunkIsStranded
  <2> SUFFICES ASSUME NEW c \in freelistNode
               PROVE  IF full(c) THEN Listing(c) = {} ELSE \E t \in Threads : Listing(c) = {t}
    BY DEF NoChunkIsStranded
  <2>1. c \in PoolAddresses /\ Listing(c) \subseteq Threads
    BY <1>1, InvFacts DEF Listing
  <2>2. \A t \in Listing(c) : local[t].ch = c /\ ~ full(c)
    BY <1>1, ThreadFacts DEF Hand, Listing
  <2>3. full(c) \/ \E t \in Threads : t \in Listing(c)
    BY <1>1, InvFacts DEF RoomInv
  <2>4. \A t, u \in Listing(c) : t = u
    BY <1>1, <2>1, InvFacts DEF HandInv
  <2> QED BY <2>1, <2>2, <2>3, <2>4
<1> QED BY <1>1, Inductive, PTL

(* A chunk a thread uses outside the lock it found it under still exists,  *)
(* and clean deletes no chunk with a buffer in it.                         *)
THEOREM ChunksInHandCorrect == Spec => []ChunksInHandExist
<1>1. ASSUME IndInv PROVE ChunksInHandExist
  <2>1. \A c \in Mapped : c \notin freelistNode => c \in memory[getMemoryBucket(c)]
    <3>1. \A c \in Mapped : c \in memory[getMemoryBucket(c)] \/ \E t \in Threads : c \in FreshBy(t)
      BY <1>1, InvFacts DEF ChunkInv, ChunkOK
    <3>2. \A t \in Threads : \A c \in FreshBy(t) : c \in freelistNode
      BY <1>1, ThreadFacts DEF Hand, FreshBy
    <3> QED BY <3>1, <3>2
  <2>2. ASSUME NEW t \in Threads
        PROVE  pc[t] \in {"a_listed", "a_spliced", "a_count", "d_size", "d_count", "d_store"} =>
                 local[t].ch \in memory[getMemoryBucket(local[t].ch)]
    <3>1. Hand(t)
      BY <1>1, ThreadFacts
    <3>2. pc[t] \in {"a_listed", "a_spliced"} => local[t].ch \in memory[getMemoryBucket(local[t].ch)]
      BY <1>1, ChunkInHand
    <3>3. pc[t] \in {"d_size", "d_count", "d_store", "a_count"} =>
            local[t].ch \in memory[getMemoryBucket(local[t].ch)]
      BY <3>1 DEF Hand
    <3> QED BY <3>2, <3>3
  <2>3. ASSUME NEW t \in Threads, NEW i \in DOMAIN local[t].toDelete
        PROVE  LET c == local[t].toDelete[i] IN c \in memory[getMemoryBucket(c)] /\ empty(c)
    <3>1. local[t].toDelete[i] \in DoomedBy(t)
      BY DEF DoomedBy, ToSet
    <3>2. \A c \in DoomedBy(t) : c \in Mapped /\ c \notin freelistNode /\ empty(c)
      BY <1>1, InvFacts DEF ThreadPlaceInv, RoomInv
    <3> QED BY <2>1, <3>1, <3>2
  <2> QED BY <2>2, <2>3 DEF ChunksInHandExist
<1> QED BY <1>1, Inductive, PTL

(* The used slots are exactly the buffers, one each: nothing is handed out *)
(* twice and nothing leaks.                                                *)
THEOREM SlotsCorrect == Spec => []SlotsMatchBuffers
<1>1. ASSUME IndInv PROVE SlotsMatchBuffers
  <2> SUFFICES ASSUME NEW p \in UsedAddresses \cup {buffer.ptr : buffer \in live}
                                  \cup {local[t].ptr : t \in InFlight}
               PROVE  Cardinality(BuffersAt(p)) = 1 /\ p \in UsedAddresses
    BY DEF SlotsMatchBuffers
  <2>1. p \in UsedAddresses
    BY <1>1, InvFacts DEF BufferInv
  <2>2. \E a : BuffersAt(p) = {a}
    <3>1. CASE \E a \in live : a.ptr = p
      <4>1. PICK a \in live : a.ptr = p
        BY <3>1
      <4>2. {buffer \in live : buffer.ptr = p} = {a}
        BY <1>1, <4>1, InvFacts DEF BufferInv
      <4>3. {t \in InFlight : local[t].ptr = p} = {}
        BY <1>1, <4>1, InvFacts DEF BufferInv
      <4> QED BY <4>2, <4>3 DEF BuffersAt
    <3>2. CASE ~ \E a \in live : a.ptr = p
      <4>1. PICK t \in InFlight : local[t].ptr = p
        BY <1>1, <2>1, <3>2, InvFacts DEF BufferInv
      <4>2. {buffer \in live : buffer.ptr = p} = {}
        BY <3>2
      <4>3. {u \in InFlight : local[u].ptr = p} = {t}
        BY <1>1, <4>1, InvFacts DEF BufferInv
      <4> QED BY <4>2, <4>3 DEF BuffersAt
    <3> QED BY <3>1, <3>2
  <2>3. Cardinality(BuffersAt(p)) = 1
    BY <2>2, FS_Singleton
  <2> QED BY <2>1, <2>3
<1> QED BY <1>1, Inductive, PTL

-----------------------------------------------------------------------------
(* Each chunk is in one list.                                              *)

(* A family that holds a chunk has it at one position.                     *)
LEMMA OnePlace ==
  ASSUME NEW X, NEW lists \in ListFamilies(X), Once(lists), NEW tag, NEW c \in PoolAddresses
  PROVE  /\ c \in Held(lists) => \E place : ListPlaces(tag, lists, c) = {place}
         /\ c \notin Held(lists) => ListPlaces(tag, lists, c) = {}
<1>1. DOMAIN lists = X
  BY DEF ListFamilies
<1>2. \A x \in X, r \in Ranges : \A i \in Positions(lists[x][r], c) : c \in ToSet(lists[x][r])
  BY DEF Positions, ToSet
<1>3. \A x \in X, r \in Ranges : c \in ToSet(lists[x][r]) => \E i : i \in Positions(lists[x][r], c)
  BY DEF Positions, ToSet
<1>4. \A p : p \in ListPlaces(tag, lists, c) <=>
              \E x \in X, r \in Ranges : \E i \in Positions(lists[x][r], c) : p = <<tag, x, r, i>>
  BY <1>1 DEF ListPlaces
<1>5. ASSUME c \in Held(lists) PROVE \E place : ListPlaces(tag, lists, c) = {place}
  <2>1. PICK x \in X, r \in Ranges : c \in ToSet(lists[x][r])
    BY <1>5, HeldIn
  <2>2. PICK i : i \in Positions(lists[x][r], c)
    BY <1>3, <2>1
  <2>3. ASSUME NEW y \in X, NEW q \in Ranges, NEW j \in Positions(lists[y][q], c)
        PROVE  y = x /\ q = r /\ j = i
    <3>1. y = x /\ q = r
      BY <1>1, <1>2, <2>1, <2>3 DEF Once
    <3>2. IsInjective(lists[x][r])
      BY <1>1 DEF Once
    <3> QED BY <2>2, <3>1, <3>2 DEF Positions, IsInjective
  <2>4. <<tag, x, r, i>> \in ListPlaces(tag, lists, c)
    BY <1>4, <2>2
  <2>5. ASSUME NEW p \in ListPlaces(tag, lists, c) PROVE p = <<tag, x, r, i>>
    <3>1. PICK y \in X, q \in Ranges : \E j \in Positions(lists[y][q], c) : p = <<tag, y, q, j>>
      BY <1>4, <2>5
    <3>2. PICK j \in Positions(lists[y][q], c) : p = <<tag, y, q, j>>
      BY <3>1
    <3>3. y = x /\ q = r /\ j = i
      BY <2>3
    <3> QED BY <3>2, <3>3
  <2> QED BY <2>4, <2>5
<1>6. ASSUME c \notin Held(lists) PROVE ListPlaces(tag, lists, c) = {}
  <2>1. \A x \in X, r \in Ranges : c \notin ToSet(lists[x][r])
    BY <1>6, HeldIn
  <2> QED BY <1>2, <1>4, <2>1
<1> QED BY <1>5, <1>6

(* The one list node of every chunk is in exactly one list, and that of a  *)
(* destroyed chunk in none.                                                *)
THEOREM OneListCorrect == Spec => []ChunkInOneList
<1>1. ASSUME IndInv PROVE ChunkInOneList
  <2> SUFFICES ASSUME NEW c \in PoolAddresses
               PROVE  IF c \in Mapped THEN \E place \in ListsHolding(c) : ListsHolding(c) = {place}
                                     ELSE ListsHolding(c) = {}
    BY DEF ChunkInOneList
  <2> DEFINE own == {place \in {<<"freelistNode">>} : c \in freelistNode}
             contexts == ListPlaces("notfullchunks", notfullchunks, c)
             stores == ListPlaces("freeStore", freeStore, c)
             spliced == {<<"templist", t>> : t \in {u \in Threads : pc[u] = "a_spliced" /\ local[u].ch = c}}
             doomed == UNION {{<<"toDeleteList", t, i>> : i \in Positions(local[t].toDelete, c)} : t \in Threads}
  <2>1. /\ ListPlaceInv /\ ThreadPlaceInv
        /\ notfullchunks \in ListFamilies(Contexts) /\ freeStore \in ListFamilies(Stores)
    BY <1>1, InvFacts
  <2>2. /\ c \in freelistNode => own = {<<"freelistNode">>}
        /\ c \notin freelistNode => own = {}
    OBVIOUS
  <2>3. /\ c \in Held(notfullchunks) => \E place : contexts = {place}
        /\ c \notin Held(notfullchunks) => contexts = {}
        /\ c \in Held(freeStore) => \E place : stores = {place}
        /\ c \notin Held(freeStore) => stores = {}
    <3>1. Once(notfullchunks) /\ Once(freeStore)
      BY <2>1 DEF ListPlaceInv
    <3>2. /\ c \in Held(notfullchunks) => \E place : contexts = {place}
          /\ c \notin Held(notfullchunks) => contexts = {}
      BY <2>1, <3>1, OnePlace, Zenon
    <3>3. /\ c \in Held(freeStore) => \E place : stores = {place}
          /\ c \notin Held(freeStore) => stores = {}
      BY <2>1, <3>1, OnePlace, Zenon
    <3> QED BY <3>2, <3>3
  <2>4. ASSUME NEW t \in Threads, c \in SplicedBy(t) PROVE spliced = {<<"templist", t>>}
    BY <2>1, <2>4 DEF ThreadPlaceInv, SplicedBy
  <2>5. (\A t \in Threads : c \notin SplicedBy(t)) => spliced = {}
    BY DEF SplicedBy
  <2>6. \A t \in Threads : c \in DoomedBy(t) <=> \E i : i \in Positions(local[t].toDelete, c)
    BY DEF DoomedBy, ToSet, Positions
  <2>7. ASSUME NEW t \in Threads, c \in DoomedBy(t) PROVE \E place : doomed = {place}
    <3>1. PICK i : i \in Positions(local[t].toDelete, c)
      BY <2>6, <2>7
    <3>2. pc[t] \in {"c_look", "c_drop", "c_delete"}
      <4>1. local[t].toDelete # <<>>
        BY <3>1 DEF Positions
      <4> QED BY <1>1, <4>1, ThreadFacts
    <3>3. \A u \in Threads : u # t => c \notin DoomedBy(u)
      BY <1>1, <3>2, OneDeletes
    <3>4. \A j \in Positions(local[t].toDelete, c) : j = i
      BY <2>1, <3>1 DEF ThreadPlaceInv, IsInjective, Positions
    <3>5. <<"toDeleteList", t, i>> \in doomed
      BY <3>1
    <3>6. ASSUME NEW p \in doomed PROVE p = <<"toDeleteList", t, i>>
      <4>1. PICK u \in Threads : \E j \in Positions(local[u].toDelete, c) : p = <<"toDeleteList", u, j>>
        OBVIOUS
      <4>2. PICK j \in Positions(local[u].toDelete, c) : p = <<"toDeleteList", u, j>>
        BY <4>1
      <4>3. u = t
        BY <2>6, <3>3, <4>2
      <4>4. p = <<"toDeleteList", u, j>>
        BY <4>2
      <4>5. j = i
        BY <3>4, <4>3
      <4> HIDE DEF doomed
      <4> QED BY <4>3, <4>4, <4>5
    <3> HIDE DEF doomed
    <3>7. doomed = {<<"toDeleteList", t, i>>}
      BY <3>5, <3>6
    <3> QED BY <3>7
  <2>8. (\A t \in Threads : c \notin DoomedBy(t)) => doomed = {}
    <3> SUFFICES ASSUME \A t \in Threads : c \notin DoomedBy(t) PROVE doomed = {}
      OBVIOUS
    <3>1. \A t \in Threads : Positions(local[t].toDelete, c) = {}
      BY <2>6
    <3> QED BY <3>1
  <2>9. ListsHolding(c) = own \cup contexts \cup stores \cup spliced \cup doomed
    BY DEF ListsHolding
  <2> HIDE DEF own, contexts, stores, spliced, doomed
  <2>10. ASSUME \E place : ListsHolding(c) = {place}
         PROVE  \E place \in ListsHolding(c) : ListsHolding(c) = {place}
    BY <2>10
  <2>11. CASE c \in freelistNode
    <3>1. c \in Mapped /\ c \notin Listed /\ \A t \in Threads : c \notin SplicedBy(t) /\ c \notin DoomedBy(t)
      BY <2>1, <2>11 DEF ListPlaceInv, ThreadPlaceInv
    <3> QED BY <2>2, <2>3, <2>5, <2>8, <2>9, <2>10, <2>11, <3>1 DEF Listed
  <2>12. CASE c \in Listed
    <3>1. /\ c \in Mapped /\ c \notin freelistNode
          /\ \A t \in Threads : c \notin SplicedBy(t) /\ c \notin DoomedBy(t)
          /\ ~ (c \in Held(notfullchunks) /\ c \in Held(freeStore))
      BY <2>1, <2>12 DEF ListPlaceInv, ThreadPlaceInv
    <3> QED BY <2>2, <2>3, <2>5, <2>8, <2>9, <2>10, <2>12, <3>1 DEF Listed
  <2>13. ASSUME NEW t \in Threads, c \in SplicedBy(t)
         PROVE  c \in Mapped /\ \E place \in ListsHolding(c) : ListsHolding(c) = {place}
    <3>1. c \in Mapped /\ c \notin freelistNode /\ c \notin Listed /\ \A u \in Threads : c \notin DoomedBy(u)
      BY <2>1, <2>13 DEF ThreadPlaceInv
    <3> QED BY <2>2, <2>3, <2>4, <2>8, <2>9, <2>10, <2>13, <3>1 DEF Listed
  <2>14. ASSUME NEW t \in Threads, c \in DoomedBy(t)
         PROVE  c \in Mapped /\ \E place \in ListsHolding(c) : ListsHolding(c) = {place}
    <3>1. c \in Mapped /\ c \notin freelistNode /\ c \notin Listed /\ \A u \in Threads : c \notin SplicedBy(u)
      BY <2>1, <2>14 DEF ThreadPlaceInv
    <3> QED BY <2>2, <2>3, <2>5, <2>7, <2>9, <2>10, <2>14, <3>1 DEF Listed
  <2>15. CASE /\ c \notin freelistNode /\ c \notin Listed
              /\ \A t \in Threads : c \notin SplicedBy(t) /\ c \notin DoomedBy(t)
    <3>1. c \notin Mapped
      BY <2>1, <2>15 DEF ThreadPlaceInv
    <3> QED BY <2>2, <2>3, <2>5, <2>8, <2>9, <2>15, <3>1 DEF Listed
  <2>16. CASE \E t \in Threads : c \in SplicedBy(t) \/ c \in DoomedBy(t)
    BY <2>13, <2>14, <2>16
  <2> QED BY <2>11, <2>12, <2>15, <2>16
<1> QED BY <1>1, Inductive, PTL

-----------------------------------------------------------------------------
(* Each alloc takes a slot.                                                *)

(* A thread moves nobody but itself.                                       *)
LEMMA OnlyItself ==
  ASSUME NEW t \in Threads, Call(t) \/ Step(t)
  PROVE  pc' = pc \/ \E label : pc' = [pc EXCEPT ![t] = label]
<1> DEFINE Moves == pc' = pc \/ \E label : pc' = [pc EXCEPT ![t] = label]
<1>1. \A label : Goto(t, label) => Moves
  BY DEF Goto
<1>2. \A label, locals : GotoWith(t, label, locals) => Moves
  BY <1>1 DEF GotoWith
<1>3. /\ Return(t) => Moves
      /\ CallClean(t) => Moves
      /\ CleanStart(t) => Moves
      /\ \A locals : NextContext(t, locals) => Moves
      /\ \A locals, next, list : SweepOn(t, locals, next, list) => Moves
  BY <1>2, Zenon DEF Return, CallClean, CleanStart, NextContext, SweepOn
<1>4. /\ CleanLeave(t) => Moves
      /\ \A c, ptr : AllocEnd(t, c, ptr) => Moves
  BY <1>2, <1>3, Zenon DEF CleanLeave, AllocEnd
<1> HIDE DEF Moves
<1>5. ASSUME Call(t) PROVE Moves
  BY <1>2, <1>5, Zenon DEF Call, Alloc, Dealloc, GetInfo, Clean
<1>6. ASSUME Step(t) PROVE Moves
  <2>1. /\ AllocLockContext(t) => Moves
        /\ AllocFromStore(t) => Moves
        /\ AllocCreateChunk(t) => Moves
        /\ AllocPoolExhausted(t) => Moves
        /\ AllocThrow(t) => Moves
    BY <1>2, <1>3, Zenon DEF AllocLockContext, AllocFromStore, AllocCreateChunk, AllocPoolExhausted, AllocThrow
  <2>2. /\ AllocFromListed(t) => Moves
        /\ AllocFromSpliced(t) => Moves
        /\ AllocFromFresh(t) => Moves
        /\ AllocCount(t) => Moves
    BY <1>3, <1>4, Zenon DEF AllocFromListed, AllocFromSpliced, AllocFromFresh, AllocCount
  <2>3. /\ SearchMiss(t) => Moves
        /\ GetInfoHit(t) => Moves
        /\ DeallocHit(t) => Moves
        /\ DeallocSize(t) => Moves
        /\ DeallocCount(t) => Moves
        /\ DeallocStore(t) => Moves
    BY <1>1, <1>2, <1>3, Zenon DEF SearchMiss, GetInfoHit, DeallocHit, DeallocSize, DeallocCount, DeallocStore
  <2>4. /\ CleanTryLock(t) => Moves
        /\ CleanTest(t) => Moves
        /\ CleanLockContext(t) => Moves
        /\ CleanLockStore(t) => Moves
        /\ CleanLockSweep(t) => Moves
        /\ CleanEnd(t) => Moves
    BY <1>1, <1>2, <1>3, <1>4, Zenon
       DEF CleanTryLock, CleanTest, CleanLockContext, CleanLockStore, CleanLockSweep, CleanEnd
  <2>5. /\ CleanVisit(t) => Moves
        /\ CleanLook(t) => Moves
        /\ CleanDrop(t) => Moves
    BY <1>1, <1>2, <1>3, Zenon DEF CleanVisit, CleanLook, CleanDrop
  <2>6. CleanDelete(t) => Moves
    BY DEF CleanDelete, Moves
  <2> QED BY <1>6, <2>1, <2>2, <2>3, <2>4, <2>5, <2>6 DEF Step
<1>7. Moves
  BY <1>5, <1>6
<1> QED BY <1>7 DEF Moves

(* alloc hands out a slot that nobody has, and takes no other.             *)
THEOREM EachAllocCorrect == Spec => EachAllocTakesASlot
<1> DEFINE Takes == \A t \in Threads :
              pc[t] \in {"a_listed", "a_spliced", "a_fresh"} /\ pc'[t] # pc[t] =>
                \E p \in UsedAddresses' \ UsedAddresses : UsedAddresses' = UsedAddresses \cup {p}
<1>1. ASSUME IndInv, [Next]_vars PROVE [Takes]_vars
  <2> SUFFICES ASSUME NEW u \in Threads, Call(u) \/ Step(u), NEW t \in Threads,
                      pc[t] \in {"a_listed", "a_spliced", "a_fresh"}, pc'[t] # pc[t]
               PROVE  \E p \in UsedAddresses' \ UsedAddresses : UsedAddresses' = UsedAddresses \cup {p}
    BY <1>1 DEF Next
  <2>1. pc \in [Threads -> Places]
    BY <1>1, InvFacts DEF TypeOK
  <2>2. u = t
    <3>1. pc' = pc \/ \E label : pc' = [pc EXCEPT ![u] = label]
      BY OnlyItself
    <3> HIDE DEF Places
    <3> QED BY <2>1, <3>1
  <2>3. AllocFromListed(t) \/ AllocFromSpliced(t) \/ AllocFromFresh(t)
    <3>1. ~ Call(t)
      BY DEF Call, Alloc, Dealloc, GetInfo, Clean
    <3>2. Step(t)
      BY <2>2, <3>1
    <3> QED BY <3>2 DEF Step, AllocLockContext, AllocFromStore, AllocCreateChunk, AllocPoolExhausted,
              AllocThrow, AllocCount, SearchMiss, GetInfoHit, DeallocHit, DeallocSize, DeallocCount,
              DeallocStore, CleanTryLock, CleanTest, CleanLockContext, CleanLockStore, CleanVisit,
              CleanLockSweep, CleanLook, CleanDrop, CleanDelete, CleanEnd
  <2> PICK c : c = local[t].ch
    OBVIOUS
  <2> PICK p : p = ElementAddress(c, AllocIndex(c))
    OBVIOUS
  <2>4. /\ used' = [used EXCEPT ![c] = @ \cup {AllocIndex(c)}]
        /\ chunkRange' = chunkRange /\ memorysize' = memorysize
    BY <2>3 DEF AllocFromListed, AllocFromSpliced, AllocFromFresh
  <2>5. c \in Mapped /\ ~ full(c)
    BY <1>1, ChunkInHand
  <2>6. p \notin UsedAddresses /\ UsedAddresses' = UsedAddresses \cup {p}
    BY <1>1, <2>4, <2>5, SlotTaken
  <2> QED BY <2>6
<1>2. Spec => [][Takes]_vars
  BY <1>1, Inductive, PTL DEF Spec
<1> QED BY <1>2 DEF EachAllocTakesASlot

-----------------------------------------------------------------------------
(* A forced clean alone.                                                   *)

(* The lists NextList passes over are empty.                               *)
LEMMA NextListSkips ==
  ASSUME NEW lists \in [Ranges -> Seq(PoolAddresses)], NEW r \in Nat \ {0}
  PROVE  \A q \in Ranges : r <= q /\ q < NextList(lists, r) => lists[q] = <<>>
<1> DEFINE S == {x \in r .. RangeCount : lists[x] # <<>>} \cup {RangeCount + 1}
<1>1. S \subseteq Nat /\ S # {}
  BY SizesAssumption
<1>2. \A x \in S : NextList(lists, r) <= x
  <2> HIDE DEF S
  <2>1. \A x \in S : Min(S) <= x
    BY <1>1, MinOfNaturals
  <2> QED BY <2>1 DEF NextList, S
<1>3. NextList(lists, r) \in Nat
  BY NextListFacts
<1> SUFFICES ASSUME NEW q \in Ranges, r <= q, q < NextList(lists, r), lists[q] # <<>> PROVE FALSE
  OBVIOUS
<1>4. q \in r .. RangeCount
  BY SizesAssumption DEF Ranges
<1>5. q \in S
  BY <1>4
<1> HIDE DEF S
<1> QED BY <1>2, <1>3, <1>4, <1>5

(* If it finds none, all the rows from r on are empty.                     *)
LEMMA NextListNone ==
  ASSUME NEW lists \in [Ranges -> Seq(PoolAddresses)], NEW r \in Nat \ {0},
         NextList(lists, r) \notin Ranges
  PROVE  \A q \in Ranges : r <= q => lists[q] = <<>>
<1> DEFINE S == {x \in r .. RangeCount : lists[x] # <<>>} \cup {RangeCount + 1}
<1>1. S \subseteq Nat /\ S # {}
  BY SizesAssumption
<1>2. NextList(lists, r) \in S
  <2> HIDE DEF S
  <2>1. Min(S) \in S
    BY <1>1, MinOfNaturals
  <2> QED BY <2>1 DEF NextList, S
<1>3. NextList(lists, r) = RangeCount + 1
  BY <1>2, SizesAssumption DEF Ranges
<1>4. \A q \in Ranges : q < NextList(lists, r)
  BY <1>3, SizesAssumption DEF Ranges
<1> QED BY <1>4, NextListSkips

(* Closing the gap moves nothing in front of it.                           *)
LEMMA RemoveAtKeeps ==
  ASSUME NEW s \in Seq(PoolAddresses), NEW k \in 1 .. Len(s), NEW i \in 1 .. k - 1
  PROVE  RemoveAt(s, k)[i] = s[i]
<1> DEFINE front == SubSeq(s, 1, k - 1)
           back == SubSeq(s, k + 1, Len(s))
<1>1. /\ front \in Seq(PoolAddresses) /\ Len(front) = k - 1 /\ front[i] = s[i]
      /\ back \in Seq(PoolAddresses)
  OBVIOUS
<1>2. RemoveAt(s, k) = front \o back
  BY DEF RemoveAt
<1> HIDE DEF front, back
<1>3. (front \o back)[i] = front[i]
  BY <1>1, SMTT(30)
<1> QED BY <1>1, <1>2, <1>3

(* What clean has swept stays swept while it goes on elsewhere.            *)
LEMMA SweepKept ==
  ASSUME NEW t \in Threads, ForcedSweep(t), UNCHANGED <<used, notfullchunks, freeStore>>,
         pc'[t] = pc[t], local'[t] = local[t]
  PROVE  ForcedSweep(t)'
<1>1. PICK my : my = local[t] /\ my = local'[t]
  OBVIOUS
<1>2. used' = used /\ notfullchunks' = notfullchunks /\ freeStore' = freeStore
  OBVIOUS
<1> QED BY <1>1, <1>2 DEF ForcedSweep, NoChunks, NoEmptyChunks, empty

(* The calls and steps by which t does not go on in clean's loops.         *)
LEMMA SweepElsewhere ==
  ASSUME NEW t \in Threads,
         pc'[t] \notin {"c_context", "c_list", "c_visit", "c_sweep", "c_look", "c_drop", "c_delete"},
         pc'[t] \in {"c_try", "c_soft", "c_softcount", "c_hard", "c_hardcount"} => local'[t].ctx = 0
  PROVE  ForcedSweep(t)'
BY DEF ForcedSweep

(* clean goes on to another context, or to the sweep, with all the lists   *)
(* of the contexts it has been through empty.                              *)
LEMMA SweepNextContext ==
  ASSUME TypeOK, NEW t \in Threads, NEW my \in Locals, NextContext(t, my), my.force,
         \A x \in Contexts : x <= my.ctx => NoChunks(notfullchunks'[x], Ranges)
  PROVE  ForcedSweep(t)'
<1>1. my.ctx \in 0 .. AllocContextCount - 1 /\ AllocContextCount \in Nat
  BY CountsAssumption DEF Locals, Contexts
<1>2. DOMAIN pc = Threads /\ DOMAIN local = Threads
  BY DEF TypeOK
<1>3. CASE my.ctx + 1 < AllocContextCount
  <2> PICK locals : locals = [my EXCEPT !.ctx = my.ctx + 1, !.row = 1, !.pos = 1]
    OBVIOUS
  <2>1. locals.ctx = my.ctx + 1
    BY DEF Locals
  <2>2. pc'[t] = "c_context" /\ local'[t] = locals
    BY <1>2, <1>3 DEF NextContext, GotoWith, Goto
  <2>3. \A x \in Contexts : x < my.ctx + 1 => x <= my.ctx
    BY <1>1 DEF Contexts
  <2> QED BY <2>1, <2>2, <2>3 DEF ForcedSweep
<1>4. CASE ~ (my.ctx + 1 < AllocContextCount)
  <2>1. pc'[t] = "c_sweep"
    BY <1>2, <1>4 DEF NextContext, GotoWith, Goto
  <2>2. \A x \in Contexts : x <= my.ctx
    BY <1>1, <1>4 DEF Contexts
  <2> QED BY <2>1, <2>2 DEF ForcedSweep
<1> QED BY <1>3, <1>4

(* A clean that is not forced promises nothing.                            *)
LEMMA UnforcedNextContext ==
  ASSUME TypeOK, NEW t \in Threads, NEW my \in Locals, NextContext(t, my), ~ my.force
  PROVE  ForcedSweep(t)'
<1>1. DOMAIN pc = Threads /\ DOMAIN local = Threads
  BY DEF TypeOK
<1>2. PICK label \in {"c_context", "c_sweep"} :
        \E ctx : GotoWith(t, label, [my EXCEPT !.ctx = ctx, !.row = 1, !.pos = 1])
  BY DEF NextContext
<1> PICK ctx : GotoWith(t, label, [my EXCEPT !.ctx = ctx, !.row = 1, !.pos = 1])
  BY <1>2
<1> PICK locals : locals = [my EXCEPT !.ctx = ctx, !.row = 1, !.pos = 1]
  OBVIOUS
<1>3. pc'[t] = label /\ local'[t] = locals
  BY <1>1, <1>2 DEF GotoWith, Goto
<1>4. ~ locals.force
  BY DEF Locals
<1> QED BY <1>3, <1>4 DEF ForcedSweep

(* A context without chunks is passed over, its lists being empty already. *)
LEMMA SweepLockContext ==
  ASSUME IndInv, NEW t \in Threads, ForcedSweep(t), CleanLockContext(t)
  PROVE  ForcedSweep(t)'
<1> PICK my : my = local[t]
  OBVIOUS
<1> PICK r : r = NextList(notfullchunks[my.ctx], 1)
  OBVIOUS
<1>1. /\ pc[t] = "c_context"
      /\ \/ r \in Ranges /\ GotoWith(t, "c_list", [my EXCEPT !.row = r])
         \/ r \notin Ranges /\ NextContext(t, my)
      /\ notfullchunks' = notfullchunks
  BY DEF CleanLockContext, listVars
<1>2. TypeOK /\ my \in Locals /\ my.ctx \in Contexts /\ my.pos = 1
  BY <1>1, ThreadFacts DEF Cursor, Locals
<1>3. /\ notfullchunks[my.ctx] \in [Ranges -> Seq(PoolAddresses)]
      /\ DOMAIN pc = Threads /\ DOMAIN local = Threads
  BY <1>2 DEF TypeOK
<1>4. CASE ~ my.force
  <2>1. CASE GotoWith(t, "c_list", [my EXCEPT !.row = r])
    <3>1. pc'[t] = "c_list" /\ local'[t] = [my EXCEPT !.row = r]
      BY <1>3, <2>1 DEF GotoWith, Goto
    <3>2. ~ local'[t].force
      BY <1>2, <1>4, <3>1 DEF Locals
    <3> QED BY <3>1, <3>2 DEF ForcedSweep
  <2>2. CASE NextContext(t, my)
    BY <1>2, <1>4, <2>2, UnforcedNextContext
  <2> QED BY <1>1, <2>1, <2>2
<1>5. CASE my.force
  <2>1. \A x \in Contexts : x < my.ctx => NoChunks(notfullchunks[x], Ranges)
    BY <1>1, <1>5 DEF ForcedSweep
  <2>2. CASE r \in Ranges
    <3> PICK locals : locals = [my EXCEPT !.row = r]
      OBVIOUS
    <3>1. locals.ctx = my.ctx /\ locals.row = r /\ locals.pos = 1
      BY <1>2 DEF Locals
    <3>2. pc'[t] = "c_list" /\ local'[t] = locals
      BY <1>1, <1>3, <2>2 DEF GotoWith, Goto
    <3>3. NoChunks(notfullchunks[my.ctx], RowsBelow(r))
      <4>1. \A q \in Ranges : 1 <= q
        BY DEF Ranges
      <4>2. \A q \in Ranges : 1 <= q /\ q < NextList(notfullchunks[my.ctx], 1) =>
              notfullchunks[my.ctx][q] = <<>>
        BY <1>3, 1 \in Nat \ {0}, NextListSkips, Zenon
      <4> QED BY <4>1, <4>2 DEF NoChunks, RowsBelow
    <3> QED BY <1>1, <2>1, <3>1, <3>2, <3>3 DEF ForcedSweep
  <2>3. CASE r \notin Ranges
    <3>1. NoChunks(notfullchunks[my.ctx], Ranges)
      <4>1. \A q \in Ranges : 1 <= q
        BY DEF Ranges
      <4>2. \A q \in Ranges : 1 <= q => notfullchunks[my.ctx][q] = <<>>
        <5>1. NextList(notfullchunks[my.ctx], 1) \notin Ranges
          BY <2>3
        <5> QED BY <1>3, <5>1, 1 \in Nat \ {0}, NextListNone, Zenon
      <4> QED BY <4>1, <4>2 DEF NoChunks
    <3>2. \A x \in Contexts : x <= my.ctx => x < my.ctx \/ x = my.ctx
      BY <1>2 DEF Contexts
    <3> QED BY <1>1, <1>2, <1>5, <2>1, <2>3, <3>1, <3>2, SweepNextContext
  <2> QED BY <2>2, <2>3
<1> QED BY <1>2, <1>4, <1>5 DEF Locals

(* Between the two locks nothing moves.                                    *)
LEMMA SweepLockStore ==
  ASSUME IndInv, NEW t \in Threads, ForcedSweep(t), CleanLockStore(t)
  PROVE  ForcedSweep(t)'
<1>1. pc[t] = "c_list" /\ pc'[t] = "c_visit" /\ local' = local /\ notfullchunks' = notfullchunks
  BY ThreadFacts DEF CleanLockStore, Goto, TypeOK, listVars
<1> QED BY <1>1 DEF ForcedSweep

(* A forced clean takes the first chunk of a list until none is left.      *)
LEMMA SweepVisit ==
  ASSUME IndInv, NEW t \in Threads, ForcedSweep(t), CleanVisit(t)
  PROVE  ForcedSweep(t)'
<1> PICK my : my = local[t]
  OBVIOUS
<1> PICK row : row = my.row
  OBVIOUS
<1> PICK moved : moved = (empty(notfullchunks[my.ctx][row][my.pos]) \/ my.force)
  OBVIOUS
<1> PICK next : next = IF moved THEN my.pos ELSE my.pos + 1
  OBVIOUS
<1> PICK r : r = NextList(notfullchunks[my.ctx], row + 1)
  OBVIOUS
<1>1. /\ pc[t] = "c_visit"
      /\ moved => notfullchunks' = TakeOut(notfullchunks, my.ctx, row, my.pos)
      /\ \/ next <= Len(notfullchunks'[my.ctx][row]) /\ GotoWith(t, "c_visit", [my EXCEPT !.pos = next])
         \/ /\ ~ (next <= Len(notfullchunks'[my.ctx][row])) /\ r \in Ranges
            /\ GotoWith(t, "c_list", [my EXCEPT !.row = r, !.pos = 1])
         \/ ~ (next <= Len(notfullchunks'[my.ctx][row])) /\ r \notin Ranges /\ NextContext(t, my)
  BY DEF CleanVisit
<1>2. /\ TypeOK /\ Cursor(t) /\ my \in Locals /\ my.ctx \in Contexts
      /\ row \in Ranges /\ my.pos \in 1 .. Len(notfullchunks[my.ctx][row])
  BY <1>1, ThreadFacts DEF Cursor, Locals
<1>3. /\ notfullchunks[my.ctx] \in [Ranges -> Seq(PoolAddresses)]
      /\ DOMAIN pc = Threads /\ DOMAIN local = Threads
  BY <1>2 DEF TypeOK
<1>4. CASE ~ my.force
  <2>1. CASE NextContext(t, my)
    BY <1>2, <1>4, <2>1, UnforcedNextContext
  <2>2. ASSUME NEW label \in {"c_visit", "c_list"}, NEW locals, ~ locals.force,
               GotoWith(t, label, locals)
        PROVE  ForcedSweep(t)'
    <3>1. pc'[t] = label /\ local'[t] = locals
      BY <1>3, <2>2 DEF GotoWith, Goto
    <3> QED BY <2>2, <3>1 DEF ForcedSweep
  <2>3. CASE GotoWith(t, "c_visit", [my EXCEPT !.pos = next])
    <3> PICK locals : locals = [my EXCEPT !.pos = next]
      OBVIOUS
    <3>1. ~ locals.force
      BY <1>2, <1>4 DEF Locals
    <3>2. GotoWith(t, "c_visit", locals)
      BY <2>3
    <3> QED BY <2>2, <3>1, <3>2
  <2>4. CASE GotoWith(t, "c_list", [my EXCEPT !.row = r, !.pos = 1])
    <3> PICK locals : locals = [my EXCEPT !.row = r, !.pos = 1]
      OBVIOUS
    <3>1. ~ locals.force
      BY <1>2, <1>4 DEF Locals
    <3>2. GotoWith(t, "c_list", locals)
      BY <2>4
    <3> QED BY <2>2, <3>1, <3>2
  <2> QED BY <1>1, <2>1, <2>3, <2>4
<1>5. CASE my.force
  <2>1. /\ \A x \in Contexts : x < my.ctx => NoChunks(notfullchunks[x], Ranges)
        /\ my.pos = 1 /\ NoChunks(notfullchunks[my.ctx], RowsBelow(row)) /\ next = 1
    BY <1>1, <1>5 DEF ForcedSweep
  <2>2. /\ notfullchunks' \in ListFamilies(Contexts)
        /\ \A y \in Contexts : y # my.ctx => notfullchunks'[y] = notfullchunks[y]
        /\ \A q \in Ranges : q # row => notfullchunks'[my.ctx][q] = notfullchunks[my.ctx][q]
    <3>1. /\ my.fs \in Stores /\ chunkRange' = chunkRange
          /\ \/ /\ notfullchunks' = TakeOut(notfullchunks, my.ctx, row, my.pos)
                /\ freeStore' = PushFront(freeStore, my.fs, row, notfullchunks[my.ctx][row][my.pos])
             \/ UNCHANGED <<notfullchunks, freeStore>>
      BY <1>2 DEF CleanVisit, memoryVars, Locals
    <3> QED BY <1>2, <3>1, VisitLists
  <2>3. /\ NoChunks(notfullchunks'[my.ctx], RowsBelow(row))
        /\ \A x \in Contexts : x < my.ctx => NoChunks(notfullchunks'[x], Ranges)
    <3>1. \A q \in RowsBelow(row) : q \in Ranges /\ q # row
      BY <1>2 DEF RowsBelow, Ranges
    <3>2. \A x \in Contexts : x < my.ctx => x # my.ctx
      BY <1>2 DEF Contexts
    <3> QED BY <2>1, <2>2, <3>1, <3>2 DEF NoChunks
  <2>4. CASE next <= Len(notfullchunks'[my.ctx][row])
    <3> PICK locals : locals = [my EXCEPT !.pos = next]
      OBVIOUS
    <3>1. locals.ctx = my.ctx /\ locals.row = row /\ locals.pos = next
      BY <1>2 DEF Locals
    <3>2. pc'[t] = "c_visit" /\ local'[t] = locals
      BY <1>1, <1>3, <2>4 DEF GotoWith, Goto
    <3> QED BY <2>1, <2>3, <3>1, <3>2 DEF ForcedSweep
  <2>5. CASE ~ (next <= Len(notfullchunks'[my.ctx][row]))
    <3>1. notfullchunks'[my.ctx][row] = <<>>
      <4>1. notfullchunks'[my.ctx][row] \in Seq(PoolAddresses)
        BY <1>2, <2>2 DEF ListFamilies
      <4> QED BY <2>1, <2>5, <4>1, HeadTailFacts
    <3>2. row + 1 \in Nat \ {0} /\ row \in Nat
      BY <1>2, SizesAssumption DEF Ranges
    <3>3. ASSUME NEW rows \in SUBSET Ranges,
                 \A q \in rows : q > row => notfullchunks[my.ctx][q] = <<>>
          PROVE  NoChunks(notfullchunks'[my.ctx], rows)
      <4>1. ASSUME NEW q \in rows PROVE notfullchunks'[my.ctx][q] = <<>>
        <5>1. q \in Ranges /\ q \in Nat
          <6>1. q \in Ranges
            OBVIOUS
          <6> QED BY <6>1 DEF Ranges
        <5>2. q < row \/ q = row \/ q > row
          BY <3>2, <5>1
        <5>3. CASE q < row
          BY <2>3, <5>1, <5>3 DEF NoChunks, RowsBelow
        <5>4. CASE q > row
          <6>1. q # row
            BY <3>2, <5>1, <5>4
          <6> QED BY <2>2, <3>3, <5>1, <5>4, <6>1
        <5> QED BY <3>1, <5>2, <5>3, <5>4
      <4> QED BY <4>1 DEF NoChunks
    <3>4. CASE r \in Ranges
      <4> PICK locals : locals = [my EXCEPT !.row = r, !.pos = 1]
        OBVIOUS
      <4>1. locals.ctx = my.ctx /\ locals.row = r /\ locals.pos = 1
        BY <1>2 DEF Locals
      <4>2. pc'[t] = "c_list" /\ local'[t] = locals
        BY <1>1, <1>3, <2>5, <3>4 DEF GotoWith, Goto
      <4>3. NoChunks(notfullchunks'[my.ctx], RowsBelow(r))
        <5>1. \A q \in Ranges : row + 1 <= q /\ q < r => notfullchunks[my.ctx][q] = <<>>
          BY <1>3, <3>2, NextListSkips, Zenon
        <5>2. \A q \in RowsBelow(r) : q > row => notfullchunks[my.ctx][q] = <<>>
          BY <3>2, <5>1, SizesAssumption DEF RowsBelow, Ranges
        <5> QED BY <3>3, <5>2 DEF RowsBelow
      <4> QED BY <2>3, <4>1, <4>2, <4>3 DEF ForcedSweep
    <3>5. CASE r \notin Ranges
      <4>1. NoChunks(notfullchunks'[my.ctx], Ranges)
        <5>1. \A q \in Ranges : row + 1 <= q => notfullchunks[my.ctx][q] = <<>>
          BY <1>3, <3>2, <3>5, NextListNone, Zenon
        <5>2. \A q \in Ranges : q > row => notfullchunks[my.ctx][q] = <<>>
          BY <3>2, <5>1, SizesAssumption DEF Ranges
        <5> QED BY <3>3, <5>2
      <4>2. \A x \in Contexts : x <= my.ctx => x < my.ctx \/ x = my.ctx
        BY <1>2 DEF Contexts
      <4> QED BY <1>1, <1>2, <1>5, <2>3, <2>5, <3>5, <4>1, <4>2, SweepNextContext
    <3> QED BY <3>4, <3>5
  <2> QED BY <2>4, <2>5
<1> QED BY <1>2, <1>4, <1>5 DEF Locals

(* The sweep goes on in its list, to a later list or to the end, with no   *)
(* empty chunk in the lists behind it.                                     *)
LEMMA SweepGoesOn ==
  ASSUME TypeOK, NEW t \in Threads, NEW my \in Locals, my.force, my.row \in Ranges,
         NEW next \in Nat \ {0}, NEW list \in Seq(PoolAddresses), SweepOn(t, my, next, list),
         \A x \in Contexts : NoChunks(notfullchunks'[x], Ranges),
         freeStore' \in ListFamilies(Stores), freeStore'[my.fs][my.row] = list,
         \A q \in Ranges : q # my.row => freeStore'[my.fs][q] = freeStore[my.fs][q],
         NoEmptyChunks(freeStore[my.fs], RowsBelow(my.row)),
         \A i \in 1 .. Len(list) : i < next => ~ empty(list[i]),
         used' = used
  PROVE  ForcedSweep(t)'
<1> PICK lists : lists = freeStore'[my.fs]
  OBVIOUS
<1> PICK row : row = my.row
  OBVIOUS
<1> PICK r : r = NextList(freeStore[my.fs], row + 1)
  OBVIOUS
<1>1. /\ \/ next <= Len(list) /\ GotoWith(t, "c_look", [my EXCEPT !.pos = next])
         \/ /\ ~ (next <= Len(list)) /\ r \in Ranges
            /\ GotoWith(t, "c_look", [my EXCEPT !.row = r, !.pos = 1])
         \/ /\ ~ (next <= Len(list)) /\ r \notin Ranges
            /\ GotoWith(t, "c_delete", [my EXCEPT !.row = 1, !.pos = 1])
  BY DEF SweepOn
<1>2. /\ freeStore[my.fs] \in [Ranges -> Seq(PoolAddresses)]
      /\ DOMAIN pc = Threads /\ DOMAIN local = Threads
      /\ row \in Ranges /\ row \in Nat /\ row + 1 \in Nat \ {0} /\ Len(list) \in Nat
  <2>1. freeStore[my.fs] \in [Ranges -> Seq(PoolAddresses)]
    BY DEF TypeOK, Locals
  <2>2. DOMAIN pc = Threads /\ DOMAIN local = Threads
    BY DEF TypeOK
  <2>3. row \in Ranges /\ row \in Nat /\ row + 1 \in Nat \ {0}
    BY DEF Ranges
  <2> QED BY <2>1, <2>2, <2>3
<1>3. \A c : empty(c)' <=> empty(c)
  BY DEF empty
<1>4. NoEmptyChunks(lists, RowsBelow(row))
  <2>1. \A q \in RowsBelow(row) : q \in Ranges /\ q # row
    BY <1>2 DEF RowsBelow, Ranges
  <2> QED BY <2>1 DEF NoEmptyChunks
<1>5. CASE next <= Len(list)
  <2> PICK locals : locals = [my EXCEPT !.pos = next]
    OBVIOUS
  <2>1. GotoWith(t, "c_look", locals)
    BY <1>1, <1>5
  <2>2. locals.row = row /\ locals.fs = my.fs /\ locals.pos = next
    BY DEF Locals
  <2>3. pc'[t] = "c_look" /\ local'[t] = locals
    BY <1>2, <2>1 DEF GotoWith, Goto
  <2>4. \A i \in 1 .. next - 1 : ~ empty(lists[row][i])
    BY <1>2, <1>5
  <2> QED BY <1>3, <1>4, <2>2, <2>3, <2>4 DEF ForcedSweep, NoEmptyChunks
<1>6. CASE ~ (next <= Len(list))
  <2>1. \A c \in ToSet(lists[row]) : ~ empty(c)
    <3>1. \A i \in 1 .. Len(list) : ~ empty(list[i])
      BY <1>2, <1>6
    <3> QED BY <3>1, ToSetFacts
  <2>2. ASSUME NEW rows \in SUBSET Ranges, \A q \in rows : q > row => freeStore[my.fs][q] = <<>>
        PROVE  NoEmptyChunks(lists, rows)
    <3>1. ASSUME NEW q \in rows, NEW c \in ToSet(lists[q]) PROVE ~ empty(c)
      <4>1. q \in Ranges
        OBVIOUS
      <4>2. q \in Nat
        BY <4>1 DEF Ranges
      <4>3. q < row \/ q = row \/ q > row
        BY <1>2, <4>2
      <4>4. CASE q < row
        BY <1>4, <3>1, <4>1, <4>4 DEF NoEmptyChunks, RowsBelow
      <4>5. CASE q > row
        <5>1. lists[q] = <<>>
          <6>1. q # row
            BY <1>2, <4>2, <4>5
          <6> QED BY <2>2, <4>1, <4>5, <6>1
        <5> QED BY <3>1, <5>1, ToSetFacts DEF ToSet
      <4> QED BY <2>1, <3>1, <4>3, <4>4, <4>5
    <3> QED BY <3>1 DEF NoEmptyChunks
  <2>3. CASE r \in Ranges
    <3> PICK locals : locals = [my EXCEPT !.row = r, !.pos = 1]
      OBVIOUS
    <3>1. GotoWith(t, "c_look", locals)
      BY <1>1, <1>6, <2>3
    <3>2. locals.row = r /\ locals.fs = my.fs /\ locals.pos = 1
      BY DEF Locals
    <3>3. pc'[t] = "c_look" /\ local'[t] = locals
      BY <1>2, <3>1 DEF GotoWith, Goto
    <3>4. NoEmptyChunks(lists, RowsBelow(r))
      <4>1. \A q \in Ranges : row + 1 <= q /\ q < r => freeStore[my.fs][q] = <<>>
        BY <1>2, NextListSkips, Zenon
      <4>2. \A q \in RowsBelow(r) : q > row => freeStore[my.fs][q] = <<>>
        BY <1>2, <4>1 DEF RowsBelow, Ranges
      <4> QED BY <2>2, <4>2 DEF RowsBelow
    <3>5. \A i \in 1 .. 0 : FALSE
      OBVIOUS
    <3> QED BY <1>3, <3>2, <3>3, <3>4, <3>5 DEF ForcedSweep, NoEmptyChunks
  <2>4. CASE r \notin Ranges
    <3> PICK locals : locals = [my EXCEPT !.row = 1, !.pos = 1]
      OBVIOUS
    <3>1. GotoWith(t, "c_delete", locals)
      BY <1>1, <1>6, <2>4
    <3>2. locals.fs = my.fs
      BY DEF Locals
    <3>3. pc'[t] = "c_delete" /\ local'[t] = locals
      BY <1>2, <3>1 DEF GotoWith, Goto
    <3>4. NoEmptyChunks(lists, Ranges)
      <4>1. \A q \in Ranges : row + 1 <= q => freeStore[my.fs][q] = <<>>
        BY <1>2, <2>4, NextListNone, Zenon
      <4>2. \A q \in Ranges : q > row => freeStore[my.fs][q] = <<>>
        BY <1>2, <4>1 DEF Ranges
      <4> QED BY <2>2, <4>2
    <3> QED BY <1>3, <3>2, <3>3, <3>4 DEF ForcedSweep, NoEmptyChunks
  <2> QED BY <2>3, <2>4
<1> QED BY <1>5, <1>6

(* A sweep that is not forced promises nothing.                            *)
LEMMA UnforcedSweepOn ==
  ASSUME TypeOK, NEW t \in Threads, NEW my \in Locals, ~ my.force,
         NEW next, NEW list, SweepOn(t, my, next, list)
  PROVE  ForcedSweep(t)'
<1>1. DOMAIN pc = Threads /\ DOMAIN local = Threads
  BY DEF TypeOK
<1>2. ASSUME NEW label \in {"c_look", "c_delete"}, NEW locals, ~ locals.force, GotoWith(t, label, locals)
      PROVE  ForcedSweep(t)'
  <2>1. pc'[t] = label /\ local'[t] = locals
    BY <1>1, <1>2 DEF GotoWith, Goto
  <2> QED BY <1>2, <2>1 DEF ForcedSweep
<1>3. ASSUME NEW label \in {"c_look", "c_delete"}, NEW q, NEW k,
             GotoWith(t, label, [my EXCEPT !.row = q, !.pos = k])
      PROVE  ForcedSweep(t)'
  <2> PICK locals : locals = [my EXCEPT !.row = q, !.pos = k]
    OBVIOUS
  <2>1. ~ locals.force
    BY DEF Locals
  <2>2. GotoWith(t, label, locals)
    BY <1>3
  <2> QED BY <1>2, <2>1, <2>2
<1>4. CASE GotoWith(t, "c_look", [my EXCEPT !.pos = next])
  <2> PICK locals : locals = [my EXCEPT !.pos = next]
    OBVIOUS
  <2>1. ~ locals.force
    BY DEF Locals
  <2>2. GotoWith(t, "c_look", locals)
    BY <1>4
  <2> QED BY <1>2, <2>1, <2>2
<1> QED BY <1>3, <1>4 DEF SweepOn

(* The sweep starts at the first list that has a chunk.                    *)
LEMMA SweepLockSweep ==
  ASSUME IndInv, NEW t \in Threads, ForcedSweep(t), CleanLockSweep(t)
  PROVE  ForcedSweep(t)'
<1> PICK my : my = local[t]
  OBVIOUS
<1> PICK r : r = NextList(freeStore[my.fs], 1)
  OBVIOUS
<1>1. /\ pc[t] = "c_sweep"
      /\ \/ r \in Ranges /\ GotoWith(t, "c_look", [my EXCEPT !.row = r])
         \/ r \notin Ranges /\ Goto(t, "c_delete") /\ local' = local
      /\ notfullchunks' = notfullchunks /\ freeStore' = freeStore /\ used' = used
  BY DEF CleanLockSweep, listVars, memoryVars
<1>2. TypeOK /\ my \in Locals /\ my.fs \in Stores /\ my.pos = 1
  BY <1>1, ThreadFacts DEF Cursor, Locals
<1>3. /\ freeStore[my.fs] \in [Ranges -> Seq(PoolAddresses)]
      /\ DOMAIN pc = Threads /\ DOMAIN local = Threads
  BY <1>2 DEF TypeOK
<1>4. \A c : empty(c)' <=> empty(c)
  BY <1>1 DEF empty
<1>5. ToSet(<<>>) = {}
  BY ToSetFacts, EmptySeq
<1>6. CASE r \in Ranges
  <2> PICK locals : locals = [my EXCEPT !.row = r]
    OBVIOUS
  <2>1. locals.row = r /\ locals.pos = 1 /\ locals.fs = my.fs /\ locals.force = my.force
    BY <1>2 DEF Locals
  <2>2. GotoWith(t, "c_look", locals)
    BY <1>1, <1>6
  <2>3. pc'[t] = "c_look" /\ local'[t] = locals
    BY <1>3, <2>2 DEF GotoWith, Goto
  <2>4. NoEmptyChunks(freeStore[my.fs], RowsBelow(r))
    <3>1. \A q \in Ranges : 1 <= q /\ q < r => freeStore[my.fs][q] = <<>>
      BY <1>3, 1 \in Nat \ {0}, NextListSkips, Zenon
    <3> QED BY <1>5, <3>1 DEF NoEmptyChunks, RowsBelow, Ranges
  <2>5. \A i \in 1 .. 0 : FALSE
    OBVIOUS
  <2>6. my.force => \A x \in Contexts : NoChunks(notfullchunks[x], Ranges)
    BY <1>1 DEF ForcedSweep
  <2> QED BY <1>1, <1>4, <2>1, <2>3, <2>4, <2>5, <2>6 DEF ForcedSweep, NoEmptyChunks
<1>7. CASE r \notin Ranges
  <2>1. NoEmptyChunks(freeStore[my.fs], Ranges)
    <3>1. NextList(freeStore[my.fs], 1) \notin Ranges
      BY <1>7
    <3>2. \A q \in Ranges : 1 <= q => freeStore[my.fs][q] = <<>>
      BY <1>3, <3>1, 1 \in Nat \ {0}, NextListNone, Zenon
    <3> QED BY <1>5, <3>2 DEF NoEmptyChunks, Ranges
  <2>2. pc'[t] = "c_delete" /\ local'[t] = my
    BY <1>1, <1>3, <1>7 DEF Goto
  <2>3. my.force => \A x \in Contexts : NoChunks(notfullchunks[x], Ranges)
    BY <1>1 DEF ForcedSweep
  <2> QED BY <1>1, <1>4, <2>1, <2>2, <2>3 DEF ForcedSweep, NoEmptyChunks
<1> QED BY <1>6, <1>7

(* A chunk the sweep leaves in its list is not empty.                      *)
LEMMA SweepLook ==
  ASSUME IndInv, NEW t \in Threads, ForcedSweep(t), CleanLook(t)
  PROVE  ForcedSweep(t)'
<1> PICK my : my = local[t]
  OBVIOUS
<1> PICK list : list = freeStore[my.fs][my.row]
  OBVIOUS
<1>1. /\ pc[t] = "c_look"
      /\ \/ Goto(t, "c_drop") /\ local' = local
         \/ ~ empty(list[my.pos]) /\ SweepOn(t, my, my.pos + 1, list)
      /\ notfullchunks' = notfullchunks /\ freeStore' = freeStore /\ used' = used
  BY DEF CleanLook, MayDelete, listVars, memoryVars
<1>2. /\ TypeOK /\ my \in Locals /\ my.fs \in Stores /\ my.row \in Ranges /\ my.pos \in 1 .. Len(list)
      /\ freeStore \in ListFamilies(Stores) /\ list \in Seq(PoolAddresses)
  <2>1. TypeOK /\ my \in Locals /\ my.fs \in Stores /\ my.row \in Ranges /\ my.pos \in 1 .. Len(list)
    BY <1>1, ThreadFacts DEF Cursor, Locals
  <2>2. freeStore \in ListFamilies(Stores)
    BY InvFacts
  <2> QED BY <2>1, <2>2 DEF ListFamilies
<1>3. CASE Goto(t, "c_drop") /\ local' = local
  <2>1. pc'[t] = "c_drop" /\ local'[t] = my
    BY <1>2, <1>3 DEF Goto, TypeOK
  <2>2. \A c : empty(c)' <=> empty(c)
    BY <1>1 DEF empty
  <2> QED BY <1>1, <2>1, <2>2 DEF ForcedSweep, NoEmptyChunks
<1>4. CASE ~ empty(list[my.pos]) /\ SweepOn(t, my, my.pos + 1, list)
  <2>1. CASE my.force
    <3>1. /\ \A x \in Contexts : NoChunks(notfullchunks'[x], Ranges)
          /\ NoEmptyChunks(freeStore[my.fs], RowsBelow(my.row))
          /\ \A i \in 1 .. my.pos - 1 : ~ empty(list[i])
      BY <1>1, <2>1 DEF ForcedSweep
    <3>2. \A i \in 1 .. Len(list) : i < my.pos + 1 => ~ empty(list[i])
      <4>1. \A i \in 1 .. Len(list) : i < my.pos + 1 => i \in 1 .. my.pos - 1 \/ i = my.pos
        BY <1>2
      <4> QED BY <1>4, <3>1, <4>1
    <3>3. PICK next : next = my.pos + 1
      OBVIOUS
    <3>4. next \in Nat \ {0} /\ SweepOn(t, my, next, list) /\ \A i \in 1 .. Len(list) : i < next => ~ empty(list[i])
      BY <1>2, <1>4, <3>2, <3>3
    <3>5. freeStore' \in ListFamilies(Stores) /\ freeStore'[my.fs][my.row] = list
      BY <1>1, <1>2
    <3>6. \A q \in Ranges : q # my.row => freeStore'[my.fs][q] = freeStore[my.fs][q]
      BY <1>1
    <3> QED BY <1>1, <1>2, <2>1, <3>1, <3>4, <3>5, <3>6, SweepGoesOn
  <2>2. CASE ~ my.force
    BY <1>2, <1>4, <2>2, UnforcedSweepOn
  <2> QED BY <1>2, <2>1, <2>2 DEF Locals
<1> QED BY <1>1, <1>3, <1>4

(* A chunk the sweep takes out makes room for the next one.                *)
LEMMA SweepDrop ==
  ASSUME IndInv, NEW t \in Threads, ForcedSweep(t), CleanDrop(t)
  PROVE  ForcedSweep(t)'
<1> PICK was : was = local[t]
  OBVIOUS
<1> PICK row : row = was.row
  OBVIOUS
<1> PICK k : k = was.pos
  OBVIOUS
<1> PICK fs : fs = was.fs
  OBVIOUS
<1> PICK doomed : doomed = Cons(freeStore[fs][row][k], was.toDelete)
  OBVIOUS
<1>1. PICK my : my = [was EXCEPT !.toDelete = doomed]
  OBVIOUS
<1>2. PICK list : list = freeStore'[fs][row]
  OBVIOUS
<1>3. /\ pc[t] = "c_drop"
      /\ freeStore' = TakeOut(freeStore, fs, row, k)
      /\ SweepOn(t, my, k, list)
      /\ notfullchunks' = notfullchunks /\ used' = used
  BY <1>1, <1>2 DEF CleanDrop, memoryVars
<1>4. /\ TypeOK /\ was \in Locals /\ fs \in Stores /\ row \in Ranges /\ k \in 1 .. Len(freeStore[fs][row])
      /\ freeStore \in ListFamilies(Stores) /\ Once(freeStore) /\ was.toDelete \in Seq(PoolAddresses)
      /\ freeStore[fs][row] \in Seq(PoolAddresses)
  <2>1. /\ TypeOK /\ was \in Locals /\ fs \in Stores /\ row \in Ranges /\ k \in 1 .. Len(freeStore[fs][row])
        /\ was.toDelete \in Seq(PoolAddresses)
    BY <1>3, ThreadFacts DEF Cursor, Locals
  <2>2. freeStore \in ListFamilies(Stores) /\ Once(freeStore)
    BY InvFacts DEF ListPlaceInv
  <2> QED BY <2>1, <2>2 DEF ListFamilies
<1>5. Taken(Stores, freeStore, freeStore', fs, row, k, freeStore[fs][row][k])
  <2>1. Taken(Stores, freeStore, TakeOut(freeStore, fs, row, k), fs, row, k, freeStore[fs][row][k])
    BY <1>4, TakeOutFacts, Zenon
  <2> QED BY <1>3, <2>1
<1>6. /\ freeStore' \in ListFamilies(Stores)
      /\ list = RemoveAt(freeStore[fs][row], k)
      /\ Len(list) = Len(freeStore[fs][row]) - 1
      /\ \A q \in Ranges : q # row => freeStore'[fs][q] = freeStore[fs][q]
      /\ freeStore[fs][row][k] \in PoolAddresses
      /\ list \in Seq(PoolAddresses)
  <2>1. /\ freeStore' \in ListFamilies(Stores)
        /\ freeStore'[fs][row] = RemoveAt(freeStore[fs][row], k)
        /\ Len(freeStore'[fs][row]) = Len(freeStore[fs][row]) - 1
        /\ \A y \in Stores, q \in Ranges : ~ (y = fs /\ q = row) => freeStore'[y][q] = freeStore[y][q]
        /\ freeStore[fs][row][k] \in PoolAddresses
    BY <1>5, Zenon DEF Taken
  <2>2. list \in Seq(PoolAddresses)
    BY <1>4, <1>2, <2>1 DEF ListFamilies
  <2> QED BY <1>4, <1>2, <2>1, <2>2
<1>7. my \in Locals /\ my.row = row /\ my.fs = fs /\ my.force = was.force
  <2>1. doomed \in Seq(PoolAddresses)
    BY <1>4, <1>6, ConsFacts
  <2> QED BY <1>4, <1>1, <2>1 DEF Locals
<1>8. CASE was.force
  <2>1. /\ \A x \in Contexts : NoChunks(notfullchunks'[x], Ranges)
        /\ NoEmptyChunks(freeStore[fs], RowsBelow(row))
        /\ \A i \in 1 .. k - 1 : ~ empty(freeStore[fs][row][i])
    BY <1>3, <1>8 DEF ForcedSweep
  <2>2. \A i \in 1 .. Len(list) : i < k => ~ empty(list[i])
    <3>1. ASSUME NEW i \in 1 .. Len(list), i < k PROVE ~ empty(list[i])
      <4>1. i \in 1 .. k - 1
        BY <1>4, <3>1
      <4>2. list[i] = freeStore[fs][row][i]
        BY <1>4, <1>6, <4>1, RemoveAtKeeps
      <4> QED BY <2>1, <4>1, <4>2
    <3> QED BY <3>1
  <2>3. k \in Nat \ {0} /\ freeStore'[my.fs][my.row] = list
    BY <1>4, <1>7, <1>2
  <2>4. \A q \in Ranges : q # my.row => freeStore'[my.fs][q] = freeStore[my.fs][q]
    BY <1>6, <1>7
  <2>5. NoEmptyChunks(freeStore[my.fs], RowsBelow(my.row)) /\ my.force /\ my.row \in Ranges
    BY <1>4, <1>7, <1>8, <2>1
  <2> QED BY <1>3, <1>4, <1>6, <1>7, <2>1, <2>2, <2>3, <2>4, <2>5, SweepGoesOn
<1>9. CASE ~ was.force
  BY <1>3, <1>4, <1>7, <1>9, UnforcedSweepOn
<1> QED BY <1>4, <1>8, <1>9 DEF Locals

(* The chunks destroyed are in no list.                                    *)
LEMMA SweepDelete ==
  ASSUME IndInv, NEW t \in Threads, ForcedSweep(t), CleanDelete(t)
  PROVE  ForcedSweep(t)'
<1> PICK my : my = local[t]
  OBVIOUS
<1> PICK c : c = Head(my.toDelete)
  OBVIOUS
<1>1. /\ pc[t] = "c_delete" /\ pc'[t] = "c_delete" /\ my.toDelete # <<>>
      /\ used' = [used EXCEPT ![c] = {}]
      /\ local' = [local EXCEPT ![t].toDelete = Tail(@)]
      /\ notfullchunks' = notfullchunks /\ freeStore' = freeStore
  BY DEF CleanDelete, listVars
<1>2. /\ my \in Locals /\ my.fs \in Stores /\ my.toDelete \in Seq(PoolAddresses)
      /\ local \in [Threads -> Locals] /\ used \in [PoolAddresses -> SUBSET Nat]
      /\ freeStore \in ListFamilies(Stores)
  BY ThreadFacts, InvFacts DEF Locals, TypeOK
<1>3. local'[t].force = my.force /\ local'[t].fs = my.fs
  BY <1>1, <1>2 DEF Locals
<1>4. c \in DoomedBy(t)
  BY <1>1, <1>2, HeadTailFacts DEF DoomedBy
<1>5. \A r \in Ranges : c \notin ToSet(freeStore[my.fs][r])
  BY <1>2, <1>4, InvFacts, HeldIn DEF ThreadPlaceInv, Listed
<1>6. ASSUME NEW d, d # c, ~ empty(d) PROVE ~ empty(d)'
  BY <1>1, <1>2, <1>6 DEF empty
<1>7. CASE my.force
  <2>1. /\ \A x \in Contexts : NoChunks(notfullchunks[x], Ranges)
        /\ NoEmptyChunks(freeStore[my.fs], Ranges)
    BY <1>1, <1>7 DEF ForcedSweep
  <2>2. \A r \in Ranges : \A d \in ToSet(freeStore[my.fs][r]) : ~ empty(d)'
    BY <1>5, <1>6, <2>1 DEF NoEmptyChunks
  <2> QED BY <1>1, <1>3, <2>1, <2>2 DEF ForcedSweep, NoEmptyChunks
<1>8. CASE ~ my.force
  BY <1>1, <1>3, <1>8 DEF ForcedSweep
<1> QED BY <1>2, <1>7, <1>8 DEF Locals

(* clean's test leads from its beginning to the first context.             *)
LEMMA SweepTest ==
  ASSUME IndInv, NEW t \in Threads, ForcedSweep(t), CleanTest(t)
  PROVE  ForcedSweep(t)'
<1> PICK my : my = local[t]
  OBVIOUS
<1>1. TypeOK /\ my \in Locals /\ DOMAIN pc = Threads /\ DOMAIN local = Threads
  BY ThreadFacts DEF TypeOK
<1>2. my.ctx = 0
  BY DEF CleanTest, ForcedSweep
<1>3. ASSUME NEW label \in {"c_softcount", "c_hard", "c_hardcount"}, Goto(t, label), UNCHANGED local
      PROVE  ForcedSweep(t)'
  <2>1. pc'[t] = label /\ local'[t] = my
    BY <1>1, <1>3 DEF Goto
  <2> QED BY <1>2, <1>3, <2>1, SweepElsewhere
<1>4. CASE CleanLeave(t)
  <2>1. pc'[t] = "idle"
    BY <1>1, <1>4 DEF CleanLeave, Return, GotoWith, Goto
  <2> QED BY <2>1, SweepElsewhere
<1>5. CASE CleanStart(t)
  <2> PICK force : force = (my.force \/ (cleanCounter + 1) % ForcePeriod = 0)
    OBVIOUS
  <2> PICK label : label = IF CleansContexts(force, (cleanCounter + 1) % ForcePeriod) THEN "c_context" ELSE "c_sweep"
    OBVIOUS
  <2>1. PICK locals : locals = [my EXCEPT !.force = force]
    OBVIOUS
  <2>2. GotoWith(t, label, locals)
    BY <1>5, <2>1 DEF CleanStart
  <2>3. pc'[t] = label /\ local'[t] = locals
    BY <1>1, <2>2 DEF GotoWith, Goto
  <2>4. locals.ctx = 0 /\ locals.force = force
    BY <1>1, <1>2, <2>1 DEF Locals
  <2>5. CASE force
    <3>1. label = "c_context"
      BY <2>5 DEF CleansContexts
    <3>2. \A x \in Contexts : ~ (x < 0)
      BY DEF Contexts
    <3> QED BY <2>3, <2>4, <3>1, <3>2 DEF ForcedSweep
  <2>6. CASE ~ force
    BY <2>3, <2>4, <2>6 DEF ForcedSweep
  <2> QED BY <2>5, <2>6
<1> QED BY <1>3, <1>4, <1>5 DEF CleanTest

(* A call that begins reads and writes no list and no chunk.               *)
LEMMA CallsBegin ==
  ASSUME IndInv, NEW u \in Threads, Call(u)
  PROVE  /\ UNCHANGED <<used, notfullchunks, freeStore>>
         /\ Others(u)
         /\ pc'[u] \in {"a_context", "d_find", "g_find", "c_try"}
         /\ pc'[u] = "c_try" => local'[u].ctx = 0
<1>1. DOMAIN pc = Threads /\ DOMAIN local = Threads
  BY ThreadFacts DEF TypeOK
<1>2. ASSUME NEW label, NEW locals, GotoWith(u, label, locals)
      PROVE  Others(u) /\ pc'[u] = label /\ local'[u] = locals
  BY <1>1, <1>2 DEF GotoWith, Goto, Others
<1>3. ASSUME NEW size \in Sizes, NEW id \in IDs(u), Alloc(u, size, id)
      PROVE  /\ UNCHANGED <<used, notfullchunks, freeStore>> /\ Others(u) /\ pc'[u] = "a_context"
  BY <1>2, <1>3 DEF Alloc, memoryVars, listVars
<1>4. ASSUME NEW buffer \in live, NEW id \in IDs(u), Dealloc(u, buffer, id)
      PROVE  /\ UNCHANGED <<used, notfullchunks, freeStore>> /\ Others(u) /\ pc'[u] = "d_find"
  BY <1>2, <1>4 DEF Dealloc, memoryVars, listVars
<1>5. ASSUME NEW buffer \in live, GetInfo(u, buffer)
      PROVE  /\ UNCHANGED <<used, notfullchunks, freeStore>> /\ Others(u) /\ pc'[u] = "g_find"
  BY <1>2, <1>5 DEF GetInfo, memoryVars, listVars
<1>6. ASSUME NEW force \in BOOLEAN, NEW id \in IDs(u), Clean(u, force, id)
      PROVE  /\ UNCHANGED <<used, notfullchunks, freeStore>> /\ Others(u) /\ pc'[u] = "c_try"
             /\ local'[u].ctx = 0
  <2>1. CleanLocals(force, id).ctx = 0
    BY DEF CleanLocals, NoLocals
  <2> QED BY <1>2, <1>6, <2>1 DEF Clean, memoryVars, listVars
<1> QED BY <1>3, <1>4, <1>5, <1>6 DEF Call

(* The steps of t, one by one.                                             *)
LEMMA SweepOwnStep ==
  ASSUME IndInv, NEW t \in Threads, ForcedSweep(t), Step(t)
  PROVE  ForcedSweep(t)'
<1>1. DOMAIN pc = Threads /\ DOMAIN local = Threads
  BY ThreadFacts DEF TypeOK
<1>2. ASSUME NEW label, Goto(t, label),
             label \notin {"c_context", "c_list", "c_visit", "c_sweep", "c_look", "c_drop", "c_delete",
                           "c_try", "c_soft", "c_softcount", "c_hard", "c_hardcount"}
      PROVE  ForcedSweep(t)'
  <2>1. pc'[t] = label
    BY <1>1, <1>2 DEF Goto
  <2> QED BY <1>2, <2>1, SweepElsewhere
<1>3. ASSUME NEW label, NEW locals, GotoWith(t, label, locals),
             label \notin {"c_context", "c_list", "c_visit", "c_sweep", "c_look", "c_drop", "c_delete",
                           "c_try", "c_soft", "c_softcount", "c_hard", "c_hardcount"}
      PROVE  ForcedSweep(t)'
  BY <1>2, <1>3 DEF GotoWith
<1>4. Return(t) => ForcedSweep(t)'
  BY <1>3 DEF Return
<1>5. CallClean(t) => ForcedSweep(t)'
  <2>1. CleanLocals(FALSE, ThreadHash[t]).ctx = 0
    BY DEF CleanLocals, NoLocals
  <2> SUFFICES ASSUME CallClean(t) PROVE ForcedSweep(t)'
    OBVIOUS
  <2>2. pc'[t] = "c_try" /\ local'[t] = CleanLocals(FALSE, ThreadHash[t])
    BY <1>1 DEF CallClean, GotoWith, Goto
  <2> QED BY <2>1, <2>2, SweepElsewhere
<1>6. ASSUME NEW c, NEW ptr, AllocEnd(t, c, ptr) PROVE ForcedSweep(t)'
  BY <1>3, <1>4, <1>6 DEF AllocEnd
<1>7. \A label \in {"a_listed", "a_store", "a_spliced", "a_new", "a_fresh", "a_null", "d_size", "d_store"} :
         \A locals : GotoWith(t, label, locals) => ForcedSweep(t)'
  BY <1>3
<1>8. /\ \A locals : GotoWith(t, "a_listed", locals) => ForcedSweep(t)'
      /\ \A locals : GotoWith(t, "a_store", locals) => ForcedSweep(t)'
      /\ \A locals : GotoWith(t, "a_spliced", locals) => ForcedSweep(t)'
      /\ \A locals : GotoWith(t, "a_new", locals) => ForcedSweep(t)'
      /\ \A locals : GotoWith(t, "a_fresh", locals) => ForcedSweep(t)'
      /\ \A locals : GotoWith(t, "a_null", locals) => ForcedSweep(t)'
      /\ \A locals : GotoWith(t, "d_size", locals) => ForcedSweep(t)'
      /\ \A locals : GotoWith(t, "d_store", locals) => ForcedSweep(t)'
  BY <1>7
<1>9. (Goto(t, "d_count") => ForcedSweep(t)') /\ (Goto(t, "d_store") => ForcedSweep(t)')
  BY <1>2
<1>10. /\ AllocLockContext(t) => ForcedSweep(t)'
       /\ AllocFromStore(t) => ForcedSweep(t)'
       /\ AllocCreateChunk(t) => ForcedSweep(t)'
       /\ AllocPoolExhausted(t) => ForcedSweep(t)'
       /\ AllocThrow(t) => ForcedSweep(t)'
  BY <1>4, <1>8, Zenon DEF AllocLockContext, AllocFromStore, AllocCreateChunk, AllocPoolExhausted, AllocThrow
<1>11. /\ AllocFromListed(t) => ForcedSweep(t)'
       /\ AllocFromSpliced(t) => ForcedSweep(t)'
       /\ AllocFromFresh(t) => ForcedSweep(t)'
       /\ AllocCount(t) => ForcedSweep(t)'
  BY <1>4, <1>6 DEF AllocFromListed, AllocFromSpliced, AllocFromFresh, AllocCount
<1>12. SearchMiss(t) => ForcedSweep(t)'
  <2> SUFFICES ASSUME SearchMiss(t) PROVE ForcedSweep(t)'
    OBVIOUS
  <2>1. Return(t) \/ \E locals : GotoWith(t, pc[t], locals)
    BY DEF SearchMiss
  <2>2. pc[t] = "d_find" \/ pc[t] = "g_find"
    BY DEF SearchMiss
  <2> QED BY <1>3, <1>4, <2>1, <2>2
<1>13. /\ GetInfoHit(t) => ForcedSweep(t)'
       /\ DeallocSize(t) => ForcedSweep(t)'
       /\ DeallocCount(t) => ForcedSweep(t)'
       /\ DeallocStore(t) => ForcedSweep(t)'
  <2>1. GetInfoHit(t) => ForcedSweep(t)'
    BY <1>4, Zenon DEF GetInfoHit
  <2>2. DeallocSize(t) => ForcedSweep(t)'
    BY <1>9, Zenon DEF DeallocSize
  <2>3. DeallocCount(t) => ForcedSweep(t)'
    BY <1>5, <1>9, Zenon DEF DeallocCount
  <2>4. DeallocStore(t) => ForcedSweep(t)'
    BY <1>4, <1>5, Zenon DEF DeallocStore
  <2> QED BY <2>1, <2>2, <2>3, <2>4
<1>14. DeallocHit(t) => ForcedSweep(t)'
  <2> SUFFICES ASSUME DeallocHit(t) PROVE ForcedSweep(t)'
    OBVIOUS
  <2>1. \/ \E locals : GotoWith(t, "d_size", locals)
        \/ \E locals : GotoWith(t, "d_store", locals)
        \/ Return(t)
    BY Zenon DEF DeallocHit
  <2> QED BY <1>4, <1>8, <2>1
<1>15. CleanTryLock(t) => ForcedSweep(t)'
  <2> SUFFICES ASSUME pc[t] = "c_try", Goto(t, "c_soft"), UNCHANGED local PROVE ForcedSweep(t)'
    BY <1>4 DEF CleanTryLock
  <2>1. pc'[t] = "c_soft" /\ local'[t] = local[t]
    BY <1>1 DEF Goto
  <2> QED BY <2>1, SweepElsewhere DEF ForcedSweep
<1>16. CleanEnd(t) => ForcedSweep(t)'
  BY <1>4 DEF CleanEnd, CleanLeave
<1>17. /\ CleanTest(t) => ForcedSweep(t)'
       /\ CleanLockContext(t) => ForcedSweep(t)'
       /\ CleanLockStore(t) => ForcedSweep(t)'
       /\ CleanVisit(t) => ForcedSweep(t)'
  BY SweepTest, SweepLockContext, SweepLockStore, SweepVisit
<1>18. /\ CleanLockSweep(t) => ForcedSweep(t)'
       /\ CleanLook(t) => ForcedSweep(t)'
       /\ CleanDrop(t) => ForcedSweep(t)'
       /\ CleanDelete(t) => ForcedSweep(t)'
  BY SweepLockSweep, SweepLook, SweepDrop, SweepDelete
<1> QED BY <1>10, <1>11, <1>12, <1>13, <1>15, <1>16, <1>14, <1>17, <1>18, Zenon DEF Step

(* A thread that has called nothing takes no step.                         *)
LEMMA IdleWaits ==
  ASSUME NEW u \in Threads, Step(u)
  PROVE  pc[u] # "idle"
BY DEF Step, AllocLockContext, AllocFromStore, AllocCreateChunk, AllocPoolExhausted, AllocThrow,
       AllocFromListed, AllocFromSpliced, AllocFromFresh, AllocCount, SearchMiss, GetInfoHit,
       DeallocHit, DeallocSize, DeallocCount, DeallocStore, CleanTryLock, CleanTest, CleanLockContext,
       CleanLockStore, CleanVisit, CleanLockSweep, CleanLook, CleanDrop, CleanDelete, CleanEnd

(* While no other thread is at work, nothing t has swept fills up again.   *)
LEMMA SweepStep ==
  ASSUME IndInv, NEW t \in Threads, ForcedSweep(t),
         \A u \in Threads \ {t} : pc[u] = "idle", [Next]_vars
  PROVE  ForcedSweep(t)'
<1>1. CASE UNCHANGED vars
  BY <1>1, SweepKept DEF vars, memoryVars, listVars
<1>2. ASSUME NEW u \in Threads, Call(u) PROVE ForcedSweep(t)'
  <2>1. /\ UNCHANGED <<used, notfullchunks, freeStore>> /\ Others(u)
        /\ pc'[u] \in {"a_context", "d_find", "g_find", "c_try"}
        /\ pc'[u] = "c_try" => local'[u].ctx = 0
    BY <1>2, CallsBegin
  <2>2. CASE u = t
    BY <2>1, <2>2, SweepElsewhere
  <2>3. CASE u # t
    BY <2>1, <2>3, SweepKept DEF Others
  <2> QED BY <2>2, <2>3
<1>3. ASSUME NEW u \in Threads, Step(u) PROVE ForcedSweep(t)'
  <2>1. u = t
    BY <1>3, IdleWaits
  <2> QED BY <1>3, <2>1, SweepOwnStep
<1> QED BY <1>1, <1>2, <1>3 DEF Next

(* At the end of a forced clean that ran alone, an empty chunk is in the   *)
(* list of a store it did not sweep.                                       *)
LEMMA SweptStores ==
  ASSUME IndInv, NEW t \in Threads, ForcedSweep(t), \A u \in Threads \ {t} : pc[u] = "idle",
         pc[t] = "c_delete", local[t].force, local[t].toDelete = <<>>
  PROVE  \A c \in EmptyChunks : \E x \in Stores \ {local[t].fs}, r \in Ranges : c \in ToSet(freeStore[x][r])
<1> SUFFICES ASSUME NEW c \in EmptyChunks
             PROVE  \E x \in Stores \ {local[t].fs}, r \in Ranges : c \in ToSet(freeStore[x][r])
  OBVIOUS
<1>1. c \in Mapped /\ empty(c) /\ c \in PoolAddresses
  BY InvFacts DEF EmptyChunks
<1>2. \A u \in Threads : c \notin SplicedBy(u)
  BY DEF SplicedBy
<1>3. \A u \in Threads : c \notin DoomedBy(u)
  <2>1. \A u \in Threads : local[u].toDelete = <<>>
    BY ThreadFacts
  <2> QED BY <2>1 DEF DoomedBy, ToSet
<1>4. c \notin freelistNode
  <2>1. ~ full(c)
    <3>1. chunkRange[c] \in Ranges
      BY <1>1, InvFacts
    <3>2. ElPerChunk[chunkRange[c]] \in Nat \ {0}
      BY <3>1, SizesAssumption
    <3>3. 0 \in Slots(c)
      BY <3>2 DEF Slots
    <3> QED BY <1>1, <3>3 DEF full, empty
  <2>2. \A u \in Threads : u \notin Listing(c)
    BY DEF Listing
  <2> QED BY <2>1, <2>2, InvFacts DEF RoomInv
<1>5. c \in Held(notfullchunks) \/ c \in Held(freeStore)
  BY <1>1, <1>2, <1>3, <1>4, InvFacts DEF ThreadPlaceInv, Listed
<1>6. c \notin Held(notfullchunks)
  <2>1. \A x \in Contexts, r \in Ranges : notfullchunks[x][r] = <<>>
    BY DEF ForcedSweep, NoChunks
  <2>2. \A x \in Contexts, r \in Ranges : c \notin ToSet(notfullchunks[x][r])
    BY <2>1 DEF ToSet
  <2> QED BY <2>2, InvFacts, HeldIn
<1>7. PICK x \in Stores, r \in Ranges : c \in ToSet(freeStore[x][r])
  BY <1>5, <1>6, InvFacts, HeldIn
<1>8. x # local[t].fs
  BY <1>1, <1>7 DEF ForcedSweep, NoEmptyChunks
<1> QED BY <1>7, <1>8

(* A forced clean gives back every empty chunk that is not in the list of  *)
(* another store, whatever the threads have done before it is called, if   *)
(* the others do nothing from then on.                                     *)
THEOREM LoneCleanCorrect ==
  ASSUME NEW t \in Threads
  PROVE  /\ IndInv /\ pc[t] = "idle" /\ [][Next]_vars
         /\ [](\A u \in Threads \ {t} : pc[u] = "idle")
         => []((pc[t] = "c_delete" /\ local[t].force /\ local[t].toDelete = <<>>) =>
               \A c \in EmptyChunks :
                 \E x \in Stores \ {local[t].fs}, r \in Ranges : c \in ToSet(freeStore[x][r]))
<1> DEFINE OthersIdle == \A u \in Threads \ {t} : pc[u] = "idle"
           Done == pc[t] = "c_delete" /\ local[t].force /\ local[t].toDelete = <<>> =>
                     \A c \in EmptyChunks :
                       \E x \in Stores \ {local[t].fs}, r \in Ranges : c \in ToSet(freeStore[x][r])
<1>1. pc[t] = "idle" => ForcedSweep(t)
  BY DEF ForcedSweep
<1>2. IndInv /\ ForcedSweep(t) /\ OthersIdle /\ [Next]_vars => IndInv' /\ ForcedSweep(t)'
  BY NextInv, SweepStep
<1>3. IndInv /\ ForcedSweep(t) /\ OthersIdle => Done
  BY SweptStores
<1> HIDE DEF OthersIdle, Done
<1>4. IndInv /\ pc[t] = "idle" /\ [][Next]_vars /\ []OthersIdle => []Done
  BY <1>1, <1>2, <1>3, PTL
<1> QED BY <1>4 DEF OthersIdle, Done

(* With one thread and one store there is nothing else to sweep and nobody *)
(* to wait for: a forced clean leaves no empty chunk.                      *)
THEOREM ForcedCleanCorrect ==
  ASSUME NEW t, Threads = {t}, FreeStoreCount = 1
  PROVE  Spec => []ForcedCleanFreesAll
<1>1. Init => ForcedSweep(t)
  BY DEF Init, ForcedSweep
<1>2. IndInv /\ ForcedSweep(t) /\ [Next]_vars => ForcedSweep(t)'
  BY SweepStep
<1>3. IndInv /\ ForcedSweep(t) => ForcedCleanFreesAll
  <2> SUFFICES ASSUME IndInv, ForcedSweep(t), pc[t] = "c_delete", local[t].force, local[t].toDelete = <<>>
               PROVE  EmptyChunks = {}
    BY DEF ForcedCleanFreesAll
  <2>1. \A c \in EmptyChunks : \E x \in Stores \ {local[t].fs} : TRUE
    BY SweptStores
  <2>2. local[t].fs \in Stores /\ Stores = {0}
    BY ThreadFacts DEF Locals, Stores
  <2> QED BY <2>1, <2>2
<1> QED BY <1>1, <1>2, <1>3, Inductive, PTL DEF Spec

-----------------------------------------------------------------------------
(* The refinement.  Six actions change the chunks; a lemma for each says   *)
(* what it does to them.  FitInv says of every block and every buffer      *)
(* which request it was made for.                                          *)

-----------------------------------------------------------------------------
(* What a step does to its own thread.                                     *)

(* A thread changes nobody's place and nobody's locals but its own.        *)
LEMMA StepIsItsOwn ==
  ASSUME TypeOK, NEW t \in Threads, Call(t) \/ Step(t)
  PROVE  Others(t)
<1> DEFINE Moves == local' = local \/ \E locals : local' = [local EXCEPT ![t] = locals]
<1>1. \A label, locals : GotoWith(t, label, locals) => Moves
  BY DEF GotoWith
<1>2. local' = local => Moves
  OBVIOUS
<1>3. /\ Return(t) => Moves
      /\ CallClean(t) => Moves
      /\ CleanStart(t) => Moves
      /\ \A locals : NextContext(t, locals) => Moves
      /\ \A locals, next, list : SweepOn(t, locals, next, list) => Moves
  BY <1>1, Zenon DEF Return, CallClean, CleanStart, NextContext, SweepOn
<1>4. /\ CleanLeave(t) => Moves
      /\ \A c, ptr : AllocEnd(t, c, ptr) => Moves
  BY <1>1, <1>3, Zenon DEF CleanLeave, AllocEnd
<1> HIDE DEF Moves
<1>5. ASSUME Call(t) PROVE Moves
  BY <1>1, <1>5, Zenon DEF Call, Alloc, Dealloc, GetInfo, Clean
<1>6. ASSUME Step(t) PROVE Moves
  <2>1. /\ AllocLockContext(t) => Moves
        /\ AllocFromStore(t) => Moves
        /\ AllocCreateChunk(t) => Moves
        /\ AllocPoolExhausted(t) => Moves
        /\ AllocThrow(t) => Moves
    BY <1>1, <1>3, Zenon DEF AllocLockContext, AllocFromStore, AllocCreateChunk, AllocPoolExhausted, AllocThrow
  <2>2. /\ AllocFromListed(t) => Moves
        /\ AllocFromSpliced(t) => Moves
        /\ AllocFromFresh(t) => Moves
        /\ AllocCount(t) => Moves
    BY <1>3, <1>4, Zenon DEF AllocFromListed, AllocFromSpliced, AllocFromFresh, AllocCount
  <2>3. /\ SearchMiss(t) => Moves
        /\ GetInfoHit(t) => Moves
        /\ DeallocHit(t) => Moves
        /\ DeallocStore(t) => Moves
    BY <1>1, <1>3, Zenon DEF SearchMiss, GetInfoHit, DeallocHit, DeallocStore
  <2>4. DeallocSize(t) => Moves
    BY <1>2 DEF DeallocSize
  <2>5. DeallocCount(t) => Moves
    BY <1>2, <1>3 DEF DeallocCount
  <2>6. CleanTryLock(t) => Moves
    BY <1>2, <1>3 DEF CleanTryLock
  <2>7. CleanTest(t) => Moves
    <3>1. ASSUME CleanTest(t) PROVE local' = local \/ CleanStart(t) \/ CleanLeave(t)
      BY <3>1 DEF CleanTest
    <3> QED BY <1>2, <1>3, <1>4, <3>1
  <2>8. /\ CleanLockContext(t) => Moves
        /\ CleanVisit(t) => Moves
        /\ CleanDrop(t) => Moves
        /\ CleanEnd(t) => Moves
    BY <1>1, <1>3, <1>4, Zenon DEF CleanLockContext, CleanVisit, CleanDrop, CleanEnd
  <2>9. CleanLockStore(t) => Moves
    BY <1>2 DEF CleanLockStore
  <2>10. CleanLockSweep(t) => Moves
    <3>1. ASSUME CleanLockSweep(t) PROVE local' = local \/ \E label, locals : GotoWith(t, label, locals)
      BY <3>1, Zenon DEF CleanLockSweep
    <3> QED BY <1>1, <1>2, <3>1
  <2>11. CleanLook(t) => Moves
    <3>1. ASSUME CleanLook(t)
          PROVE  local' = local \/ \E locals, next, list : SweepOn(t, locals, next, list)
      BY <3>1, Zenon DEF CleanLook
    <3> QED BY <1>2, <1>3, <3>1
  <2>12. CleanDelete(t) => Moves
    BY DEF CleanDelete, Moves
  <2> QED BY <1>6, <2>1, <2>2, <2>3, <2>4, <2>5, <2>6, <2>7, <2>8, <2>9, <2>10, <2>11, <2>12 DEF Step
<1>7. Moves
  BY <1>5, <1>6
<1>8. pc' = pc \/ \E label : pc' = [pc EXCEPT ![t] = label]
  BY OnlyItself
<1>9. pc \in [Threads -> Places] /\ local \in [Threads -> Locals]
  BY DEF TypeOK
<1> HIDE DEF Places, Locals
<1> QED BY <1>7, <1>8, <1>9 DEF Moves, Others

(* Where the step of t leaves it when it has, or still has, a request.     *)
LEMMA StepsOfRequests ==
  ASSUME TypeOK, NEW t \in Threads, Step(t), pc'[t] \in Requesting
  PROVE  \/ AllocLockContext(t) \/ AllocFromStore(t) \/ AllocCreateChunk(t)
         \/ AllocFromListed(t) \/ AllocFromSpliced(t)
<1> DEFINE Leaves == pc'[t] \notin Requesting
<1>0. pc \in [Threads -> Places]
  BY DEF TypeOK
<1>1. \A label : Goto(t, label) => pc'[t] = label
  <2> HIDE DEF Places
  <2> QED BY <1>0 DEF Goto
<1>2. \A label, locals : GotoWith(t, label, locals) => pc'[t] = label
  BY <1>1 DEF GotoWith
<1>3. /\ Return(t) => Leaves
      /\ CallClean(t) => Leaves
  BY <1>2 DEF Return, CallClean, Requesting
<1>4. CleanStart(t) => Leaves
  BY <1>2 DEF CleanStart, Requesting
<1>5. \A locals : NextContext(t, locals) => Leaves
  BY <1>2 DEF NextContext, Requesting
<1>6. \A locals, next, list : SweepOn(t, locals, next, list) => Leaves
  BY <1>2 DEF SweepOn, Requesting
<1> HIDE DEF Leaves
<1>7. /\ AllocPoolExhausted(t) => Leaves
      /\ AllocThrow(t) => Leaves
      /\ AllocFromFresh(t) => Leaves
      /\ AllocCount(t) => Leaves
  BY <1>2, <1>3 DEF AllocPoolExhausted, AllocThrow, AllocFromFresh, AllocCount, Leaves, Requesting
<1>8. SearchMiss(t) => Leaves
  BY <1>2, <1>3 DEF SearchMiss, Leaves, Requesting
<1>9. GetInfoHit(t) => Leaves
  BY <1>3 DEF GetInfoHit
<1>10. DeallocHit(t) => Leaves
  <2>1. ASSUME DeallocHit(t) PROVE Return(t) \/ \E label \in {"d_size", "d_store"} : \E locals : GotoWith(t, label, locals)
    BY <2>1, Zenon DEF DeallocHit
  <2> QED BY <1>2, <1>3, <2>1 DEF Leaves, Requesting
<1>11. DeallocSize(t) => Leaves
  BY <1>1 DEF DeallocSize, Leaves, Requesting
<1>12. DeallocCount(t) => Leaves
  BY <1>1, <1>3 DEF DeallocCount, Leaves, Requesting
<1>13. DeallocStore(t) => Leaves
  BY <1>3 DEF DeallocStore
<1>14. CleanTryLock(t) => Leaves
  BY <1>1, <1>3 DEF CleanTryLock, Leaves, Requesting
<1>15. CleanTest(t) => Leaves
  BY <1>1, <1>3, <1>4 DEF CleanTest, CleanLeave, Leaves, Requesting
<1>16. CleanLockContext(t) => Leaves
  BY <1>2, <1>5 DEF CleanLockContext, Leaves, Requesting
<1>17. CleanLockStore(t) => Leaves
  BY <1>1 DEF CleanLockStore, Leaves, Requesting
<1>18. CleanVisit(t) => Leaves
  <2>1. ASSUME CleanVisit(t)
        PROVE  (\E label \in {"c_visit", "c_list"} : \E locals : GotoWith(t, label, locals))
               \/ \E locals : NextContext(t, locals)
    BY <2>1, Zenon DEF CleanVisit
  <2> QED BY <1>2, <1>5, <2>1 DEF Leaves, Requesting
<1>19. CleanLockSweep(t) => Leaves
  BY <1>1, <1>2 DEF CleanLockSweep, Leaves, Requesting
<1>20. CleanLook(t) => Leaves
  <2>1. ASSUME CleanLook(t)
        PROVE  Goto(t, "c_drop") \/ \E locals, next, list : SweepOn(t, locals, next, list)
    BY <2>1, Zenon DEF CleanLook
  <2> QED BY <1>1, <1>6, <2>1 DEF Leaves, Requesting
<1>21. CleanDrop(t) => Leaves
  <2>1. ASSUME CleanDrop(t) PROVE \E locals, next, list : SweepOn(t, locals, next, list)
    BY <2>1, Zenon DEF CleanDrop
  <2> QED BY <1>6, <2>1
<1>22. CleanDelete(t) => Leaves
  BY DEF CleanDelete, Leaves, Requesting
<1>23. CleanEnd(t) => Leaves
  BY <1>3 DEF CleanEnd, CleanLeave
<1> QED BY <1>7, <1>8, <1>9, <1>10, <1>11, <1>12, <1>13, <1>14, <1>15, <1>16, <1>17, <1>18, <1>19,
           <1>20, <1>21, <1>22, <1>23 DEF Step, Leaves

-----------------------------------------------------------------------------
(* What the actions that change the chunks do to them.                     *)

(* createNewChunk: one chunk more, empty, in a block no other overlaps.    *)
Created(t, c) ==
  LET row == getSizeRange(local[t].size)
      n   == BlockSize(row, local[t].size)
  IN
  /\ pc[t] = "a_new" /\ pc'[t] = "a_fresh"
  /\ local'[t].ch = c /\ local'[t].size = local[t].size
  /\ c \in PoolAddresses /\ c \notin Mapped /\ Mapped' = Mapped \cup {c}
  /\ chunkRange'[c] = row /\ row \in Ranges /\ memorysize'[c] = n /\ n \in Nat
  /\ \A d \in Mapped : d + memorysize[d] <= c \/ c + n <= d
  /\ \A d \in Mapped : /\ chunkRange'[d] = chunkRange[d] /\ memorysize'[d] = memorysize[d]
                       /\ elSize(d)' = elSize(d)
  /\ used[c] = {} /\ UNCHANGED <<used, memory, live>>

LEMMA CreateEffect ==
  ASSUME IndInv, NEW t \in Threads, AllocCreateChunk(t)
  PROVE  \E c : Created(t, c)
<1> DEFINE my == local[t]
<1> PICK row : row = getSizeRange(my.size)
  OBVIOUS
<1> PICK n : n = BlockSize(row, my.size)
  OBVIOUS
<1>1. PICK c \in PoolAddresses \ Mapped :
        /\ PoolCanPlace(c, n)
        /\ chunkRange' = [chunkRange EXCEPT ![c] = row]
        /\ memorysize' = [memorysize EXCEPT ![c] = n]
        /\ GotoWith(t, "a_fresh", [my EXCEPT !.ch = c])
  BY DEF AllocCreateChunk
<1>2. pc[t] = "a_new" /\ UNCHANGED <<used, memory, live>>
  BY DEF AllocCreateChunk
<1>3. /\ TypeOK /\ ChunkInv /\ my \in Locals /\ my.size \in Nat \ {0} /\ row \in Ranges
      /\ chunkRange \in [PoolAddresses -> Ranges \cup {0}] /\ memorysize \in [PoolAddresses -> Nat]
      /\ pc \in [Threads -> Places] /\ local \in [Threads -> Locals]
  <2>1. my.size > 0 /\ my \in Locals /\ TypeOK /\ ChunkInv
    BY <1>2, ThreadFacts, InvFacts DEF Hand
  <2>2. my.size \in Nat
    <3> HIDE DEF my
    <3> QED BY <2>1 DEF Locals
  <2> QED BY <2>1, <2>2, SizeRangeType DEF TypeOK
<1>4. n \in Nat /\ row # 0
  BY <1>3, NewChunk
<1>5. pc'[t] = "a_fresh" /\ local'[t] = [my EXCEPT !.ch = c]
  <2> HIDE DEF Places, Locals, my
  <2> QED BY <1>1, <1>3 DEF GotoWith, Goto
<1>6. local'[t].ch = c /\ local'[t].size = my.size
  <2> HIDE DEF my
  <2> QED BY <1>3, <1>5 DEF Locals
<1>7. /\ \A d \in PoolAddresses : d # c => chunkRange'[d] = chunkRange[d] /\ memorysize'[d] = memorysize[d]
      /\ chunkRange'[c] = row /\ memorysize'[c] = n
  BY <1>1, <1>3
<1>8. Mapped' = Mapped \cup {c}
  BY <1>1, <1>4, <1>7 DEF Mapped
<1>9. \A d \in Mapped : /\ chunkRange'[d] = chunkRange[d] /\ memorysize'[d] = memorysize[d]
                        /\ elSize(d)' = elSize(d)
  BY <1>1, <1>7, InvFacts DEF elSize
<1>10. used[c] = {} /\ \A d \in Mapped : d + memorysize[d] <= c \/ c + n <= d
  BY <1>1, <1>3 DEF ChunkInv, PoolCanPlace
<1> QED BY <1>1, <1>2, <1>3, <1>4, <1>5, <1>6, <1>7, <1>8, <1>9, <1>10 DEF Created

(* alloc takes a free slot of the chunk it has chosen; the buffer goes to  *)
(* the caller, or with the thread that has still to count the chunk.       *)
TookSlot(t, c, i) ==
  /\ c = local[t].ch /\ c \in Mapped /\ c \in PoolAddresses
  /\ chunkRange[c] = getSizeRange(local[t].size)
  /\ i \in Slots(c) /\ i \notin used[c]
  /\ used'[c] = used[c] \cup {i} /\ \A d : d # c => used'[d] = used[d]
  /\ UNCHANGED <<chunkRange, memorysize>> /\ Mapped' = Mapped
  /\ \A d : elSize(d)' = elSize(d)
  /\ \/ /\ pc'[t] = "idle"
        /\ live' = live \cup {[ptr |-> ElementAddress(c, i), size |-> local[t].size]}
     \/ /\ pc'[t] = "a_count" /\ UNCHANGED live
        /\ local'[t].ptr = ElementAddress(c, i) /\ local'[t].size = local[t].size /\ local'[t].ch = c

LEMMA TakeEffect ==
  ASSUME IndInv, NEW t \in Threads, AllocFromListed(t) \/ AllocFromSpliced(t) \/ AllocFromFresh(t)
  PROVE  \E c, i : TookSlot(t, c, i)
<1> PICK c : c = local[t].ch
  OBVIOUS
<1> PICK i : i = AllocIndex(c)
  OBVIOUS
<1> PICK p : p = ElementAddress(c, i)
  OBVIOUS
<1>1. /\ pc[t] \in {"a_listed", "a_spliced", "a_fresh"}
      /\ used' = [used EXCEPT ![c] = @ \cup {i}]
      /\ UNCHANGED <<chunkRange, memorysize>>
  BY DEF AllocFromListed, AllocFromSpliced, AllocFromFresh
<1>2. AllocEnd(t, c, p) \/ (HandOut(t, p) /\ Return(t))
  BY Zenon DEF AllocFromListed, AllocFromSpliced, AllocFromFresh
<1>3. c \in Mapped /\ c \in PoolAddresses /\ ~ full(c) /\ chunkRange[c] = getSizeRange(local[t].size)
  BY <1>1, ChunkInHand
<1>4. i \in Slots(c) /\ i \notin used[c]
  <2>1. chunkRange[c] \in Ranges /\ used[c] \subseteq Slots(c)
    BY <1>3, InvFacts
  <2> QED BY <1>3, <2>1, InvFacts, AllocIndexFacts
<1>5. /\ Mapped' = Mapped /\ \A d : d # c => used'[d] = used[d]
      /\ used'[c] = used[c] \cup {i} /\ \A d : elSize(d)' = elSize(d)
  BY <1>1, <1>3, SlotTaken
<1>6. /\ pc \in [Threads -> Places] /\ local \in [Threads -> Locals] /\ local[t] \in Locals
  BY ThreadFacts DEF TypeOK
<1>7. \A label, locals : GotoWith(t, label, locals) => pc'[t] = label /\ local'[t] = locals
  <2> HIDE DEF Places, Locals
  <2> QED BY <1>6 DEF GotoWith, Goto
<1>8. CASE HandOut(t, p) /\ Return(t)
  <2>1. pc'[t] = "idle"
    BY <1>7, <1>8 DEF Return
  <2> QED BY <1>1, <1>3, <1>4, <1>5, <1>8, <2>1 DEF TookSlot, HandOut
<1>9. CASE AllocEnd(t, c, p) /\ UNCHANGED live
  <2>1. CASE GotoWith(t, "a_count", [local[t] EXCEPT !.ptr = p])
    <3>1. pc'[t] = "a_count" /\ local'[t] = [local[t] EXCEPT !.ptr = p]
      BY <1>7, <2>1
    <3>2. local'[t].ptr = p /\ local'[t].size = local[t].size /\ local'[t].ch = c
      BY <1>6, <3>1 DEF Locals
    <3> QED BY <1>1, <1>3, <1>4, <1>5, <1>9, <3>1, <3>2 DEF TookSlot
  <2>2. CASE HandOut(t, p) /\ Return(t)
    BY <1>8, <2>2
  <2> QED BY <1>9, <2>1, <2>2 DEF AllocEnd
<1>10. AllocEnd(t, c, p) => UNCHANGED live \/ (HandOut(t, p) /\ Return(t))
  BY DEF AllocEnd
<1> QED BY <1>2, <1>8, <1>9, <1>10

(* dealloc frees the slot of its buffer.                                   *)
FreedSlot(t, c, i) ==
  /\ pc[t] = "d_find" /\ pc'[t] \in {"d_size", "d_store", "idle"}
  /\ c \in Mapped /\ c \in PoolAddresses
  /\ i \in Slots(c) /\ i \in used[c] /\ local[t].ptr = ElementAddress(c, i)
  /\ used'[c] = used[c] \ {i} /\ \A d \in PoolAddresses : d # c => used'[d] = used[d]
  /\ UNCHANGED <<chunkRange, memorysize, live>> /\ Mapped' = Mapped
  /\ \A d : elSize(d)' = elSize(d)
  /\ pc'[t] = "d_size" <=> used[c] = {i}
  /\ pc'[t] = "d_size" => local'[t].ch = c

LEMMA FreeEffect ==
  ASSUME IndInv, NEW t \in Threads, DeallocHit(t)
  PROVE  \E c, i : FreedSlot(t, c, i)
<1>1. PICK c \in Found(t) :
       LET rest == used[c] \ {ElementIndex(c, local[t].ptr)}
           result == DealocResult(c, rest)
           needClean == result \in {"NOW_IS_EMPTY_CHUNK", "WAS_FULL_IS_EMPTY"}
           toFreestore == result \in {"WAS_FULL_CHUNK", "WAS_FULL_IS_EMPTY"}
           found == [local[t] EXCEPT !.ch = c, !.needClean = needClean, !.toFreestore = toFreestore]
       IN  /\ used' = [used EXCEPT ![c] = rest]
           /\ \/ needClean /\ GotoWith(t, "d_size", found)
              \/ result = "WAS_FULL_CHUNK" /\ GotoWith(t, "d_store", found)
              \/ result = "OK" /\ Return(t)
  BY Zenon DEF DeallocHit
<1>2. pc[t] = "d_find" /\ UNCHANGED <<chunkRange, memorysize, live>>
  BY DEF DeallocHit
<1> PICK i : i = ElementIndex(c, local[t].ptr)
  OBVIOUS
<1> PICK rest : rest = used[c] \ {i}
  OBVIOUS
<1>3. /\ c \in Mapped /\ c \in PoolAddresses
      /\ i \in used[c] /\ i \in Slots(c) /\ local[t].ptr = ElementAddress(c, i)
  BY <1>2, FoundChunk
<1>4. /\ used \in [PoolAddresses -> SUBSET Nat] /\ pc \in [Threads -> Places]
      /\ local \in [Threads -> Locals] /\ local[t] \in Locals
  BY ThreadFacts DEF TypeOK
<1>5. used' = [used EXCEPT ![c] = rest]
  BY <1>1
<1>6. used'[c] = used[c] \ {i} /\ \A d \in PoolAddresses : d # c => used'[d] = used[d]
  BY <1>3, <1>4, <1>5
<1>7. Mapped' = Mapped /\ \A d : elSize(d)' = elSize(d)
  BY <1>2 DEF Mapped, elSize
<1> DEFINE result == DealocResult(c, rest)
           found == [local[t] EXCEPT !.ch = c, !.needClean = result \in {"NOW_IS_EMPTY_CHUNK", "WAS_FULL_IS_EMPTY"},
                                     !.toFreestore = result \in {"WAS_FULL_CHUNK", "WAS_FULL_IS_EMPTY"}]
<1>8. \/ result \in {"NOW_IS_EMPTY_CHUNK", "WAS_FULL_IS_EMPTY"} /\ GotoWith(t, "d_size", found)
      \/ result = "WAS_FULL_CHUNK" /\ GotoWith(t, "d_store", found)
      \/ result = "OK" /\ Return(t)
  BY <1>1
<1>9. found.ch = c
  BY <1>4 DEF Locals
<1>10. /\ result \in {"NOW_IS_EMPTY_CHUNK", "WAS_FULL_IS_EMPTY"} <=> rest = {}
       /\ result = "WAS_FULL_CHUNK" => rest # {}
       /\ result = "OK" => rest # {}
  BY DealocResultFacts
<1>11. \A label, locals : GotoWith(t, label, locals) => pc'[t] = label /\ local'[t] = locals
  <2> HIDE DEF Places, Locals
  <2> QED BY <1>4 DEF GotoWith, Goto
<1> HIDE DEF result, found
<1>12. /\ pc'[t] \in {"d_size", "d_store", "idle"}
       /\ pc'[t] = "d_size" <=> rest = {}
       /\ pc'[t] = "d_size" => local'[t].ch = c
  BY <1>8, <1>9, <1>10, <1>11 DEF Return
<1>13. rest = {} <=> used[c] = {i}
  BY <1>3
<1> QED BY <1>2, <1>3, <1>6, <1>7, <1>12, <1>13 DEF FreedSlot

(* clean destroys an empty chunk that no thread still has in its hand.     *)
Destroyed(t, c) ==
  /\ pc[t] = "c_delete" /\ pc' = pc
  /\ \A u \in Threads : /\ local'[u].ch = local[u].ch /\ local'[u].ptr = local[u].ptr
                        /\ local'[u].size = local[u].size
  /\ local[t].toDelete # <<>> /\ c = Head(local[t].toDelete)
  /\ local'[t].toDelete = Tail(local[t].toDelete)
  /\ c \in Mapped /\ c \in PoolAddresses /\ used[c] = {}
  /\ Mapped' = Mapped \ {c} /\ UNCHANGED <<used, live>>
  /\ \A d : d # c => /\ chunkRange'[d] = chunkRange[d] /\ memorysize'[d] = memorysize[d]
                     /\ elSize(d)' = elSize(d)
  /\ \A u \in Threads :
       pc[u] \in {"a_spliced", "a_fresh", "a_count", "d_size", "d_count", "d_store"} => local[u].ch # c

LEMMA DestroyEffect ==
  ASSUME IndInv, NEW t \in Threads, CleanDelete(t)
  PROVE  \E c : Destroyed(t, c)
<1> PICK c : c = Head(local[t].toDelete)
  OBVIOUS
<1>1. /\ pc[t] = "c_delete" /\ local[t].toDelete # <<>>
      /\ bucketLock[getMemoryBucket(c)] = NoThread
      /\ chunkRange' = [chunkRange EXCEPT ![c] = 0]
      /\ memorysize' = [memorysize EXCEPT ![c] = 0]
      /\ used' = [used EXCEPT ![c] = {}]
      /\ local' = [local EXCEPT ![t].toDelete = Tail(@)]
      /\ UNCHANGED <<live, pc>>
  BY DEF CleanDelete
<1>2. /\ chunkRange \in [PoolAddresses -> Ranges \cup {0}] /\ memorysize \in [PoolAddresses -> Nat]
      /\ used \in [PoolAddresses -> SUBSET Nat] /\ local \in [Threads -> Locals]
      /\ local[t] \in Locals /\ local[t].toDelete \in Seq(PoolAddresses)
  BY ThreadFacts DEF TypeOK, Locals
<1>3. c \in DoomedBy(t)
  BY <1>1, <1>2, HeadTailFacts DEF DoomedBy
<1>4. /\ c \in Mapped /\ c \in PoolAddresses /\ used[c] = {}
      /\ \A u \in Threads :
           pc[u] \in {"a_spliced", "a_fresh", "a_count", "d_size", "d_count", "d_store"} => local[u].ch # c
  BY <1>1, <1>3, DoomedChunk DEF empty
<1>5. /\ \A d : d # c => chunkRange'[d] = chunkRange[d] /\ memorysize'[d] = memorysize[d]
      /\ chunkRange'[c] = 0 /\ used' = used
  BY <1>1, <1>2, <1>4
<1>6. Mapped' = Mapped \ {c} /\ \A d : d # c => elSize(d)' = elSize(d)
  BY <1>5 DEF Mapped, elSize
<1>7. /\ \A u \in Threads : /\ local'[u].ch = local[u].ch /\ local'[u].ptr = local[u].ptr
                            /\ local'[u].size = local[u].size
      /\ local'[t].toDelete = Tail(local[t].toDelete)
  BY <1>1, <1>2 DEF Locals
<1> QED BY <1>1, <1>4, <1>5, <1>6, <1>7 DEF Destroyed

(* The other steps leave the chunks alone.                                 *)
LEMMA NoEffect ==
  ASSUME NEW t \in Threads, Call(t) \/ Step(t)
  PROVE  \/ AllocCreateChunk(t) \/ AllocFromListed(t) \/ AllocFromSpliced(t) \/ AllocFromFresh(t)
         \/ DeallocHit(t) \/ CleanDelete(t)
         \/ UNCHANGED <<chunkRange, memorysize, used>>
<1>1. Call(t) => UNCHANGED <<chunkRange, memorysize, used>>
  BY DEF Call, Alloc, Dealloc, GetInfo, Clean, memoryVars
<1>2. \/ AllocLockContext(t) \/ AllocFromStore(t) \/ AllocPoolExhausted(t) \/ AllocThrow(t) \/ AllocCount(t)
      \/ SearchMiss(t) \/ GetInfoHit(t) \/ DeallocSize(t) \/ DeallocCount(t) \/ DeallocStore(t)
      => UNCHANGED <<chunkRange, memorysize, used>>
  BY DEF AllocLockContext, AllocFromStore, AllocPoolExhausted, AllocThrow, AllocCount, SearchMiss, GetInfoHit,
         DeallocSize, DeallocCount, DeallocStore, memoryVars
<1>3. \/ CleanTryLock(t) \/ CleanTest(t) \/ CleanLockContext(t) \/ CleanLockStore(t) \/ CleanVisit(t)
      \/ CleanLockSweep(t) \/ CleanLook(t) \/ CleanDrop(t) \/ CleanEnd(t)
      => UNCHANGED <<chunkRange, memorysize, used>>
  BY DEF CleanTryLock, CleanTest, CleanLockContext, CleanLockStore, CleanVisit, CleanLockSweep, CleanLook,
         CleanDrop, CleanEnd, memoryVars
<1> QED BY <1>1, <1>2, <1>3 DEF Step

-----------------------------------------------------------------------------
(* Blocks and buffers are made for requests: FitInv is an invariant.       *)

(* A slot stays served while its chunk stays as it is and it stays used.   *)
LEMMA StillServed ==
  ASSUME NEW ptr, NEW size, Serves(ptr, size),
         \A c \in Mapped : \A i \in used[c] : ptr = ElementAddress(c, i) =>
           /\ c \in Mapped' /\ i \in used'[c]
           /\ chunkRange'[c] = chunkRange[c] /\ elSize(c)' = elSize(c)
  PROVE  Serves(ptr, size)'
<1>1. PICK c \in Mapped : chunkRange[c] = getSizeRange(size) /\ \E i \in used[c] : ptr = ElementAddress(c, i)
  BY DEF Serves
<1>2. PICK i \in used[c] : ptr = ElementAddress(c, i)
  BY <1>1
<1>3. /\ c \in Mapped' /\ i \in used'[c]
      /\ chunkRange'[c] = chunkRange[c] /\ elSize(c)' = elSize(c)
  BY <1>1, <1>2
<1>4. ptr = ElementAddress(c, i)'
  BY <1>2, <1>3 DEF ElementAddress
<1> QED BY <1>1, <1>3, <1>4 DEF Serves

(* The thread of a step has a request only if it had one, or just called.  *)
LEMMA RequestsStay ==
  ASSUME IndInv, FitInv, NEW t \in Threads, Call(t) \/ Step(t), pc'[t] \in Requesting
  PROVE  local'[t].size \in Sizes
<1>1. /\ pc \in [Threads -> Places] /\ local \in [Threads -> Locals] /\ local[t] \in Locals /\ TypeOK
  BY ThreadFacts DEF TypeOK
<1>2. \A label, locals : GotoWith(t, label, locals) => pc'[t] = label /\ local'[t] = locals
  <2> HIDE DEF Places, Locals
  <2> QED BY <1>1 DEF GotoWith, Goto
<1>3. CASE Call(t)
  <2>1. ASSUME NEW size \in Sizes, NEW id, Alloc(t, size, id) PROVE local'[t].size \in Sizes
    <3> DEFINE locals == [NoLocals EXCEPT !.size = size, !.ctx = getAllocContext(id), !.fs = getFreeStoreContext(id)]
    <3>1. local'[t] = locals
      BY <1>2, <2>1 DEF Alloc
    <3>2. locals.size = size
      BY DEF NoLocals
    <3> HIDE DEF locals
    <3> QED BY <3>1, <3>2
  <2>2. ASSUME NEW buffer, NEW id, Dealloc(t, buffer, id) PROVE FALSE
    BY <1>2, <2>2 DEF Dealloc, Requesting
  <2>3. ASSUME NEW buffer, GetInfo(t, buffer) PROVE FALSE
    BY <1>2, <2>3 DEF GetInfo, Requesting
  <2>4. ASSUME NEW force, NEW id, Clean(t, force, id) PROVE FALSE
    BY <1>2, <2>4 DEF Clean, Requesting
  <2> QED BY <1>3, <2>1, <2>2, <2>3, <2>4 DEF Call
<1>4. CASE Step(t)
  <2>1. pc[t] \in Requesting => local[t].size \in Sizes
    BY DEF FitInv
  <2>2. AllocLockContext(t) => local'[t].size \in Sizes
    <3>1. ASSUME AllocLockContext(t)
          PROVE  pc[t] = "a_context" /\ \E label, c : \/ GotoWith(t, label, local[t])
                                                \/ GotoWith(t, label, [local[t] EXCEPT !.ch = c])
      BY <3>1 DEF AllocLockContext
    <3>2. \A c : [local[t] EXCEPT !.ch = c].size = local[t].size
      BY <1>1 DEF Locals
    <3>3. AllocLockContext(t) => local'[t].size = local[t].size
      BY <1>2, <3>1, <3>2
    <3> QED BY <2>1, <3>1, <3>3 DEF Requesting
  <2>3. AllocFromStore(t) => local'[t].size \in Sizes
    <3>1. ASSUME AllocFromStore(t)
          PROVE  pc[t] = "a_store" /\ \E label, c : \/ GotoWith(t, label, local[t])
                                                \/ GotoWith(t, label, [local[t] EXCEPT !.ch = c])
      BY <3>1 DEF AllocFromStore
    <3>2. \A c : [local[t] EXCEPT !.ch = c].size = local[t].size
      BY <1>1 DEF Locals
    <3>3. AllocFromStore(t) => local'[t].size = local[t].size
      BY <1>2, <3>1, <3>2
    <3> QED BY <2>1, <3>1, <3>3 DEF Requesting
  <2>4. AllocCreateChunk(t) => local'[t].size \in Sizes
    BY <2>1, CreateEffect DEF Created, Requesting
  <2>5. ASSUME AllocFromListed(t) \/ AllocFromSpliced(t) PROVE local'[t].size \in Sizes
    <3>1. pc[t] \in {"a_listed", "a_spliced"}
      BY <2>5 DEF AllocFromListed, AllocFromSpliced
    <3>2. \E c, i : TookSlot(t, c, i)
      BY <2>5, TakeEffect
    <3>3. pc'[t] # "idle"
      BY DEF Requesting
    <3> QED BY <2>1, <3>1, <3>2, <3>3 DEF TookSlot, Requesting
  <2> QED BY <1>1, <1>4, <2>2, <2>3, <2>4, <2>5, StepsOfRequests
<1> QED BY <1>3, <1>4

(* A thread reaches a_count only with the slot it has just taken.          *)
LEMMA CountsItsSlot ==
  ASSUME IndInv, NEW t \in Threads, Call(t) \/ Step(t), pc'[t] = "a_count"
  PROVE  AllocFromListed(t) \/ AllocFromSpliced(t)
<1>1. /\ pc \in [Threads -> Places] /\ TypeOK
  BY ThreadFacts DEF TypeOK
<1>2. \A label, locals : GotoWith(t, label, locals) => pc'[t] = label
  <2> HIDE DEF Places, Locals
  <2> QED BY <1>1 DEF GotoWith, Goto
<1>3. ~ Call(t)
  BY <1>2 DEF Call, Alloc, Dealloc, GetInfo, Clean
<1>4. ~ AllocLockContext(t) /\ ~ AllocFromStore(t) /\ ~ AllocCreateChunk(t)
  BY <1>2 DEF AllocLockContext, AllocFromStore, AllocCreateChunk
<1> QED BY <1>1, <1>3, <1>4, StepsOfRequests DEF Requesting

(* A buffer comes to live from a caller's thread that has counted it, or   *)
(* with its slot.                                                          *)
LEMMA NewBuffers ==
  ASSUME NEW t \in Threads, Call(t) \/ Step(t),
         ~ (AllocFromListed(t) \/ AllocFromSpliced(t) \/ AllocFromFresh(t))
  PROVE  \A a \in live' : \/ a \in live
                          \/ pc[t] = "a_count" /\ a = [ptr |-> local[t].ptr, size |-> local[t].size]
<1>1. Call(t) => live' \subseteq live
  BY DEF Call, Alloc, Dealloc, GetInfo, Clean
<1>2. \/ AllocLockContext(t) \/ AllocFromStore(t) \/ AllocCreateChunk(t) \/ AllocPoolExhausted(t)
      \/ AllocThrow(t) \/ SearchMiss(t) \/ GetInfoHit(t) \/ DeallocHit(t) \/ DeallocSize(t)
      \/ DeallocCount(t) \/ DeallocStore(t)
      => live' = live
  BY DEF AllocLockContext, AllocFromStore, AllocCreateChunk, AllocPoolExhausted, AllocThrow, SearchMiss,
         GetInfoHit, DeallocHit, DeallocSize, DeallocCount, DeallocStore
<1>3. \/ CleanTryLock(t) \/ CleanTest(t) \/ CleanLockContext(t) \/ CleanLockStore(t) \/ CleanVisit(t)
      \/ CleanLockSweep(t) \/ CleanLook(t) \/ CleanDrop(t) \/ CleanDelete(t) \/ CleanEnd(t)
      => live' = live
  BY DEF CleanTryLock, CleanTest, CleanLockContext, CleanLockStore, CleanVisit, CleanLockSweep, CleanLook,
         CleanDrop, CleanDelete, CleanEnd
<1>4. AllocCount(t) => pc[t] = "a_count" /\ live' = live \cup {[ptr |-> local[t].ptr, size |-> local[t].size]}
  BY DEF AllocCount, HandOut
<1> QED BY <1>1, <1>2, <1>3, <1>4 DEF Step

LEMMA FitStep ==
  ASSUME IndInv, FitInv, NEW t \in Threads, Call(t) \/ Step(t)
  PROVE  FitInv'
<1>1. /\ Others(t) /\ TypeOK /\ ChunkInv /\ BufferInv /\ Mapped \subseteq PoolAddresses
  BY StepIsItsOwn, InvFacts
<1>2. \A u \in Threads : u # t => pc'[u] = pc[u] /\ local'[u] = local[u]
  BY <1>1 DEF Others
<1> DEFINE BlocksFit == \A c \in Mapped : \E s \in Sizes :
                          getSizeRange(s) = chunkRange[c] /\ memorysize[c] = BlockSize(chunkRange[c], s)
           RequestsFit == \A u \in Threads : pc[u] \in Requesting => local[u].size \in Sizes
           BuffersServed == \A a \in live : Serves(a.ptr, a.size)
           CountedServed == \A u \in Threads : pc[u] = "a_count" => Serves(local[u].ptr, local[u].size)
<1>3. BlocksFit /\ RequestsFit /\ BuffersServed /\ CountedServed
  BY DEF FitInv
<1>4. RequestsFit'
  BY <1>2, <1>3, RequestsStay
<1>5. ASSUME ~ (AllocFromListed(t) \/ AllocFromSpliced(t) \/ AllocFromFresh(t)), BlocksFit',
             \A ptr, size : /\ Serves(ptr, size)
                            /\ \/ \E a \in live' : a.ptr = ptr
                               \/ \E u \in Threads : u # t /\ pc[u] = "a_count" /\ local[u].ptr = ptr
                            => Serves(ptr, size)'
      PROVE  FitInv'
  <2>1. BuffersServed'
    <3> SUFFICES ASSUME NEW a \in live' PROVE Serves(a.ptr, a.size)'
      OBVIOUS
    <3>1. a \in live \/ (pc[t] = "a_count" /\ a = [ptr |-> local[t].ptr, size |-> local[t].size])
      BY <1>5, NewBuffers
    <3> QED BY <1>3, <1>5, <3>1
  <2>2. CountedServed'
    <3> SUFFICES ASSUME NEW u \in Threads, pc'[u] = "a_count" PROVE Serves(local[u].ptr, local[u].size)'
      OBVIOUS
    <3>1. u # t /\ pc[u] = "a_count" /\ local'[u] = local[u]
      BY <1>2, <1>5, CountsItsSlot
    <3> PICK ptr, size : ptr = local[u].ptr /\ size = local[u].size
      OBVIOUS
    <3>2. Serves(ptr, size)'
      BY <1>3, <1>5, <3>1
    <3> QED BY <3>1, <3>2
  <2> QED BY <1>4, <1>5, <2>1, <2>2 DEF FitInv
<1>6. CASE AllocFromListed(t) \/ AllocFromSpliced(t) \/ AllocFromFresh(t)
  <2>1. PICK c, i : TookSlot(t, c, i)
    BY <1>6, TakeEffect
  <2>2. BlocksFit'
    BY <1>3, <2>1 DEF TookSlot
  <2>3. \A ptr, size : Serves(ptr, size) => Serves(ptr, size)'
    BY <2>1, StillServed DEF TookSlot
  <2> PICK p, size : p = ElementAddress(c, i) /\ size = local[t].size
    OBVIOUS
  <2>4. Serves(p, size)'
    <3>1. pc[t] \in Requesting
      BY <1>6 DEF AllocFromListed, AllocFromSpliced, AllocFromFresh, Requesting
    <3>2. size \in Sizes /\ c \in Mapped' /\ i \in used'[c] /\ chunkRange'[c] = getSizeRange(size)
      BY <1>3, <2>1, <3>1 DEF TookSlot
    <3>3. p = ElementAddress(c, i)'
      BY <2>1 DEF TookSlot, ElementAddress
    <3> QED BY <3>2, <3>3 DEF Serves
  <2>5. \/ pc'[t] = "idle" /\ live' = live \cup {[ptr |-> p, size |-> size]}
        \/ live' = live /\ local'[t].ptr = p /\ local'[t].size = size
    BY <2>1 DEF TookSlot
  <2>6. BuffersServed'
    BY <1>3, <2>3, <2>4, <2>5
  <2>7. CountedServed'
    <3> SUFFICES ASSUME NEW u \in Threads, pc'[u] = "a_count" PROVE Serves(local[u].ptr, local[u].size)'
      OBVIOUS
    <3> PICK q, n : q = local'[u].ptr /\ n = local'[u].size
      OBVIOUS
    <3>1. Serves(q, n)'
      <4>1. CASE u = t
        BY <2>4, <2>5, <4>1
      <4>2. CASE u # t
        BY <1>2, <1>3, <2>3, <4>2
      <4> QED BY <4>1, <4>2
    <3> QED BY <3>1
  <2> QED BY <1>4, <2>2, <2>6, <2>7 DEF FitInv
<1>7. CASE AllocCreateChunk(t)
  <2>1. PICK c : Created(t, c)
    BY <1>7, CreateEffect
  <2>2. BlocksFit'
    <3> SUFFICES ASSUME NEW d \in Mapped'
                 PROVE  \E s \in Sizes : getSizeRange(s) = chunkRange'[d] /\ memorysize'[d] = BlockSize(chunkRange'[d], s)
      OBVIOUS
    <3>1. CASE d = c
      <4>1. local[t].size \in Sizes
        BY <1>3, <2>1 DEF Created, Requesting
      <4> QED BY <2>1, <3>1, <4>1 DEF Created
    <3>2. CASE d # c
      BY <1>3, <2>1, <3>2 DEF Created
    <3> QED BY <3>1, <3>2
  <2>3. \A ptr, size : Serves(ptr, size) => Serves(ptr, size)'
    BY <2>1, StillServed DEF Created
  <2>4. ~ (AllocFromListed(t) \/ AllocFromSpliced(t) \/ AllocFromFresh(t))
    BY <2>1 DEF Created, AllocFromListed, AllocFromSpliced, AllocFromFresh
  <2> QED BY <1>5, <2>2, <2>3, <2>4
<1>8. CASE DeallocHit(t)
  <2>1. PICK c, i : FreedSlot(t, c, i)
    BY <1>8, FreeEffect
  <2>2. BlocksFit'
    BY <1>3, <2>1 DEF FreedSlot
  <2>3. ASSUME NEW ptr, NEW size, Serves(ptr, size),
               \/ \E a \in live' : a.ptr = ptr
               \/ \E u \in Threads : u # t /\ pc[u] = "a_count" /\ local[u].ptr = ptr
        PROVE  Serves(ptr, size)'
    <3>1. ptr # local[t].ptr
      BY <1>1, <2>1, <2>3 DEF BufferInv, InFlight, FreedSlot
    <3>2. \A d \in Mapped : \A j \in used[d] : ptr = ElementAddress(d, j) =>
            /\ d \in Mapped' /\ j \in used'[d]
            /\ chunkRange'[d] = chunkRange[d] /\ elSize(d)' = elSize(d)
      BY <1>1, <2>1, <3>1 DEF FreedSlot
    <3> QED BY <2>3, <3>2, StillServed
  <2>4. ~ (AllocFromListed(t) \/ AllocFromSpliced(t) \/ AllocFromFresh(t))
    BY <2>1 DEF FreedSlot, AllocFromListed, AllocFromSpliced, AllocFromFresh
  <2> QED BY <1>5, <2>2, <2>3, <2>4
<1>9. CASE CleanDelete(t)
  <2>1. PICK c : Destroyed(t, c)
    BY <1>9, DestroyEffect
  <2>2. BlocksFit'
    BY <1>3, <2>1 DEF Destroyed
  <2>3. \A ptr, size : Serves(ptr, size) => Serves(ptr, size)'
    BY <2>1, StillServed DEF Destroyed
  <2>4. ~ (AllocFromListed(t) \/ AllocFromSpliced(t) \/ AllocFromFresh(t))
    BY <2>1 DEF Destroyed, AllocFromListed, AllocFromSpliced, AllocFromFresh
  <2> QED BY <1>5, <2>2, <2>3, <2>4
<1>10. CASE UNCHANGED <<chunkRange, memorysize, used>> /\ ~ (AllocFromListed(t) \/ AllocFromSpliced(t) \/ AllocFromFresh(t))
  <2>1. Mapped' = Mapped /\ \A d : elSize(d)' = elSize(d)
    BY <1>10 DEF Mapped, elSize
  <2>2. BlocksFit'
    BY <1>3, <1>10, <2>1
  <2>3. \A ptr, size : Serves(ptr, size) => Serves(ptr, size)'
    BY <1>10, <2>1, StillServed
  <2> QED BY <1>5, <1>10, <2>2, <2>3
<1> QED BY <1>6, <1>7, <1>8, <1>9, <1>10, NoEffect

(* Every block and buffer was made for a request of its chunk's row.       *)
THEOREM FitInductive == Spec => [](IndInv /\ FitInv)
<1>1. Init => FitInv
  BY DEF Init, FitInv, Mapped, Requesting
<1>2. ASSUME IndInv, FitInv, [Next]_vars PROVE FitInv'
  <2>1. CASE UNCHANGED vars
    <3>1. UNCHANGED <<chunkRange, memorysize, used, live, pc, local>>
      BY <2>1 DEF vars, memoryVars
    <3>2. Mapped' = Mapped
      BY <3>1 DEF Mapped
    <3>3. \A ptr, size : Serves(ptr, size)' <=> Serves(ptr, size)
      BY <3>1, <3>2 DEF Serves, ElementAddress, elSize
    <3> QED BY <1>2, <3>1, <3>2, <3>3 DEF FitInv
  <2>2. CASE \E t \in Threads : Call(t) \/ Step(t)
    BY <1>2, <2>2, FitStep
  <2> QED BY <1>2, <2>1, <2>2 DEF Next
<1> QED BY <1>1, <1>2, Inductive, PTL DEF Spec

-----------------------------------------------------------------------------
(* Elements in blocks.                                                     *)

(* An element lies in its chunk's block.                                   *)
LEMMA ElementInBlock ==
  ASSUME TypeOK, ChunkInv, NEW c \in Mapped, NEW i \in Slots(c)
  PROVE  /\ c \in Nat /\ memorysize[c] \in Nat /\ elSize(c) \in Nat \ {0} /\ ElementAddress(c, i) \in Nat
         /\ c <= ElementAddress(c, i)
         /\ ElementAddress(c, i) + elSize(c) <= c + memorysize[c]
<1>1. /\ c \in Nat /\ memorysize[c] \in Nat /\ chunkRange[c] \in Ranges
  BY SizesAssumption DEF Mapped, TypeOK
<1>2. elSize(c) \in Nat \ {0} /\ ElementAddress(c, i) \in Nat
  BY ElementFacts
<1> PICK e, n : e = elSize(c) /\ n = ElPerChunk[chunkRange[c]]
  OBVIOUS
<1>3. n \in Nat \ {0} /\ n * e <= memorysize[c] /\ i \in 0 .. n - 1
  BY <1>1, SizesAssumption DEF ChunkInv, ChunkOK, Slots
<1>4. i * e \in Nat /\ i * e + e <= n * e
  <2>1. e \in Nat \ {0} /\ i \in Nat /\ n \in Nat /\ i < n
    BY <1>2, <1>3
  <2> QED BY <2>1, Multiples
<1>5. ElementAddress(c, i) = c + i * e
  BY DEF ElementAddress
<1>6. n * e \in Nat
  BY <1>2, <1>3
<1> QED BY <1>1, <1>2, <1>3, <1>4, <1>5, <1>6

(* Elements do not overlap, in one chunk or in two.                        *)
LEMMA ElementsApart ==
  ASSUME TypeOK, ChunkInv, NEW c \in Mapped, NEW i \in Slots(c), NEW d \in Mapped, NEW j \in Slots(d),
         c # d \/ i # j
  PROVE  \/ ElementAddress(c, i) + elSize(c) <= ElementAddress(d, j)
         \/ ElementAddress(d, j) + elSize(d) <= ElementAddress(c, i)
<1>1. CASE c # d
  <2>1. c + memorysize[c] <= d \/ d + memorysize[d] <= c
    BY <1>1 DEF ChunkInv
  <2>2. /\ c \in Nat /\ memorysize[c] \in Nat /\ elSize(c) \in Nat /\ ElementAddress(c, i) \in Nat
        /\ c <= ElementAddress(c, i) /\ ElementAddress(c, i) + elSize(c) <= c + memorysize[c]
    BY ElementInBlock
  <2>3. /\ d \in Nat /\ memorysize[d] \in Nat /\ elSize(d) \in Nat /\ ElementAddress(d, j) \in Nat
        /\ d <= ElementAddress(d, j) /\ ElementAddress(d, j) + elSize(d) <= d + memorysize[d]
    BY ElementInBlock
  <2> QED BY <2>1, <2>2, <2>3
<1>2. CASE c = d
  <2> PICK e : e = elSize(c)
    OBVIOUS
  <2>1. e \in Nat \ {0} /\ i \in Nat /\ j \in Nat /\ c \in Nat
    BY <1>2, ElementFacts, ElementInBlock
  <2>2. ElementAddress(c, i) = c + i * e /\ ElementAddress(d, j) = c + j * e
    BY <1>2 DEF ElementAddress
  <2>3. /\ i * e \in Nat /\ j * e \in Nat
        /\ i < j => i * e + e <= j * e
        /\ j < i => j * e + e <= i * e
    BY <2>1, Multiples
  <2>4. i < j \/ j < i
    BY <1>2, <2>1
  <2> QED BY <1>2, <2>1, <2>2, <2>3, <2>4
<1> QED BY <1>1, <1>2

(* A request of a row below AnySize is no longer than the row's largest.   *)
LEMMA RowHolds ==
  ASSUME NEW size \in Nat, getSizeRange(size) # AnySize
  PROVE  size <= MaxSize[getSizeRange(size)] /\ getSizeRange(size) \in 1 .. RangeCount - 1
<1> PICK r : r = getSizeRange(size)
  OBVIOUS
<1>1. r \in 1 .. RangeCount - 1
  BY SizeRangeType, SizesAssumption DEF AnySize, Ranges
<1> DEFINE Below == {q \in 1 .. RangeCount - 1 : MaxSize[q] < size}
<1>2. r = 1 + Cardinality(Below)
  BY DEF getSizeRange
<1>3. \A q \in 1 .. RangeCount - 1 : MaxSize[q] \in Nat
  BY SizesAssumption
<1>4. ASSUME MaxSize[r] < size PROVE FALSE
  <2>1. 1 .. r \subseteq Below
    <3> SUFFICES ASSUME NEW q \in 1 .. r PROVE q \in Below
      OBVIOUS
    <3>1. q \in 1 .. RangeCount - 1 /\ (q = r \/ q < r)
      BY <1>1, SizesAssumption
    <3>2. MaxSize[q] <= MaxSize[r]
      BY <1>1, <1>3, <3>1, SizesAssumption
    <3> QED BY <1>1, <1>3, <1>4, <3>1, <3>2
  <2>2. IsFiniteSet(Below)
    <3>1. IsFiniteSet(1 .. RangeCount - 1) /\ Below \subseteq 1 .. RangeCount - 1
      BY FS_Interval, SizesAssumption
    <3> HIDE DEF Below
    <3> QED BY <3>1, FS_Subset
  <2>3. Cardinality(1 .. r) = r
    BY <1>1, FS_Interval, SizesAssumption
  <2>4. Cardinality(1 .. r) <= Cardinality(Below) /\ Cardinality(Below) \in Nat
    <3> HIDE DEF Below
    <3> QED BY <2>1, <2>2, FS_Subset, FS_CardinalityType
  <2> HIDE DEF Below
  <2> QED BY <1>1, <1>2, <2>3, <2>4, SizesAssumption
<1> QED BY <1>1, <1>3, <1>4

-----------------------------------------------------------------------------
(* Buffers fit.                                                            *)

(* A buffer is no longer than its element, if its size is in the table or  *)
(* all requests beyond the table have one size.                            *)
OneAnySize == \A r, s \in Sizes : getSizeRange(r) = AnySize /\ getSizeRange(s) = AnySize => r = s

LEMMA FitsItsElement ==
  ASSUME IndInv, FitInv, NEW a \in live, getSizeRange(a.size) # AnySize \/ OneAnySize
  PROVE  \E c \in Mapped : \E i \in used[c] :
           a.ptr = ElementAddress(c, i) /\ i \in Slots(c) /\ a.size <= elSize(c) /\ a.size \in Nat
<1>1. Serves(a.ptr, a.size)
  BY DEF FitInv
<1>2. PICK c \in Mapped : chunkRange[c] = getSizeRange(a.size) /\ \E i \in used[c] : a.ptr = ElementAddress(c, i)
  BY <1>1 DEF Serves
<1>3. PICK i \in used[c] : a.ptr = ElementAddress(c, i)
  BY <1>2
<1>4. a.size \in Sizes /\ a.size \in Nat /\ i \in Slots(c)
  BY <1>1, InvFacts, SizesAssumption DEF Serves
<1>5. CASE chunkRange[c] # AnySize
  BY <1>2, <1>3, <1>4, <1>5, RowHolds DEF elSize
<1>6. CASE chunkRange[c] = AnySize
  <2>1. PICK s \in Sizes : getSizeRange(s) = AnySize /\ memorysize[c] = BlockSize(AnySize, s)
    BY <1>6 DEF FitInv
  <2>2. s = a.size
    BY <1>2, <1>4, <1>6, <2>1 DEF OneAnySize
  <2>3. elSize(c) = a.size
    BY <1>6, <2>1, <2>2 DEF elSize, BlockSize
  <2> QED BY <1>3, <1>4, <2>3
<1> QED BY <1>5, <1>6

(* Two such buffers lie in their blocks and do not overlap.                *)
LEMMA TwoFit ==
  ASSUME IndInv, FitInv, NEW a \in live, NEW b \in live, a # b,
         getSizeRange(a.size) # AnySize \/ OneAnySize,
         getSizeRange(b.size) # AnySize \/ OneAnySize
  PROVE  a.ptr + a.size <= b.ptr \/ b.ptr + b.size <= a.ptr
<1>0. TypeOK /\ ChunkInv /\ a.ptr # b.ptr
  BY InvFacts DEF BufferInv
<1>1. PICK c \in Mapped : \E i \in used[c] :
        a.ptr = ElementAddress(c, i) /\ i \in Slots(c) /\ a.size <= elSize(c) /\ a.size \in Nat
  BY FitsItsElement
<1>2. PICK i \in used[c] :
        a.ptr = ElementAddress(c, i) /\ i \in Slots(c) /\ a.size <= elSize(c) /\ a.size \in Nat
  BY <1>1
<1>3. PICK d \in Mapped : \E j \in used[d] :
        b.ptr = ElementAddress(d, j) /\ j \in Slots(d) /\ b.size <= elSize(d) /\ b.size \in Nat
  BY FitsItsElement
<1>4. PICK j \in used[d] :
        b.ptr = ElementAddress(d, j) /\ j \in Slots(d) /\ b.size <= elSize(d) /\ b.size \in Nat
  BY <1>3
<1>5. c # d \/ i # j
  BY <1>0, <1>2, <1>4
<1>6. \/ ElementAddress(c, i) + elSize(c) <= ElementAddress(d, j)
      \/ ElementAddress(d, j) + elSize(d) <= ElementAddress(c, i)
  BY <1>0, <1>2, <1>4, <1>5, ElementsApart
<1>7. elSize(c) \in Nat /\ elSize(d) \in Nat /\ a.ptr \in Nat /\ b.ptr \in Nat
  BY <1>0, <1>2, <1>4, ElementFacts
<1> QED BY <1>2, <1>4, <1>6, <1>7

LEMMA OneFits ==
  ASSUME IndInv, FitInv, NEW a \in live, getSizeRange(a.size) # AnySize \/ OneAnySize
  PROVE  \E c \in Mapped : Covers(c, a.ptr) /\ a.ptr + a.size <= c + memorysize[c]
<1>0. TypeOK /\ ChunkInv
  BY InvFacts
<1>1. PICK c \in Mapped : \E i \in used[c] :
        a.ptr = ElementAddress(c, i) /\ i \in Slots(c) /\ a.size <= elSize(c) /\ a.size \in Nat
  BY FitsItsElement
<1>2. PICK i \in used[c] :
        a.ptr = ElementAddress(c, i) /\ i \in Slots(c) /\ a.size <= elSize(c) /\ a.size \in Nat
  BY <1>1
<1>3. Covers(c, a.ptr)
  BY <1>0, <1>2, ElementFacts
<1>4. /\ c \in Nat /\ memorysize[c] \in Nat /\ elSize(c) \in Nat /\ a.ptr \in Nat
      /\ a.ptr + elSize(c) <= c + memorysize[c]
  BY <1>0, <1>2, ElementInBlock
<1> QED BY <1>2, <1>3, <1>4

(* Buffers of the table's sizes lie in their chunks' blocks, as long as    *)
(* they were asked for, and do not overlap.                                *)
THEOREM TableBuffersCorrect == Spec => []TableBuffersFit
<1>1. ASSUME IndInv, FitInv PROVE TableBuffersFit
  BY <1>1, OneFits, TwoFit DEF TableBuffersFit
<1> QED BY <1>1, FitInductive, PTL

(* So do all buffers, when the requests beyond the table have one size.    *)
(* When no chunk of the store's list is of a fitting size alloc takes the  *)
(* first, so that with two sizes a buffer may be longer than its block:    *)
(* the run anysize shows it.                                               *)
THEOREM BuffersCorrect == ASSUME OneAnySize PROVE Spec => []BuffersFit
<1>1. ASSUME IndInv, FitInv PROVE BuffersFit
  BY <1>1, OneFits, TwoFit DEF BuffersFit
<1> QED BY <1>1, FitInductive, PTL

-----------------------------------------------------------------------------
(* The refinement.                                                         *)

(* The heap's blocks and buffers, as Heap maps them.                       *)
Element(c, i) == [at |-> ElementAddress(c, i), len |-> elSize(c)]
HeapBlocks == {[at |-> c, len |-> memorysize[c]] : c \in Mapped}
HeapBuffers == UNION {{[at |-> ElementAddress(c, i), len |-> elSize(c)] : i \in used[c]} : c \in Mapped}
HeapPlaces == UNION {c .. c + BlockSize(r, s) : c \in PoolAddresses, r \in Ranges, s \in Sizes}
HeapLengths == {BlockSize(r, s) : r \in Ranges, s \in Sizes} \cup {MaxSize[r] : r \in 1 .. RangeCount - 1}

LEMMA InHeapBuffers ==
  \A e : e \in HeapBuffers <=> \E c \in Mapped : \E i \in used[c] : e = Element(c, i)
BY DEF HeapBuffers, Element

(* The places of a block of a request's size are the heap's.               *)
LEMMA InHeapPlaces ==
  ASSUME NEW c \in PoolAddresses, NEW r \in Ranges, NEW s \in Sizes, NEW p \in c .. c + BlockSize(r, s)
  PROVE  p \in HeapPlaces
<1> DEFINE f(d, q, z) == d .. d + BlockSize(q, z)
<1>1. f(c, r, s) \in {f(d, q, z) : d \in PoolAddresses, q \in Ranges, z \in Sizes}
  <2> HIDE DEF f
  <2> QED OBVIOUS
<1>2. p \in f(c, r, s)
  OBVIOUS
<1>3. p \in UNION {f(d, q, z) : d \in PoolAddresses, q \in Ranges, z \in Sizes}
  <2> HIDE DEF f
  <2> QED BY <1>1, <1>2
<1> QED BY <1>3 DEF HeapPlaces

(* The heap's actions, in the manager's terms.                             *)
LEMMA HeapGrow ==
  ASSUME NEW at \in HeapPlaces, NEW len \in HeapLengths, HeapBuffers' = HeapBuffers,
         HeapBlocks' = HeapBlocks \cup {[at |-> at, len |-> len]},
         \A d \in Mapped : d + memorysize[d] <= at \/ at + len <= d
  PROVE  Heap!Grow
<1> PICK b : b = [at |-> at, len |-> len]
  OBVIOUS
<1>1. b \in [at : HeapPlaces, len : HeapLengths]
  OBVIOUS
<1>2. ASSUME NEW other \in HeapBlocks
      PROVE  b.at + b.len <= other.at \/ other.at + other.len <= b.at
  <2>1. PICK d \in Mapped : other = [at |-> d, len |-> memorysize[d]]
    BY DEF HeapBlocks
  <2> QED BY <2>1
<1>3. HeapBlocks' = HeapBlocks \cup {b}
  OBVIOUS
<1> QED BY <1>1, <1>2, <1>3 DEF Heap!Grow, Heap!Area, Heap!Apart, HeapBlocks, HeapBuffers, HeapPlaces, HeapLengths

LEMMA HeapAllocate ==
  ASSUME NEW c \in Mapped, NEW e \in [at : HeapPlaces, len : HeapLengths],
         c <= e.at, e.at + e.len <= c + memorysize[c],
         \A other \in HeapBuffers : e.at + e.len <= other.at \/ other.at + other.len <= e.at,
         HeapBuffers' = HeapBuffers \cup {e}, HeapBlocks' = HeapBlocks
  PROVE  Heap!Allocate
<1>1. [at |-> c, len |-> memorysize[c]] \in HeapBlocks
  BY DEF HeapBlocks
<1> QED BY <1>1 DEF Heap!Allocate, Heap!Area, Heap!Apart, Heap!Inside, HeapBlocks, HeapBuffers, HeapPlaces, HeapLengths

LEMMA HeapFree ==
  ASSUME NEW e \in HeapBuffers, HeapBuffers' = HeapBuffers \ {e}, HeapBlocks' = HeapBlocks
  PROVE  Heap!Free
BY DEF Heap!Free, HeapBlocks, HeapBuffers

LEMMA HeapShrink ==
  ASSUME NEW b \in HeapBlocks, HeapBuffers' = HeapBuffers, HeapBlocks' = HeapBlocks \ {b},
         \A e \in HeapBuffers : ~ (b.at <= e.at /\ e.at + e.len <= b.at + b.len)
  PROVE  Heap!Shrink
BY DEF Heap!Shrink, Heap!Inside, HeapBlocks, HeapBuffers

(* An element is one of the heap's areas.                                  *)
LEMMA ElementIsArea ==
  ASSUME IndInv, FitInv, NEW c \in Mapped, NEW i \in Slots(c)
  PROVE  Element(c, i) \in [at : HeapPlaces, len : HeapLengths]
<1>1. TypeOK /\ ChunkInv /\ c \in PoolAddresses /\ chunkRange[c] \in Ranges
  BY InvFacts
<1>2. PICK s \in Sizes : memorysize[c] = BlockSize(chunkRange[c], s)
  BY DEF FitInv
<1>3. /\ c \in Nat /\ memorysize[c] \in Nat /\ elSize(c) \in Nat \ {0} /\ ElementAddress(c, i) \in Nat
      /\ c <= ElementAddress(c, i) /\ ElementAddress(c, i) + elSize(c) <= c + memorysize[c]
  BY <1>1, ElementInBlock
<1>4. ElementAddress(c, i) \in c .. c + BlockSize(chunkRange[c], s)
  BY <1>2, <1>3
<1>5. ElementAddress(c, i) \in HeapPlaces
  BY <1>1, <1>4, InHeapPlaces
<1>6. elSize(c) \in HeapLengths
  <2>1. CASE chunkRange[c] = AnySize
    BY <1>1, <1>2, <2>1 DEF elSize, HeapLengths
  <2>2. CASE chunkRange[c] # AnySize
    <3>1. chunkRange[c] \in 1 .. RangeCount - 1
      BY <1>1, <2>2, SizesAssumption DEF Ranges, AnySize
    <3> QED BY <2>2, <3>1 DEF elSize, HeapLengths
  <2> QED BY <2>1, <2>2
<1> QED BY <1>5, <1>6 DEF Element

(* Elements that are the same area are the same slot.                      *)
LEMMA SameElement ==
  ASSUME IndInv, NEW c \in Mapped, NEW i \in Slots(c), NEW d \in Mapped, NEW j \in Slots(d),
         Element(c, i) = Element(d, j)
  PROVE  c = d /\ i = j
<1>1. ElementAddress(c, i) = ElementAddress(d, j)
  BY DEF Element
<1> QED BY <1>1, AddressFacts, Zenon

(* Every step is a step of the heap or changes nothing in it.              *)
LEMMA HeapStep ==
  ASSUME IndInv, FitInv, NEW t \in Threads, Call(t) \/ Step(t)
  PROVE  Heap!HeapNext \/ (HeapBlocks' = HeapBlocks /\ HeapBuffers' = HeapBuffers)
<1>1. TypeOK /\ ChunkInv /\ Mapped \subseteq PoolAddresses /\ \A c \in Mapped : used[c] \subseteq Slots(c)
  BY InvFacts
<1>2. CASE AllocCreateChunk(t)
  <2>1. PICK c : Created(t, c)
    BY <1>2, CreateEffect
  <2> PICK row, n : row = getSizeRange(local[t].size) /\ n = BlockSize(row, local[t].size)
    OBVIOUS
  <2>2. local[t].size \in Sizes /\ row \in Ranges /\ c \in PoolAddresses /\ n \in Nat /\ c \in Nat
    BY <2>1, SizesAssumption DEF FitInv, Requesting, Created
  <2>3. c \in HeapPlaces /\ n \in HeapLengths
    <3>1. c \in c .. c + BlockSize(row, local[t].size)
      BY <2>2
    <3>2. c \in HeapPlaces
      BY <2>2, <3>1, InHeapPlaces
    <3>3. n \in HeapLengths
      BY <2>2 DEF HeapLengths
    <3> QED BY <3>2, <3>3
  <2>4. HeapBlocks' = HeapBlocks \cup {[at |-> c, len |-> n]}
    BY <2>1 DEF Created, HeapBlocks
  <2>5. HeapBuffers' = HeapBuffers
    <3>1. \A d \in Mapped : \A i : Element(d, i)' = Element(d, i)
      BY <2>1 DEF Created, Element, ElementAddress
    <3>2. \A e : e \in HeapBuffers' <=> \E d \in Mapped' : \E i \in used'[d] : e = Element(d, i)'
      BY DEF HeapBuffers, Element
    <3>3. \A e : e \in HeapBuffers' <=> e \in HeapBuffers
      BY <2>1, <3>1, <3>2, InHeapBuffers DEF Created
    <3>4. HeapBuffers' \subseteq HeapBuffers /\ HeapBuffers \subseteq HeapBuffers'
      BY <3>3
    <3> QED BY <3>4
  <2>6. \A d \in Mapped : d + memorysize[d] <= c \/ c + n <= d
    BY <2>1 DEF Created
  <2>7. Heap!Grow
    BY <2>3, <2>4, <2>5, <2>6, HeapGrow
  <2> QED BY <2>7 DEF Heap!HeapNext
<1>3. CASE AllocFromListed(t) \/ AllocFromSpliced(t) \/ AllocFromFresh(t)
  <2>1. PICK c, i : TookSlot(t, c, i)
    BY <1>3, TakeEffect
  <2> PICK e : e = Element(c, i)
    OBVIOUS
  <2>2. c \in Mapped /\ i \in Slots(c) /\ i \notin used[c]
    BY <2>1 DEF TookSlot
  <2>3. e \in [at : HeapPlaces, len : HeapLengths]
    BY <2>2, ElementIsArea
  <2>4. c <= e.at /\ e.at + e.len <= c + memorysize[c]
    BY <1>1, <2>2, ElementInBlock DEF Element
  <2>5. ASSUME NEW other \in HeapBuffers
        PROVE  e.at + e.len <= other.at \/ other.at + other.len <= e.at
    <3>1. PICK d \in Mapped : \E j \in used[d] : other = Element(d, j)
      BY InHeapBuffers
    <3>2. PICK j \in used[d] : other = Element(d, j)
      BY <3>1
    <3>3. j \in Slots(d) /\ (c # d \/ i # j)
      BY <1>1, <2>2
    <3>4. \/ ElementAddress(c, i) + elSize(c) <= ElementAddress(d, j)
          \/ ElementAddress(d, j) + elSize(d) <= ElementAddress(c, i)
      BY <1>1, <2>2, <3>3, ElementsApart
    <3> QED BY <3>2, <3>4 DEF Element
  <2>6. HeapBlocks' = HeapBlocks
    BY <2>1 DEF TookSlot, HeapBlocks
  <2>7. HeapBuffers' = HeapBuffers \cup {e}
    <3>1. \A d, j : Element(d, j)' = Element(d, j)
      BY <2>1 DEF TookSlot, Element, ElementAddress
    <3>2. \A x : x \in HeapBuffers' <=> \E d \in Mapped' : \E j \in used'[d] : x = Element(d, j)'
      BY DEF HeapBuffers, Element
    <3>3. ASSUME NEW x \in HeapBuffers' PROVE x \in HeapBuffers \cup {e}
      <4>1. PICK d \in Mapped : \E j \in used'[d] : x = Element(d, j)
        BY <2>1, <3>1, <3>2 DEF TookSlot
      <4>2. PICK j \in used'[d] : x = Element(d, j)
        BY <4>1
      <4>3. j \in used[d] \/ (d = c /\ j = i)
        BY <2>1 DEF TookSlot
      <4> QED BY <4>2, <4>3, InHeapBuffers
    <3>4. ASSUME NEW x \in HeapBuffers PROVE x \in HeapBuffers'
      <4>1. PICK d \in Mapped : \E j \in used[d] : x = Element(d, j)
        BY InHeapBuffers
      <4>2. PICK j \in used[d] : x = Element(d, j)
        BY <4>1
      <4>3. j \in used'[d] /\ d \in Mapped'
        BY <2>1 DEF TookSlot
      <4> QED BY <3>1, <3>2, <4>2, <4>3
    <3>5. e \in HeapBuffers'
      <4>1. i \in used'[c] /\ c \in Mapped'
        BY <2>1 DEF TookSlot
      <4> QED BY <3>1, <3>2, <4>1
    <3> QED BY <3>3, <3>4, <3>5
  <2>8. Heap!Allocate
    BY <2>2, <2>3, <2>4, <2>5, <2>6, <2>7, HeapAllocate
  <2> QED BY <2>8 DEF Heap!HeapNext
<1>4. CASE DeallocHit(t)
  <2>1. PICK c, i : FreedSlot(t, c, i)
    BY <1>4, FreeEffect
  <2> PICK e : e = Element(c, i)
    OBVIOUS
  <2>2. c \in Mapped /\ i \in Slots(c) /\ i \in used[c]
    BY <2>1 DEF FreedSlot
  <2>3. e \in HeapBuffers
    BY <2>2, InHeapBuffers
  <2>4. HeapBlocks' = HeapBlocks
    BY <2>1 DEF FreedSlot, HeapBlocks
  <2>5. HeapBuffers' = HeapBuffers \ {e}
    <3>1. \A d, j : Element(d, j)' = Element(d, j)
      BY <2>1 DEF FreedSlot, Element, ElementAddress
    <3>2. \A x : x \in HeapBuffers' <=> \E d \in Mapped' : \E j \in used'[d] : x = Element(d, j)'
      BY DEF HeapBuffers, Element
    <3>3. ASSUME NEW x \in HeapBuffers' PROVE x \in HeapBuffers /\ x # e
      <4>1. PICK d \in Mapped : \E j \in used'[d] : x = Element(d, j)
        BY <2>1, <3>1, <3>2 DEF FreedSlot
      <4>2. PICK j \in used'[d] : x = Element(d, j)
        BY <4>1
      <4>3. j \in used[d] /\ ~ (d = c /\ j = i)
        BY <1>1, <2>1 DEF FreedSlot
      <4>4. x # e
        BY <1>1, <2>2, <4>2, <4>3, SameElement
      <4> QED BY <4>2, <4>3, <4>4, InHeapBuffers
    <3>4. ASSUME NEW x \in HeapBuffers, x # e PROVE x \in HeapBuffers'
      <4>1. PICK d \in Mapped : \E j \in used[d] : x = Element(d, j)
        BY InHeapBuffers
      <4>2. PICK j \in used[d] : x = Element(d, j)
        BY <4>1
      <4>3. j \in used'[d] /\ d \in Mapped'
        BY <1>1, <2>1, <3>4, <4>2 DEF FreedSlot
      <4> QED BY <3>1, <3>2, <4>2, <4>3
    <3> QED BY <3>3, <3>4
  <2>6. Heap!Free
    BY <2>3, <2>4, <2>5, HeapFree
  <2> QED BY <2>6 DEF Heap!HeapNext
<1>5. CASE CleanDelete(t)
  <2>1. PICK c : Destroyed(t, c)
    BY <1>5, DestroyEffect
  <2> PICK b : b = [at |-> c, len |-> memorysize[c]]
    OBVIOUS
  <2>2. b \in HeapBlocks /\ c \in Mapped
    BY <2>1 DEF Destroyed, HeapBlocks
  <2>3. HeapBlocks' = HeapBlocks \ {b}
    BY <2>1 DEF Destroyed, HeapBlocks
  <2>4. HeapBuffers' = HeapBuffers
    <3>1. \A d : d # c => \A i : Element(d, i)' = Element(d, i)
      BY <2>1 DEF Destroyed, Element, ElementAddress
    <3>2. \A x : x \in HeapBuffers' <=> \E d \in Mapped' : \E j \in used'[d] : x = Element(d, j)'
      BY DEF HeapBuffers, Element
    <3>3. \A x : x \in HeapBuffers' <=> x \in HeapBuffers
      BY <2>1, <3>1, <3>2, InHeapBuffers DEF Destroyed
    <3>4. HeapBuffers' \subseteq HeapBuffers /\ HeapBuffers \subseteq HeapBuffers'
      BY <3>3
    <3> QED BY <3>4
  <2>5. ASSUME NEW e \in HeapBuffers PROVE ~ (b.at <= e.at /\ e.at + e.len <= b.at + b.len)
    <3>1. PICK d \in Mapped : \E j \in used[d] : e = Element(d, j)
      BY InHeapBuffers
    <3>2. PICK j \in used[d] : e = Element(d, j)
      BY <3>1
    <3>3. d # c
      BY <2>1 DEF Destroyed
    <3>4. c + memorysize[c] <= d \/ d + memorysize[d] <= c
      BY <1>1, <2>2, <3>3 DEF ChunkInv
    <3>5. /\ d \in Nat /\ memorysize[d] \in Nat /\ elSize(d) \in Nat \ {0} /\ ElementAddress(d, j) \in Nat
          /\ d <= ElementAddress(d, j) /\ ElementAddress(d, j) + elSize(d) <= d + memorysize[d]
      BY <1>1, ElementInBlock
    <3>6. c \in Nat /\ memorysize[c] \in Nat
      BY <1>1, <2>2, SizesAssumption DEF TypeOK
    <3>7. e.at = ElementAddress(d, j) /\ e.len = elSize(d) /\ b.at = c /\ b.len = memorysize[c]
      BY <3>2 DEF Element
    <3> QED BY <3>4, <3>5, <3>6, <3>7
  <2>6. Heap!Shrink
    BY <2>2, <2>3, <2>4, <2>5, HeapShrink
  <2> QED BY <2>6 DEF Heap!HeapNext
<1>6. CASE UNCHANGED <<chunkRange, memorysize, used>>
  <2>1. Mapped' = Mapped
    BY <1>6 DEF Mapped
  <2>2. HeapBlocks' = HeapBlocks /\ HeapBuffers' = HeapBuffers
    BY <1>6, <2>1 DEF HeapBlocks, HeapBuffers, ElementAddress, elSize
  <2> QED BY <2>2
<1> QED BY <1>2, <1>3, <1>4, <1>5, <1>6, NoEffect

(* The manager implements a heap.                                          *)
THEOREM HeapCorrect == Spec => ImplementsHeap
<1>1. Init => Heap!HeapInit
  BY DEF Init, Heap!HeapInit, Mapped
<1>2. ASSUME IndInv, FitInv, [Next]_vars PROVE [Heap!HeapNext]_<<HeapBlocks, HeapBuffers>>
  <2>1. CASE UNCHANGED vars
    <3>1. UNCHANGED <<chunkRange, memorysize, used>> /\ Mapped' = Mapped
      BY <2>1 DEF vars, memoryVars, Mapped
    <3> QED BY <3>1 DEF HeapBlocks, HeapBuffers, ElementAddress, elSize
  <2>2. CASE \E t \in Threads : Call(t) \/ Step(t)
    BY <1>2, <2>2, HeapStep
  <2> QED BY <1>2, <2>1, <2>2 DEF Next
<1>3. IndInv /\ FitInv /\ [Next]_vars => [Heap!HeapNext]_Heap!heapVars
  BY <1>2 DEF Heap!heapVars, HeapBlocks, HeapBuffers
<1> QED BY <1>1, <1>3, FitInductive, PTL DEF Spec, ImplementsHeap, Heap!HeapSpec

-----------------------------------------------------------------------------
(* The counters.  Every step moves one chunk and one thread at most        *)
(* between the sets that the two equations of EmptyBlocksExact count, so   *)
(* its proof is a balance: what the chunk's and the thread's new places    *)
(* add and take away is what the step adds to the counter.  Reducing       *)
(* modulo Word at every step does no harm, because the remainder of a sum  *)
(* is that of its remainders.                                              *)

-----------------------------------------------------------------------------
(* Sums over threads.                                                      *)

(* The sum over a set of threads is that of a function on the threads.     *)
HandSize(sizes, locals, threads) == [u \in threads |-> sizes[locals[u].ch]]

LEMMA HandSum ==
  ASSUME NEW sizes, NEW locals, NEW T, IsFiniteSet(T)
  PROVE  MapThenSumSet(LAMBDA u : sizes[locals[u].ch], T) = SumOf(HandSize(sizes, locals, T), T)
<1> DEFINE f == HandSize(sizes, locals, T)
           Body(g) == [s \in SUBSET T |-> IF s = {} THEN 0
                                          ELSE sizes[locals[Chosen(s)].ch] + g[s \ {Chosen(s)}]]
           sums == CHOOSE g : g = Body(g)
<1>1. MapThenSumSet(LAMBDA u : sizes[locals[u].ch], T) = sums[T]
  BY DEF Chosen, MapThenSumSet, MapThenFoldSet
<1>2. \A g : Body(g) = [s \in SUBSET T |-> IF s = {} THEN 0 ELSE f[Chosen(s)] + g[s \ {Chosen(s)}]]
  <2>1. \A s \in SUBSET T : s # {} => f[Chosen(s)] = sizes[locals[Chosen(s)].ch]
    BY DEF Chosen, HandSize
  <2> HIDE DEF f
  <2> QED BY <2>1
<1>3. \A g : IsSums(f, T, g) <=> g = Body(g)
  <2> HIDE DEF f, Body
  <2> QED BY <1>2 DEF IsSums
<1>4. IsSums(f, T, PartialSums(f, T))
  BY PartialSumsExist
<1>5. IsSums(f, T, sums)
  <2> HIDE DEF f, Body
  <2> QED BY <1>3, <1>4
<1>6. sums[T] = PartialSums(f, T)[T]
  <2>1. T \subseteq T
    OBVIOUS
  <2> HIDE DEF f, sums
  <2> QED BY <1>4, <1>5, <2>1, PartialSumsUnique
<1> QED BY <1>1, <1>6, SumIsPartialSum

-----------------------------------------------------------------------------
(* The two equations of EmptyBlocksExact.                                  *)

(* The threads that have emptied or created a chunk and not yet added it,  *)
(* to the number and to the size, and those that have not yet taken it     *)
(* from the number.                                                        *)
OweCount == {"a_fresh", "d_size", "d_count"}
OweSize == {"a_fresh", "d_size"}
OweTake == {"a_count"}

CountExact ==
  emptyBlocksCount =
    (Cardinality(EmptyChunks) - Cardinality(At(OweCount)) - Cardinality(Doomed)
       + Cardinality(At(OweTake))) % Word

SizeExact ==
  emptyBlocksSize =
    (SizeOf(EmptyChunks) - SizeInHand(At(OweSize)) - SizeOf(Doomed) - SizeOf(Dropping)) % Word

LEMMA BothExact == EmptyBlocksExact <=> CountExact /\ SizeExact
BY DEF EmptyBlocksExact, CountExact, SizeExact, OweCount, OweSize, OweTake

(* What the equations count are chunks of the pool.                        *)
Countable ==
  /\ EmptyChunks \subseteq Mapped /\ Doomed \subseteq Mapped /\ Dropping \subseteq Mapped
  /\ Mapped \subseteq PoolAddresses /\ memorysize \in [PoolAddresses -> Nat]
  /\ \A u \in Threads : pc[u] \in OweCount \cup OweTake => local[u].ch \in Mapped
  /\ emptyBlocksCount \in 0 .. Word - 1 /\ emptyBlocksSize \in 0 .. Word - 1

LEMMA InvCountable == IndInv => Countable
<1> SUFFICES ASSUME IndInv PROVE Countable
  OBVIOUS
<1>1. /\ TypeOK /\ ListPlaceInv /\ ThreadPlaceInv /\ CursorInv /\ HandInv
      /\ Mapped \subseteq PoolAddresses /\ \A b \in Buckets : memory[b] \subseteq Mapped
  BY InvFacts DEF IndInv, ChunkInv
<1>2. Doomed \subseteq Mapped
  BY <1>1 DEF Doomed, ThreadPlaceInv, DoomedBy
<1>3. Dropping \subseteq Mapped
  <2> SUFFICES ASSUME NEW t \in Threads, pc[t] = "c_drop"
               PROVE  freeStore[local[t].fs][local[t].row][local[t].pos] \in Mapped
    BY DEF Dropping, At
  <2> DEFINE list == freeStore[local[t].fs][local[t].row]
  <2>1. local[t].fs \in Stores /\ local[t].row \in Ranges /\ local[t].pos \in 1 .. Len(list)
    BY <1>1, ThreadFacts DEF CursorInv, Cursor, Locals
  <2>2. freeStore \in ListFamilies(Stores)
    BY <1>1 DEF TypeOK, ListFamilies
  <2>3. list \in Seq(PoolAddresses) /\ ToSet(list) \subseteq Held(freeStore)
    BY <2>1, <2>2, HeldIn DEF ListFamilies
  <2>4. list[local[t].pos] \in ToSet(list)
    <3> HIDE DEF list
    <3> QED BY <2>1, <2>3, ToSetFacts
  <2> QED BY <1>1, <2>3, <2>4 DEF ListPlaceInv, Listed
<1>4. ASSUME NEW u \in Threads, pc[u] \in OweCount \cup OweTake PROVE local[u].ch \in Mapped
  <2>1. CASE pc[u] = "a_fresh"
    BY <1>1, <2>1 DEF HandInv, Hand
  <2>2. CASE pc[u] \in {"d_size", "d_count", "a_count"}
    <3> PICK c : c = local[u].ch
      OBVIOUS
    <3>1. c \in memory[getMemoryBucket(c)]
      BY <1>1, <2>2 DEF HandInv, Hand
    <3>2. local[u].ch \in PoolAddresses \cup {NULL}
      BY ThreadFacts DEF Locals
    <3>3. getMemoryBucket(c) \in Buckets
      BY <3>2, IndexTypes, SizesAssumption DEF NULL
    <3> QED BY <1>1, <3>1, <3>3
  <2> QED BY <1>4, <2>1, <2>2 DEF OweCount, OweTake
<1> QED BY <1>1, <1>2, <1>3, <1>4 DEF Countable, EmptyChunks, TypeOK

LEMMA InvCountableNext == IndInv' => Countable'
BY InvCountable, PTL

(* Where a step's own thread is makes the difference.                      *)
LEMMA AtStep ==
  ASSUME CountingInv, NEW t \in Threads, Others(t), NEW places, "idle" \notin places
  PROVE  /\ IsFiniteSet(At(places)) /\ At(places)' \ {t} = At(places) \ {t}
         /\ t \in At(places) <=> pc[t] \in places
         /\ t \in At(places)' <=> pc'[t] \in places
<1>1. At(places) \subseteq {u \in Threads : pc[u] # "idle"}
  BY DEF At
<1> QED BY <1>1, FS_Subset DEF CountingInv, Others, At

(* A step that changes the number by as much as the places of its chunk    *)
(* and of its thread ask for keeps the first equation.                     *)
CountChange(t, c) ==
    One(c \in EmptyChunks') - One(c \in EmptyChunks)
  - (One(pc'[t] \in OweCount) - One(pc[t] \in OweCount))
  - (One(c \in Doomed') - One(c \in Doomed))
  + (One(pc'[t] \in OweTake) - One(pc[t] \in OweTake))

LEMMA CountBalance ==
  ASSUME CountingInv, Countable, CountExact, NEW t \in Threads, Others(t), NEW c,
         EmptyChunks' \ {c} = EmptyChunks \ {c}, Doomed' \ {c} = Doomed \ {c},
         emptyBlocksCount' = (emptyBlocksCount + CountChange(t, c)) % Word
  PROVE  CountExact'
<1>1. IsFiniteSet(EmptyChunks) /\ IsFiniteSet(Doomed)
  BY FS_Subset DEF CountingInv, Countable
<1>2. /\ Cardinality(EmptyChunks) \in Nat /\ Cardinality(EmptyChunks)' \in Nat
      /\ Cardinality(EmptyChunks)'
           = Cardinality(EmptyChunks) - One(c \in EmptyChunks) + One(c \in EmptyChunks')
  BY <1>1, CountStep
<1>3. /\ Cardinality(Doomed) \in Nat /\ Cardinality(Doomed)' \in Nat
      /\ Cardinality(Doomed)' = Cardinality(Doomed) - One(c \in Doomed) + One(c \in Doomed')
  BY <1>1, CountStep
<1>4. ASSUME NEW places, "idle" \notin places
      PROVE  /\ Cardinality(At(places)) \in Nat /\ Cardinality(At(places))' \in Nat
             /\ Cardinality(At(places))'
                  = Cardinality(At(places)) - One(pc[t] \in places) + One(pc'[t] \in places)
  <2>1. /\ IsFiniteSet(At(places)) /\ At(places)' \ {t} = At(places) \ {t}
        /\ t \in At(places) <=> pc[t] \in places
        /\ t \in At(places)' <=> pc'[t] \in places
    BY <1>4, AtStep
  <2>2. /\ Cardinality(At(places)) \in Nat /\ Cardinality(At(places))' \in Nat
        /\ Cardinality(At(places))'
             = Cardinality(At(places)) - One(t \in At(places)) + One(t \in At(places)')
    BY <2>1, CountStep
  <2>3. One(t \in At(places)) = One(pc[t] \in places) /\ One(t \in At(places)') = One(pc'[t] \in places)
    BY <2>1 DEF One
  <2> QED BY <2>2, <2>3
<1>5. "idle" \notin OweCount /\ "idle" \notin OweTake
  BY DEF OweCount, OweTake
<1> PICK x, y : /\ x = Cardinality(EmptyChunks) - Cardinality(At(OweCount)) - Cardinality(Doomed)
                       + Cardinality(At(OweTake))
                /\ y = Cardinality(EmptyChunks)' - Cardinality(At(OweCount))' - Cardinality(Doomed)'
                       + Cardinality(At(OweTake))'
  OBVIOUS
<1> PICK k : k = CountChange(t, c)
  OBVIOUS
<1>6. k \in Int
  BY DEF CountChange, One
<1>7. x \in Int /\ y = x + k
  <2> PICK e, e2, d, d2, h, h2, a, a2 :
        /\ e = One(c \in EmptyChunks) /\ e2 = One(c \in EmptyChunks')
        /\ d = One(c \in Doomed) /\ d2 = One(c \in Doomed')
        /\ h = One(pc[t] \in OweCount) /\ h2 = One(pc'[t] \in OweCount)
        /\ a = One(pc[t] \in OweTake) /\ a2 = One(pc'[t] \in OweTake)
    OBVIOUS
  <2>1. /\ e \in Int /\ e2 \in Int /\ d \in Int /\ d2 \in Int
        /\ h \in Int /\ h2 \in Int /\ a \in Int /\ a2 \in Int
    BY DEF One
  <2>2. k = e2 - e - (h2 - h) - (d2 - d) + (a2 - a)
    BY DEF CountChange
  <2> PICK E, E2, D, D2, H, H2, A, A2 :
        /\ E = Cardinality(EmptyChunks) /\ E2 = Cardinality(EmptyChunks)'
        /\ D = Cardinality(Doomed) /\ D2 = Cardinality(Doomed)'
        /\ H = Cardinality(At(OweCount)) /\ H2 = Cardinality(At(OweCount))'
        /\ A = Cardinality(At(OweTake)) /\ A2 = Cardinality(At(OweTake))'
    OBVIOUS
  <2>3. E \in Nat /\ E2 = E - e + e2 /\ D \in Nat /\ D2 = D - d + d2
    BY <1>2, <1>3
  <2>4. H \in Nat /\ H2 = H - h + h2
    BY <1>4, <1>5
  <2>5. A \in Nat /\ A2 = A - a + a2
    BY <1>4, <1>5
  <2>6. x = E - H - D + A /\ y = E2 - H2 - D2 + A2
    OBVIOUS
  <2> PICK i, j, l, q : i = e2 - e /\ j = h2 - h /\ l = d2 - d /\ q = a2 - a
    OBVIOUS
  <2>7. i \in Int /\ j \in Int /\ l \in Int /\ q \in Int
    BY <2>1
  <2>8. k = i - j - l + q
    BY <2>2
  <2>9. E2 = E + i /\ D2 = D + l
    BY <2>1, <2>3
  <2>10. H2 = H + j /\ A2 = A + q
    BY <2>1, <2>4, <2>5
  <2>11. E \in Int /\ H \in Int /\ D \in Int /\ A \in Int
    BY <2>3, <2>4, <2>5
  <2>12. y = (E + i) - (H + j) - (D + l) + (A + q)
    BY <2>6, <2>9, <2>10
  <2>13. x \in Int /\ x = E - H - D + A
    BY <2>6, <2>11
  <2> QED BY <2>7, <2>8, <2>11, <2>12, <2>13
<1>8. emptyBlocksCount' = ((x % Word) + k) % Word
  BY DEF CountExact
<1>9. emptyBlocksCount' = y % Word
  <2>1. Word \in Nat \ {0}
    BY CountsAssumption
  <2>2. x \in Int /\ k \in Int /\ y = x + k
    BY <1>6, <1>7
  <2>3. ((x % Word) + k) % Word = (x + k) % Word
    BY <2>1, <2>2, RemainderOfSum, ZenonT(30)
  <2> QED BY <1>8, <2>2, <2>3, Zenon
<1> QED BY <1>9 DEF CountExact

(* The same for the size.                                                  *)
SizeChange(t, c) ==
    If(c \in EmptyChunks', memorysize'[c]) - If(c \in EmptyChunks, memorysize[c])
  - (If(pc'[t] \in OweSize, memorysize'[local'[t].ch]) - If(pc[t] \in OweSize, memorysize[local[t].ch]))
  - (If(c \in Doomed', memorysize'[c]) - If(c \in Doomed, memorysize[c]))
  - (If(c \in Dropping', memorysize'[c]) - If(c \in Dropping, memorysize[c]))

LEMMA HandStep ==
  ASSUME CountingInv, Countable, Countable', NEW t \in Threads, Others(t),
         \A u \in Threads : u # t /\ pc[u] \in OweSize =>
           memorysize'[local[u].ch] = memorysize[local[u].ch]
  PROVE  /\ SizeInHand(At(OweSize)) \in Nat /\ SizeInHand(At(OweSize))' \in Nat
         /\ SizeInHand(At(OweSize))'
              = SizeInHand(At(OweSize)) - If(pc[t] \in OweSize, memorysize[local[t].ch])
                + If(pc'[t] \in OweSize, memorysize'[local'[t].ch])
<1> PICK S, T : S = At(OweSize) /\ T = At(OweSize)'
  OBVIOUS
<1> PICK f, g : f = HandSize(memorysize, local, S) /\ g = HandSize(memorysize', local', T)
  OBVIOUS
<1>1. /\ IsFiniteSet(S) /\ T \ {t} = S \ {t}
      /\ t \in S <=> pc[t] \in OweSize
      /\ t \in T <=> pc'[t] \in OweSize
  BY AtStep DEF OweSize
<1>2. IsFiniteSet(T)
  BY <1>1, CountStep
<1>3. /\ \A u \in S : f[u] = memorysize[local[u].ch]
      /\ \A u \in T : g[u] = memorysize'[local'[u].ch]
  BY DEF HandSize
<1>4. SizeInHand(At(OweSize)) = SumOf(f, S)
  BY <1>1, HandSum DEF SizeInHand
<1>5. SizeInHand(At(OweSize))' = SumOf(g, T)
  <2>1. SizeInHand(At(OweSize))' = MapThenSumSet(LAMBDA u : memorysize'[local'[u].ch], T)
    BY DEF SizeInHand, MapThenSumSet, MapThenFoldSet
  <2> QED BY <1>2, <2>1, HandSum
<1>6. (\A u \in S : u \in Threads /\ pc[u] \in OweSize) /\ \A u \in T : u \in Threads /\ pc'[u] \in OweSize
  BY DEF At
<1>7. \A u \in S : f[u] \in Nat
  BY <1>3, <1>6 DEF Countable, OweSize, OweCount
<1>8. \A u \in T : g[u] \in Nat
  BY <1>3, <1>6 DEF Countable, OweSize, OweCount
<1>9. \A u \in S : u # t => g[u] = f[u]
  <2>1. \A u \in S : u # t => u \in T /\ local'[u] = local[u]
    BY <1>1, <1>6 DEF Others
  <2> QED BY <1>3, <1>6, <2>1
<1>10. /\ SumOf(f, S) \in Nat /\ SumOf(g, T) \in Nat
       /\ SumOf(g, T) = SumOf(f, S) - If(t \in S, f[t]) + If(t \in T, g[t])
  BY <1>1, <1>7, <1>8, <1>9, SumStep
<1>11. If(t \in S, f[t]) = If(pc[t] \in OweSize, memorysize[local[t].ch])
  BY <1>1, <1>3 DEF If
<1>12. If(t \in T, g[t]) = If(pc'[t] \in OweSize, memorysize'[local'[t].ch])
  BY <1>1, <1>3 DEF If
<1> QED BY <1>4, <1>5, <1>10, <1>11, <1>12

LEMMA SizeBalance ==
  ASSUME CountingInv, Countable, Countable', SizeExact, NEW t \in Threads, Others(t), NEW c,
         EmptyChunks' \ {c} = EmptyChunks \ {c}, Doomed' \ {c} = Doomed \ {c},
         Dropping' \ {c} = Dropping \ {c},
         \A d \in Mapped : d # c => memorysize'[d] = memorysize[d],
         \A u \in Threads : u # t /\ pc[u] \in OweSize =>
           memorysize'[local[u].ch] = memorysize[local[u].ch],
         emptyBlocksSize' = (emptyBlocksSize + SizeChange(t, c)) % Word
  PROVE  SizeExact'
<1> DEFINE m == memorysize
           n == memorysize'
<1>1. ASSUME NEW S, NEW T, S \subseteq Mapped, T \subseteq Mapped', T \ {c} = S \ {c}
      PROVE  /\ SumOf(m, S) \in Nat /\ SumOf(n, T) \in Nat
             /\ SumOf(n, T) = SumOf(m, S) - If(c \in S, m[c]) + If(c \in T, n[c])
  <2>1. IsFiniteSet(S)
    BY <1>1, FS_Subset DEF CountingInv
  <2>2. (\A d \in S : m[d] \in Nat) /\ \A d \in T : n[d] \in Nat
    BY <1>1 DEF Countable
  <2>3. \A d \in S : d # c => n[d] = m[d]
    BY <1>1
  <2> HIDE DEF m, n
  <2> QED BY <1>1, <2>1, <2>2, <2>3, SumStep
<1> HIDE DEF m, n
<1> PICK e, h, d, p : /\ e = SumOf(m, EmptyChunks) /\ h = SizeInHand(At(OweSize))
                      /\ d = SumOf(m, Doomed) /\ p = SumOf(m, Dropping)
  OBVIOUS
<1> PICK e2, h2, d2, p2 : /\ e2 = SumOf(n, EmptyChunks') /\ h2 = SizeInHand(At(OweSize))'
                          /\ d2 = SumOf(n, Doomed') /\ p2 = SumOf(n, Dropping')
  OBVIOUS
<1>2. /\ e \in Nat /\ e2 \in Nat /\ d \in Nat /\ d2 \in Nat /\ p \in Nat /\ p2 \in Nat
      /\ e2 = e - If(c \in EmptyChunks, m[c]) + If(c \in EmptyChunks', n[c])
      /\ d2 = d - If(c \in Doomed, m[c]) + If(c \in Doomed', n[c])
      /\ p2 = p - If(c \in Dropping, m[c]) + If(c \in Dropping', n[c])
  BY <1>1 DEF Countable
<1>3. /\ h \in Nat /\ h2 \in Nat
      /\ h2 = h - If(pc[t] \in OweSize, m[local[t].ch]) + If(pc'[t] \in OweSize, n[local'[t].ch])
  BY HandStep DEF m, n
<1>4. /\ If(c \in EmptyChunks, m[c]) \in Int /\ If(c \in EmptyChunks', n[c]) \in Int
      /\ If(c \in Doomed, m[c]) \in Int /\ If(c \in Doomed', n[c]) \in Int
      /\ If(c \in Dropping, m[c]) \in Int /\ If(c \in Dropping', n[c]) \in Int
      /\ If(pc[t] \in OweSize, m[local[t].ch]) \in Int /\ If(pc'[t] \in OweSize, n[local'[t].ch]) \in Int
  <2>1. (\A x \in Mapped : m[x] \in Nat) /\ \A x \in Mapped' : n[x] \in Nat
    BY DEF m, n, Countable
  <2>2. (pc[t] \in OweSize => local[t].ch \in Mapped) /\ (pc'[t] \in OweSize => local'[t].ch \in Mapped')
    BY DEF Countable, OweSize, OweCount
  <2> QED BY <2>1, <2>2 DEF If, Countable
<1> PICK k : k = SizeChange(t, c)
  OBVIOUS
<1> PICK v, v2, w, w2, x, x2, y, y2 :
      /\ v = If(c \in EmptyChunks, m[c]) /\ v2 = If(c \in EmptyChunks', n[c])
      /\ w = If(c \in Doomed, m[c]) /\ w2 = If(c \in Doomed', n[c])
      /\ x = If(c \in Dropping, m[c]) /\ x2 = If(c \in Dropping', n[c])
      /\ y = If(pc[t] \in OweSize, m[local[t].ch]) /\ y2 = If(pc'[t] \in OweSize, n[local'[t].ch])
  OBVIOUS
<1>5. k = v2 - v - (y2 - y) - (w2 - w) - (x2 - x)
  BY DEF m, n, SizeChange
<1>6. /\ v \in Int /\ v2 \in Int /\ w \in Int /\ w2 \in Int
      /\ x \in Int /\ x2 \in Int /\ y \in Int /\ y2 \in Int
  BY <1>4
<1>7. e2 = e - v + v2 /\ d2 = d - w + w2 /\ p2 = p - x + x2 /\ h2 = h - y + y2
  BY <1>2, <1>3
<1>8. /\ e \in Nat /\ e2 \in Nat /\ d \in Nat /\ d2 \in Nat /\ p \in Nat /\ p2 \in Nat
      /\ h \in Nat /\ h2 \in Nat
  BY <1>2, <1>3
<1> PICK a, b : a = e - h - d - p /\ b = e2 - h2 - d2 - p2
  OBVIOUS
<1>9. a \in Int /\ k \in Int /\ b = a + k
  <2>1. PICK r \in Int, s \in Int : /\ r = (v2 - v) - (y2 - y) /\ s = (w2 - w) + (x2 - x)
                                   /\ e2 - h2 = (e - h) + r /\ d2 + p2 = (d + p) + s
    <3>1. e2 - h2 = (e - h) + ((v2 - v) - (y2 - y))
      BY <1>6, <1>7, <1>8
    <3>2. d2 + p2 = (d + p) + ((w2 - w) + (x2 - x))
      BY <1>6, <1>7, <1>8
    <3> QED BY <1>6, <3>1, <3>2
  <2>2. a = (e - h) - (d + p) /\ b = (e2 - h2) - (d2 + p2) /\ k = r - s
    BY <1>5, <1>6, <1>8, <2>1
  <2>3. e - h \in Int /\ d + p \in Int
    BY <1>8
  <2> QED BY <2>1, <2>2, <2>3
<1>10. emptyBlocksSize = a % Word
  BY DEF SizeExact, SizeOf, SumOf, m
<1>11. emptyBlocksSize' = b % Word
  <2>1. emptyBlocksSize' = ((a % Word) + k) % Word
    BY <1>10
  <2>2. Word \in Nat \ {0}
    BY CountsAssumption
  <2>3. a \in Int /\ k \in Int /\ b = a + k
    BY <1>9
  <2>4. ((a % Word) + k) % Word = (a + k) % Word
    BY <2>2, <2>3, RemainderOfSum, ZenonT(30)
  <2> QED BY <2>1, <2>3, <2>4, ZenonT(30)
<1>12. SizeOf(EmptyChunks)' = e2 /\ SizeOf(Doomed)' = d2 /\ SizeOf(Dropping)' = p2
  BY DEF SizeOf, SumOf, MapThenSumSet, MapThenFoldSet, n
<1> QED BY <1>11, <1>12 DEF SizeExact

-----------------------------------------------------------------------------
(* What a step leaves alone.                                               *)

Dooming == {"c_look", "c_drop", "c_delete"}

(* A thread outside the sweep has doomed nothing.                          *)
NothingDoomed == \A u \in Threads : pc[u] \notin Dooming => DoomedBy(u) = {}

LEMMA InvNothingDoomed == IndInv => NothingDoomed
<1>1. ToSet(<<>>) = {}
  <2>1. <<>> \in Seq(PoolAddresses)
    OBVIOUS
  <2> QED BY <2>1, ToSetFacts, Zenon
<1> QED BY <1>1 DEF IndInv, ThreadPlaceInv, NothingDoomed, Dooming, DoomedBy

LEMMA InvNothingDoomedNext == IndInv' => NothingDoomed'
BY InvNothingDoomed, PTL

LEMMA DoomedIs == Doomed = UNION {DoomedBy(u) : u \in Threads}
BY DEF Doomed, DoomedBy

(* The doomed chunks change only with their thread's list.                 *)
LEMMA DoomedKept ==
  ASSUME IndInv, IndInv', NEW t \in Threads, Others(t),
         \/ local'[t].toDelete = local[t].toDelete
         \/ pc[t] \notin Dooming /\ pc'[t] \notin Dooming
  PROVE  Doomed' = Doomed
<1>1. \A u \in Threads : DoomedBy(u)' = DoomedBy(u)
  <2>1. ASSUME NEW u \in Threads, u # t PROVE DoomedBy(u)' = DoomedBy(u)
    BY <2>1 DEF Others, DoomedBy
  <2>2. CASE local'[t].toDelete = local[t].toDelete
    BY <2>1, <2>2 DEF DoomedBy
  <2>3. CASE pc[t] \notin Dooming /\ pc'[t] \notin Dooming
    BY <2>1, <2>3, InvNothingDoomed, InvNothingDoomedNext DEF NothingDoomed
  <2> QED BY <2>2, <2>3
<1>2. Doomed' = UNION {DoomedBy(u)' : u \in Threads}
  BY DEF Doomed, DoomedBy
<1> QED BY <1>1, <1>2, DoomedIs

(* The chunk about to be doomed is in a list under its cleaner's lock.     *)
LEMMA DroppingKept ==
  ASSUME IndInv, NEW t \in Threads, Others(t), pc[t] # "c_drop", pc'[t] # "c_drop",
         \A x \in Stores : storeLock[x] \notin {NoThread, t} => freeStore'[x] = freeStore[x]
  PROVE  Dropping' = Dropping
<1>1. At({"c_drop"})' = At({"c_drop"})
  BY DEF Others, At
<1>2. ASSUME NEW u \in At({"c_drop"})
      PROVE  local'[u] = local[u] /\ freeStore'[local[u].fs] = freeStore[local[u].fs]
  <2>1. u \in Threads /\ pc[u] = "c_drop" /\ u # t
    BY DEF At
  <2>2. local[u].fs \in Stores /\ storeLock[local[u].fs] = u /\ u # NoThread
    BY <2>1, ThreadFacts DEF Locals, LocksOf, HoldsStore
  <2> QED BY <2>1, <2>2 DEF Others
<1> QED BY <1>1, <1>2 DEF Dropping

(* Outside the cleaner nobody is about to doom a chunk.                    *)
LEMMA OneDrops ==
  ASSUME IndInv, NEW t \in Threads, pc[t] \in HoldsClean
  PROVE  \A u \in Threads : pc[u] = "c_drop" => u = t
<1>1. cleanMutex = t
  BY ThreadFacts DEF LocksOf
<1> QED BY <1>1, ThreadFacts DEF LocksOf, HoldsClean

(* The steps' two obligations.                                             *)
LEMMA Balance ==
  ASSUME IndInv, IndInv', CountingInv, EmptyBlocksExact, NEW t \in Threads, Others(t), NEW c,
         EmptyChunks' \ {c} = EmptyChunks \ {c}, Doomed' \ {c} = Doomed \ {c},
         Dropping' \ {c} = Dropping \ {c},
         \A d \in Mapped : d # c => memorysize'[d] = memorysize[d],
         \A u \in Threads : u # t /\ pc[u] \in OweSize =>
           memorysize'[local[u].ch] = memorysize[local[u].ch],
         emptyBlocksCount' = (emptyBlocksCount + CountChange(t, c)) % Word,
         emptyBlocksSize' = (emptyBlocksSize + SizeChange(t, c)) % Word
  PROVE  EmptyBlocksExact'
<1>1. CountExact /\ SizeExact /\ Countable /\ Countable'
  BY BothExact, InvCountable, InvCountableNext
<1>2. CountExact' /\ SizeExact'
  BY <1>1, CountBalance, SizeBalance
<1> QED BY <1>2, BothExact DEF EmptyBlocksExact, CountExact, SizeExact, OweCount, OweSize, OweTake

LEMMA CountingFrame ==
  ASSUME IndInv, CountingInv, NEW t \in Threads, Others(t), IsFiniteSet(Mapped'),
         \A u \in Threads : u # t /\ pc[u] \in {"d_size", "d_count"} => used'[local[u].ch] = {},
         pc'[t] \in {"d_size", "d_count"} => used'[local'[t].ch] = {}
  PROVE  CountingInv'
<1>1. IsFiniteSet({u \in Threads : pc'[u] # "idle"})
  <2> DEFINE S == {u \in Threads : pc[u] # "idle"}
             T == {u \in Threads : pc'[u] # "idle"}
  <2>1. T \ {t} = S \ {t} /\ IsFiniteSet(S)
    BY DEF Others, CountingInv
  <2> HIDE DEF S, T
  <2>2. IsFiniteSet(T)
    BY <2>1, CountStep
  <2> QED BY <2>2 DEF T
<1>2. \A u \in Threads : pc'[u] \in {"d_size", "d_count"} => used'[local'[u].ch] = {}
  BY DEF Others
<1> QED BY <1>1, <1>2 DEF CountingInv, empty

(* A number that does not change is its own remainder.                     *)
LEMMA NoChange ==
  ASSUME NEW a \in 0 .. Word - 1
  PROVE  (a + 0) % Word = a
<1>1. a = 0 * Word + a
  BY CountsAssumption
<1> QED BY <1>1, OneRemainder, CountsAssumption

(* Nor do the equations break when the chunks and the counters stay.       *)
LEMMA Unchanged ==
  ASSUME IndInv, IndInv', CountingInv, EmptyBlocksExact, NEW t \in Threads, Others(t),
         UNCHANGED <<chunkRange, memorysize, used, emptyBlocksCount, emptyBlocksSize>>,
         Doomed' = Doomed, Dropping' = Dropping,
         pc[t] \notin OweCount \cup OweTake, pc'[t] \notin OweCount \cup OweTake
  PROVE  EmptyBlocksExact' /\ CountingInv'
<1>1. Mapped' = Mapped /\ EmptyChunks' = EmptyChunks
  BY DEF Mapped, EmptyChunks, empty
<1>2. PICK c : c = NULL
  OBVIOUS
<1>3. CountChange(t, c) = 0
  BY <1>1 DEF CountChange, One
<1>4. SizeChange(t, c) = 0
  <2>1. \A n \in Nat : n - n = 0
    OBVIOUS
  <2>2. Countable
    BY InvCountable
  <2> QED BY <1>1, <2>2 DEF SizeChange, If, OweSize, OweCount, Countable
<1>5. EmptyBlocksExact'
  <2>1. emptyBlocksCount \in 0 .. Word - 1 /\ emptyBlocksSize \in 0 .. Word - 1
    BY InvCountable DEF Countable
  <2> QED BY <1>1, <1>3, <1>4, <2>1, NoChange, Balance
<1>6. CountingInv'
  <2>1. \A u \in Threads : pc[u] \in {"d_size", "d_count"} => used[local[u].ch] = {}
    BY DEF CountingInv, empty
  <2> QED BY <1>1, <2>1, CountingFrame DEF CountingInv, OweCount
<1> QED BY <1>5, <1>6

-----------------------------------------------------------------------------
(* The steps that neither count nor change a chunk.                        *)

Quiet(t) ==
  \/ Call(t) \/ AllocLockContext(t) \/ AllocFromStore(t) \/ AllocPoolExhausted(t) \/ AllocThrow(t)
  \/ SearchMiss(t) \/ GetInfoHit(t) \/ DeallocStore(t) \/ CleanTryLock(t) \/ CleanTest(t)
  \/ CleanLockContext(t) \/ CleanLockStore(t) \/ CleanVisit(t) \/ CleanLockSweep(t) \/ CleanEnd(t)
  \/ CleanLook(t) /\ pc'[t] # "c_drop"

Loud == OweCount \cup OweTake \cup {"c_drop"}

(* They touch neither the chunks nor, unless clean moves on, the counters. *)
LEMMA QuietChunks ==
  ASSUME TypeOK, NEW t \in Threads, Quiet(t)
  PROVE  UNCHANGED <<chunkRange, memorysize, used, emptyBlocksCount, emptyBlocksSize>>
<1>1. Call(t) => UNCHANGED <<chunkRange, memorysize, used, emptyBlocksCount, emptyBlocksSize>>
  BY DEF Call, Alloc, Dealloc, GetInfo, Clean, memoryVars, counterVars
<1>2. \/ AllocLockContext(t) \/ AllocFromStore(t) \/ AllocPoolExhausted(t) \/ AllocThrow(t)
      \/ SearchMiss(t) \/ GetInfoHit(t) \/ DeallocStore(t)
      => UNCHANGED <<chunkRange, memorysize, used, emptyBlocksCount, emptyBlocksSize>>
  BY DEF AllocLockContext, AllocFromStore, AllocPoolExhausted, AllocThrow, SearchMiss, GetInfoHit,
         DeallocStore, memoryVars, counterVars
<1>3. \/ CleanTryLock(t) \/ CleanTest(t) \/ CleanLockContext(t) \/ CleanLockStore(t) \/ CleanVisit(t)
      \/ CleanLockSweep(t) \/ CleanEnd(t)
      => UNCHANGED <<chunkRange, memorysize, used, emptyBlocksCount, emptyBlocksSize>>
  BY DEF CleanTryLock, CleanTest, CleanLockContext, CleanLockStore, CleanVisit, CleanLockSweep, CleanEnd,
         memoryVars, counterVars
<1>4. CleanLook(t) /\ pc'[t] # "c_drop"
      => UNCHANGED <<chunkRange, memorysize, used, emptyBlocksCount, emptyBlocksSize>>
  <2>1. Goto(t, "c_drop") => pc'[t] = "c_drop"
    <3> HIDE DEF Places
    <3> QED BY DEF Goto, TypeOK
  <2>2. ASSUME CleanLook(t) PROVE Goto(t, "c_drop") \/ UNCHANGED emptyBlocksSize
    BY <2>2, Zenon DEF CleanLook
  <2>3. CleanLook(t) => UNCHANGED <<chunkRange, memorysize, used, emptyBlocksCount>>
    BY DEF CleanLook, memoryVars
  <2> QED BY <2>1, <2>2, <2>3
<1> QED BY <1>1, <1>2, <1>3, <1>4 DEF Quiet

(* They come from and go to places where a thread owes nothing.            *)
LEMMA QuietPlaces ==
  ASSUME TypeOK, NEW t \in Threads, Quiet(t)
  PROVE  pc[t] \notin Loud /\ pc'[t] \notin Loud
<1> DEFINE Fine == pc[t] \notin Loud /\ pc'[t] \notin Loud
<1>0. pc \in [Threads -> Places]
  BY DEF TypeOK
<1>1. \A label : Goto(t, label) => pc'[t] = label
  <2> HIDE DEF Places
  <2> QED BY <1>0 DEF Goto
<1>2. \A label, locals : GotoWith(t, label, locals) => pc'[t] = label
  BY <1>1 DEF GotoWith
<1>3. /\ Return(t) => pc'[t] = "idle"
      /\ CallClean(t) => pc'[t] = "c_try"
      /\ CleanStart(t) => pc'[t] \in {"c_context", "c_sweep"}
      /\ CleanLeave(t) => pc'[t] = "idle"
  BY <1>2 DEF Return, CallClean, CleanStart, CleanLeave
<1>4. \A locals : NextContext(t, locals) => pc'[t] \in {"c_context", "c_sweep"}
  BY <1>2 DEF NextContext
<1>5. \A locals, next, list : SweepOn(t, locals, next, list) => pc'[t] \in {"c_look", "c_delete"}
  BY <1>2 DEF SweepOn
<1>6. Call(t) => Fine
  BY <1>2 DEF Call, Alloc, Dealloc, GetInfo, Clean, Loud, OweCount, OweTake
<1>7. AllocLockContext(t) \/ AllocFromStore(t) \/ AllocPoolExhausted(t) \/ AllocThrow(t) => Fine
  BY <1>2, <1>3 DEF AllocLockContext, AllocFromStore, AllocPoolExhausted, AllocThrow, Loud, OweCount, OweTake
<1>8. SearchMiss(t) \/ GetInfoHit(t) => Fine
  BY <1>2, <1>3 DEF SearchMiss, GetInfoHit, Loud, OweCount, OweTake
<1>9. DeallocStore(t) => Fine
  BY <1>3 DEF DeallocStore, Loud, OweCount, OweTake
<1>10. CleanTryLock(t) \/ CleanLockStore(t) \/ CleanEnd(t) => Fine
  BY <1>1, <1>3 DEF CleanTryLock, CleanLockStore, CleanEnd, Loud, OweCount, OweTake
<1>11. CleanTest(t) => Fine
  BY <1>1, <1>3 DEF CleanTest, Loud, OweCount, OweTake
<1>12. CleanLockContext(t) => Fine
  BY <1>2, <1>4 DEF CleanLockContext, Loud, OweCount, OweTake
<1>13. CleanVisit(t) => Fine
  <2>1. ASSUME CleanVisit(t)
        PROVE  /\ pc[t] = "c_visit"
               /\ \/ \E label \in {"c_visit", "c_list"} : \E locals : GotoWith(t, label, locals)
                  \/ \E locals : NextContext(t, locals)
    BY <2>1, Zenon DEF CleanVisit
  <2> QED BY <1>2, <1>4, <2>1 DEF Loud, OweCount, OweTake
<1>14. CleanLockSweep(t) => Fine
  BY <1>1, <1>2 DEF CleanLockSweep, Loud, OweCount, OweTake
<1>15. CleanLook(t) /\ pc'[t] # "c_drop" => Fine
  <2>1. ASSUME CleanLook(t)
        PROVE  /\ pc[t] = "c_look"
               /\ Goto(t, "c_drop") \/ \E locals, next, list : SweepOn(t, locals, next, list)
    BY <2>1, Zenon DEF CleanLook
  <2> QED BY <1>1, <1>5, <2>1 DEF Loud, OweCount, OweTake
<1> QED BY <1>6, <1>7, <1>8, <1>9, <1>10, <1>11, <1>12, <1>13, <1>14, <1>15 DEF Quiet

(* They leave alone the stores whose lock another thread has.              *)
LEMMA QuietStores ==
  ASSUME IndInv, NEW t \in Threads, Quiet(t)
  PROVE  \A x \in Stores : storeLock[x] \notin {NoThread, t} => freeStore'[x] = freeStore[x]
<1>1. freeStore \in ListFamilies(Stores) /\ local[t].fs \in Stores
  BY InvFacts, ThreadFacts DEF Locals
<1>2. \A x, r, c : freeStore' = PushFront(freeStore, x, r, c) =>
        \A y \in Stores : y # x => freeStore'[y] = freeStore[y]
  BY <1>1 DEF ListFamilies, PushFront
<1>3. \A x, r, k : freeStore' = TakeOut(freeStore, x, r, k) =>
        \A y \in Stores : y # x => freeStore'[y] = freeStore[y]
  BY <1>1 DEF ListFamilies, TakeOut
<1>4. \/ AllocLockContext(t) \/ AllocPoolExhausted(t) \/ AllocThrow(t) \/ Call(t)
      \/ SearchMiss(t) \/ GetInfoHit(t)
      => freeStore' = freeStore
  BY DEF AllocLockContext, AllocPoolExhausted, AllocThrow, SearchMiss, GetInfoHit, Call, Alloc, Dealloc,
         GetInfo, Clean, listVars
<1>5. \/ CleanTryLock(t) \/ CleanTest(t) \/ CleanLockContext(t) \/ CleanLockStore(t)
      \/ CleanLockSweep(t) \/ CleanEnd(t) \/ CleanLook(t)
      => freeStore' = freeStore
  BY DEF CleanTryLock, CleanTest, CleanLockContext, CleanLockStore, CleanLockSweep, CleanEnd, CleanLook, listVars
<1>6. ASSUME AllocFromStore(t)
      PROVE  /\ storeLock[local[t].fs] = NoThread
             /\ freeStore' = freeStore \/ \E r, k : freeStore' = TakeOut(freeStore, local[t].fs, r, k)
  BY <1>6, Zenon DEF AllocFromStore
<1>7. ASSUME DeallocStore(t)
      PROVE  storeLock[local[t].fs] = NoThread /\ \E r, c : freeStore' = PushFront(freeStore, local[t].fs, r, c)
  BY <1>7, Zenon DEF DeallocStore
<1>8. ASSUME CleanVisit(t)
      PROVE  /\ storeLock[local[t].fs] = t
             /\ freeStore' = freeStore \/ \E r, c : freeStore' = PushFront(freeStore, local[t].fs, r, c)
  <2>1. pc[t] = "c_visit"
    BY <1>8 DEF CleanVisit
  <2>2. storeLock[local[t].fs] = t
    BY <1>1, <2>1, ThreadFacts DEF LocksOf, HoldsStore
  <2>3. freeStore' = freeStore \/ \E r, c : freeStore' = PushFront(freeStore, local[t].fs, r, c)
    BY <1>8, Zenon DEF CleanVisit
  <2> QED BY <2>2, <2>3
<1> DEFINE Fine == \A x \in Stores : storeLock[x] \notin {NoThread, t} => freeStore'[x] = freeStore[x]
<1>9. freeStore' = freeStore => Fine
  OBVIOUS
<1>10. AllocFromStore(t) => Fine
  BY <1>3, <1>6
<1>11. DeallocStore(t) => Fine
  BY <1>2, <1>7
<1>12. CleanVisit(t) => Fine
  BY <1>2, <1>8
<1> HIDE DEF Fine
<1>13. Fine
  BY <1>4, <1>5, <1>9, <1>10, <1>11, <1>12 DEF Quiet
<1> QED BY <1>13 DEF Fine

(* They doom nothing.                                                      *)
LEMMA QuietDooms ==
  ASSUME IndInv, NEW t \in Threads, Quiet(t)
  PROVE  \/ local'[t].toDelete = local[t].toDelete
         \/ pc[t] \notin Dooming /\ pc'[t] \notin Dooming
<1> DEFINE Fine == \/ local'[t].toDelete = local[t].toDelete
                   \/ pc[t] \notin Dooming /\ pc'[t] \notin Dooming
<1>0. /\ pc \in [Threads -> Places] /\ local \in [Threads -> Locals] /\ local[t] \in Locals
      /\ pc[t] \notin Dooming => local[t].toDelete = <<>>
  BY ThreadFacts DEF TypeOK, Dooming
<1>1. \A label : Goto(t, label) => pc'[t] = label
  <2> HIDE DEF Places
  <2> QED BY <1>0 DEF Goto
<1>2. \A label, locals : GotoWith(t, label, locals) => pc'[t] = label /\ local'[t] = locals
  <2> HIDE DEF Locals
  <2> QED BY <1>0, <1>1 DEF GotoWith
<1>3. /\ Return(t) => pc'[t] = "idle" /\ local'[t].toDelete = <<>>
      /\ CallClean(t) => pc'[t] = "c_try"
      /\ CleanStart(t) => pc'[t] \in {"c_context", "c_sweep"}
      /\ CleanLeave(t) => pc'[t] = "idle" /\ local'[t].toDelete = <<>>
  <2>1. NoLocals.toDelete = <<>>
    BY DEF NoLocals
  <2>2. Return(t) => pc'[t] = "idle" /\ local'[t].toDelete = <<>>
    BY <1>2, <2>1 DEF Return
  <2> QED BY <1>2, <2>2 DEF CallClean, CleanStart, CleanLeave
<1>4. \A locals : NextContext(t, locals) => pc'[t] \in {"c_context", "c_sweep"}
  BY <1>2 DEF NextContext
<1>5. Call(t) => Fine
  <2>1. ASSUME Call(t)
        PROVE  pc[t] = "idle" /\ \E label \in {"a_context", "d_find", "g_find", "c_try"} : \E locals :
                 GotoWith(t, label, locals)
    BY <2>1, Zenon DEF Call, Alloc, Dealloc, GetInfo, Clean
  <2> QED BY <1>2, <2>1 DEF Dooming
<1>6. AllocLockContext(t) \/ AllocFromStore(t) \/ AllocPoolExhausted(t) \/ AllocThrow(t) => Fine
  BY <1>2, <1>3 DEF AllocLockContext, AllocFromStore, AllocPoolExhausted, AllocThrow, Dooming
<1>7. SearchMiss(t) \/ GetInfoHit(t) => Fine
  BY <1>2, <1>3 DEF SearchMiss, GetInfoHit, Dooming
<1>8. DeallocStore(t) => Fine
  BY <1>3 DEF DeallocStore, Dooming
<1>9. CleanTryLock(t) \/ CleanLockStore(t) => Fine
  BY <1>1, <1>3 DEF CleanTryLock, CleanLockStore, Dooming
<1>10. CleanEnd(t) => Fine
  BY <1>3 DEF CleanEnd
<1>11. CleanTest(t) => Fine
  BY <1>1, <1>3 DEF CleanTest, Dooming
<1>12. CleanLockContext(t) => Fine
  BY <1>2, <1>4 DEF CleanLockContext, Dooming
<1>13. CleanVisit(t) => Fine
  <2>1. ASSUME CleanVisit(t)
        PROVE  /\ pc[t] = "c_visit"
               /\ \/ \E label \in {"c_visit", "c_list"} : \E locals : GotoWith(t, label, locals)
                  \/ \E locals : NextContext(t, locals)
    BY <2>1, Zenon DEF CleanVisit
  <2> QED BY <1>2, <1>4, <2>1 DEF Dooming
<1>14. CleanLockSweep(t) => Fine
  <2>1. ASSUME CleanLockSweep(t)
        PROVE  local' = local \/ \E label, r : GotoWith(t, label, [local[t] EXCEPT !.row = r])
    BY <2>1, Zenon DEF CleanLockSweep
  <2>2. \A r : [local[t] EXCEPT !.row = r].toDelete = local[t].toDelete
    BY <1>0 DEF Locals
  <2> QED BY <1>2, <2>1, <2>2
<1>15. CleanLook(t) /\ pc'[t] # "c_drop" => Fine
  <2>1. ASSUME CleanLook(t)
        PROVE  Goto(t, "c_drop") \/ \E next, list : SweepOn(t, local[t], next, list)
    BY <2>1, Zenon DEF CleanLook
  <2>2. ASSUME NEW next, NEW list, SweepOn(t, local[t], next, list)
        PROVE  \E label, r, k : \/ GotoWith(t, label, [local[t] EXCEPT !.pos = k])
                                \/ GotoWith(t, label, [local[t] EXCEPT !.row = r, !.pos = k])
    BY <2>2, Zenon DEF SweepOn
  <2>3. ASSUME NEW next, NEW list, SweepOn(t, local[t], next, list)
        PROVE  local'[t].toDelete = local[t].toDelete
    <3>1. PICK label, r, k : \/ GotoWith(t, label, [local[t] EXCEPT !.pos = k])
                             \/ GotoWith(t, label, [local[t] EXCEPT !.row = r, !.pos = k])
      BY <2>2, <2>3
    <3>2. \/ local'[t] = [local[t] EXCEPT !.pos = k]
          \/ local'[t] = [local[t] EXCEPT !.row = r, !.pos = k]
      BY <1>2, <3>1
    <3>3. CASE local'[t] = [local[t] EXCEPT !.pos = k]
      BY <1>0, <3>3 DEF Locals
    <3>4. CASE local'[t] = [local[t] EXCEPT !.row = r, !.pos = k]
      BY <1>0, <3>4 DEF Locals
    <3> QED BY <3>2, <3>3, <3>4
  <2> QED BY <1>1, <2>1, <2>3
<1> QED BY <1>5, <1>6, <1>7, <1>8, <1>9, <1>10, <1>11, <1>12, <1>13, <1>14, <1>15 DEF Quiet

LEMMA QuietStep ==
  ASSUME IndInv, IndInv', CountingInv, EmptyBlocksExact, NEW t \in Threads, Others(t), Quiet(t)
  PROVE  EmptyBlocksExact' /\ CountingInv'
<1>1. UNCHANGED <<chunkRange, memorysize, used, emptyBlocksCount, emptyBlocksSize>>
  BY InvFacts, QuietChunks
<1>2. pc[t] \notin Loud /\ pc'[t] \notin Loud
  BY InvFacts, QuietPlaces
<1>3. Doomed' = Doomed
  BY QuietDooms, DoomedKept
<1>4. Dropping' = Dropping
  BY <1>2, QuietStores, DroppingKept DEF Loud
<1> QED BY <1>1, <1>2, <1>3, <1>4, Unchanged DEF Loud

-----------------------------------------------------------------------------
(* The steps that count or change a chunk.                                 *)

(* The chunks of the other threads' unsettled counts are not in the hand   *)
(* of a thread that takes a free bucket's lock, nor new.                   *)
LEMMA OtherHands ==
  ASSUME IndInv, NEW u \in Threads, pc[u] \in OweCount
  PROVE  /\ local[u].ch \in Mapped
         /\ pc[u] \in {"d_size", "d_count"} => bucketLock[getMemoryBucket(local[u].ch)] # NoThread
<1>1. local[u].ch \in Mapped
  BY InvCountable DEF Countable
<1>2. ASSUME pc[u] \in {"d_size", "d_count"}
      PROVE  bucketLock[getMemoryBucket(local[u].ch)] # NoThread
  <2>1. local[u].bkt = getMemoryBucket(local[u].ch) /\ local[u].bkt \in Buckets /\ u # NoThread
    BY <1>2, ThreadFacts DEF Hand, Locals
  <2>2. bucketLock[local[u].bkt] = u
    BY <1>2, <2>1, ThreadFacts DEF LocksOf, HoldsBucket
  <2> QED BY <2>1, <2>2
<1> QED BY <1>1, <1>2

LEMMA CreateCounts ==
  ASSUME IndInv, IndInv', CountingInv, EmptyBlocksExact, NEW t \in Threads, Others(t), AllocCreateChunk(t)
  PROVE  EmptyBlocksExact' /\ CountingInv'
<1>1. UNCHANGED <<emptyBlocksCount, emptyBlocksSize, freeStore>>
  BY DEF AllocCreateChunk, counterVars
<1>2. PICK c : Created(t, c)
  BY CreateEffect
<1>3. /\ pc[t] = "a_new" /\ pc'[t] = "a_fresh" /\ local'[t].ch = c
      /\ c \in PoolAddresses /\ c \notin Mapped /\ Mapped' = Mapped \cup {c}
      /\ memorysize'[c] \in Nat /\ used[c] = {} /\ used' = used
      /\ \A d \in Mapped : memorysize'[d] = memorysize[d]
  BY <1>2 DEF Created
<1>4. Countable /\ Countable'
  BY InvCountable, InvCountableNext
<1>5. Doomed' = Doomed
  BY <1>3, DoomedKept DEF Dooming
<1>6. Dropping' = Dropping
  BY <1>1, <1>3, DroppingKept
<1>7. EmptyChunks' = EmptyChunks \cup {c}
  BY <1>3 DEF EmptyChunks, empty
<1>8. c \notin EmptyChunks /\ c \notin Doomed /\ c \notin Dropping
  BY <1>3, <1>4 DEF Countable
<1>9. CountChange(t, c) = 0
  BY <1>3, <1>5, <1>7, <1>8 DEF CountChange, One, OweCount, OweTake
<1>10. SizeChange(t, c) = 0
  BY <1>3, <1>5, <1>6, <1>7, <1>8 DEF SizeChange, If, OweSize
<1>11. \A u \in Threads : pc[u] \in OweSize => memorysize'[local[u].ch] = memorysize[local[u].ch]
  BY <1>3, <1>4 DEF Countable, OweSize, OweCount
<1>12. EmptyBlocksExact'
  <2>1. emptyBlocksCount \in 0 .. Word - 1 /\ emptyBlocksSize \in 0 .. Word - 1
    BY <1>4 DEF Countable
  <2>2. emptyBlocksCount' = (emptyBlocksCount + CountChange(t, c)) % Word
    BY <1>1, <1>9, <2>1, NoChange
  <2>3. emptyBlocksSize' = (emptyBlocksSize + SizeChange(t, c)) % Word
    BY <1>1, <1>10, <2>1, NoChange
  <2>4. EmptyChunks' \ {c} = EmptyChunks \ {c}
    BY <1>7
  <2> QED BY <1>3, <1>5, <1>6, <1>11, <2>2, <2>3, <2>4, Balance
<1>13. CountingInv'
  <2>1. IsFiniteSet(Mapped')
    BY <1>3, FS_AddElement DEF CountingInv
  <2>2. \A u \in Threads : pc[u] \in {"d_size", "d_count"} => used[local[u].ch] = {}
    BY DEF CountingInv, empty
  <2> QED BY <1>3, <2>1, <2>2, CountingFrame
<1> QED BY <1>12, <1>13

LEMMA TakeCounts ==
  ASSUME IndInv, IndInv', CountingInv, EmptyBlocksExact, NEW t \in Threads, Others(t),
         AllocFromListed(t) \/ AllocFromSpliced(t) \/ AllocFromFresh(t)
  PROVE  EmptyBlocksExact' /\ CountingInv'
<1>1. /\ UNCHANGED <<emptyBlocksCount, freeStore>>
      /\ pc[t] \in {"a_listed", "a_spliced", "a_fresh"}
      /\ pc[t] = "a_fresh" <=> AllocFromFresh(t)
  BY DEF AllocFromListed, AllocFromSpliced, AllocFromFresh, counterVars
<1>2. PICK c, i : TookSlot(t, c, i)
  BY TakeEffect
<1>3. /\ c = local[t].ch /\ c \in Mapped /\ c \in PoolAddresses
      /\ i \notin used[c] /\ used'[c] = used[c] \cup {i} /\ \A d : d # c => used'[d] = used[d]
      /\ UNCHANGED <<chunkRange, memorysize>> /\ Mapped' = Mapped
      /\ pc'[t] \in {"idle", "a_count"}
  BY <1>2 DEF TookSlot
<1>4. Countable /\ Countable'
  BY InvCountable, InvCountableNext
<1>5. Doomed' = Doomed
  BY <1>1, <1>3, DoomedKept DEF Dooming
<1>6. Dropping' = Dropping
  BY <1>1, <1>3, DroppingKept
<1>7. EmptyChunks' = EmptyChunks \ {c} /\ (c \in EmptyChunks <=> empty(c))
  BY <1>3 DEF EmptyChunks, empty
<1>8. bucketLock[getMemoryBucket(c)] = NoThread
  <2>1. \A p : AllocEnd(t, c, p) => bucketLock[getMemoryBucket(c)] = NoThread
    BY DEF AllocEnd, LockBucket
  <2>2. AllocFromListed(t) \/ AllocFromSpliced(t) => \E p : AllocEnd(t, c, p)
    BY <1>3, Zenon DEF AllocFromListed, AllocFromSpliced
  <2>3. AllocFromFresh(t) => bucketLock[getMemoryBucket(c)] = NoThread
    BY <1>3 DEF AllocFromFresh
  <2> QED BY <2>1, <2>2, <2>3
<1>9. \/ /\ pc[t] = "a_fresh" /\ empty(c) /\ pc'[t] = "idle" /\ UNCHANGED emptyBlocksSize
      \/ /\ pc[t] # "a_fresh" /\ empty(c) /\ pc'[t] = "a_count"
         /\ emptyBlocksSize' = Minus(emptyBlocksSize, memorysize[c])
      \/ /\ pc[t] # "a_fresh" /\ ~ empty(c) /\ pc'[t] = "idle" /\ UNCHANGED emptyBlocksSize
  <2>1. \A label, locals : GotoWith(t, label, locals) => pc'[t] = label
    <3>1. pc \in [Threads -> Places]
      BY InvFacts DEF TypeOK
    <3> HIDE DEF Places
    <3> QED BY <3>1 DEF GotoWith, Goto
  <2>2. \A p : AllocEnd(t, c, p) =>
          \/ /\ empty(c) /\ pc'[t] = "a_count"
             /\ emptyBlocksSize' = Minus(emptyBlocksSize, memorysize[c])
          \/ ~ empty(c) /\ pc'[t] = "idle" /\ UNCHANGED emptyBlocksSize
    BY <2>1 DEF AllocEnd, WasEmpty, Return
  <2>3. AllocFromListed(t) \/ AllocFromSpliced(t) => \E p : AllocEnd(t, c, p)
    BY <1>3, Zenon DEF AllocFromListed, AllocFromSpliced
  <2>4. AllocFromFresh(t) => pc'[t] = "idle" /\ UNCHANGED emptyBlocksSize
    BY <2>1 DEF AllocFromFresh, Return, counterVars
  <2>5. pc[t] = "a_fresh" => empty(c)
    BY <1>3, ThreadFacts DEF Hand
  <2> QED BY <1>1, <2>2, <2>3, <2>4, <2>5
<1>10. CountChange(t, c) = 0
  BY <1>1, <1>5, <1>7, <1>9 DEF CountChange, One, OweCount, OweTake
<1> PICK m : m = memorysize[c]
  OBVIOUS
<1>11. m \in Nat
  BY <1>3, <1>4 DEF Countable
<1>12. SizeChange(t, c) = IF pc'[t] = "a_count" THEN - m ELSE 0
  <2>1. memorysize'[c] = m /\ memorysize[local[t].ch] = m
    BY <1>3
  <2> QED BY <1>1, <1>5, <1>6, <1>7, <1>9, <1>11, <2>1 DEF SizeChange, If, OweSize
<1>13. EmptyBlocksExact'
  <2>1. emptyBlocksCount \in 0 .. Word - 1 /\ emptyBlocksSize \in 0 .. Word - 1
    BY <1>4 DEF Countable
  <2>2. emptyBlocksCount' = (emptyBlocksCount + CountChange(t, c)) % Word
    BY <1>1, <1>10, <2>1, NoChange
  <2>3. emptyBlocksSize' = (emptyBlocksSize + SizeChange(t, c)) % Word
    <3>1. CASE pc'[t] = "a_count"
      <4>1. emptyBlocksSize' = (emptyBlocksSize - m) % Word /\ SizeChange(t, c) = - m
        BY <1>9, <1>12, <3>1 DEF Minus
      <4>2. emptyBlocksSize - m = emptyBlocksSize + (- m)
        BY <1>11, <2>1
      <4> QED BY <4>1, <4>2
    <3>2. CASE pc'[t] # "a_count"
      BY <1>9, <1>12, <2>1, <3>2, NoChange
    <3> QED BY <3>1, <3>2
  <2>4. EmptyChunks' \ {c} = EmptyChunks \ {c}
    BY <1>7
  <2> QED BY <1>3, <1>5, <1>6, <2>2, <2>3, <2>4, Balance
<1>14. CountingInv'
  <2>1. \A u \in Threads : pc[u] \in {"d_size", "d_count"} => used'[local[u].ch] = {}
    <3> SUFFICES ASSUME NEW u \in Threads, pc[u] \in {"d_size", "d_count"} PROVE used'[local[u].ch] = {}
      OBVIOUS
    <3>1. local[u].ch # c
      BY <1>8, OtherHands DEF OweCount
    <3> QED BY <1>3, <3>1 DEF CountingInv, empty
  <2>2. IsFiniteSet(Mapped')
    BY <1>3 DEF CountingInv
  <2> QED BY <1>3, <2>1, <2>2, CountingFrame
<1> QED BY <1>13, <1>14

(* alloc's, dealloc's and clean's own additions and subtractions change no *)
(* chunk: each moves its thread past the place where it owes the change.   *)
LEMMA CounterStep ==
  ASSUME IndInv, IndInv', CountingInv, EmptyBlocksExact, NEW t \in Threads, Others(t),
         UNCHANGED <<chunkRange, memorysize, used, freeStore>>,
         pc[t] \notin Dooming, pc'[t] \notin Dooming,
         pc[t] \in {"a_count", "d_size", "d_count"},
         pc'[t] \in {"d_size", "d_count"} => used[local'[t].ch] = {},
         emptyBlocksCount' = (emptyBlocksCount + CountChange(t, local[t].ch)) % Word,
         emptyBlocksSize' = (emptyBlocksSize + SizeChange(t, local[t].ch)) % Word
  PROVE  EmptyBlocksExact' /\ CountingInv'
<1>1. Mapped' = Mapped /\ EmptyChunks' = EmptyChunks
  BY DEF Mapped, EmptyChunks, empty
<1>2. Doomed' = Doomed
  BY DoomedKept
<1>3. Dropping' = Dropping
  BY DroppingKept DEF Dooming
<1>4. EmptyBlocksExact'
  BY <1>1, <1>2, <1>3, Balance
<1>5. CountingInv'
  <2>1. \A u \in Threads : pc[u] \in {"d_size", "d_count"} => used[local[u].ch] = {}
    BY DEF CountingInv, empty
  <2> QED BY <1>1, <2>1, CountingFrame DEF CountingInv
<1> QED BY <1>4, <1>5

(* What they change, when they leave the chunks and the lists alone.       *)
LEMMA CounterChanges ==
  ASSUME IndInv, IndInv', NEW t \in Threads, Others(t),
         UNCHANGED <<chunkRange, memorysize, used, freeStore>>,
         pc[t] \notin Dooming, pc'[t] \notin Dooming
  PROVE  /\ CountChange(t, local[t].ch) = One(pc[t] \in OweCount) - One(pc'[t] \in OweCount)
                                          + One(pc'[t] \in OweTake) - One(pc[t] \in OweTake)
         /\ pc'[t] \notin OweSize =>
              SizeChange(t, local[t].ch) = If(pc[t] \in OweSize, memorysize[local[t].ch])
<1>1. EmptyChunks' = EmptyChunks
  BY DEF Mapped, EmptyChunks, empty
<1>2. Doomed' = Doomed
  BY DoomedKept
<1>3. Dropping' = Dropping
  BY DroppingKept DEF Dooming
<1> PICK c : c = local[t].ch
  OBVIOUS
<1>4. CountChange(t, c) = One(pc[t] \in OweCount) - One(pc'[t] \in OweCount)
                           + One(pc'[t] \in OweTake) - One(pc[t] \in OweTake)
  BY <1>1, <1>2 DEF CountChange, One
<1>5. ASSUME pc'[t] \notin OweSize PROVE SizeChange(t, c) = If(pc[t] \in OweSize, memorysize[c])
  <2>1. Countable
    BY InvCountable
  <2> PICK e, d, p, h : /\ e = If(c \in EmptyChunks, memorysize[c]) /\ d = If(c \in Doomed, memorysize[c])
                        /\ p = If(c \in Dropping, memorysize[c]) /\ h = If(pc[t] \in OweSize, memorysize[c])
    OBVIOUS
  <2>2. e \in Nat /\ d \in Nat /\ p \in Nat /\ h \in Nat
    BY <2>1 DEF Countable, If, OweSize, OweCount
  <2>3. SizeChange(t, c) = e - e - (0 - h) - (d - d) - (p - p)
    BY <1>1, <1>2, <1>3, <1>5 DEF SizeChange, If
  <2> QED BY <2>2, <2>3
<1> QED BY <1>4, <1>5

LEMMA AllocCountCounts ==
  ASSUME IndInv, IndInv', CountingInv, EmptyBlocksExact, NEW t \in Threads, Others(t), AllocCount(t)
  PROVE  EmptyBlocksExact' /\ CountingInv'
<1>1. /\ UNCHANGED <<chunkRange, memorysize, used, freeStore, emptyBlocksSize>>
      /\ pc[t] = "a_count" /\ emptyBlocksCount' = Minus(emptyBlocksCount, 1)
  BY DEF AllocCount, memoryVars, listVars
<1>2. pc'[t] = "idle"
  <2>1. pc \in [Threads -> Places]
    BY InvFacts DEF TypeOK
  <2> HIDE DEF Places
  <2> QED BY <2>1 DEF AllocCount, Return, GotoWith, Goto
<1>3. emptyBlocksCount \in 0 .. Word - 1 /\ emptyBlocksSize \in 0 .. Word - 1
  BY InvCountable DEF Countable
<1>4. CountChange(t, local[t].ch) = -1 /\ SizeChange(t, local[t].ch) = 0
  <2>1. pc[t] \notin Dooming /\ pc'[t] \notin Dooming /\ pc'[t] \notin OweSize
    BY <1>1, <1>2 DEF Dooming, OweSize
  <2> QED BY <1>1, <1>2, <2>1, CounterChanges DEF OweCount, OweSize, OweTake, One, If
<1>5. emptyBlocksCount' = (emptyBlocksCount + CountChange(t, local[t].ch)) % Word
  <2>1. emptyBlocksCount - 1 = emptyBlocksCount + (-1)
    BY <1>3
  <2> QED BY <1>1, <1>4, <2>1 DEF Minus
<1>6. emptyBlocksSize' = (emptyBlocksSize + SizeChange(t, local[t].ch)) % Word
  BY <1>1, <1>3, <1>4, NoChange
<1> QED BY <1>1, <1>2, <1>5, <1>6, CounterStep DEF Dooming

LEMMA DeallocSizeCounts ==
  ASSUME IndInv, IndInv', CountingInv, EmptyBlocksExact, NEW t \in Threads, Others(t), DeallocSize(t)
  PROVE  EmptyBlocksExact' /\ CountingInv'
<1>1. /\ UNCHANGED <<chunkRange, memorysize, used, freeStore, emptyBlocksCount, local>>
      /\ pc[t] = "d_size" /\ emptyBlocksSize' = Plus(emptyBlocksSize, memorysize[local[t].ch])
  BY DEF DeallocSize, memoryVars, listVars
<1>2. pc'[t] = "d_count"
  <2>1. pc \in [Threads -> Places]
    BY InvFacts DEF TypeOK
  <2> HIDE DEF Places
  <2> QED BY <2>1 DEF DeallocSize, Goto
<1>3. emptyBlocksCount \in 0 .. Word - 1 /\ emptyBlocksSize \in 0 .. Word - 1
  BY InvCountable DEF Countable
<1>4. CountChange(t, local[t].ch) = 0 /\ SizeChange(t, local[t].ch) = memorysize[local[t].ch]
  <2>1. pc[t] \notin Dooming /\ pc'[t] \notin Dooming /\ pc'[t] \notin OweSize
    BY <1>1, <1>2 DEF Dooming, OweSize
  <2> QED BY <1>1, <1>2, <2>1, CounterChanges DEF OweCount, OweSize, OweTake, One, If
<1>5. emptyBlocksCount' = (emptyBlocksCount + CountChange(t, local[t].ch)) % Word
  BY <1>1, <1>3, <1>4, NoChange
<1>6. emptyBlocksSize' = (emptyBlocksSize + SizeChange(t, local[t].ch)) % Word
  BY <1>1, <1>4 DEF Plus
<1>7. used[local'[t].ch] = {}
  BY <1>1 DEF CountingInv, empty
<1> QED BY <1>1, <1>2, <1>5, <1>6, <1>7, CounterStep DEF Dooming

LEMMA DeallocCountCounts ==
  ASSUME IndInv, IndInv', CountingInv, EmptyBlocksExact, NEW t \in Threads, Others(t), DeallocCount(t)
  PROVE  EmptyBlocksExact' /\ CountingInv'
<1>1. /\ UNCHANGED <<chunkRange, memorysize, used, freeStore, emptyBlocksSize>>
      /\ pc[t] = "d_count" /\ emptyBlocksCount' = Plus(emptyBlocksCount, 1)
  BY DEF DeallocCount, memoryVars, listVars
<1>2. pc'[t] \in {"d_store", "c_try"}
  <2>1. pc \in [Threads -> Places]
    BY InvFacts DEF TypeOK
  <2>2. Goto(t, "d_store") \/ Goto(t, "c_try")
    BY DEF DeallocCount, CallClean, GotoWith
  <2> HIDE DEF Places
  <2> QED BY <2>1, <2>2 DEF Goto
<1>3. emptyBlocksCount \in 0 .. Word - 1 /\ emptyBlocksSize \in 0 .. Word - 1
  BY InvCountable DEF Countable
<1>4. CountChange(t, local[t].ch) = 1 /\ SizeChange(t, local[t].ch) = 0
  <2>1. pc[t] \notin Dooming /\ pc'[t] \notin Dooming /\ pc'[t] \notin OweSize
    BY <1>1, <1>2 DEF Dooming, OweSize
  <2> QED BY <1>1, <1>2, <2>1, CounterChanges DEF OweCount, OweSize, OweTake, One, If
<1>5. emptyBlocksCount' = (emptyBlocksCount + CountChange(t, local[t].ch)) % Word
  BY <1>1, <1>4 DEF Plus
<1>6. emptyBlocksSize' = (emptyBlocksSize + SizeChange(t, local[t].ch)) % Word
  BY <1>1, <1>3, <1>4, NoChange
<1> QED BY <1>1, <1>2, <1>5, <1>6, CounterStep DEF Dooming

(* dealloc may empty its chunk, and then owes both counters.               *)
LEMMA DeallocHitCounts ==
  ASSUME IndInv, IndInv', CountingInv, EmptyBlocksExact, NEW t \in Threads, Others(t), DeallocHit(t)
  PROVE  EmptyBlocksExact' /\ CountingInv'
<1>1. UNCHANGED <<emptyBlocksCount, emptyBlocksSize, freeStore>>
  BY DEF DeallocHit, counterVars, listVars
<1>2. PICK c, i : FreedSlot(t, c, i)
  BY FreeEffect
<1>3. /\ pc[t] = "d_find" /\ pc'[t] \in {"d_size", "d_store", "idle"}
      /\ c \in Mapped /\ c \in PoolAddresses /\ i \in used[c]
      /\ used'[c] = used[c] \ {i} /\ \A d \in PoolAddresses : d # c => used'[d] = used[d]
      /\ UNCHANGED <<chunkRange, memorysize>> /\ Mapped' = Mapped
      /\ pc'[t] = "d_size" <=> used[c] = {i}
      /\ pc'[t] = "d_size" => local'[t].ch = c
  BY <1>2 DEF FreedSlot
<1>4. Countable /\ Countable'
  BY InvCountable, InvCountableNext
<1>5. Doomed' = Doomed
  BY <1>3, DoomedKept DEF Dooming
<1>6. Dropping' = Dropping
  BY <1>1, <1>3, DroppingKept
<1>7. /\ EmptyChunks' \ {c} = EmptyChunks \ {c} /\ c \notin EmptyChunks
      /\ c \in EmptyChunks' <=> pc'[t] = "d_size"
  <2>1. Mapped \subseteq PoolAddresses
    BY <1>4 DEF Countable
  <2>2. used'[c] = {} <=> used[c] = {i}
    BY <1>3
  <2>3. \A d \in Mapped : d # c => (used'[d] = {} <=> used[d] = {})
    BY <1>3, <2>1
  <2> QED BY <1>3, <2>2, <2>3 DEF EmptyChunks, empty
<1>8. CountChange(t, c) = 0
  BY <1>3, <1>5, <1>7 DEF CountChange, One, OweCount, OweTake
<1>9. SizeChange(t, c) = 0
  <2>1. memorysize[c] \in Nat /\ memorysize'[c] = memorysize[c]
    BY <1>3, <1>4 DEF Countable
  <2> QED BY <1>3, <1>5, <1>6, <1>7, <2>1 DEF SizeChange, If, OweSize
<1>10. EmptyBlocksExact'
  <2>1. emptyBlocksCount \in 0 .. Word - 1 /\ emptyBlocksSize \in 0 .. Word - 1
    BY <1>4 DEF Countable
  <2>2. emptyBlocksCount' = (emptyBlocksCount + CountChange(t, c)) % Word
    BY <1>1, <1>8, <2>1, NoChange
  <2>3. emptyBlocksSize' = (emptyBlocksSize + SizeChange(t, c)) % Word
    BY <1>1, <1>9, <2>1, NoChange
  <2> QED BY <1>3, <1>5, <1>6, <1>7, <2>2, <2>3, Balance
<1>11. CountingInv'
  <2>1. \A u \in Threads : pc[u] \in {"d_size", "d_count"} => used'[local[u].ch] = {}
    <3> SUFFICES ASSUME NEW u \in Threads, pc[u] \in {"d_size", "d_count"} PROVE used'[local[u].ch] = {}
      OBVIOUS
    <3>1. used[local[u].ch] = {} /\ local[u].ch \in PoolAddresses
      BY <1>4 DEF CountingInv, empty, Countable, OweCount
    <3> QED BY <1>3, <3>1
  <2>2. pc'[t] \in {"d_size", "d_count"} => used'[local'[t].ch] = {}
    BY <1>3
  <2>3. IsFiniteSet(Mapped')
    BY <1>3 DEF CountingInv
  <2> QED BY <2>1, <2>2, <2>3, CountingFrame
<1> QED BY <1>10, <1>11

-----------------------------------------------------------------------------
(* The sweep: clean subtracts an empty chunk twice and destroys it later.  *)

(* The chunk clean's loop stands on is listed, so that nobody dooms it.    *)
Swept(t) == freeStore[local[t].fs][local[t].row][local[t].pos]

LEMMA SweptChunk ==
  ASSUME IndInv, NEW t \in Threads, pc[t] \in {"c_look", "c_drop"}
  PROVE  Swept(t) \in Mapped /\ Swept(t) \in PoolAddresses /\ Swept(t) \notin Doomed
<1> PICK list : list = freeStore[local[t].fs][local[t].row]
  OBVIOUS
<1>1. local[t].fs \in Stores /\ local[t].row \in Ranges /\ local[t].pos \in 1 .. Len(list)
  BY ThreadFacts DEF Cursor, Locals
<1>2. list \in Seq(PoolAddresses) /\ ToSet(list) \subseteq Held(freeStore)
  BY <1>1, InvFacts, HeldIn DEF ListFamilies
<1>3. list[local[t].pos] \in ToSet(list)
  BY <1>1, <1>2, ToSetFacts
<1>4. Swept(t) \in Held(freeStore)
  BY <1>2, <1>3 DEF Swept
<1>5. \A u \in Threads : DoomedBy(u) \cap Held(freeStore) = {}
  BY InvFacts DEF ThreadPlaceInv, Listed
<1> QED BY <1>4, <1>5, InvFacts, DoomedIs

(* Only the thread inside clean can be about to doom a chunk.              *)
OnlyCleanDrops ==
  \A t \in Threads : pc[t] \in HoldsClean => Dropping = {c \in {Swept(t)} : pc[t] = "c_drop"}

LEMMA InvOnlyCleanDrops == IndInv => OnlyCleanDrops
<1> SUFFICES ASSUME IndInv, NEW t \in Threads, pc[t] \in HoldsClean
             PROVE  Dropping = {c \in {Swept(t)} : pc[t] = "c_drop"}
  BY DEF OnlyCleanDrops
<1>1. \A u \in Threads : pc[u] = "c_drop" => u = t
  BY OneDrops
<1>2. At({"c_drop"}) = {u \in {t} : pc[t] = "c_drop"}
  BY <1>1 DEF At
<1> QED BY <1>2 DEF Dropping, Swept

LEMMA InvOnlyCleanDropsNext == IndInv' => OnlyCleanDrops'
BY InvOnlyCleanDrops, PTL

(* clean takes an empty chunk's size from the counter.                     *)
LEMMA CleanLookCounts ==
  ASSUME IndInv, IndInv', CountingInv, EmptyBlocksExact, NEW t \in Threads, Others(t),
         CleanLook(t), pc'[t] = "c_drop"
  PROVE  EmptyBlocksExact' /\ CountingInv'
<1> PICK c : c = Swept(t)
  OBVIOUS
<1>1. /\ pc[t] = "c_look"
      /\ UNCHANGED <<chunkRange, memorysize, used, freeStore, emptyBlocksCount>>
  BY DEF CleanLook, memoryVars, listVars
<1>2. /\ emptyBlocksSize' = Minus(emptyBlocksSize, memorysize[c]) /\ empty(c)
      /\ UNCHANGED local
  <2>1. pc \in [Threads -> Places]
    BY InvFacts DEF TypeOK
  <2>2. \A locals, next, list : SweepOn(t, locals, next, list) => pc'[t] # "c_drop"
    <3> HIDE DEF Places
    <3> QED BY <2>1 DEF SweepOn, GotoWith, Goto
  <2>3. \/ /\ MayDelete(t, c) /\ emptyBlocksSize' = Minus(emptyBlocksSize, memorysize[c])
           /\ UNCHANGED local
        \/ \E locals, next, list : SweepOn(t, locals, next, list)
    BY Zenon DEF CleanLook, Swept
  <2> QED BY <2>2, <2>3 DEF MayDelete
<1>3. c \in Mapped /\ c \in PoolAddresses /\ c \notin Doomed
  BY <1>1, SweptChunk
<1>4. Countable /\ Countable'
  BY InvCountable, InvCountableNext
<1>5. Mapped' = Mapped /\ EmptyChunks' = EmptyChunks
  BY <1>1 DEF Mapped, EmptyChunks, empty
<1>6. Doomed' = Doomed
  BY <1>2, DoomedKept
<1>7. Dropping = {} /\ Dropping' = {c}
  <2>1. pc[t] \in HoldsClean /\ pc'[t] \in HoldsClean /\ Swept(t)' = c
    BY <1>1, <1>2 DEF HoldsClean, Swept
  <2> QED BY <1>1, <2>1, InvOnlyCleanDrops, InvOnlyCleanDropsNext DEF OnlyCleanDrops
<1>8. CountChange(t, c) = 0
  BY <1>1, <1>5, <1>6 DEF CountChange, One, OweCount, OweTake
<1> PICK m : m = memorysize[c]
  OBVIOUS
<1>9. m \in Nat
  BY <1>3, <1>4 DEF Countable
<1>10. SizeChange(t, c) = - m
  <2>1. memorysize'[c] = m
    BY <1>1
  <2> QED BY <1>1, <1>3, <1>5, <1>6, <1>7, <1>9, <2>1 DEF SizeChange, If, OweSize
<1>11. EmptyBlocksExact'
  <2>1. emptyBlocksCount \in 0 .. Word - 1 /\ emptyBlocksSize \in 0 .. Word - 1
    BY <1>4 DEF Countable
  <2>2. emptyBlocksCount' = (emptyBlocksCount + CountChange(t, c)) % Word
    BY <1>1, <1>8, <2>1, NoChange
  <2>3. emptyBlocksSize' = (emptyBlocksSize + SizeChange(t, c)) % Word
    <3>1. emptyBlocksSize - m = emptyBlocksSize + (- m)
      BY <1>9, <2>1
    <3> QED BY <1>2, <1>10, <3>1 DEF Minus
  <2>4. Dropping' \ {c} = Dropping \ {c}
    BY <1>7
  <2> QED BY <1>1, <1>5, <1>6, <2>2, <2>3, <2>4, Balance
<1>12. CountingInv'
  <2>1. \A u \in Threads : pc[u] \in {"d_size", "d_count"} => used[local[u].ch] = {}
    BY DEF CountingInv, empty
  <2> QED BY <1>1, <1>5, <2>1, CountingFrame DEF CountingInv
<1> QED BY <1>11, <1>12

(* Then it takes one from the number, and the chunk is doomed.             *)
LEMMA CleanDropCounts ==
  ASSUME IndInv, IndInv', CountingInv, EmptyBlocksExact, NEW t \in Threads, Others(t), CleanDrop(t)
  PROVE  EmptyBlocksExact' /\ CountingInv'
<1> PICK c : c = Swept(t)
  OBVIOUS
<1>1. /\ pc[t] = "c_drop" /\ emptyBlocksCount' = Minus(emptyBlocksCount, 1)
      /\ UNCHANGED <<chunkRange, memorysize, used, emptyBlocksSize>>
  BY DEF CleanDrop, memoryVars
<1>2. c \in Mapped /\ c \in PoolAddresses /\ c \notin Doomed /\ empty(c)
  BY <1>1, SweptChunk, ThreadFacts DEF Cursor, Swept
<1>3. pc'[t] \in {"c_look", "c_delete"} /\ local'[t].toDelete = Cons(c, local[t].toDelete)
  <2> PICK my : my = local[t]
    OBVIOUS
  <2> PICK dropped : dropped = [my EXCEPT !.toDelete = Cons(c, my.toDelete)]
    OBVIOUS
  <2>1. \E next, list : SweepOn(t, dropped, next, list)
    BY Zenon DEF CleanDrop, Swept
  <2>2. my \in Locals /\ my.toDelete \in Seq(PoolAddresses)
    BY ThreadFacts DEF Locals
  <2>3. dropped \in Locals /\ dropped.toDelete = Cons(c, my.toDelete)
    <3>1. Cons(c, my.toDelete) \in Seq(PoolAddresses)
      BY <1>2, <2>2, ConsFacts
    <3> QED BY <2>2, <3>1 DEF Locals
  <2>4. \E label \in {"c_look", "c_delete"} : \E r, k :
            \/ GotoWith(t, label, [dropped EXCEPT !.pos = k])
            \/ GotoWith(t, label, [dropped EXCEPT !.row = r, !.pos = k])
    BY <2>1, Zenon DEF SweepOn
  <2>5a. PICK label \in {"c_look", "c_delete"} : \E r, k :
            \/ GotoWith(t, label, [dropped EXCEPT !.pos = k])
            \/ GotoWith(t, label, [dropped EXCEPT !.row = r, !.pos = k])
    BY <2>4
  <2>5. PICK r, k :
            \/ GotoWith(t, label, [dropped EXCEPT !.pos = k])
            \/ GotoWith(t, label, [dropped EXCEPT !.row = r, !.pos = k])
    BY <2>5a
  <2>6. \A locals : GotoWith(t, label, locals) => pc'[t] = label /\ local'[t] = locals
    <3>1. pc \in [Threads -> Places] /\ local \in [Threads -> Locals]
      BY InvFacts DEF TypeOK
    <3> HIDE DEF Places, Locals
    <3> QED BY <3>1 DEF GotoWith, Goto
  <2>7. /\ [dropped EXCEPT !.pos = k].toDelete = dropped.toDelete
        /\ [dropped EXCEPT !.row = r, !.pos = k].toDelete = dropped.toDelete
    BY <2>3 DEF Locals
  <2> QED BY <2>3, <2>5, <2>6, <2>7
<1>4. Countable /\ Countable'
  BY InvCountable, InvCountableNext
<1>5. Mapped' = Mapped /\ EmptyChunks' = EmptyChunks /\ c \in EmptyChunks
  BY <1>1, <1>2 DEF Mapped, EmptyChunks, empty
<1>6. Doomed' = Doomed \cup {c}
  <2>1. local[t].toDelete \in Seq(PoolAddresses)
    BY ThreadFacts DEF Locals
  <2>2. DoomedBy(t)' = DoomedBy(t) \cup {c}
    BY <1>2, <1>3, <2>1, ConsFacts DEF DoomedBy
  <2>3. \A u \in Threads : u # t => DoomedBy(u)' = DoomedBy(u)
    BY DEF Others, DoomedBy
  <2>4. Doomed' = UNION {DoomedBy(u)' : u \in Threads}
    BY DEF Doomed, DoomedBy
  <2> QED BY <2>2, <2>3, <2>4, DoomedIs
<1>7. Dropping = {c} /\ Dropping' = {}
  <2>1. pc[t] \in HoldsClean /\ pc'[t] \in HoldsClean /\ pc'[t] # "c_drop"
    BY <1>1, <1>3 DEF HoldsClean
  <2> QED BY <1>1, <2>1, InvOnlyCleanDrops, InvOnlyCleanDropsNext DEF OnlyCleanDrops
<1>8. CountChange(t, c) = -1
  BY <1>1, <1>2, <1>3, <1>5, <1>6 DEF CountChange, One, OweCount, OweTake
<1>9. SizeChange(t, c) = 0
  <2> PICK m : m = memorysize[c]
    OBVIOUS
  <2>1. m \in Nat /\ memorysize'[c] = m
    BY <1>1, <1>2, <1>4 DEF Countable
  <2> QED BY <1>1, <1>2, <1>3, <1>5, <1>6, <1>7, <2>1 DEF SizeChange, If, OweSize
<1>10. EmptyBlocksExact'
  <2>1. emptyBlocksCount \in 0 .. Word - 1 /\ emptyBlocksSize \in 0 .. Word - 1
    BY <1>4 DEF Countable
  <2>2. emptyBlocksCount' = (emptyBlocksCount + CountChange(t, c)) % Word
    <3>1. emptyBlocksCount - 1 = emptyBlocksCount + (-1)
      BY <2>1
    <3> QED BY <1>1, <1>8, <3>1 DEF Minus
  <2>3. emptyBlocksSize' = (emptyBlocksSize + SizeChange(t, c)) % Word
    BY <1>1, <1>9, <2>1, NoChange
  <2>4. Dropping' \ {c} = Dropping \ {c} /\ Doomed' \ {c} = Doomed \ {c}
    BY <1>6, <1>7
  <2> QED BY <1>1, <1>5, <2>2, <2>3, <2>4, Balance
<1>11. CountingInv'
  <2>1. \A u \in Threads : pc[u] \in {"d_size", "d_count"} => used[local[u].ch] = {}
    BY DEF CountingInv, empty
  <2> QED BY <1>1, <1>3, <1>5, <2>1, CountingFrame DEF CountingInv
<1> QED BY <1>10, <1>11

(* The destroyed chunk was empty and doomed, and now is neither.           *)
LEMMA CleanDeleteCounts ==
  ASSUME IndInv, IndInv', CountingInv, EmptyBlocksExact, NEW t \in Threads, Others(t), CleanDelete(t)
  PROVE  EmptyBlocksExact' /\ CountingInv'
<1>1. UNCHANGED <<emptyBlocksCount, emptyBlocksSize, freeStore>>
  BY DEF CleanDelete, counterVars, listVars
<1>2. PICK c : Destroyed(t, c)
  BY DestroyEffect
<1>3. /\ pc[t] = "c_delete" /\ pc' = pc
      /\ local[t].toDelete # <<>> /\ c = Head(local[t].toDelete)
      /\ local'[t].toDelete = Tail(local[t].toDelete)
      /\ c \in Mapped /\ c \in PoolAddresses /\ used[c] = {}
      /\ Mapped' = Mapped \ {c} /\ UNCHANGED used
      /\ \A d : d # c => memorysize'[d] = memorysize[d]
      /\ \A u \in Threads : pc[u] \in {"a_fresh", "a_count", "d_size", "d_count"} => local[u].ch # c
  BY <1>2 DEF Destroyed
<1>4. Countable /\ Countable'
  BY InvCountable, InvCountableNext
<1>5. DoomedBy(t)' = DoomedBy(t) \ {c} /\ c \in DoomedBy(t)
  <2> PICK s : s = local[t].toDelete
    OBVIOUS
  <2>1. s \in Seq(PoolAddresses) /\ s # <<>> /\ IsInjective(s)
    BY <1>3, ThreadFacts, InvFacts DEF Locals, ThreadPlaceInv
  <2>2. 1 \in 1 .. Len(s) /\ Head(s) = s[1] /\ s[1] \in ToSet(s) /\ Tail(s) = RemoveAt(s, 1)
    BY <2>1, HeadTailFacts
  <2>3. ToSet(RemoveAt(s, 1)) = ToSet(s) \ {s[1]}
    BY <2>1, <2>2, RemoveAtFacts
  <2>4. c = s[1] /\ DoomedBy(t) = ToSet(s) /\ DoomedBy(t)' = ToSet(Tail(s))
    BY <1>3, <2>2 DEF DoomedBy
  <2> QED BY <2>2, <2>3, <2>4
<1>6. Doomed' = Doomed \ {c} /\ c \in Doomed
  <2>1. \A u \in Threads : u # t => DoomedBy(u) = {} /\ DoomedBy(u)' = {}
    BY <1>3, OneDeletes DEF Others, DoomedBy
  <2>2. Doomed' = UNION {DoomedBy(u)' : u \in Threads}
    BY DEF Doomed, DoomedBy
  <2> QED BY <1>5, <2>1, <2>2, DoomedIs
<1>7. Dropping = {} /\ Dropping' = {}
  <2>1. pc[t] \in HoldsClean
    BY <1>3 DEF HoldsClean
  <2> QED BY <1>3, <2>1, InvOnlyCleanDrops, InvOnlyCleanDropsNext DEF OnlyCleanDrops
<1>8. EmptyChunks' = EmptyChunks \ {c} /\ c \in EmptyChunks
  BY <1>3 DEF EmptyChunks, empty
<1>9. CountChange(t, c) = 0
  BY <1>3, <1>6, <1>8 DEF CountChange, One, OweCount, OweTake
<1>10. SizeChange(t, c) = 0
  <2> PICK m : m = memorysize[c]
    OBVIOUS
  <2>1. m \in Nat
    BY <1>3, <1>4 DEF Countable
  <2> QED BY <1>3, <1>6, <1>7, <1>8, <2>1 DEF SizeChange, If, OweSize
<1>11. EmptyBlocksExact'
  <2>1. emptyBlocksCount \in 0 .. Word - 1 /\ emptyBlocksSize \in 0 .. Word - 1
    BY <1>4 DEF Countable
  <2>2. emptyBlocksCount' = (emptyBlocksCount + CountChange(t, c)) % Word
    BY <1>1, <1>9, <2>1, NoChange
  <2>3. emptyBlocksSize' = (emptyBlocksSize + SizeChange(t, c)) % Word
    BY <1>1, <1>10, <2>1, NoChange
  <2>4. /\ EmptyChunks' \ {c} = EmptyChunks \ {c} /\ Doomed' \ {c} = Doomed \ {c}
        /\ Dropping' \ {c} = Dropping \ {c}
    BY <1>6, <1>7, <1>8
  <2>5. \A u \in Threads : pc[u] \in OweSize => memorysize'[local[u].ch] = memorysize[local[u].ch]
    BY <1>3 DEF OweSize
  <2> QED BY <1>3, <2>2, <2>3, <2>4, <2>5, Balance
<1>12. CountingInv'
  <2>1. IsFiniteSet(Mapped')
    BY <1>3, FS_Subset DEF CountingInv
  <2>2. \A u \in Threads : pc[u] \in {"d_size", "d_count"} => used[local[u].ch] = {}
    BY DEF CountingInv, empty
  <2> QED BY <1>3, <2>1, <2>2, CountingFrame
<1> QED BY <1>11, <1>12

-----------------------------------------------------------------------------
(* Every step.                                                             *)

LEMMA CountsInit == Init => CountingInv /\ EmptyBlocksExact
<1> SUFFICES ASSUME Init PROVE CountingInv /\ EmptyBlocksExact
  OBVIOUS
<1>1. /\ \A t \in Threads : pc[t] = "idle" /\ local[t].toDelete = <<>>
      /\ emptyBlocksSize = 0 /\ emptyBlocksCount = 0 /\ Mapped = {}
  BY DEF Init, NoLocals, Mapped
<1>2. EmptyChunks = {} /\ \A places : "idle" \notin places => At(places) = {}
  BY <1>1 DEF EmptyChunks, At
<1>3. Doomed = {}
  <2>1. IndInv
    BY InitInv
  <2>2. \A t \in Threads : DoomedBy(t) = {}
    BY <1>1, <2>1, InvNothingDoomed DEF NothingDoomed, Dooming
  <2> QED BY <2>2, DoomedIs
<1>4. Dropping = {}
  BY <1>2 DEF Dropping
<1>5. IsFiniteSet({}) /\ Cardinality({}) = 0
  BY FS_EmptySet
<1>6. CountingInv
  <2>1. {t \in Threads : pc[t] # "idle"} = {}
    BY <1>1
  <2> QED BY <1>1, <1>5, <2>1 DEF CountingInv
<1>7. 0 % Word = 0
  BY CountsAssumption
<1>8. SizeOf({}) = 0
  <2>1. SumOf(memorysize, {}) = 0
    BY SumEmpty
  <2> QED BY <2>1 DEF SizeOf, SumOf
<1>9. SizeInHand({}) = 0
  <2>1. SizeInHand({}) = SumOf(HandSize(memorysize, local, {}), {})
    BY <1>5, HandSum DEF SizeInHand
  <2> QED BY <2>1, SumEmpty
<1>10. CountExact
  <2>1. At(OweCount) = {} /\ At(OweTake) = {}
    BY <1>2 DEF OweCount, OweTake
  <2> QED BY <1>1, <1>2, <1>3, <1>5, <1>7, <2>1 DEF CountExact
<1>11. SizeExact
  <2>1. At(OweSize) = {}
    BY <1>2 DEF OweSize
  <2> QED BY <1>1, <1>2, <1>3, <1>4, <1>7, <1>8, <1>9, <2>1 DEF SizeExact
<1> QED BY <1>6, <1>10, <1>11, BothExact

LEMMA CountsStep ==
  ASSUME IndInv, IndInv', CountingInv, EmptyBlocksExact, NEW t \in Threads, Call(t) \/ Step(t)
  PROVE  EmptyBlocksExact' /\ CountingInv'
<1>1. Others(t)
  BY InvFacts, StepIsItsOwn
<1>2. \/ Quiet(t) \/ AllocCreateChunk(t)
      \/ AllocFromListed(t) \/ AllocFromSpliced(t) \/ AllocFromFresh(t)
      \/ AllocCount(t) \/ DeallocHit(t) \/ DeallocSize(t) \/ DeallocCount(t)
      \/ CleanLook(t) /\ pc'[t] = "c_drop"
      \/ CleanDrop(t) \/ CleanDelete(t)
  BY Zenon DEF Step, Quiet
<1>3. Quiet(t) \/ AllocCreateChunk(t) => EmptyBlocksExact' /\ CountingInv'
  BY <1>1, QuietStep, CreateCounts
<1>4. \/ AllocFromListed(t) \/ AllocFromSpliced(t) \/ AllocFromFresh(t)
      \/ AllocCount(t) \/ DeallocHit(t)
      => EmptyBlocksExact' /\ CountingInv'
  BY <1>1, TakeCounts, AllocCountCounts, DeallocHitCounts
<1>5. DeallocSize(t) \/ DeallocCount(t) => EmptyBlocksExact' /\ CountingInv'
  BY <1>1, DeallocSizeCounts, DeallocCountCounts
<1>6. \/ CleanLook(t) /\ pc'[t] = "c_drop"
      \/ CleanDrop(t) \/ CleanDelete(t)
      => EmptyBlocksExact' /\ CountingInv'
  BY <1>1, CleanLookCounts, CleanDropCounts, CleanDeleteCounts
<1> QED BY <1>2, <1>3, <1>4, <1>5, <1>6

(* The counters agree with the chunks and the threads at every moment.     *)
THEOREM CountsInductive == Spec => [](IndInv /\ CountingInv /\ EmptyBlocksExact)
<1>1. IndInv /\ IndInv' /\ CountingInv /\ EmptyBlocksExact /\ [Next]_vars
        => CountingInv' /\ EmptyBlocksExact'
  <2> SUFFICES ASSUME IndInv, IndInv', CountingInv, EmptyBlocksExact, [Next]_vars
               PROVE  CountingInv' /\ EmptyBlocksExact'
    OBVIOUS
  <2>1. CASE UNCHANGED vars
    <3>1. UNCHANGED <<chunkRange, memorysize, used, freeStore, emptyBlocksSize, emptyBlocksCount, pc, local>>
      BY <2>1 DEF vars, memoryVars, listVars, counterVars
    <3>2. Mapped' = Mapped /\ EmptyChunks' = EmptyChunks
      BY <3>1 DEF Mapped, EmptyChunks, empty
    <3>3. Doomed' = Doomed /\ Dropping' = Dropping /\ \A places : At(places)' = At(places)
      BY <3>1 DEF Doomed, Dropping, At
    <3>4. CountingInv'
      BY <3>1, <3>2 DEF CountingInv, empty
    <3>5. \A S : SizeOf(S)' = SizeOf(S) /\ SizeInHand(S)' = SizeInHand(S)
      BY <3>1 DEF SizeOf, SizeInHand, MapThenSumSet, MapThenFoldSet
    <3> QED BY <3>1, <3>2, <3>3, <3>4, <3>5 DEF EmptyBlocksExact
  <2>2. CASE \E t \in Threads : Call(t) \/ Step(t)
    BY <2>2, CountsStep
  <2> QED BY <2>1, <2>2 DEF Next
<1> QED BY <1>1, CountsInit, Inductive, PTL DEF Spec

(* No interleaving of the unlocked updates loses or repeats one.           *)
THEOREM EmptyBlocksCorrect == Spec => []EmptyBlocksExact
BY CountsInductive, PTL

-----------------------------------------------------------------------------
(* While the thresholds are tested nothing is doomed, and what the other   *)
(* threads owe is owed for chunks of their own.                            *)

(* The chunks of the threads at some places of the code.                   *)
ChunksAt(places) == {local[u].ch : u \in At(places)}

(* As many chunks as threads, when no two threads have the same one.       *)
LEMMA CountChunks ==
  ASSUME NEW places, IsFiniteSet(At(places)),
         \A u, w \in At(places) : local[u].ch = local[w].ch => u = w
  PROVE  /\ IsFiniteSet(ChunksAt(places))
         /\ Cardinality(ChunksAt(places)) = Cardinality(At(places))
<1> PICK S, T : S = At(places) /\ T = ChunksAt(places)
  OBVIOUS
<1> PICK f : f = [u \in S |-> local[u].ch]
  OBVIOUS
<1>1. f \in Bijection(S, T)
  <2>1. T = {f[u] : u \in S} /\ f \in [S -> T]
    BY DEF ChunksAt
  <2>2. \A u, w \in S : f[u] = f[w] => u = w
    OBVIOUS
  <2> QED BY <2>1, <2>2 DEF Bijection, Injection, Surjection, IsInjective
<1>2. ExistsBijection(S, T)
  BY <1>1 DEF ExistsBijection
<1> QED BY <1>2, FS_Bijection

(* What they owe for is as large as these chunks.                          *)
LEMMA SizeOfChunks ==
  ASSUME NEW places, IsFiniteSet(At(places)),
         \A u \in At(places) : memorysize[local[u].ch] \in Nat,
         \A u, w \in At(places) : local[u].ch = local[w].ch => u = w
  PROVE  SizeInHand(At(places)) = SizeOf(ChunksAt(places))
<1> PICK S : S = At(places)
  OBVIOUS
<1> PICK f, m : f = HandSize(memorysize, local, S) /\ m = [u \in S |-> local[u].ch]
  OBVIOUS
<1>1. SizeInHand(S) = SumOf(f, S)
  BY HandSum DEF SizeInHand
<1>2. /\ \A u \in S : memorysize[m[u]] = f[u] /\ f[u] \in Nat
      /\ \A u, w \in S : m[u] = m[w] => u = w
      /\ {m[u] : u \in S} = ChunksAt(places)
  BY DEF HandSize, ChunksAt
<1>3. SumOf(f, S) = SumOf(memorysize, {m[u] : u \in S})
  BY <1>2, SumMap
<1> QED BY <1>1, <1>2, <1>3 DEF SizeOf, SumOf

(* A chunk that has yet to be counted as empty, or as taken, is so for one *)
(* thread: the chunk is new, or its bucket is locked.                      *)
LEMMA OneOwes ==
  ASSUME IndInv, CountingInv, NEW u \in Threads, NEW w \in Threads, local[u].ch = local[w].ch,
         \/ pc[u] \in OweCount /\ pc[w] \in OweCount
         \/ pc[u] \in OweTake /\ pc[w] \in OweTake
  PROVE  u = w
<1> PICK c : c = local[u].ch
  OBVIOUS
<1>1. /\ Hand(u) /\ Hand(w) /\ LocksOf(u) /\ LocksOf(w)
      /\ getMemoryBucket(c) \in Buckets /\ c = local[w].ch
  BY ThreadFacts, HandBucket
<1>2. ASSUME NEW v \in Threads, c = local[v].ch, Hand(v), LocksOf(v),
             pc[v] \in {"d_size", "d_count", "a_count"}
      PROVE  bucketLock[getMemoryBucket(c)] = v /\ c \in memory[getMemoryBucket(c)]
  BY <1>1, <1>2 DEF Hand, LocksOf, HoldsBucket
<1>3. ASSUME NEW v \in Threads, c = local[v].ch, Hand(v), pc[v] = "a_fresh"
      PROVE  v \in Listing(c) /\ c \notin memory[getMemoryBucket(c)] /\ c \in PoolAddresses
  BY <1>1, <1>3, InvFacts DEF Hand, Listing
<1>4. CASE pc[u] = "a_fresh" /\ pc[w] = "a_fresh"
  BY <1>1, <1>3, <1>4, InvFacts DEF HandInv
<1>5. CASE pc[u] = "a_fresh" /\ pc[w] \in {"d_size", "d_count"}
  BY <1>1, <1>2, <1>3, <1>5
<1>6. CASE pc[u] \in {"d_size", "d_count"} /\ pc[w] = "a_fresh"
  BY <1>1, <1>2, <1>3, <1>6
<1>7. CASE pc[u] \in {"d_size", "d_count", "a_count"} /\ pc[w] \in {"d_size", "d_count", "a_count"}
  BY <1>1, <1>2, <1>7
<1> QED BY <1>4, <1>5, <1>6, <1>7 DEF OweCount, OweTake

(* Additions are owed for empty chunks, subtractions for chunks in use.    *)
LEMMA OwedChunks ==
  ASSUME IndInv, CountingInv
  PROVE  /\ ChunksAt(OweCount) \subseteq EmptyChunks
         /\ ChunksAt(OweTake) \subseteq Mapped \ EmptyChunks
         /\ ChunksAt(OweSize) \subseteq EmptyChunks
<1>1. ASSUME NEW u \in Threads, pc[u] \in OweCount PROVE local[u].ch \in EmptyChunks
  <2>1. local[u].ch \in Mapped
    BY <1>1, InvCountable DEF Countable
  <2>2. empty(local[u].ch)
    BY <1>1, ThreadFacts DEF OweCount, CountingInv, Hand
  <2> QED BY <2>1, <2>2 DEF EmptyChunks
<1>2. ASSUME NEW u \in Threads, pc[u] \in OweTake PROVE local[u].ch \in Mapped \ EmptyChunks
  <2>1. local[u].ch \in Mapped
    BY <1>2, InvCountable DEF Countable
  <2>2. ~ empty(local[u].ch)
    BY <1>2, ThreadFacts DEF OweTake, Hand
  <2> QED BY <2>1, <2>2 DEF EmptyChunks
<1> QED BY <1>1, <1>2 DEF ChunksAt, At, OweSize, OweCount

(* A part of the blocks is no larger than all of them.                     *)
LEMMA PartOfSize ==
  ASSUME NEW S, NEW T, IsFiniteSet(S), T \subseteq S, \A c \in S : memorysize[c] \in Nat
  PROVE  /\ SizeOf(S) \in Nat /\ SizeOf(T) \in Nat /\ SizeOf(T) <= SizeOf(S)
<1> PICK R : R = S \ T
  OBVIOUS
<1>1. IsFiniteSet(T) /\ IsFiniteSet(R) /\ T \cap R = {} /\ T \cup R = S
  BY FS_Subset
<1>2. SumOf(memorysize, S) = SumOf(memorysize, T) + SumOf(memorysize, R)
  BY <1>1, SumUnion
<1>3. SumOf(memorysize, T) \in Nat /\ SumOf(memorysize, R) \in Nat /\ SumOf(memorysize, S) \in Nat
  <2>1. (\A c \in T : memorysize[c] \in Nat) /\ \A c \in R : memorysize[c] \in Nat
    BY <1>1
  <2> QED BY <1>1, <2>1, SumType
<1>4. SumOf(memorysize, T) <= SumOf(memorysize, S)
  BY <1>2, <1>3
<1> QED BY <1>3, <1>4 DEF SizeOf, SumOf

(* A natural number is at least its remainder.                             *)
LEMMA RemainderBelow ==
  ASSUME NEW a \in Nat, NEW b \in Nat, a <= b
  PROVE  a % Word <= b
<1>1. PICK n \in Nat \ {0} : n = Word
  BY CountsAssumption
<1>2. PICK p \in Int : p = a \div n
  OBVIOUS
<1>3. PICK r \in 0 .. n - 1 : r = a % n
  BY Remainder
<1>4. a = n * p + r
  BY <1>2, <1>3
<1>5. p >= 0
  <2>1. p <= -1 => n * p <= - n
    OBVIOUS
  <2> QED BY <1>4, <2>1
<1>6. n * p >= 0
  BY <1>5
<1>7. r <= a
  <2> PICK q \in Int : q = n * p
    OBVIOUS
  <2> QED BY <1>4, <1>6
<1> QED BY <1>1, <1>3, <1>7

LEMMA NothingWrapped ==
  ASSUME IndInv, CountingInv, EmptyBlocksExact
  PROVE  NoWrappedThreshold
<1> SUFFICES ASSUME NEW t \in Threads, pc[t] \in {"c_soft", "c_softcount", "c_hard", "c_hardcount"}
             PROVE  emptyBlocksCount <= Cardinality(Mapped) /\ emptyBlocksSize <= SizeOf(Mapped)
  BY DEF NoWrappedThreshold, At
<1>1. pc[t] \in HoldsClean /\ Countable /\ CountExact /\ SizeExact /\ IsFiniteSet(Mapped)
  BY InvCountable, BothExact DEF HoldsClean, CountingInv
<1>2. Dropping = {}
  BY <1>1, InvOnlyCleanDrops DEF OnlyCleanDrops
<1>3. Doomed = {}
  <2>1. \A u \in Threads : u # t => pc[u] \notin HoldsClean
    BY <1>1, ThreadFacts DEF LocksOf
  <2>2. \A u \in Threads : pc[u] \notin Dooming
    BY <2>1 DEF HoldsClean, Dooming
  <2> QED BY <2>2, InvNothingDoomed, DoomedIs DEF NothingDoomed
<1>4. /\ IsFiniteSet(At(OweCount)) /\ IsFiniteSet(At(OweTake)) /\ IsFiniteSet(At(OweSize))
  <2>1. /\ At(OweCount) \subseteq {u \in Threads : pc[u] # "idle"}
        /\ At(OweTake) \subseteq {u \in Threads : pc[u] # "idle"}
        /\ At(OweSize) \subseteq {u \in Threads : pc[u] # "idle"}
    BY DEF At, OweCount, OweTake, OweSize
  <2> QED BY <2>1, FS_Subset DEF CountingInv
<1>5. /\ \A u, w \in At(OweCount) : local[u].ch = local[w].ch => u = w
      /\ \A u, w \in At(OweTake) : local[u].ch = local[w].ch => u = w
      /\ \A u, w \in At(OweSize) : local[u].ch = local[w].ch => u = w
  BY OneOwes DEF At, OweSize, OweCount
<1> PICK E, A, B, H : /\ E = EmptyChunks /\ A = ChunksAt(OweCount) /\ B = ChunksAt(OweTake)
                      /\ H = ChunksAt(OweSize)
  OBVIOUS
<1>6. A \subseteq E /\ B \subseteq Mapped \ E /\ H \subseteq E /\ E \subseteq Mapped
  BY <1>1, OwedChunks DEF Countable
<1>7. IsFiniteSet(E) /\ IsFiniteSet(A) /\ IsFiniteSet(B) /\ IsFiniteSet(H)
  BY <1>1, <1>6, FS_Subset
<1>8. emptyBlocksCount <= Cardinality(Mapped)
  <2> PICK e, a, b, m : /\ e = Cardinality(E) /\ a = Cardinality(A) /\ b = Cardinality(B)
                        /\ m = Cardinality(Mapped)
    OBVIOUS
  <2>1. e \in Nat /\ a \in Nat /\ b \in Nat /\ m \in Nat
    BY <1>1, <1>7, FS_CardinalityType
  <2>2. a <= e
    BY <1>6, <1>7, FS_Subset
  <2>3. e + b <= m
    <3>1. E \cap B = {} /\ E \cup B \subseteq Mapped
      BY <1>6
    <3>2. Cardinality(E \cup B) = e + b - 0
      BY <1>7, <3>1, FS_Union, FS_EmptySet
    <3>3. Cardinality(E \cup B) <= m
      BY <1>1, <3>1, FS_Subset
    <3> QED BY <2>1, <3>2, <3>3
  <2>4. Cardinality(At(OweCount)) = a /\ Cardinality(At(OweTake)) = b /\ Cardinality(Doomed) = 0
    BY <1>3, <1>4, <1>5, CountChunks, FS_EmptySet
  <2>5. emptyBlocksCount = (e - a - 0 + b) % Word
    BY <1>1, <2>4 DEF CountExact
  <2>6. e - a - 0 + b \in Nat /\ e - a - 0 + b <= m
    BY <2>1, <2>2, <2>3
  <2> QED BY <2>1, <2>5, <2>6, RemainderBelow
<1>9. emptyBlocksSize <= SizeOf(Mapped)
  <2>1. \A c \in Mapped : memorysize[c] \in Nat
    BY <1>1 DEF Countable
  <2> PICK e, h, m : e = SizeOf(E) /\ h = SizeOf(H) /\ m = SizeOf(Mapped)
    OBVIOUS
  <2>2. e \in Nat /\ h \in Nat /\ m \in Nat /\ h <= e /\ e <= m
    BY <1>1, <1>6, <1>7, <2>1, PartOfSize
  <2>3. SizeInHand(At(OweSize)) = h
    <3>1. \A u \in At(OweSize) : memorysize[local[u].ch] \in Nat
      BY <1>1, <2>1 DEF Countable, At, OweSize, OweCount
    <3> QED BY <1>4, <1>5, <3>1, SizeOfChunks
  <2>4. SizeOf({}) = 0
    <3>1. SumOf(memorysize, {}) = 0
      BY SumEmpty
    <3> QED BY <3>1 DEF SizeOf, SumOf
  <2>5. emptyBlocksSize = (e - h - 0 - 0) % Word
    BY <1>1, <1>2, <1>3, <2>3, <2>4 DEF SizeExact
  <2>6. e - h - 0 - 0 \in Nat /\ e - h - 0 - 0 <= m
    BY <2>2
  <2> QED BY <2>2, <2>5, <2>6, RemainderBelow
<1> QED BY <1>8, <1>9

(* No thread compares a counter that has wrapped with a threshold.         *)
THEOREM NoWrappedCorrect == Spec => []NoWrappedThreshold
BY CountsInductive, NothingWrapped, PTL
=============================================================================
