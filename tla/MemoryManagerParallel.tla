----------------------- MODULE MemoryManagerParallel -----------------------
(***************************************************************************)
(* The concurrent core of the allocator, src/VirtualMachineProject/        *)
(* MemoryManagerParallel.h: alloc, dealloc, getInfo and clean running in   *)
(* any number of threads over three kinds of lock.                         *)
(*                                                                         *)
(*   notfullchunks  per allocation context: chunks with a free slot         *)
(*   freeStore      per store: chunks with a free slot and no context       *)
(*   memory         per address bucket: every chunk, found by address       *)
(*                                                                         *)
(* A thread's step runs from one point where another thread can act to the *)
(* next: a lock it may have to wait for, an atomic counter it touches, or  *)
(* a useCount the cleaner may read without the bucket's lock.  A critical  *)
(* section that neither waits nor shows an intermediate value is one step. *)
(* A chunk is named by the address of its pool block; NULL is 0.           *)
(*                                                                         *)
(* An operator named X_Y, defined before X, is X with the plausible bug Y  *)
(* seeded in it: with it in X's place a property must fail.  Nothing else  *)
(* uses it.                                                                *)
(***************************************************************************)
EXTENDS Integers, SequencesExt

CONSTANTS
  Threads, NoThread,
  AllocContextCount, FreeStoreCount, BucketCount,
  BucketAddressRange,   \* 1 << BucketAddressRangeSizeBits
  PoolAddresses,        \* where the pool can place a block
  RangeCount,           \* rows of the size table; the last row is AnySize
  MaxSize,              \* range.maxv of each row below the last
  ElPerChunk,           \* elPerChunk of each row
  BuforSize,            \* buforSize of each row below the last
  Sizes,                \* sizes the callers ask for
  ContextIDs,           \* context ids the callers pass explicitly
  ThreadHash,           \* std::hash of each thread's id, the default context id
  SoftSize, SoftCount, HardSize, HardCount,   \* thresholds of clean
  ContextPeriod, ForcePeriod,                 \* 8 and 64 in clean
  Word                  \* the counters are unsigned: arithmetic is modulo Word

NULL == 0
Contexts == 0 .. AllocContextCount - 1
Stores   == 0 .. FreeStoreCount - 1
Buckets  == 0 .. BucketCount - 1
Ranges   == 1 .. RangeCount

ASSUME ThreadsAssumption == NoThread \notin Threads
ASSUME CountsAssumption ==
  /\ AllocContextCount \in Nat \ {0}
  /\ FreeStoreCount \in Nat \ {0}
  /\ BucketCount \in Nat \ {0}
  /\ BucketAddressRange \in Nat \ {0}
  /\ Word \in Nat \ {0}
  /\ ContextPeriod \in Nat \ {0} /\ ForcePeriod \in Nat \ {0}
  /\ SoftSize \in Nat /\ SoftCount \in Nat /\ HardSize \in Nat /\ HardCount \in Nat
ASSUME SizesAssumption ==
  /\ RangeCount \in Nat \ {0}
  /\ Sizes \subseteq Nat \ {0}
  /\ PoolAddresses \subseteq Nat \ {0}
  /\ MaxSize \in [1 .. RangeCount - 1 -> Nat \ {0}]
  /\ BuforSize \in [1 .. RangeCount - 1 -> Nat \ {0}]
  /\ ElPerChunk \in [Ranges -> Nat \ {0}]
  /\ \A q, r \in 1 .. RangeCount - 1 : q < r => MaxSize[q] < MaxSize[r]
  /\ \A r \in 1 .. RangeCount - 1 : ElPerChunk[r] * MaxSize[r] <= BuforSize[r]
  /\ ElPerChunk[RangeCount] = 1
ASSUME IdsAssumption ==
  /\ ContextIDs \subseteq Nat
  /\ ThreadHash \in [Threads -> Nat]

VARIABLES
  memory,            \* memory[b]: the chunks mapped in bucket b
  chunkRange,        \* row of the size table a chunk was built for, 0 if there is none
  memorysize,        \* size of a chunk's pool block
  used,              \* the slots a chunk has handed out: its bitmap, its useCount
  notfullchunks,     \* notfullchunks[x][r]: list of context x for row r
  freeStore,         \* freeStore[x][r]: list of store x for row r
  freelistNode,      \* the chunks whose list node is in their own freelistNode
  emptyBlocksSize, emptyBlocksCount,
  cleanMutex, cleanCounter,
  contextLock, storeLock, bucketLock,
  live,              \* buffers the callers own: [ptr, size]
  pc, local          \* each thread's place in the code and its local variables

memoryVars  == <<memory, chunkRange, memorysize, used>>
listVars    == <<notfullchunks, freeStore, freelistNode>>
counterVars == <<emptyBlocksSize, emptyBlocksCount>>
cleanVars   == <<cleanMutex, cleanCounter>>
lockVars    == <<contextLock, storeLock, bucketLock>>
vars == <<memoryVars, listVars, counterVars, cleanVars, lockVars, live, pc, local>>

-----------------------------------------------------------------------------
(* Sizes, addresses and chunks.                                            *)

AnySize == RangeCount

(* The row of the size table for a request; beyond the table, AnySize.     *)
getSizeRange(size) == 1 + Cardinality({r \in 1 .. RangeCount - 1 : MaxSize[r] < size})

getMemoryBucket(ptr) == (ptr \div BucketAddressRange) % BucketCount
getAllocContext(id) == id % AllocContextCount
getFreeStoreContext(id) == (id + 1999) % FreeStoreCount
PreviousBucket_NoWrap(b) == IF b = 0 THEN 0 ELSE b - 1
PreviousBucket(b) == (IF b = 0 THEN BucketCount ELSE b) - 1

(* Fixed-size chunks cut their block into elements of the row's largest    *)
(* size; an AnySize chunk is one element of the whole block.               *)
elSize(c) == IF chunkRange[c] = AnySize THEN memorysize[c] ELSE MaxSize[chunkRange[c]]
Slots(c) == 0 .. ElPerChunk[chunkRange[c]] - 1
full(c) == used[c] = Slots(c)
empty(c) == used[c] = {}
AllocIndex_UseCount(c) == Cardinality(used[c])
AllocIndex(c) == Min(Slots(c) \ used[c])
ElementAddress_Unscaled(c, i) == c + i
ElementAddress(c, i) == c + i * elSize(c)
ElementIndex(c, ptr) == (ptr - c) \div elSize(c)
Covers(c, ptr) == c <= ptr /\ ptr < c + memorysize[c]

(* Subtracting from an unsigned atomic wraps.                              *)
Plus(a, b) == (a + b) % Word
Minus_Signed(a, b) == a - b
Minus(a, b) == (a - b) % Word

(* The first row from r on whose list is not empty, or one past the last.  *)
NextList(lists, r) == Min({x \in r .. RangeCount : lists[x] # <<>>} \cup {RangeCount + 1})

(* What a reused chunk must satisfy: only AnySize chunks differ in size.   *)
SizeMatches(c, size) ==
  chunkRange[c] = AnySize =>
    memorysize[c] >= size /\ 95 * memorysize[c] <= 100 * size

(* The chunk alloc takes from a store's list: the first that matches, and  *)
(* the list's first chunk when none does (bestit starts at begin()).       *)
BestIndex(list, size) ==
  LET matching == {i \in DOMAIN list : SizeMatches(list[i], size)}
  IN  IF matching = {} THEN 1 ELSE Min(matching)

(* The pool returns a block that overlaps no block it has handed out: all  *)
(* that malloc, and BlocksApart of the pool allocator, promise.            *)
Mapped == {c \in PoolAddresses : chunkRange[c] # 0}
BlockSize(r, size) == IF r = AnySize THEN size ELSE BuforSize[r]
PoolCanPlace(c, n) ==
  \A d \in Mapped : d + memorysize[d] <= c \/ c + n <= d

-----------------------------------------------------------------------------
(* A thread's local variables.  pos and row are where clean's loops stand. *)

NoLocals == [ctx |-> 0, fs |-> 0, size |-> 0, ch |-> NULL, ptr |-> NULL,
             bkt |-> 0, tries |-> 0, needClean |-> FALSE, toFreestore |-> FALSE,
             force |-> FALSE, row |-> 1, pos |-> 1, toDelete |-> <<>>]

Init ==
  /\ memory = [b \in Buckets |-> {}]
  /\ chunkRange = [c \in PoolAddresses |-> 0]
  /\ memorysize = [c \in PoolAddresses |-> 0]
  /\ used = [c \in PoolAddresses |-> {}]
  /\ notfullchunks = [x \in Contexts |-> [r \in Ranges |-> <<>>]]
  /\ freeStore = [x \in Stores |-> [r \in Ranges |-> <<>>]]
  /\ freelistNode = {}
  /\ emptyBlocksSize = 0 /\ emptyBlocksCount = 0
  /\ cleanMutex = NoThread /\ cleanCounter = 0
  /\ contextLock = [x \in Contexts |-> NoThread]
  /\ storeLock = [x \in Stores |-> NoThread]
  /\ bucketLock = [b \in Buckets |-> NoThread]
  /\ live = {}
  /\ pc = [t \in Threads |-> "idle"]
  /\ local = [t \in Threads |-> NoLocals]

Goto(t, label) == pc' = [pc EXCEPT ![t] = label]
GotoWith(t, label, locals) == Goto(t, label) /\ local' = [local EXCEPT ![t] = locals]
Return(t) == GotoWith(t, "idle", NoLocals)

LockContext(t, x) == contextLock[x] = NoThread /\ contextLock' = [contextLock EXCEPT ![x] = t]
UnlockContext(x) == contextLock' = [contextLock EXCEPT ![x] = NoThread]
LockStore(t, x) == storeLock[x] = NoThread /\ storeLock' = [storeLock EXCEPT ![x] = t]
UnlockStore(x) == storeLock' = [storeLock EXCEPT ![x] = NoThread]
LockBucket(t, b) == bucketLock[b] = NoThread /\ bucketLock' = [bucketLock EXCEPT ![b] = t]
UnlockBucket(b) == bucketLock' = [bucketLock EXCEPT ![b] = NoThread]

PushFront(lists, x, r, c) == [lists EXCEPT ![x][r] = Cons(c, @)]
TakeOut(lists, x, r, i) == [lists EXCEPT ![x][r] = RemoveAt(@, i)]

-----------------------------------------------------------------------------
(* alloc(size, contextID)                                                  *)

Alloc(t, size, id) ==
  /\ pc[t] = "idle"
  /\ GotoWith(t, "a_context", [NoLocals EXCEPT !.size = size,
                                 !.ctx = getAllocContext(id), !.fs = getFreeStoreContext(id)])
  /\ UNCHANGED <<memoryVars, listVars, counterVars, cleanVars, lockVars, live>>

(* Lock the context; take the front chunk of its list, if it has one.      *)
AllocLockContext(t) ==
  /\ pc[t] = "a_context"
  /\ LockContext(t, local[t].ctx)
  /\ LET list == notfullchunks[local[t].ctx][getSizeRange(local[t].size)]
     IN  IF list # <<>>
           THEN GotoWith(t, "a_listed", [local[t] EXCEPT !.ch = Head(list)])
           ELSE GotoWith(t, "a_store", local[t])
  /\ UNCHANGED <<memoryVars, listVars, counterVars, cleanVars, storeLock, bucketLock, live>>

(* Under the store's lock, splice the best chunk of its list to templist.  *)
AllocFromStore(t) ==
  /\ pc[t] = "a_store"
  /\ storeLock[local[t].fs] = NoThread
  /\ LET row  == getSizeRange(local[t].size)
         list == freeStore[local[t].fs][row]
         best == BestIndex(list, local[t].size)
     IN  IF list # <<>>
           THEN /\ GotoWith(t, "a_spliced", [local[t] EXCEPT !.ch = list[best]])
                /\ freeStore' = TakeOut(freeStore, local[t].fs, row, best)
           ELSE /\ GotoWith(t, "a_new", local[t])
                /\ UNCHANGED freeStore
  /\ UNCHANGED <<memoryVars, notfullchunks, freelistNode, counterVars, cleanVars, lockVars, live>>

(* createNewChunk: a block of the pool, and a chunk object whose list node *)
(* starts in its own freelistNode.                                         *)
AllocCreateChunk(t) ==
  /\ pc[t] = "a_new"
  /\ LET row == getSizeRange(local[t].size)
         n   == BlockSize(row, local[t].size)
     IN  \E c \in PoolAddresses \ Mapped :
           /\ PoolCanPlace(c, n)
           /\ chunkRange' = [chunkRange EXCEPT ![c] = row]
           /\ memorysize' = [memorysize EXCEPT ![c] = n]
           /\ freelistNode' = freelistNode \cup {c}
           /\ GotoWith(t, "a_fresh", [local[t] EXCEPT !.ch = c])
  /\ UNCHANGED <<memory, used, notfullchunks, freeStore, counterVars, cleanVars, lockVars, live>>

(* The pool has no block: the chunk's address is null.                     *)
AllocPoolExhausted(t) ==
  /\ pc[t] = "a_new"
  /\ GotoWith(t, "a_null", local[t])
  /\ UNCHANGED <<memoryVars, listVars, counterVars, cleanVars, lockVars, live>>

(* alloc on the null chunk returns nullptr: throw std::bad_alloc, which    *)
(* destroys the chunk and unlocks bucket and context.                      *)
AllocThrow_KeepsContext(t) ==
  /\ pc[t] = "a_null"
  /\ bucketLock[getMemoryBucket(NULL)] = NoThread
  /\ Return(t)
  /\ UNCHANGED <<memoryVars, listVars, counterVars, cleanVars, lockVars, live>>
AllocThrow(t) ==
  /\ pc[t] = "a_null"
  /\ bucketLock[getMemoryBucket(NULL)] = NoThread
  /\ UnlockContext(local[t].ctx)
  /\ Return(t)
  /\ UNCHANGED <<memoryVars, listVars, counterVars, cleanVars, storeLock, bucketLock, live>>

HandOut(t, ptr) == live' = live \cup {[ptr |-> ptr, size |-> local[t].size]}

(* The end of alloc's critical section when the chunk was not empty: the   *)
(* bucket's lock was taken and given back within the step.  A chunk that   *)
(* was empty leaves the counters first, two atomic subtractions apart.     *)
WasEmpty_ReadAfter(c) == FALSE
WasEmpty(c) == empty(c)

AllocEnd(t, c, ptr) ==
  IF WasEmpty(c)
    THEN /\ LockBucket(t, getMemoryBucket(c))
         /\ emptyBlocksSize' = Minus(emptyBlocksSize, memorysize[c])
         /\ GotoWith(t, "a_count", [local[t] EXCEPT !.ptr = ptr])
         /\ UNCHANGED <<contextLock, live>>
    ELSE /\ bucketLock[getMemoryBucket(c)] = NoThread
         /\ HandOut(t, ptr)
         /\ UnlockContext(local[t].ctx)
         /\ Return(t)
         /\ UNCHANGED <<emptyBlocksSize, bucketLock>>

(* After alloc, a listed chunk that is now full goes back to its own       *)
(* freelistNode; any other chunk joins the context's list unless it is.    *)
DelistIfFull_Copies(t, c, row) ==
  /\ IF used'[c] = Slots(c) THEN freelistNode' = freelistNode \cup {c} ELSE UNCHANGED freelistNode
  /\ UNCHANGED notfullchunks
DelistIfFull(t, c, row) ==
  IF used'[c] = Slots(c)
    THEN /\ notfullchunks' = TakeOut(notfullchunks, local[t].ctx, row, 1)
         /\ freelistNode' = freelistNode \cup {c}
    ELSE UNCHANGED <<notfullchunks, freelistNode>>

ListUnlessFull_Always(t, c, row) ==
  /\ notfullchunks' = PushFront(notfullchunks, local[t].ctx, row, c)
  /\ freelistNode' = freelistNode \ {c}
ListUnlessFull(t, c, row) ==
  IF used'[c] = Slots(c)
    THEN freelistNode' = freelistNode \cup {c} /\ UNCHANGED notfullchunks
    ELSE /\ notfullchunks' = PushFront(notfullchunks, local[t].ctx, row, c)
         /\ freelistNode' = freelistNode \ {c}

(* Take a slot of the context's front chunk.                               *)
AllocFromListed(t) ==
  /\ pc[t] = "a_listed"
  /\ LET c == local[t].ch
         i == AllocIndex(c)
     IN  /\ AllocEnd(t, c, ElementAddress(c, i))
         /\ used' = [used EXCEPT ![c] = @ \cup {i}]
         /\ DelistIfFull(t, c, getSizeRange(local[t].size))
  /\ UNCHANGED <<memory, chunkRange, memorysize, freeStore, emptyBlocksCount, cleanVars, storeLock>>

(* Take a slot of the store's chunk.                                       *)
AllocFromSpliced(t) ==
  /\ pc[t] = "a_spliced"
  /\ LET c == local[t].ch
         i == AllocIndex(c)
     IN  /\ AllocEnd(t, c, ElementAddress(c, i))
         /\ used' = [used EXCEPT ![c] = @ \cup {i}]
         /\ ListUnlessFull(t, c, getSizeRange(local[t].size))
  /\ UNCHANGED <<memory, chunkRange, memorysize, freeStore, emptyBlocksCount, cleanVars, storeLock>>

(* The second subtraction, then unlock bucket and context and return.      *)
AllocCount(t) ==
  /\ pc[t] = "a_count"
  /\ emptyBlocksCount' = Minus(emptyBlocksCount, 1)
  /\ HandOut(t, local[t].ptr)
  /\ UnlockBucket(getMemoryBucket(local[t].ch))
  /\ UnlockContext(local[t].ctx)
  /\ Return(t)
  /\ UNCHANGED <<memoryVars, listVars, emptyBlocksSize, cleanVars, storeLock>>

(* Take a slot of the new chunk and map the chunk in its bucket.           *)
AllocFromFresh(t) ==
  /\ pc[t] = "a_fresh"
  /\ LET c == local[t].ch
         i == AllocIndex(c)
         b == getMemoryBucket(c)
     IN  /\ bucketLock[b] = NoThread
         /\ used' = [used EXCEPT ![c] = @ \cup {i}]
         /\ ListUnlessFull(t, c, getSizeRange(local[t].size))
         /\ memory' = [memory EXCEPT ![b] = @ \cup {c}]
         /\ HandOut(t, ElementAddress(c, i))
  /\ UnlockContext(local[t].ctx)
  /\ Return(t)
  /\ UNCHANGED <<chunkRange, memorysize, freeStore, counterVars, cleanVars, storeLock, bucketLock>>

-----------------------------------------------------------------------------
(* dealloc(ptr, contextID) and getInfo(ptr): search the buckets downwards  *)
(* from the pointer's own.  The caller gives a buffer up once, and does    *)
(* not free it while it asks for its info.                                 *)

Asked(ptr) == \E t \in Threads : pc[t] = "g_find" /\ local[t].ptr = ptr

SearchLocals(ptr, id) ==
  [NoLocals EXCEPT !.ptr = ptr, !.bkt = getMemoryBucket(ptr), !.fs = getFreeStoreContext(id)]

Dealloc(t, buffer, id) ==
  /\ pc[t] = "idle"
  /\ ~ Asked(buffer.ptr)
  /\ live' = live \ {buffer}
  /\ GotoWith(t, "d_find", SearchLocals(buffer.ptr, id))
  /\ UNCHANGED <<memoryVars, listVars, counterVars, cleanVars, lockVars>>

GetInfo(t, buffer) ==
  /\ pc[t] = "idle"
  /\ GotoWith(t, "g_find", SearchLocals(buffer.ptr, 0))
  /\ UNCHANGED <<memoryVars, listVars, counterVars, cleanVars, lockVars, live>>

(* bucket.find: the chunk of the thread's current bucket that covers ptr.  *)
Found(t) == {c \in memory[local[t].bkt] : Covers(c, local[t].ptr)}

SearchGoesOn_StopsEarly(iteration) == iteration + 1 < BucketCount
SearchGoesOn(iteration) == iteration < BucketCount

(* Not in this bucket: go on with the next lower one, give up after all.   *)
SearchMiss(t) ==
  /\ pc[t] \in {"d_find", "g_find"}
  /\ bucketLock[local[t].bkt] = NoThread
  /\ Found(t) = {}
  /\ IF SearchGoesOn(local[t].tries + 1)
       THEN GotoWith(t, pc[t], [local[t] EXCEPT !.tries = @ + 1, !.bkt = PreviousBucket(@)])
       ELSE Return(t)
  /\ UNCHANGED <<memoryVars, listVars, counterVars, cleanVars, lockVars, live>>

GetInfoHit(t) ==
  /\ pc[t] = "g_find"
  /\ bucketLock[local[t].bkt] = NoThread
  /\ Found(t) # {}
  /\ Return(t)
  /\ UNCHANGED <<memoryVars, listVars, counterVars, cleanVars, lockVars, live>>

(* What chunk->dealloc(ptr) answers when it leaves the slots in rest.       *)
DealocResult_FullAfter(c, rest) == IF rest = {} THEN "NOW_IS_EMPTY_CHUNK" ELSE "OK"
DealocResult(c, rest) ==
  CASE full(c) /\ rest = {}   -> "WAS_FULL_IS_EMPTY"
    [] full(c) /\ rest # {}   -> "WAS_FULL_CHUNK"
    [] ~ full(c) /\ rest = {} -> "NOW_IS_EMPTY_CHUNK"
    [] OTHER                  -> "OK"

(* The bucket stays locked while the counters change.                      *)
KeepBucket_Unlocked(t, b) == UNCHANGED bucketLock
KeepBucket(t, b) == LockBucket(t, b)

(* chunk->dealloc(ptr), and what its result asks for: nothing more, to     *)
(* give the chunk to the store, or to count it as empty first.             *)
DeallocHit(t) ==
  /\ pc[t] = "d_find"
  /\ bucketLock[local[t].bkt] = NoThread
  /\ \E c \in Found(t) :
       LET rest == used[c] \ {ElementIndex(c, local[t].ptr)}
           result == DealocResult(c, rest)
           needClean == result \in {"NOW_IS_EMPTY_CHUNK", "WAS_FULL_IS_EMPTY"}
           toFreestore == result \in {"WAS_FULL_CHUNK", "WAS_FULL_IS_EMPTY"}
           found == [local[t] EXCEPT !.ch = c, !.needClean = needClean, !.toFreestore = toFreestore]
       IN  /\ used' = [used EXCEPT ![c] = rest]
           /\ \/ needClean /\ KeepBucket(t, local[t].bkt) /\ GotoWith(t, "d_size", found)
              \/ result = "WAS_FULL_CHUNK" /\ GotoWith(t, "d_store", found) /\ UNCHANGED bucketLock
              \/ result = "OK" /\ Return(t) /\ UNCHANGED bucketLock
  /\ UNCHANGED <<memory, chunkRange, memorysize, listVars, counterVars, cleanVars,
                 contextLock, storeLock, live>>

(* The two atomic additions, still under the bucket's lock.                *)
DeallocSize(t) ==
  /\ pc[t] = "d_size"
  /\ emptyBlocksSize' = Plus(emptyBlocksSize, memorysize[local[t].ch])
  /\ Goto(t, "d_count")
  /\ UNCHANGED <<memoryVars, listVars, emptyBlocksCount, cleanVars, lockVars, live, local>>

(* clean() is called with its defaults: not forced, the store of the       *)
(* thread's own hash, whatever contextID dealloc was given.                *)
CleanLocals(force, id) == [NoLocals EXCEPT !.force = force, !.fs = getFreeStoreContext(id)]

CallClean(t) == GotoWith(t, "c_try", CleanLocals(FALSE, ThreadHash[t]))

DeallocCount_KeepsBucket(t) ==
  /\ pc[t] = "d_count"
  /\ emptyBlocksCount' = Plus(emptyBlocksCount, 1)
  /\ IF local[t].toFreestore THEN Goto(t, "d_store") /\ UNCHANGED local ELSE CallClean(t)
  /\ UNCHANGED <<memoryVars, listVars, emptyBlocksSize, cleanVars, lockVars, live>>
DeallocCount(t) ==
  /\ pc[t] = "d_count"
  /\ emptyBlocksCount' = Plus(emptyBlocksCount, 1)
  /\ UnlockBucket(local[t].bkt)
  /\ IF local[t].toFreestore THEN Goto(t, "d_store") /\ UNCHANGED local ELSE CallClean(t)
  /\ UNCHANGED <<memoryVars, listVars, emptyBlocksSize, cleanVars, contextLock, storeLock, live>>

(* The bucket is unlocked: splice the chunk from its own freelistNode to   *)
(* the front of the store's list for its element size.                     *)
DeallocStore(t) ==
  /\ pc[t] = "d_store"
  /\ storeLock[local[t].fs] = NoThread
  /\ LET c == local[t].ch
     IN  /\ freeStore' = PushFront(freeStore, local[t].fs, getSizeRange(elSize(c)), c)
         /\ freelistNode' = freelistNode \ {c}
  /\ IF local[t].needClean THEN CallClean(t) ELSE Return(t)
  /\ UNCHANGED <<memoryVars, notfullchunks, counterVars, cleanVars, lockVars, live>>

-----------------------------------------------------------------------------
(* clean(force, contextID)                                                 *)

Clean(t, force, id) ==
  /\ pc[t] = "idle"
  /\ GotoWith(t, "c_try", CleanLocals(force, id))
  /\ UNCHANGED <<memoryVars, listVars, counterVars, cleanVars, lockVars, live>>

CleanTryLock(t) ==
  /\ pc[t] = "c_try"
  /\ \/ /\ cleanMutex = NoThread
        /\ cleanMutex' = t
        /\ Goto(t, "c_soft")
        /\ UNCHANGED local
     \/ cleanMutex # NoThread /\ Return(t) /\ UNCHANGED cleanMutex
  /\ UNCHANGED <<memoryVars, listVars, counterVars, cleanCounter, lockVars, live>>

CleansContexts_NotForced(force, n) == n % ContextPeriod = 0
CleansContexts(force, n) == force \/ n % ContextPeriod = 0

(* ++cleanCounter.  The counter is only ever tested modulo ForcePeriod.    *)
CleanStart(t) ==
  LET n == (cleanCounter + 1) % ForcePeriod
      force == local[t].force \/ n = 0
  IN  /\ cleanCounter' = n
      /\ GotoWith(t, IF CleansContexts(force, n) THEN "c_context" ELSE "c_sweep",
                  [local[t] EXCEPT !.force = force])
      /\ UNCHANGED cleanMutex

CleanLeave(t) == cleanMutex' = NoThread /\ Return(t) /\ UNCHANGED cleanCounter

(* (size >= Soft && count >= Soft) || size >= Hard || count >= Hard ||     *)
(* force, each operand an atomic load of its own.                          *)
CleanTest(t) ==
  /\ \/ /\ pc[t] = "c_soft"
        /\ Goto(t, IF emptyBlocksSize >= SoftSize THEN "c_softcount" ELSE "c_hard")
        /\ UNCHANGED <<cleanVars, local>>
     \/ /\ pc[t] = "c_softcount"
        /\ IF emptyBlocksCount >= SoftCount
             THEN CleanStart(t)
             ELSE Goto(t, "c_hard") /\ UNCHANGED <<cleanVars, local>>
     \/ /\ pc[t] = "c_hard"
        /\ IF emptyBlocksSize >= HardSize
             THEN CleanStart(t)
             ELSE Goto(t, "c_hardcount") /\ UNCHANGED <<cleanVars, local>>
     \/ /\ pc[t] = "c_hardcount"
        /\ IF emptyBlocksCount >= HardCount \/ local[t].force
             THEN CleanStart(t)
             ELSE CleanLeave(t)
  /\ UNCHANGED <<memoryVars, listVars, counterVars, lockVars, live>>

(* Every context is locked in turn; its non-empty lists are gone through   *)
(* under the store's lock, taken per list.                                 *)
NextContext(t, locals) ==
  IF locals.ctx + 1 < AllocContextCount
    THEN GotoWith(t, "c_context", [locals EXCEPT !.ctx = @ + 1, !.row = 1, !.pos = 1])
    ELSE GotoWith(t, "c_sweep", [locals EXCEPT !.ctx = 0, !.row = 1, !.pos = 1])

CleanLockContext(t) ==
  /\ pc[t] = "c_context"
  /\ LET x == local[t].ctx
         r == NextList(notfullchunks[x], 1)
     IN  IF r \in Ranges
           THEN LockContext(t, x) /\ GotoWith(t, "c_list", [local[t] EXCEPT !.row = r])
           ELSE /\ contextLock[x] = NoThread
                /\ NextContext(t, local[t])
                /\ UNCHANGED contextLock
  /\ UNCHANGED <<memoryVars, listVars, counterVars, cleanVars, storeLock, bucketLock, live>>

CleanLockStore(t) ==
  /\ pc[t] = "c_list"
  /\ LockStore(t, local[t].fs)
  /\ Goto(t, "c_visit")
  /\ UNCHANGED <<memoryVars, listVars, counterVars, cleanVars, contextLock, bucketLock, live, local>>

(* One chunk of the list: its useCount is read without its bucket's lock.  *)
(* After the last one the store is unlocked, after the last list the       *)
(* context.                                                                *)
CleanVisit(t) ==
  /\ pc[t] = "c_visit"
  /\ LET my == local[t]
         x == my.ctx
         c == notfullchunks[x][my.row][my.pos]
         moved == empty(c) \/ my.force
         next == IF moved THEN my.pos ELSE my.pos + 1
     IN  /\ IF moved
              THEN /\ notfullchunks' = TakeOut(notfullchunks, x, my.row, my.pos)
                   /\ freeStore' = PushFront(freeStore, my.fs, my.row, c)
              ELSE UNCHANGED <<notfullchunks, freeStore>>
         /\ IF next <= Len(notfullchunks'[x][my.row])
              THEN /\ GotoWith(t, "c_visit", [my EXCEPT !.pos = next])
                   /\ UNCHANGED <<contextLock, storeLock>>
              ELSE LET r == NextList(notfullchunks[x], my.row + 1)
                   IN  /\ UnlockStore(my.fs)
                       /\ IF r \in Ranges
                            THEN /\ GotoWith(t, "c_list", [my EXCEPT !.row = r, !.pos = 1])
                                 /\ UNCHANGED contextLock
                            ELSE NextContext(t, my) /\ UnlockContext(x)
  /\ UNCHANGED <<memoryVars, freelistNode, counterVars, cleanVars, bucketLock, live>>

(* The store's own lists, all under one lock.  An empty chunk leaves the   *)
(* counters, two subtractions apart, and moves to toDeleteList.            *)
CleanLockSweep(t) ==
  /\ pc[t] = "c_sweep"
  /\ LET r == NextList(freeStore[local[t].fs], 1)
     IN  IF r \in Ranges
           THEN LockStore(t, local[t].fs) /\ GotoWith(t, "c_look", [local[t] EXCEPT !.row = r])
           ELSE /\ storeLock[local[t].fs] = NoThread
                /\ Goto(t, "c_delete")
                /\ UNCHANGED <<local, storeLock>>
  /\ UNCHANGED <<memoryVars, listVars, counterVars, cleanVars, contextLock, bucketLock, live>>

(* The loop's next chunk, or the end of the sweep.                         *)
SweepOn(t, locals, next, list) ==
  IF next <= Len(list)
    THEN GotoWith(t, "c_look", [locals EXCEPT !.pos = next]) /\ UNCHANGED storeLock
    ELSE LET r == NextList(freeStore[locals.fs], locals.row + 1)
         IN  IF r \in Ranges
               THEN /\ GotoWith(t, "c_look", [locals EXCEPT !.row = r, !.pos = 1])
                    /\ UNCHANGED storeLock
               ELSE /\ GotoWith(t, "c_delete", [locals EXCEPT !.row = 1, !.pos = 1])
                    /\ UnlockStore(locals.fs)

MayDelete_Forced(t, c) == empty(c) \/ local[t].force
MayDelete(t, c) == empty(c)

CleanLook(t) ==
  /\ pc[t] = "c_look"
  /\ LET my == local[t]
         list == freeStore[my.fs][my.row]
         c == list[my.pos]
     IN  IF MayDelete(t, c)
           THEN /\ emptyBlocksSize' = Minus(emptyBlocksSize, memorysize[c])
                /\ Goto(t, "c_drop")
                /\ UNCHANGED <<local, storeLock>>
           ELSE SweepOn(t, my, my.pos + 1, list) /\ UNCHANGED emptyBlocksSize
  /\ UNCHANGED <<memoryVars, listVars, emptyBlocksCount, cleanVars, contextLock, bucketLock, live>>

CleanDrop(t) ==
  /\ pc[t] = "c_drop"
  /\ LET my == local[t]
         c == freeStore[my.fs][my.row][my.pos]
     IN  /\ emptyBlocksCount' = Minus(emptyBlocksCount, 1)
         /\ freeStore' = TakeOut(freeStore, my.fs, my.row, my.pos)
         /\ SweepOn(t, [my EXCEPT !.toDelete = Cons(c, @)], my.pos, freeStore'[my.fs][my.row])
  /\ UNCHANGED <<memoryVars, notfullchunks, freelistNode, emptyBlocksSize, cleanVars,
                 contextLock, bucketLock, live>>

(* Under its bucket's lock, erase the chunk: its object is destroyed and   *)
(* its block goes back to the pool.                                        *)
CleanDelete(t) ==
  /\ pc[t] = "c_delete"
  /\ local[t].toDelete # <<>>
  /\ LET c == Head(local[t].toDelete)
         b == getMemoryBucket(c)
     IN  /\ bucketLock[b] = NoThread
         /\ memory' = [memory EXCEPT ![b] = @ \ {c}]
         /\ chunkRange' = [chunkRange EXCEPT ![c] = 0]
         /\ memorysize' = [memorysize EXCEPT ![c] = 0]
         /\ used' = [used EXCEPT ![c] = {}]
  /\ local' = [local EXCEPT ![t].toDelete = Tail(@)]
  /\ UNCHANGED <<listVars, counterVars, cleanVars, lockVars, live, pc>>

CleanEnd(t) ==
  /\ pc[t] = "c_delete"
  /\ local[t].toDelete = <<>>
  /\ CleanLeave(t)
  /\ UNCHANGED <<memoryVars, listVars, counterVars, lockVars, live>>

-----------------------------------------------------------------------------
(* A caller may pass any of ContextIDs, or leave its thread's hash.        *)
IDs(t) == ContextIDs \cup {ThreadHash[t]}

Call(t) ==
  \/ \E size \in Sizes, id \in IDs(t) : Alloc(t, size, id)
  \/ \E buffer \in live, id \in IDs(t) : Dealloc(t, buffer, id)
  \/ \E buffer \in live : GetInfo(t, buffer)
  \/ \E force \in BOOLEAN, id \in IDs(t) : Clean(t, force, id)

Step(t) ==
  \/ AllocLockContext(t) \/ AllocFromStore(t) \/ AllocCreateChunk(t) \/ AllocPoolExhausted(t)
  \/ AllocThrow(t) \/ AllocFromListed(t) \/ AllocFromSpliced(t) \/ AllocFromFresh(t)
  \/ AllocCount(t)
  \/ SearchMiss(t) \/ GetInfoHit(t)
  \/ DeallocHit(t) \/ DeallocSize(t) \/ DeallocCount(t) \/ DeallocStore(t)
  \/ CleanTryLock(t) \/ CleanTest(t)
  \/ CleanLockContext(t) \/ CleanLockStore(t) \/ CleanVisit(t)
  \/ CleanLockSweep(t) \/ CleanLook(t) \/ CleanDrop(t) \/ CleanDelete(t) \/ CleanEnd(t)

Next == \E t \in Threads : Call(t) \/ Step(t)

(* Every thread is scheduled again and again; a spinning lock() succeeds   *)
(* if the lock stays free.  The spinlock promises no more than that, and   *)
(* nobody is obliged to call the allocator.                                *)
Fairness == \A t \in Threads : WF_vars(Step(t))

Spec == Init /\ [][Next]_vars
FairSpec == Spec /\ Fairness
=============================================================================
