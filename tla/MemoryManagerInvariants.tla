---------------------- MODULE MemoryManagerInvariants ----------------------
(***************************************************************************)
(* What makes MemoryManagerParallel correct.  The locks protect different  *)
(* things, and most properties relate state under one lock to state under  *)
(* another, or to a thread that has left one lock and not reached the next.*)
(***************************************************************************)
EXTENDS MemoryManagerParallel

-----------------------------------------------------------------------------
(* The places of the code, by the locks a thread holds there.              *)

HoldsContext == {"a_store", "a_new", "a_null", "a_listed", "a_spliced", "a_fresh", "a_count",
                 "c_list", "c_visit"}
HoldsStore == {"c_visit", "c_look", "c_drop"}
HoldsClean == {"c_soft", "c_softcount", "c_hard", "c_hardcount", "c_context", "c_list",
               "c_visit", "c_sweep", "c_look", "c_drop", "c_delete"}
Places == HoldsContext \cup HoldsClean \cup
          {"idle", "a_context", "d_find", "d_size", "d_count", "d_store", "g_find", "c_try"}

(* The bucket whose lock t holds, in the places where it holds one.        *)
HoldsBucket(t, b) ==
  \/ pc[t] = "a_count" /\ b = getMemoryBucket(local[t].ch)
  \/ pc[t] \in {"d_size", "d_count"} /\ b = local[t].bkt

Locals ==
  [ctx : Contexts, fs : Stores, size : Nat, ch : PoolAddresses \cup {NULL}, ptr : Nat,
   bkt : Buckets, tries : Nat, needClean : BOOLEAN, toFreestore : BOOLEAN, force : BOOLEAN,
   row : Nat, pos : Nat, toDelete : Seq(PoolAddresses)]

Owner == Threads \cup {NoThread}

(* Type correctness.  Every list holds pool blocks, every counter stays an *)
(* unsigned value below Word.                                              *)
TypeOK ==
  /\ memory \in [Buckets -> SUBSET PoolAddresses]
  /\ chunkRange \in [PoolAddresses -> Ranges \cup {0}]
  /\ memorysize \in [PoolAddresses -> Nat]
  /\ used \in [PoolAddresses -> SUBSET Nat]
  /\ notfullchunks \in [Contexts -> [Ranges -> Seq(PoolAddresses)]]
  /\ freeStore \in [Stores -> [Ranges -> Seq(PoolAddresses)]]
  /\ freelistNode \in SUBSET PoolAddresses
  /\ emptyBlocksSize \in 0 .. Word - 1
  /\ emptyBlocksCount \in 0 .. Word - 1
  /\ cleanMutex \in Owner
  /\ cleanCounter \in 0 .. ForcePeriod - 1
  /\ contextLock \in [Contexts -> Owner]
  /\ storeLock \in [Stores -> Owner]
  /\ bucketLock \in [Buckets -> Owner]
  /\ live \in SUBSET [ptr : Nat, size : Nat]
  /\ pc \in [Threads -> Places]
  /\ local \in [Threads -> Locals]

LocksOf(t) ==
  /\ \A x \in Contexts : contextLock[x] = t <=> pc[t] \in HoldsContext /\ local[t].ctx = x
  /\ \A x \in Stores : storeLock[x] = t <=> pc[t] \in HoldsStore /\ local[t].fs = x
  /\ \A b \in Buckets : bucketLock[b] = t <=> HoldsBucket(t, b)
  /\ cleanMutex = t <=> pc[t] \in HoldsClean

(* A lock's owner is exactly the thread whose place in the code is inside  *)
(* the scope of that lock: every path out of a critical section, the throw *)
(* and the early returns included, releases what it took, and no two       *)
(* threads are ever inside the same one.                                   *)
LocksMatchCode == \A t \in Threads : LocksOf(t)

-----------------------------------------------------------------------------
(* Where a chunk's list node is.                                           *)

Positions(list, c) == {i \in DOMAIN list : list[i] = c}
ListPlaces(tag, lists, c) ==
  UNION {UNION {{<<tag, x, r, i>> : i \in Positions(lists[x][r], c)} : r \in Ranges} :
         x \in DOMAIN lists}

ListsHolding(c) ==
  {place \in {<<"freelistNode">>} : c \in freelistNode}
  \cup ListPlaces("notfullchunks", notfullchunks, c)
  \cup ListPlaces("freeStore", freeStore, c)
  \cup {<<"templist", t>> : t \in {u \in Threads : pc[u] = "a_spliced" /\ local[u].ch = c}}
  \cup UNION {{<<"toDeleteList", t, i>> : i \in Positions(local[t].toDelete, c)} : t \in Threads}

(* The one list node of every chunk is in exactly one list: its own, a     *)
(* context's, a store's, alloc's templist or clean's toDeleteList.  A      *)
(* destroyed chunk is in none.  Splices under different locks neither lose *)
(* a chunk nor list it twice.                                              *)
ChunkInOneList ==
  \A c \in PoolAddresses :
    IF c \in Mapped THEN \E place \in ListsHolding(c) : ListsHolding(c) = {place}
                    ELSE ListsHolding(c) = {}

(* A chunk in a context's or a store's list is of the list's row and has a *)
(* free slot, and so has the chunk alloc has chosen: chunk->alloc never    *)
(* returns the nullptr of the assert(false) branches.                      *)
ListedChunksHaveRoom ==
  /\ \A x \in Contexts, r \in Ranges : \A i \in DOMAIN notfullchunks[x][r] :
       LET c == notfullchunks[x][r][i] IN chunkRange[c] = r /\ ~ full(c)
  /\ \A x \in Stores, r \in Ranges : \A i \in DOMAIN freeStore[x][r] :
       LET c == freeStore[x][r][i] IN chunkRange[c] = r /\ ~ full(c)
  /\ \A t \in Threads : pc[t] \in {"a_listed", "a_spliced", "a_fresh"} =>
       chunkRange[local[t].ch] = getSizeRange(local[t].size) /\ ~ full(local[t].ch)

(* A chunk with a free slot can be found by a later alloc: if it is in no  *)
(* list but its own, exactly one thread is on its way to list it, even     *)
(* when several threads free slots of a full chunk together.  dealloc      *)
(* leaves the bucket's lock before it takes the store's.                   *)
Listing(c) ==
  {t \in Threads : /\ local[t].ch = c
                   /\ \/ pc[t] = "a_fresh"
                      \/ pc[t] \in {"d_size", "d_count", "d_store"} /\ local[t].toFreestore}

NoChunkIsStranded ==
  \A c \in freelistNode :
    IF full(c) THEN Listing(c) = {} ELSE \E t \in Threads : Listing(c) = {t}

-----------------------------------------------------------------------------
(* Chunks, buffers and the address map.                                    *)

(* Every chunk a thread dereferences outside the lock it found it under    *)
(* still exists: the chunk of an iterator kept across the bucket's unlock, *)
(* and the chunks on clean's list, which must also be mapped and empty for *)
(* bucket->chunks.find not to miss and no buffer to be lost.               *)
ChunksInHandExist ==
  \A t \in Threads :
    /\ pc[t] \in {"a_listed", "a_spliced", "a_count", "d_size", "d_count", "d_store"} =>
         local[t].ch \in memory[getMemoryBucket(local[t].ch)]
    /\ \A i \in DOMAIN local[t].toDelete :
         LET c == local[t].toDelete[i] IN c \in memory[getMemoryBucket(c)] /\ empty(c)

(* The used slots of all chunks are exactly the buffers: those the callers *)
(* own, those alloc is about to return and those dealloc is looking for;   *)
(* each slot belongs to one buffer.  Nothing is handed out twice, nothing  *)
(* leaks, and the pointer of a getInfo is an allocated slot.               *)
UsedAddresses == UNION {{ElementAddress(c, i) : i \in used[c]} : c \in Mapped}
InFlight == {t \in Threads : pc[t] \in {"a_count", "d_find"}}
BuffersAt(p) == {buffer \in live : buffer.ptr = p} \cup {t \in InFlight : local[t].ptr = p}

SlotsMatchBuffers ==
  \A p \in UsedAddresses \cup {buffer.ptr : buffer \in live} \cup {local[t].ptr : t \in InFlight} :
    Cardinality(BuffersAt(p)) = 1 /\ p \in UsedAddresses

(* alloc hands out a slot nobody has: each successful alloc adds one       *)
(* address to those in use, even when several allocs share a chunk.        *)
EachAllocTakesASlot ==
  [][\A t \in Threads :
       pc[t] \in {"a_listed", "a_spliced", "a_fresh"} /\ pc'[t] # pc[t] =>
         \E p \in UsedAddresses' \ UsedAddresses : UsedAddresses' = UsedAddresses \cup {p}]_vars

(* A buffer lies in the block of one chunk, as long as it was asked for,   *)
(* and no two buffers overlap.                                             *)
BuffersFit ==
  /\ \A buffer \in live : \E c \in Mapped :
       Covers(c, buffer.ptr) /\ buffer.ptr + buffer.size <= c + memorysize[c]
  /\ \A a, b \in live : a # b => a.ptr + a.size <= b.ptr \/ b.ptr + b.size <= a.ptr

(* The same for the buffers of the table's sizes among themselves.  It     *)
(* holds even where alloc reuses a block that is too short for a request   *)
(* beyond the table: the fixed elements of a row hold every size of it.    *)
TableBuffersFit ==
  LET table == {buffer \in live : getSizeRange(buffer.size) # AnySize} IN
  /\ \A a \in table : \E c \in Mapped :
       Covers(c, a.ptr) /\ a.ptr + a.size <= c + memorysize[c]
  /\ \A a, b \in table : a # b => a.ptr + a.size <= b.ptr \/ b.ptr + b.size <= a.ptr

(* The bucket search of dealloc and getInfo cannot miss: the chunk of the  *)
(* pointer is in a bucket the search has yet to look at, wherever the      *)
(* block's address wraps around the bucket table, and no concurrent clean  *)
(* takes it away.  dealloc ends in assert(false) if the search fails.      *)
SearchCannotFail ==
  \A t \in Threads : pc[t] \in {"d_find", "g_find"} =>
    \E c \in Mapped :
      /\ Covers(c, local[t].ptr)
      /\ c \in memory[getMemoryBucket(c)]
      /\ ((local[t].bkt - getMemoryBucket(c)) % BucketCount) + local[t].tries < BucketCount

-----------------------------------------------------------------------------
(* The counters of empty chunks.                                           *)

At(places) == {t \in Threads : pc[t] \in places}
SizeOf(chunks) == MapThenSumSet(LAMBDA c : memorysize[c], chunks)
SizeInHand(threads) == MapThenSumSet(LAMBDA t : memorysize[local[t].ch], threads)
EmptyChunks == {c \in Mapped : empty(c)}
Doomed == UNION {ToSet(local[t].toDelete) : t \in Threads}
Dropping == {freeStore[local[t].fs][local[t].row][local[t].pos] : t \in At({"c_drop"})}

(* emptyBlocksCount and emptyBlocksSize are the number and the size of the *)
(* empty chunks, up to the updates the threads still owe: no interleaving  *)
(* of alloc's, dealloc's and clean's unlocked atomic updates loses or      *)
(* repeats one.                                                            *)
EmptyBlocksExact ==
  /\ emptyBlocksCount =
       (Cardinality(EmptyChunks) - Cardinality(At({"a_fresh", "d_size", "d_count"}))
          - Cardinality(Doomed) + Cardinality(At({"a_count"}))) % Word
  /\ emptyBlocksSize =
       (SizeOf(EmptyChunks) - SizeInHand(At({"a_fresh", "d_size"}))
          - SizeOf(Doomed) - SizeOf(Dropping)) % Word

(* clean may subtract a chunk before the dealloc that emptied it has added *)
(* it, and the unsigned counters then wrap; but no thread ever compares a  *)
(* wrapped counter with a threshold, because clean keeps its mutex until   *)
(* it has had the bucket's lock.                                           *)
NoWrappedThreshold ==
  At({"c_soft", "c_softcount", "c_hard", "c_hardcount"}) # {} =>
    emptyBlocksCount <= Cardinality(Mapped) /\ emptyBlocksSize <= SizeOf(Mapped)

(* A forced clean that runs alone gives every empty chunk of the contexts  *)
(* and of the store it sweeps back to the pool.                            *)
ForcedCleanFreesAll ==
  \A t \in Threads :
    pc[t] = "c_delete" /\ local[t].force /\ local[t].toDelete = <<>>
      /\ (\A u \in Threads \ {t} : pc[u] = "idle")
    => EmptyChunks = {}

-----------------------------------------------------------------------------
(* The manager implements a heap: its blocks are the chunks' blocks, its   *)
(* buffers the elements in use.                                            *)

Heap == INSTANCE AllocatorHeap WITH
  Places <- UNION {c .. c + BlockSize(r, s) : c \in PoolAddresses, r \in Ranges, s \in Sizes},
  Lengths <- {BlockSize(r, s) : r \in Ranges, s \in Sizes} \cup {MaxSize[r] : r \in 1 .. RangeCount - 1},
  blocks <- {[at |-> c, len |-> memorysize[c]] : c \in Mapped},
  buffers <- UNION {{[at |-> ElementAddress(c, i), len |-> elSize(c)] : i \in used[c]} : c \in Mapped}

(* Every step of every thread is one step of the heap, or none: a slot is  *)
(* taken only where no other buffer is, and the pool gets no block back    *)
(* while a buffer is in it.                                                *)
ImplementsHeap == Heap!HeapSpec

-----------------------------------------------------------------------------
(* Liveness.                                                               *)

(* When the callers stop calling, every call returns: no order of taking   *)
(* the locks deadlocks, and no loop of clean or of a bucket search runs on.*)
CallsReturn ==
  <>[][~ \E t \in Threads : Call(t)]_vars => <>[](\A t \in Threads : pc[t] = "idle")
=============================================================================
