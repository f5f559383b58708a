# ScroogeAllocator in TLA+

A verification project for ScroogeAllocator, a general purpose C++ memory
allocator (`src/VirtualMachineProject/*.h`). `MemoryManagerParallel` hands out
buffers from chunks it borrows from a pool; any number of threads call
`alloc`, `dealloc`, `getInfo` and `clean` on one manager.

Modelled and checked: the concurrent core (section 2), the chunks with their
bitmaps and counters, the size tables, the pools with their allocator, and the
older `VMMemory` (section 3). Proved for every value of the constants: the
safety of the core, of a chunk, of a pool, of the allocator of pools and of
`VMMemory` (section 4).

## 1. Inventory

| Component | State | Operations | Correct when |
|---|---|---|---|
| `MemoryManagerParallel.h` | `memory` (address buckets), `notfullchunks` (contexts), `freeStore`, `emptyBlocksSize/Count`, `cleanMutex`, `cleanCounter` | `alloc`, `dealloc`, `getInfo`, `clean`, construction | no slot has two owners, no buffer loses its block, no chunk is lost or listed twice, locks are released on every path, calls return |
| `MemoryBucket.h` | a map of chunks by address range and its lock; a context's lists by size range and their lock | `find`, `erase`, `getChunkList` | a list insertion that fails leaves the chunk in a list |
| Chunks: `MemoryChunkBase.h`, `MemoryChunkPrecise.h`, `MemoryChunkVerySmall.h` (VerySmall, Small, Medium, Large), `MemoryChunkAnySize.h` | block, `useCount`, bitmap, wasted bytes, `freelistNode` | `alloc`, `dealloc`, `getInfo`, `full`, `empty` | `useCount`, bitmap and `DealocResult` agree |
| `MemoryBitfieldManager.h` | two levels of 64-bit words, a word of full and a word of empty subfields | `AllocIndex`, `DeallocIndex`, `isAllocated`, `setElementCount` | it is the set of allocated indices |
| `WastedBytesCounter.h` | packed 2 to 16 bit counters | `setWastedBytes`, `getWastedBytes` | reads return what was written |
| `MemorySizeRanges.h`, `MemoryRange.h` | constant tables | `getSizeRange` | every size has the smallest row that holds it |
| `MemorySpinlock.h` | one flag | `lock`, `try_lock`, `unlock` | mutual exclusion |
| `MemoryChunkPool.h` | a tree of splits of a pool into blocks of 1 to 32 units; `MemoryPool`'s totals | `alloc`, `dealloc`, `getFreeSizeTypes`, `reset` | blocks are disjoint, the advertised free sizes are the ones `alloc` can serve |
| `MemoryChunkPoolAllocator.h` | pools by free size, all pools, empty pools, a `std::mutex` | `alloc`, `dealloc`, `clean` | the sets match the pools, no self-deadlock |
| Adapters: `MemoryCustomAllocator.h`, `MemoryAllocatorLight.h`, `MemoryAllocatorBase.h`, `MemoryAllocatorMalloc.h`, `SimpleAllocator.h`, `MemoryPoolAllocatorInterface.h` | references | forwarding | - |
| `VMMemory.h`, `VMPointer.h`, `VirtualMachine.h` | an earlier, single-threaded memory with its own bitmap | `alloc`, `dealloc`, `find` | as the bitmap above |
| `MemoryCustomList.h`, `MemoryManager.h`, `MemoryManagerBase.h`, `MemoryPoolAllocator.h` | - | dead code, commented out, or a stub | not modelled |
| `main.cpp`, the unit test project | - | benchmark; the one unit test is `EXPECT_EQ(1, 1)` | how callers use the manager |

How they interact. A call of the manager locks a *context* (chosen by the
thread's hash, or by an id the caller gives), a *free store* (chosen the same
way) or an *address bucket* (chosen by pointer). A chunk's `freelistNode` is a
`std::list` of at most one node that is spliced from list to list: its own, a
context's, a store's, `alloc`'s `templist`, `clean`'s `toDeleteList`. The
chunk object itself is owned by its bucket's map. Chunks ask the pool for a
block in their constructor and return it in their destructor.

What is hard in this code:

- three kinds of lock guard the same chunk. Lists are under the context's or
  store's lock, slots under the bucket's; `clean` reads `useCount` under none
  of the right ones (lines 381 and 408); `dealloc` leaves the bucket's lock
  before it takes the store's (721-726) and keeps an iterator across the gap;
- "full" and "empty" are edge-triggered: only the call that sees the edge
  moves the chunk, so one missed or doubled edge loses it;
- the counters of empty chunks are separate unsigned atomics changed outside
  any common lock;
- `alloc` can throw, `clean` gives up on a `try_lock`, the bucket search walks
  a table that wraps around, one bucket's lock at a time;
- at the bit level: masks, shifts, packed counters, split trees.

`PROJECT.json` lists every hazard at its line with the properties that cover
it, or the reason none does yet.

## 2. The core

| Module | What it is |
|---|---|
| `MemoryManagerParallel` | the concurrent core: state, one action per step of a call, `Spec`, `FairSpec` |
| `MemoryManagerInvariants` | its type invariant and properties |
| `AllocatorHeap` | abstract specification: what a heap promises |
| `MCMemoryManager` and five `.cfg` | small instances for TLC |
| `MemoryManagerInductive` | the inductive invariant `IndInv`, and `FitInv` and `CountingInv` beside it |
| `FiniteFacts` | lemmas on remainders, minima and sums over finite sets |
| `MemoryManagerSteps` | lemmas on the size table, addresses, lists, and what a step leaves alone; the actions of alloc and of clean's loops keep `IndInv` |
| `MemoryManagerProofs` | so do the others; the theorems on locks, lists, chunks and slots, on buffers and the refinement of `AllocatorHeap`, and on the counters of empty chunks |

### State

| TLA+ | C++ |
|---|---|
| `memory[b]` | `memory[b]->chunks`: the chunks mapped in bucket `b` |
| `chunkRange[c]`, `memorysize[c]` | row of the size table and block size a chunk was built with; row 0: no chunk |
| `used[c]` | the chunk's bitmap and `useCount` as one set of slots |
| `notfullchunks[x][r]`, `freeStore[x][r]` | the lists of a context or store, per row |
| `freelistNode` | the chunks whose node is in their own `freelistNode` |
| `emptyBlocksSize`, `emptyBlocksCount` | the atomics, modulo `Word` |
| `contextLock`, `storeLock`, `bucketLock`, `cleanMutex` | owner of each lock, or `NoThread` |
| `live` | the buffers the callers own: what they may pass to `dealloc` and `getInfo` |
| `pc`, `local` | each thread's place in the code and its local variables |

A chunk is named by the address of its block. Where alloc's `templist` holds a
chunk is the place `a_spliced`; clean's `toDeleteList` is `local[t].toDelete`.

### Steps

A step runs from one point where another thread can act to the next: a lock
the thread may wait for, an atomic counter it touches, or a `useCount` that
`clean` may read without the bucket's lock. A critical section in which none of
these occurs is one step; when it takes a lock and gives it back within the
step the guard is that the lock is free. This is sound because everything else
the step reads or writes is under locks it holds: a chunk's bitmap under its
bucket, a list under its context or store, the freed slots' `freelistNode` by
the thread that saw the chunk leave "full".

| Action | Code (`MemoryManagerParallel.h`) |
|---|---|
| `Alloc`, `AllocLockContext` | 450-478 |
| `AllocFromListed`, `AllocCount` | 475-506, with the counters' two updates apart |
| `AllocFromStore`, `AllocFromSpliced` | 507-549, 579-637 |
| `AllocCreateChunk`, `AllocFromFresh` | 551-554, 556-615 |
| `AllocPoolExhausted`, `AllocThrow` | the pool returns null: 593-599 |
| `Dealloc`, `SearchMiss`, `DeallocHit` | 647-721 |
| `DeallocSize`, `DeallocCount`, `DeallocStore` | 689-736 |
| `GetInfo`, `SearchMiss`, `GetInfoHit` | 744-781 |
| `Clean`, `CleanTryLock`, `CleanTest` | 346-361, each operand of the threshold test an atomic load of its own |
| `CleanLockContext`, `CleanLockStore`, `CleanVisit` | 368-396, one chunk of a list per step |
| `CleanLockSweep`, `CleanLook`, `CleanDrop` | 398-421 |
| `CleanDelete`, `CleanEnd` | 423-448 |

Environment. Callers own what `alloc` returned, give it up when they call
`dealloc`, and do not free a buffer while another call asks for its info: what
`main.cpp` does. The pool is a function that returns any block which overlaps
none it has lent, or null at any time. Sizes are positive (the table treats 0 as
1). The size table, the address bits and the thresholds are constants: the
assumptions on them are the ones the tables and the defaults meet
(`maxv` grows with the row, `elPerChunk * maxv <= buforSize`, AnySize last
with one element).

The build modelled is one with `NDEBUG` where the code says `assert(false)`
and goes on (lines 490, 595): the properties show which asserts can be reached.

### Properties and runs

| Run | Instance | Checks |
|---|---|---|
| `stores` (1 400 103 states) | 2 threads, 2 contexts, 2 stores, each thread with its own hash and an explicit id, two blocks, a fixed row of two elements and AnySize | `TypeOK`, `LocksMatchCode`, `ChunkInOneList`, `ListedChunksHaveRoom`, `SlotsMatchBuffers`, `BuffersFit`, `SearchCannotFail`, `EachAllocTakesASlot` |
| `contention` (410 732, symmetric threads) | 3 threads on 1 context and 1 store, two blocks | `NoChunkIsStranded`, `ChunksInHandExist`, `EmptyBlocksExact`, `NoWrappedThreshold`, `ImplementsHeap` |
| `single` (713 571) | 1 thread, three blocks, AnySize requests that do and do not match a freed block | `ForcedCleanFreesAll`, `NoChunkIsStranded`, `TableBuffersFit` |
| `liveness` (65 750) | 2 threads, weak fairness | `CallsReturn` |
| `anysize` | as `single` | `BuffersFit` is violated |

No run turns deadlock checking off: the callers always have a call to make.

- `LocksMatchCode`: a lock's owner is exactly the thread whose place in the
  code is inside the lock's scope, on the throw and the early returns too.
- `ChunkInOneList`: the one list node of a chunk is in exactly one list.
- `ListedChunksHaveRoom`, `NoChunkIsStranded`: a listed chunk has a free slot;
  a chunk with a free slot is listed, or exactly one thread is about to list it.
- `ChunksInHandExist`: no thread follows a pointer or an iterator to a
  destroyed chunk across the gaps between locks; what `clean` erases is empty.
- `SlotsMatchBuffers`, `EachAllocTakesASlot`: slots in use are exactly the
  buffers, one owner each.
- `BuffersFit`: a buffer is as long as asked, in one block, and overlaps none.
- `TableBuffersFit`: the same for buffers of the table's sizes, even beside
  AnySize requests that get too short a block (the finding below).
- `SearchCannotFail`: the bucket search has the chunk still ahead of it.
- `EmptyBlocksExact`, `NoWrappedThreshold`: the counters equal the empty chunks
  up to the updates threads still owe, and a wrapped value (which does occur)
  is never compared with a threshold.
- `ForcedCleanFreesAll`: a forced clean that runs alone leaves no empty chunk
  (with one store; with several, other stores are not swept).
- `ImplementsHeap`: every step is a step of `AllocatorHeap` or a stutter. Its
  blocks are the chunks' blocks, its buffers the elements in use, so a block
  goes back to the pool only without buffers.
- `CallsReturn`: once no thread makes further calls, every call returns.

Bounds. Two blocks suffice for one chunk to fill, empty, move through every
list and be destroyed while a second is in any other state; the first is at
address 1 and the second at 6, each 5 long, with two buckets of 2 addresses,
so that an element lies in another bucket than its block and the search wraps.
A chunk of two slots is empty, partly used and full; three threads are the
fewest in which one frees the last slot, one refills and one cleans at once.
Thresholds are set so that one empty chunk reaches the soft pair and two the
hard ones; `ContextPeriod`, `ForcePeriod` stand for 8 and 64; `cleanCounter`
counts modulo `ForcePeriod`, all it is tested by. `Word` is the width of the
counters, larger than any true value and small enough that a wrap is seen.

Fairness is weak fairness of each thread's steps, never of a call: a scheduler
that runs every thread, and a `lock()` that gets a lock which stays free. The
spinlock promises no more (it is not first-come-first-served), so `CallsReturn`
is stated for callers that stop; starvation under endless calls is possible.

Every property of a passing run has a seeded bug in `PROJECT.json` (operators
named `X_Y`, before the operator `X` they replace) that makes it fail.

### Finding

`anysize`: for requests beyond the size table, `alloc` looks in the free store
for a block that is long enough and at most about 5% too long (lines 531-542),
but `bestit` starts at the first chunk of the list (524) and that chunk is
used when none matches (543). A request for 20 can be given a freed block of
19. The comment at line 527 says "find chunk with good size (anySize chunk
case!)". A debug build stops at `assert(size == this->memorysize)`
(`MemoryChunkAnySize.h:18`), which also rejects the legal 5% reuse.

The `stores` run checks `BuffersFit` where all AnySize requests are of one size.

## 3. Around the core

| Module | Models | Instance |
|---|---|---|
| `MemoryBitfieldManager` | the bitmap, both layouts | extended by `MemoryChunk` |
| `MemoryChunk` | the chunk classes, `WastedBytesCounter`, `getInfo` | `MCMemoryChunk` |
| `ChunkSlots` | abstract specification: what a chunk promises the manager | - |
| `MemorySizeRanges` | the size tables, `MemoryRange`'s order, the classes `createNewChunk` picks | itself |
| `SplitTypes` | the tree of splits: operators on a pool's bytes | - |
| `MemoryPool` | `MemoryPool` and `MemoryChunkPool`: operators on a pool | - |
| `SinglePool` | one pool as a state machine | `MCSinglePool` |
| `MemoryChunkPoolAllocator` | the allocator of pools | `MCMemoryChunkPoolAllocator` |
| `VMMemory` | `VMMemory.h` | `MCVMMemory` |
| `MemoryChunkProofs`, `VMMemoryProofs` | the theorems on a chunk and on `VMMemory` (section 4) | - |
| `MemoryPoolProofs` | what the operators on trees and pools do | - |
| `SinglePoolProofs`, `MemoryChunkPoolAllocatorProofs` | the theorems on a pool and on the allocator of pools | - |

None of this is called by two threads at once: a chunk is used under its
bucket's lock, a pool under the allocator's mutex, `VMMemory` by one thread.
So each call is one action; what is hard is long sequences of legal calls.

### Chunks

A word is the set of its 1 bits; `|`, `&`, `& ~` and shifts are set operations.
`bitfield_1`, `bitfield_empty` and `bitfield_2` are the code's `bitfield3[0]`,
`[1]` and `[2 ..]`. `MemoryChunk` is one chunk with its block at address 0;
`held[ptr]` is the size its caller asked for at `ptr`, and `answer` what the
last call returned. A double free is outside the model: callers free what they
hold. With `SIZE1 = 1` and more the two branches of `if constexpr` are two
disjuncts.

`ChunkSlots` is the link to the core, which takes a chunk for a set of slots:
a slot is never given twice, null is returned only when all are taken, and
`dealloc` reports the edges "was full" and "is now empty" exactly.
`ImplementsSlots` says that every step of a chunk is a step of it.

Run `chunk` (208 281 states): words of 8 bits; a one-word chunk of 5 elements
with two 4 bit counters a word (as Medium and Large), a two-level chunk that
uses one of its three words and has 2 bit counters (as VerySmall and Small), a
Precise chunk of two words of three, an AnySize chunk.

- `SummariesExact`: the words "full" and "empty" are those of the bitmap, and
  no element past the count is used.
- `ScanAgrees`: the portable search by halves and a table of 4 bits finds what
  the compiler's instruction finds. Words of 8 bits run one halving and the
  table; the rounds of 32, 16 and 8 are the same operator.
- `FlagsExact`: `full`, `empty` and `useCount` are those of the buffers.
- `InfoExact`: `getInfo` of any byte of a buffer gives its start and the size
  asked, whatever its neighbours in the word of counters were.

`getInfo` asserts `index < SIZE1` on the way (`MemoryBitfieldManager.h:251`),
where `SIZE1` is 1 and the index goes up to 63: a debug build stops at any but
the first element of a Medium or Large chunk. The model has assertions compiled
out, and there the answer is right (`InfoExact`).

### Size tables

`MemorySizeRanges` holds the code's own 105 rows and 16 386 index entries (the
index as runs of equal entries). Its state is one request and the row it gets;
run `sizes` (17 001 states) goes through every size up to 17 000, beyond the
table's end. `RowHoldsSize`: the row found is the one that a search by
`MemoryRange::operator<` finds. `RowFitsChunk`: the block, the words of the
bitmap and the counters' width suffice for the class that row builds.
`RowsGrow`: what the core assumes of `MaxSize` and `getSizeRange`.
`size_t(-1)` is 2^31 - 1 here, larger than every size asked.

### Pools

A pool is 512 units of 2 KiB, cut by trees of nodes: a node is blank, reserved,
or divided by one of two options into children. In the code the two options'
arrays of children share their bytes in a union, and so they do here: the state
is `chunkTypes`, a function from byte offsets to (option, count of full
children), and a node is an offset and a kind. What one option leaves behind is
what the other reads. The five types of pool are five layouts of the same
bytes.

Run `pool` (47 173 states): one pool of each type in turn, with the smallest
number of trees (two of kinds 30 and 100, one of the others, and the small
trees at the end of each pool); sizes are chosen so that each kind of node is
asked for. A pool without blocks may be reset to another type. The count of
blocks, which the constructor does not initialise, starts at 1 (`Garbage`):
`TypeOK` says that it stays that far from the number of blocks.

- `ReservedAreLive`: the reserved nodes, found by a walk over a table of all
  places apart from the code's own recursion, are the callers' blocks.
- `LiveApart`: blocks are inside the pool and disjoint (`AllocatorHeap`'s
  `BuffersApart`).
- `TreeCorrect`: the code's `correctnessTest` holds, and a pool without blocks
  is blank in every byte, which `reset` relies on.
- `ServesWhatItAdvertises`: the sizes a pool advertises, by which the allocator
  picks it, are those `alloc` serves, and those with a free place somewhere.
  The loop over an array of trees stops when either kind of size is complete
  (`MemoryChunkPool.h:962`), and the run's pools have one or two trees in an
  array; that the stop hides no size, for any number of trees, is the theorem
  `AdvertisedCorrect`.

`MemoryChunkPoolAllocator` names a pool by its place in the order of addresses,
by which `*begin()` chooses. `alloc`'s recursion, with the code's
`recursionCounter`, is `TakeEmpties`, a recursive function: it takes kept pools,
the last used first, until some pool has the size or none is kept, and then at
most one new pool is made. Run `allocator` (76 228 states): three pools of
one tree, sizes of three types, `clean` with 1 and 0 for the code's 8 and 8 (and
with 0 and 0 by a caller), counts that start from 0 or from 1.

- `PoolsAccounted`: every pool is in use, kept empty, or gone; a live block's
  pool is in use; a pool's count stays as far from the number of its blocks as
  the constructor left it. It does not say that an emptied pool is put away:
  one whose count started from 1 never is.
- `ArraysMatchPools`: the 64 sets hold exactly the pools that advertise a size.
- `AllocServes`: null is returned only if no pool, in use or kept, has the
  size and none can be made; a new pool always serves.
- `BlocksApart`: no pool's memory is freed under a block.

Two assumptions on the build. `dealloc` calls `clean`, which locks the
`std::mutex` that `dealloc` holds (line 216): undefined, and modelled as a lock
its owner may take again; where it blocks, the first pool to be emptied stops
the program. Assertions are compiled out. What the memory of a new `MemoryPool`
leaves in `allocatedcount`, which the constructor never sets, is no assumption
but a constant, `Garbage`: a negative number stands for a word that many below
2^64. Natural numbers keep every property of the run; a word near the wrap does
not (finding `allocator_count`).

### VMMemory

The ancestor of the manager: lists of chunks with room by row, counters of
empty chunks, `clean`. Run `vmmemory` (784 074 states): words of 3 bits and
ints of 2, so that one row's chunks have more words (3) than an int has bits, as
a chunk of 4096 elements has; a row of two words, and one of single elements.

`alloc` clears the bit of an empty word with `~(1 << index1)` (line 140), where
`1` is an int. `ClearedBits` is what the machine makes of it: at the sign bit
all higher bits are cleared, beyond it the shift is taken modulo the width. A
chunk of more words than an int has bits then reports that it is empty when it
is not, or not when it is, and the counters drift and wrap; `misreported` is the
history of that, bounded by `MaxMisreports`.

- `EmptyCountsExact`: this happens to no chunk of fewer words, and until it
  happens the counters are exact.
- `BlocksInUse`: even then no chunk is freed under a block, as `clean` asks
  `useCount`; its mutant asks the bitmap instead and loses blocks.
- `ListsExact`: each row lists each chunk with room once and nothing else.

A chunk of a single element is reused for any size of the last row (353): the
fit of a block is stated for the other rows only.

The blocks of memory lie apart in one address space, so together they are
smaller than `SizeWord` bytes: `AllocNew` has that as a guard, and where it
fails the constructor's `make_unique` throws before `alloc` changed anything.
Without it a counter of bytes modulo `SizeWord` could not be compared with the
bytes of the empty chunks.

### Findings

`allocator_recursion`: `alloc` says `assert(recursionCounter == 0);`
(`MemoryChunkPoolAllocator.h:155`) where it takes a pool. `reset` leaves a blank
pool as it is, type included, so that a kept pool of another type does not serve
and a second is taken. Without assertions the call still succeeds
(`AllocServes`), but the useless pool stays among those in use.

`allocator_count`: `MemoryPool` never initialises `allocatedcount`
(`MemoryChunkPool.h:1198`), and `dealloc` takes a pool for empty when it is 0.
With `size_t(-1)` in that word (`MCWraps`), two allocs make it 1 and one dealloc
0: the pool is put away with a block in it, and the dealloc of that block does
not find its pool, where the code says `assert(false);`
(`MemoryChunkPoolAllocator.h:195`). Any other word but 0 that is not that near
the wrap makes every emptied pool stay in use for ever, never to be cleaned.

## 4. Proofs

### The core

These theorems of `MemoryManagerProofs` are about `Spec`, for every value of the constants under the
named assumptions of `MemoryManagerParallel`: any threads, contexts,
stores, buckets, rows and blocks. `tlapm` proves every leaf.

| Theorem | Property |
|---|---|
| `Inductive` | `IndInv` |
| `TypeCorrect` | `TypeOK` |
| `LocksCorrect` | `LocksMatchCode` |
| `SearchCorrect` | `SearchCannotFail` |
| `RoomCorrect` | `ListedChunksHaveRoom` |
| `NoStrandedChunk` | `NoChunkIsStranded` |
| `ChunksInHandCorrect` | `ChunksInHandExist` |
| `SlotsCorrect` | `SlotsMatchBuffers` |
| `OneListCorrect` | `ChunkInOneList` |
| `LoneCleanCorrect` | a forced clean while the other threads wait |
| `ForcedCleanCorrect` (one thread, one store) | `ForcedCleanFreesAll` |
| `EachAllocCorrect` | `EachAllocTakesASlot` |

| Theorem (buffers) | Property |
|---|---|
| `FitInductive` | `IndInv /\ FitInv` |
| `TableBuffersCorrect` | `TableBuffersFit` |
| `BuffersCorrect` (assumes `OneAnySize`) | `BuffersFit` |
| `HeapCorrect` | `ImplementsHeap` |

| Theorem (counters) | Property |
|---|---|
| `CountsInductive` | `IndInv /\ CountingInv /\ EmptyBlocksExact` |
| `EmptyBlocksCorrect` | `EmptyBlocksExact` |
| `NoWrappedCorrect` | `NoWrappedThreshold` |

The argument. None of the properties is inductive alone: a `templist` chunk is
in one list only because no other list held it when it was spliced; a chunk in
`toDelete` stays empty only because it is in no list an `alloc` can reach; a
search succeeds only because its buffer's slot stays used until the search
ends. `IndInv` says these things together:

- `ChunkInv`: slots, row, block and bucket of each chunk; blocks are disjoint;
- `ListPlaceInv`, `ThreadPlaceInv`: the places a list node can be (own list,
  contexts, stores, one `templist` per thread, `toDelete` lists) are disjoint
  and cover the chunks;
- `RoomInv`: listed chunks have room; an own node means full or about to be
  listed; doomed chunks are empty;
- `CursorInv`: clean's loop positions stay inside the list it holds the lock of;
- `HandInv`: what a thread knows of the chunk in its hand at each place, and
  that at most one thread is about to list a chunk;
- `BufferInv`: slots and buffers are the same addresses, one owner each;
- `SearchInv`: a `getInfo` has a live buffer, a search has not passed its chunk.

`InitInv` and `NextInv` (one step per action, a lemma for each) give `Inductive`;
the theorems of the first table follow from it. The lemmas on steps are
sorted by what a step disturbs: `MemoryManagerSteps` has those that move no
chunk and no slot, then the steps of `alloc` and of clean's list loops;
`MemoryManagerProofs` has `dealloc` and the destruction of chunks, and then the theorems.

Buffers and the heap. `FitInv` adds what `IndInv` does not know: every block
is as long as some request of its row, and every buffer was taken from a chunk
of its size's row. For a row of the table that gives the length of the
element; beyond the table it does not, since the store's first chunk serves
where none fits. `BuffersCorrect` therefore assumes `OneAnySize` (all requests
beyond the table are equal), without which run `anysize` refutes it, and
`TableBuffersCorrect` shows that the other buffers are not touched by that.
For `HeapCorrect` every step is one of five: it maps a chunk, takes a slot,
frees a slot, destroys an empty chunk, or does none of these. The
predicates `Created`, `TookSlot`, `FreedSlot` and `Destroyed` say what each
does to the chunks, and the step is then one of `AllocatorHeap`.

The counters. `EmptyBlocksExact` is an equation between a counter and sums
over the empty chunks and over the threads that owe an update. A step changes
at most one chunk and one thread, so it adds or removes one term of each sum
(`CountStep`, `SumStep` of `FiniteFacts`) and the counter moves by the
difference, modulo `Word`. `CountingInv` supplies what that takes: finitely
many chunks and finitely many threads at work, however many there are of each
in all, and that a chunk whose `dealloc` has yet to count it is empty.
The folds of the community modules are recursive, and induction over finite
sets is out of the provers' reach, so `FiniteFacts` proves what a sum is in
another way: if a fact about the sum over `s` failed for some subset of a
finite set, it would fail for a smallest one (`MinimalSubset`), and there one
step of the recursion refutes it.

`NoWrappedCorrect`: a thread at a threshold test holds `cleanMutex`, so no
other thread is anywhere in clean and nothing has been subtracted ahead of its
addition. What is then still owed are additions for distinct empty chunks and
subtractions for distinct chunks in use. The true value therefore lies between
0 and the number (or total size) of all chunks, where the remainder modulo
`Word` is at most that true value.

Forced cleans. `ForcedCleanFreesAll` is true of one thread and one store only:
with more threads another may empty a chunk behind the clean and be idle again,
with more stores the other stores are not swept. `ForcedSweep(t)` says how far
thread `t`'s clean has come: the lists it has gone past are empty while it
splices the contexts' lists, and without empty chunks while it looks through
its store. With `IndInv` and while the other threads are idle it is inductive
(`SweepStep`); that they are idle matters, since only they can refill a list
behind `t`. At the end every list of a context and every list of the store is
done, no chunk is in hand, and so what is still empty is in another store
(`SweptStores`). `LoneCleanCorrect` says this for any number of threads and
stores, from any reachable state in which the call begins; `ForcedCleanCorrect`
is the case without other threads and stores, where `Spec` itself gives it.
TLC checked `ForcedSweep` on one and on two stores before it was proved.

Only model-checked of the core: `CallsReturn` (liveness under fairness).

### The chunk

`MemoryChunkProofs` proves about `MemoryChunk`, for every word width and every
set of shapes that meets `ShapesAssumption` (which run `sizes` checks of the
code's rows: whole words, enough of them, room in the block, a power of two of
bits for a counter that holds the bytes a request may waste):

| Theorem | Property |
|---|---|
| `ChunkInvariant` | `ChunkInv`, inductive |
| `ChunkTypes` | `TypeOK` |
| `SummariesAreExact` | `SummariesExact` |
| `FlagsAreExact` | `FlagsExact` |
| `InfoIsExact` | `InfoExact` |
| `ScanIsRight` (words of 4 to 64 bits) | `ScanAgrees` |
| `ChunkImplementsSlots` | `ImplementsSlots` |

`ChunkInv` has three parts: `BitmapInv` (the mask is the count's, the summaries
are those of the words, no element past the count), `HeldInv` (the elements in
use are the callers' buffers, `useCount` is their number) and `CountersInv` (the
words of wasted bytes and an AnySize chunk's size have their types). `FlagsExact` needs the first two
together: `full` is read off a summary under a mask, and says something of the
buffers only because the summary is exact and every word under the mask is
whole. The refinement needs the result of `DeallocIndex` before the step to say
what the buffers are after it.

`InfoExact` needs `WastedInv` as well: the counter of an element in use holds
the bytes its request wastes, and an AnySize chunk's one size is the buffer's. A
write to a counter leaves its neighbours in the word alone (`SetField`), since
the counters divide the word. The low `k` bits of `n` are the number
`n % 2^k` (`NumberOfLowBits`), and any byte of a buffer has the element of its
start (`OneQuotient`, `OneMore` of `FiniteFacts`). The search needs no induction on the width:
`Scanned` is what every round of halving keeps, that the first 0 bit is in
the part still looked at, and the widths with a table of 4 bits are five.

### VMMemory

`VMMemoryProofs` proves about `VMMemory`, for any width of words and of ints,
any thresholds and address space, any finite set of chunks, and any table that
meets `RowsAssumption` (the code's does: rows without gaps from 1 up, whole words
of elements, at most as many words as bits, the last row of one element) with
sizes in it (`SizesAssumption`; `alloc` returns null for the others):

| Theorem | Property |
|---|---|
| `VMInductive` | `VMInv`, inductive |
| `TypeCorrect` | `TypeOK` |
| `ListsCorrect` | `ListsExact` |
| `BlocksCorrect` | `BlocksInUse` |
| `CountsCorrect` | `EmptyCountsExact` |

`VMInv` has five parts: `ChunksInv` (a chunk's shape is its row's; `bitfield1`
is the set of its full words; `bitfieldempty` is that of its empty words if it
has no more words than an int has bits, and only some words under the mask if it
has more), `ListsInv`, `BlocksInv` (a chunk's 1 bits are its blocks, `useCount`
their number), `FitsMemory` (the chunks fit the address space) and `CountersInv`.

`BlocksCorrect` rests on `useCount` and not on `bitfieldempty`, so it holds
whatever `ClearedBits` makes of the shift; `CountsCorrect` needs that a row of
few words shifts by less than the width of an int, where nothing below the
mask's end is cleared but the right bit. A `dealloc` goes through a state of its
own before it calls `clean`, so the parts are stated of any chunks, lists and
blocks (`PlaceInv`), and `CleanFacts` takes them from there. That `clean` finds
every empty chunk in a list is a lemma (`EmptiesAreListed`): an empty chunk has
room, hence it is in its row's list. Then the bytes freed are those counted, and
the subtraction does not wrap (`BytesFacts`: a part of the chunks has at most the
bytes of all of them, fewer than `SizeWord`).

TLC checked `VMInv` on the instance of run `vmmemory` before it was proved.

### Pools

`MemoryPoolProofs` proves what the operators on a tree, and on the trees of a
pool, do to any bytes. The kinds of node and the five layouts are the code's;
the number of copies of each tree is any positive number
(`CopiesAssumption`). `SinglePoolProofs` proves, for any sizes that a pool can
be asked for (`SizesAssumption`: 1 to 32 units):

| Theorem (`SinglePoolProofs`) | Property |
|---|---|
| `PoolCorrect` | `PoolInv`, inductive |
| `PoolTypeCorrect` | `TypeOK` |
| `ReservedCorrect` | `ReservedAreLive` |
| `LiveCorrect` | `LiveApart` |
| `TreesCorrect` | `TreeCorrect` |
| `AdvertisedCorrect` | `ServesWhatItAdvertises` |

`Good(m, o, k)` is the invariant of a tree of kind `k` at byte `o`: at every
place that is there (each ancestor divided by the option the place is under) the
node is either not divided, with blank bytes below, or divided with the right
count of full children, not all of them empty. That every byte below is blank
is what makes it safe to divide a node by either option, although they share
those bytes. `Blocks(m, o, k)` are the reserved places. `PoolInv` says that the trees of the pool are good, the bytes outside
them blank, the blocks in them the caller's, each of its rounded size, and that
the advertised sizes are those of the bytes, and the count as far from the number
of blocks as it started.

The recursive functions are first shown to satisfy their equations (`KindRecursion`),
and a fact about all nodes is proved of a node from its children
(`KindInduction`; the smallest kind of which it failed would refute it):

- `AllocNodeServes`: `alloc` of a good tree that suits the size reserves one
  place, adds just its block, keeps the tree good and touches no other bytes;
- `DeallocFrees`: the same backwards, down to the node that becomes empty;
- `FiniteCost`, `ChosenChild`: the cost by which `alloc` picks a child is finite
  only where the size can be served, and then a child is found;
- `ServesWhatFits`, `SizesThatFit`: what a tree serves, and what it advertises,
  are the sizes it has a free place for;
- `GoodIsCorrect`: a good tree passes the code's `correctnessTest`;
- `Locality`, `TreesStride`: trees share no byte, so a pool's trees can be
  spoken of one by one.

`MemoryChunkPoolAllocatorProofs` proves, for any pools, sizes and tolerances
(`AllocatorAssumption`: among others a pool is at most 512 units, as its megabyte is):

| Theorem (`MemoryChunkPoolAllocatorProofs`) | Property | What `Garbage` may be |
|---|---|---|
| `AllocatorCorrect` | `AllocInv`, inductive | naturals |
| `ArraysCorrect` | `ArraysMatchPools` | naturals |
| `AllocServesCorrect` | `AllocServes` | naturals |
| `BlocksApartCorrect` | `BlocksApart` | naturals |
| `PoolsAccountedCorrect` | `PoolsAccounted` | naturals |
| `AllocatorTypeCorrect` | `TypeOK` | naturals |

`AllocInv`: every pool is good, in use, kept empty or gone; a kept pool has no
block, whatever type it was left with; the sets of pools by size advertise the
pools in use; the blocks in the trees are the callers', each of its rounded
size; `clean` has kept the empty pools few. `TakenFrom` says how far `alloc` is
through the kept pools: those taken had no place for the size and are in use
without blocks. `AllocOutcome` is what the call comes to: it grants one block
more in one pool, or it refuses and no pool, in use or kept, has the size.

`Garbage` is what the constructor leaves in `allocatedcount`
(`MemoryChunkPool.h:1198`), a hypothesis on the build that the code does not
discharge. While the word is a natural number and does not wrap, a pool's count
is 0 only when the pool has no block: an emptied pool may be kept among those in
use, but no memory is freed under a block. A word within 512 of the wrap of
`size_t` would be a negative number here; then the count may be 0 with blocks in
the pool, and `BlocksApart` fails. Run
`allocator_count` is a behaviour of that kind. A count that starts from 0 is not
assumed anywhere.

### Not proved

Only model-checked of section 3: `MemorySizeRanges`, a finite table: run `sizes`
is exhaustive but for the sizes beyond 17 000, which all take the last entry.
Of the core, `CallsReturn`. The three runs that expect a violation show what is
false and have nothing to prove.

## 5. Not modelled

- `getChunkList` failing for want of internal memory (`MemoryBucket.h:120`): in
  the code the exception would leave the chunk in no list.
- The manager's construction and destruction: the setters and init functions
  disagree about 0 (`MemoryManagerParallel.h:53`).
- Double frees and foreign pointers: callers free what they own.
- The addresses pools get from the heap, beyond their order.
- `MemoryCustomList.h` (called by nothing), `MemoryManager.h` (commented out),
  the forwarding adapters, `VMPointer`, `main.cpp` beyond how it calls.

## 6. Plan

Done: the core, the chunks, the pools, their allocator and `VMMemory`, with the
proofs of all the safety properties their runs check; the size tables. Left:

- The internal allocator's failure in `getChunkList`, with its proofs.
