----------------------- MODULE MemoryManagerInductive -----------------------
(***************************************************************************)
(* The inductive invariant behind the properties of MemoryManagerInvariants*)
(* that speak of locks, list nodes and chunks.  Each of its parts says what*)
(* a thread may rely on at a place of the code because of the locks it     *)
(* holds there, or because a chunk it has taken out of the lists is its    *)
(* own until it lists it again.                                            *)
(***************************************************************************)
EXTENDS MemoryManagerInvariants

(* The chunks in some list of a family of lists, and the fact that none is *)
(* there twice.                                                            *)
Held(lists) == {c \in PoolAddresses : \E x \in DOMAIN lists, r \in Ranges : c \in ToSet(lists[x][r])}

Once(lists) ==
  /\ \A x \in DOMAIN lists, r \in Ranges : IsInjective(lists[x][r])
  /\ \A x, y \in DOMAIN lists, q, r \in Ranges :
       x # y \/ q # r => ToSet(lists[x][q]) \cap ToSet(lists[y][r]) = {}

(* Every list holds chunks of its own row.                                 *)
OfTheirRow(lists) ==
  \A x \in DOMAIN lists, r \in Ranges : \A c \in ToSet(lists[x][r]) : chunkRange[c] = r

Listed == Held(notfullchunks) \cup Held(freeStore)
SplicedBy(t) == {c \in PoolAddresses : pc[t] = "a_spliced" /\ local[t].ch = c}
FreshBy(t) == {c \in PoolAddresses : pc[t] = "a_fresh" /\ local[t].ch = c}
DoomedBy(t) == ToSet(local[t].toDelete)

(* A chunk's slots, its row, its block and the bucket it is mapped in.     *)
ChunkOK(c) ==
  /\ used[c] \subseteq Slots(c)
  /\ chunkRange[c] = getSizeRange(elSize(c))
  /\ ElPerChunk[chunkRange[c]] * elSize(c) <= memorysize[c]
  /\ elSize(c) > 0
  /\ c \in memory[getMemoryBucket(c)] \/ \E t \in Threads : c \in FreshBy(t)

ChunkInv ==
  /\ \A c \in Mapped : ChunkOK(c)
  /\ \A c \in PoolAddresses \ Mapped : used[c] = {}
  /\ \A c, d \in Mapped : c # d => c + memorysize[c] <= d \/ d + memorysize[d] <= c
  /\ \A b \in Buckets : \A c \in memory[b] : c \in Mapped /\ getMemoryBucket(c) = b

(* The five places a list node can be are disjoint and cover the chunks.   *)
ListPlaceInv ==
  /\ Once(notfullchunks) /\ Once(freeStore)
  /\ Held(notfullchunks) \cap Held(freeStore) = {}
  /\ freelistNode \cap Listed = {}
  /\ freelistNode \cup Listed \subseteq Mapped

ThreadPlaceInv ==
  /\ \A t \in Threads :
       /\ SplicedBy(t) \cup DoomedBy(t) \subseteq Mapped \ (freelistNode \cup Listed)
       /\ IsInjective(local[t].toDelete)
       /\ local[t].toDelete # <<>> => pc[t] \in {"c_look", "c_drop", "c_delete"}
  /\ \A t, u \in Threads : DoomedBy(t) \cap SplicedBy(u) = {}
  /\ \A t, u \in Threads : t # u => SplicedBy(t) \cap SplicedBy(u) = {}
  /\ \A c \in Mapped :
       c \in freelistNode \cup Listed \/ \E t \in Threads : c \in SplicedBy(t) \cup DoomedBy(t)

(* Listed chunks have a free slot and are in the list of their row; an own *)
(* list node means a full chunk, or one that a thread is about to list.    *)
RoomInv ==
  /\ \A c \in Listed : ~ full(c)
  /\ OfTheirRow(notfullchunks) /\ OfTheirRow(freeStore)
  /\ \A c \in freelistNode : full(c) \/ \E t \in Threads : t \in Listing(c)
  /\ \A t \in Threads : \A c \in DoomedBy(t) : empty(c)

(* Where clean's loops stand: on a chunk of the list they go through.      *)
Cursor(t) ==
  LET my == local[t] IN
  /\ pc[t] \in {"c_try", "c_soft", "c_softcount", "c_hard", "c_hardcount", "c_context",
                "c_list", "c_sweep"} => my.pos = 1
  /\ pc[t] \in {"c_list", "c_visit"} =>
       my.row \in Ranges /\ my.pos \in 1 .. Len(notfullchunks[my.ctx][my.row])
  /\ pc[t] \in {"c_look", "c_drop"} =>
       my.row \in Ranges /\ my.pos \in 1 .. Len(freeStore[my.fs][my.row])
  /\ pc[t] = "c_drop" => empty(freeStore[my.fs][my.row][my.pos])

(* What a thread knows of the request and of the chunk in its hand.        *)
Hand(t) ==
  LET my == local[t]
      c == my.ch
      row == getSizeRange(my.size)
  IN
  /\ pc[t] \in {"a_context", "a_store", "a_new"} => my.size > 0
  /\ pc[t] = "a_listed" => notfullchunks[my.ctx][row] # <<>> /\ c = Head(notfullchunks[my.ctx][row])
  /\ pc[t] \in {"a_spliced", "a_fresh"} => c \in Mapped /\ chunkRange[c] = row /\ ~ full(c)
  /\ pc[t] = "a_fresh" => c \in freelistNode /\ empty(c) /\ \A b \in Buckets : c \notin memory[b]
  /\ pc[t] = "a_count" => c \in memory[getMemoryBucket(c)] /\ ~ empty(c)
  /\ pc[t] \in {"d_size", "d_count"} => my.bkt = getMemoryBucket(c)
  /\ pc[t] \in {"d_size", "d_count", "d_store"} => c \in memory[getMemoryBucket(c)]
  /\ pc[t] = "d_store" => my.toFreestore
  /\ t \in Listing(c) => c \in freelistNode /\ ~ full(c)

CursorInv == \A t \in Threads : Cursor(t)
HandInv ==
  /\ \A t \in Threads : Hand(t)
  /\ \A t, u \in Threads : \A c \in PoolAddresses : t \in Listing(c) /\ u \in Listing(c) => t = u

(* Buffers and used slots are the same addresses, and an address has one   *)
(* owner: a caller, the alloc about to return it, or the dealloc given it. *)
BufferInv ==
  /\ \A p \in UsedAddresses : \/ \E a \in live : a.ptr = p
                              \/ \E t \in InFlight : local[t].ptr = p
  /\ \A a \in live : a.ptr \in UsedAddresses
  /\ \A t \in InFlight : local[t].ptr \in UsedAddresses
  /\ \A a, b \in live : a.ptr = b.ptr => a = b
  /\ \A t \in InFlight : \A a \in live : local[t].ptr # a.ptr
  /\ \A t, u \in InFlight : local[t].ptr = local[u].ptr => t = u

(* A search is for a buffer that exists, and has not passed its chunk.     *)
SearchInv ==
  /\ \A t \in Threads : pc[t] = "g_find" => \E a \in live : a.ptr = local[t].ptr
  /\ SearchCannotFail

IndInv ==
  /\ TypeOK /\ LocksMatchCode
  /\ ChunkInv /\ ListPlaceInv /\ ThreadPlaceInv /\ RoomInv
  /\ CursorInv /\ HandInv /\ BufferInv /\ SearchInv

-----------------------------------------------------------------------------
(* What the requests' sizes add to IndInv.                                 *)

(* The places where a thread carries a request not yet served.             *)
Requesting == {"a_context", "a_store", "a_new", "a_listed", "a_spliced", "a_fresh", "a_count"}

(* A buffer of the requested size was taken from a chunk of the size's row.*)
Serves(ptr, size) ==
  /\ size \in Sizes
  /\ \E c \in Mapped : /\ chunkRange[c] = getSizeRange(size)
                       /\ \E i \in used[c] : ptr = ElementAddress(c, i)

(* Every block is one that some request of the chunk's row asked for, and  *)
(* every buffer is served by the row of its size.                          *)
FitInv ==
  /\ \A c \in Mapped : \E s \in Sizes :
       getSizeRange(s) = chunkRange[c] /\ memorysize[c] = BlockSize(chunkRange[c], s)
  /\ \A t \in Threads : pc[t] \in Requesting => local[t].size \in Sizes
  /\ \A a \in live : Serves(a.ptr, a.size)
  /\ \A t \in Threads : pc[t] = "a_count" => Serves(local[t].ptr, local[t].size)

-----------------------------------------------------------------------------
(* What the counters need beyond IndInv: finitely many blocks and finitely *)
(* many threads at work, so that there are numbers of them, and no slot    *)
(* taken in a chunk whose dealloc still holds the bucket to count it.      *)
CountingInv ==
  /\ IsFiniteSet(Mapped)
  /\ IsFiniteSet({t \in Threads : pc[t] # "idle"})
  /\ \A t \in Threads : pc[t] \in {"d_size", "d_count"} => empty(local[t].ch)

-----------------------------------------------------------------------------
(* What a forced clean has done while no other thread is at work: its loops*)
(* start with the first context, leave empty lists behind them in the      *)
(* contexts, and no empty chunk in the lists of the store.                 *)
RowsBelow(row) == {r \in Ranges : r < row}
NoChunks(lists, rows) == \A r \in rows : lists[r] = <<>>
NoEmptyChunks(lists, rows) == \A r \in rows : \A c \in ToSet(lists[r]) : ~ empty(c)

ForcedSweep(t) ==
  LET my == local[t] IN
  /\ pc[t] \in {"c_try", "c_soft", "c_softcount", "c_hard", "c_hardcount"} => my.ctx = 0
  /\ my.force =>
       /\ pc[t] \in {"c_context", "c_list", "c_visit"} =>
            \A x \in Contexts : x < my.ctx => NoChunks(notfullchunks[x], Ranges)
       /\ pc[t] \in {"c_list", "c_visit"} =>
            my.pos = 1 /\ NoChunks(notfullchunks[my.ctx], RowsBelow(my.row))
       /\ pc[t] \in {"c_sweep", "c_look", "c_drop", "c_delete"} =>
            \A x \in Contexts : NoChunks(notfullchunks[x], Ranges)
       /\ pc[t] \in {"c_look", "c_drop"} =>
            /\ NoEmptyChunks(freeStore[my.fs], RowsBelow(my.row))
            /\ \A i \in 1 .. my.pos - 1 : ~ empty(freeStore[my.fs][my.row][i])
       /\ pc[t] = "c_delete" => NoEmptyChunks(freeStore[my.fs], Ranges)
=============================================================================
