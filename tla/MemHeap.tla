------------------------------- MODULE MemHeap -------------------------------
(***************************************************************************)
(* A memory heap object (memheap.c): all blocks in a ring by address, the  *)
(* free ones also in a list, the latest first.  The semaphore heap->lock   *)
(* covers the lists, but rt_memheap_alloc tests available_size without it, *)
(* and rt_memheap_realloc gives it up before it allocates a new block and  *)
(* takes it again to free the old one.  Addresses and sizes are in units   *)
(* of RT_ALIGN_SIZE, which is 4, relative to start_addr.                   *)
(***************************************************************************)
EXTENDS Integers, Sequences, FiniteSets, FiniteSetsExt, SequencesExt, TLC

CONSTANTS
  MH_HEADER,   \* RT_MEMHEAP_SIZE
  MINIALLOC,   \* RT_MEMHEAP_MINIALLOC
  POOL_SIZE,   \* pool_size
  MhSizes,     \* the sizes that are asked for, aligned
  MhCaller     \* the threads that use the heap

ASSUME MemHeapAssumption ==
  /\ {MH_HEADER, MINIALLOC, POOL_SIZE} \subseteq Nat \ {0}
  /\ 2 * MH_HEADER < POOL_SIZE
  /\ MhSizes \subseteq Nat \ {0}

VARIABLES
  mh,          \* the headers by address, the free list and the two counters
  mhCall,      \* per caller: where it is, what it asks for, the block it had
  mhOwned      \* history: the blocks the callers have, with the size they need

tailer == POOL_SIZE - MH_HEADER
NoBlock == -1
MhIdle == [at |-> "idle", size |-> 0, old |-> NoBlock]

MhType ==
  /\ DOMAIN mh.mem \subseteq 0 .. tailer
  /\ \A a \in DOMAIN mh.mem :
       mh.mem[a] \in [used : BOOLEAN, next : 0 .. tailer, prev : 0 .. tailer]
  /\ mh.free_list \in Seq(DOMAIN mh.mem)
  /\ {mh.available_size, mh.max_used_size} \subseteq 0 .. POOL_SIZE
  /\ mhCall \in [MhCaller -> [at : {"idle", "test", "alloc", "free"},
                              size : {0} \cup MhSizes, old : {NoBlock} \cup 0 .. tailer]]
  /\ DOMAIN mhOwned \subseteq DOMAIN mh.mem

(* rt_memheap_init: one free block, and a used one of no size behind it that *)
(* keeps blocks from being merged across the end of the ring                 *)
MhInit ==
  /\ mh = [mem |-> 0 :> [used |-> FALSE, next |-> tailer, prev |-> tailer]
                   @@ tailer :> [used |-> TRUE, next |-> 0, prev |-> 0],
           free_list |-> <<0>>,
           available_size |-> POOL_SIZE - 2 * MH_HEADER,
           max_used_size |-> 2 * MH_HEADER]
  /\ mhCall = [c \in MhCaller |-> MhIdle]
  /\ mhOwned = <<>>

MEMITEM_SIZE(h, a) == h.mem[a].next - a - MH_HEADER
aligned_size(size) == IF size < MINIALLOC THEN MINIALLOC ELSE size

-----------------------------------------------------------------------------
(* The pieces of the calls *)

on_free_list(h, a) == [h EXCEPT !.free_list = <<a>> \o @]
off_free_list(h, a) == [h EXCEPT !.free_list = Remove(@, a)]

(* The block at a takes in the next one, which leaves both lists. *)
merged(h, a) ==
  LET b == h.mem[a].next
      n == h.mem[b].next
  IN  off_free_list([h EXCEPT !.mem = Restrict([@ EXCEPT ![a].next = n, ![n].prev = a],
                                               DOMAIN @ \ {b})], b)

(* The block at a keeps size, and a free block is made of the rest. *)
divided(h, a, size) ==
  LET rest_ptr == a + MH_HEADER + size
      n        == h.mem[a].next
  IN  on_free_list([h EXCEPT !.mem = rest_ptr :> [used |-> FALSE, next |-> n, prev |-> a]
                                     @@ [@ EXCEPT ![a].next = rest_ptr, ![n].prev = rest_ptr]],
                   rest_ptr)

now_available(h, size) == [h EXCEPT !.available_size = size]
counted(h) == [h EXCEPT !.max_used_size = Max({@, POOL_SIZE - h.available_size})]

-----------------------------------------------------------------------------
(* rt_memheap_alloc: the first block of the free list that is large enough *)

mh_fits(h, a, size) == MEMITEM_SIZE(h, a) >= size
mh_first(h, size) == SelectInSeq(h.free_list, LAMBDA a : mh_fits(h, a, size))

mh_allocated(h, a, size) ==
  LET taken == off_free_list([h EXCEPT !.mem[a].used = TRUE], a)
  IN  counted(IF MEMITEM_SIZE(h, a) >= size + MH_HEADER + MINIALLOC
              THEN now_available(divided(taken, a, size), h.available_size - size - MH_HEADER)
              ELSE now_available(taken, h.available_size - MEMITEM_SIZE(h, a)))

(* The test of available_size, by a call of its own or in rt_memheap_realloc *)
MhAllocTest(c, size, old) ==
  /\ mhCall' = [mhCall EXCEPT ![c] = IF aligned_size(size) < mh.available_size
                                     THEN [at |-> "alloc", size |-> size, old |-> old]
                                     ELSE MhIdle]
  /\ UNCHANGED <<mh, mhOwned>>

MhAlloc(c, size) == mhCall[c] = MhIdle /\ MhAllocTest(c, size, NoBlock)

(* The rest, with the lock held *)
MhAllocLocked(c) ==
  LET size == mhCall[c].size
      i    == mh_first(mh, aligned_size(size))
      a    == mh.free_list[i]
      old  == mhCall[c].old
  IN  /\ mhCall[c].at = "alloc"
      /\ IF i = 0
         THEN mhCall' = [mhCall EXCEPT ![c] = MhIdle] /\ UNCHANGED <<mh, mhOwned>>
         ELSE /\ mh' = mh_allocated(mh, a, aligned_size(size))
              /\ mhOwned' = a :> size @@ mhOwned
              /\ mhCall' = [mhCall EXCEPT
                              ![c] = IF old = NoBlock THEN MhIdle
                                     ELSE [at |-> "free", size |-> 0, old |-> old]]

-----------------------------------------------------------------------------
(* rt_memheap_free: merges with the block before, then with the one behind *)

mh_freed(h, a) ==
  LET free == now_available([h EXCEPT !.mem[a].used = FALSE],
                            h.available_size + MEMITEM_SIZE(h, a))
      p    == h.mem[a].prev
      left == IF free.mem[p].used THEN on_free_list(free, a)
              ELSE now_available(merged(free, p), free.available_size + MH_HEADER)
      b    == IF free.mem[p].used THEN a ELSE p
  IN  IF left.mem[left.mem[b].next].used THEN left
      ELSE now_available(merged(left, b), left.available_size + MH_HEADER)

(* A caller has a block that is not the object of another call. *)
Has(c, a) ==
  /\ mhCall[c] = MhIdle
  /\ a \in DOMAIN mhOwned /\ \A d \in MhCaller : mhCall[d].old # a

MhFreed(a) ==
  /\ mh' = mh_freed(mh, a)
  /\ mhOwned' = Restrict(mhOwned, DOMAIN mhOwned \ {a})

MhFree(c, a) == Has(c, a) /\ MhFreed(a) /\ UNCHANGED mhCall

-----------------------------------------------------------------------------
(* rt_memheap_realloc: a block grows into the free block behind it, when     *)
(* that leaves enough of it.  Otherwise the data move to a new block.        *)

grows(a, size) ==
  LET n == mh.mem[a].next
  IN  /\ ~ mh.mem[n].used
      /\ MEMITEM_SIZE(mh, n) + MEMITEM_SIZE(mh, a) > size + MINIALLOC

MhReallocGrow(c, a, size) ==
  LET need == aligned_size(size)
  IN  /\ Has(c, a) /\ need > MEMITEM_SIZE(mh, a)
      /\ IF grows(a, need)
         THEN /\ mh' = counted(now_available(divided(merged(mh, a), a, need),
                                 mh.available_size - (need - MEMITEM_SIZE(mh, a))))
              /\ mhOwned' = [mhOwned EXCEPT ![a] = size]
              /\ UNCHANGED mhCall
         ELSE /\ mhCall' = [mhCall EXCEPT ![c] = [at |-> "test", size |-> size, old |-> a]]
              /\ UNCHANGED <<mh, mhOwned>>

MhReallocTest(c) ==
  mhCall[c].at = "test" /\ MhAllocTest(c, mhCall[c].size, mhCall[c].old)

MhReallocFree(c) ==
  /\ mhCall[c].at = "free"
  /\ MhFreed(mhCall[c].old)
  /\ mhCall' = [mhCall EXCEPT ![c] = MhIdle]

(* A smaller size splits the block; the rest is merged with what follows. *)
MhReallocShrink(c, a, size) ==
  LET need == aligned_size(size)
      cut  == divided(mh, a, need)
      b    == a + MH_HEADER + need
      n    == mh.mem[a].next
      new  == IF cut.mem[n].used THEN cut ELSE merged(cut, b)
      gone == IF cut.mem[n].used THEN 0 ELSE MEMITEM_SIZE(mh, n)
  IN  /\ Has(c, a) /\ need + MH_HEADER + MINIALLOC < MEMITEM_SIZE(mh, a)
      /\ mh' = now_available(new, mh.available_size - gone + MEMITEM_SIZE(new, b))
      /\ mhOwned' = [mhOwned EXCEPT ![a] = size]
      /\ UNCHANGED mhCall
==============================================================================
