-------------------------------- MODULE Heap --------------------------------
(***************************************************************************)
(* The system heap (mem.c): first-fit allocation over blocks that carry    *)
(* their own header.  The semaphore heap_sem lets one call at a time work  *)
(* on the heap, so a call is one step, but for rt_realloc, which calls     *)
(* rt_malloc and then rt_free when it moves a block.  Addresses and sizes  *)
(* are in units of RT_ALIGN_SIZE, relative to heap_ptr.                    *)
(***************************************************************************)
EXTENDS Integers, FiniteSets, FiniteSetsExt, TLC

CONSTANTS
  HEADER,      \* SIZEOF_STRUCT_MEM
  MIN_SIZE,    \* MIN_SIZE_ALIGNED, which is MIN_SIZE for an alignment of 4
  MEM_SIZE,    \* mem_size_aligned
  HpSizes      \* the sizes that are asked for, aligned

ASSUME HeapAssumption ==
  /\ {HEADER, MIN_SIZE, MEM_SIZE} \subseteq Nat \ {0} /\ MIN_SIZE <= MEM_SIZE
  /\ HpSizes \subseteq Nat \ {0}

VARIABLES
  heap,        \* the headers by address, lfree and used_mem
  moved,       \* the blocks that rt_realloc has copied and not freed yet
  owned        \* history: the blocks the callers have, with the size they need

heap_end == MEM_SIZE + HEADER

HeapType ==
  /\ heap.lfree \in DOMAIN heap.mem /\ heap.used_mem \in Int
  /\ DOMAIN heap.mem \subseteq 0 .. heap_end
  /\ \A a \in DOMAIN heap.mem :
       heap.mem[a] \in [used : BOOLEAN, next : 0 .. heap_end, prev : 0 .. heap_end]
  /\ moved \subseteq DOMAIN owned /\ DOMAIN owned \subseteq DOMAIN heap.mem

(* rt_system_heap_init *)
HeapInit ==
  /\ heap = [mem |-> 0 :> [used |-> FALSE, next |-> heap_end, prev |-> 0]
                      @@ heap_end :> [used |-> TRUE, next |-> heap_end, prev |-> heap_end],
             lfree |-> 0, used_mem |-> 0]
  /\ moved = {}
  /\ owned = <<>>

Without(f, a) == [x \in DOMAIN f \ {a} |-> f[x]]

(* The room for data in the block at a *)
room(h, a) == h.mem[a].next - a - HEADER

-----------------------------------------------------------------------------
(* plug_holes: the block at a and the next one become one, then the previous *)
(* block and the one at a.                                                   *)
joined(h, a, b) ==
  [h EXCEPT !.lfree = IF @ = b THEN a ELSE @,
            !.mem = Without([@ EXCEPT ![a].next = h.mem[b].next,
                                      ![h.mem[b].next].prev = a], b)]

(* mutant: the block before is not looked at *)
plug_forward(h, a) ==
  LET n == h.mem[a].next
  IN  IF a # n /\ ~ h.mem[n].used /\ n # heap_end THEN joined(h, a, n) ELSE h

plug_holes(h, a) ==
  LET n       == h.mem[a].next
      forward == IF a # n /\ ~ h.mem[n].used /\ n # heap_end THEN joined(h, a, n) ELSE h
      p       == forward.mem[a].prev
  IN  IF p # a /\ ~ forward.mem[p].used THEN joined(forward, p, a) ELSE forward

(* The block at a keeps size; a free block is made of the rest. *)
split(h, a, size) ==
  LET rest == a + HEADER + size
      n    == h.mem[a].next
      cut  == [h.mem EXCEPT ![a].next = rest]
  IN  [h EXCEPT !.mem = rest :> [used |-> FALSE, next |-> n, prev |-> a]
                        @@ (IF n # heap_end THEN [cut EXCEPT ![n].prev = rest] ELSE cut)]

-----------------------------------------------------------------------------
(* rt_malloc *)

atLeast(size) == IF size < MIN_SIZE THEN MIN_SIZE ELSE size

(* The blocks that the search finds.  It follows next from lfree, so upwards *)
(* through all headers, and stops short of the last size bytes.              *)
fitting(h, size) ==
  {a \in DOMAIN h.mem : h.lfree <= a /\ a < MEM_SIZE - size
                        /\ ~ h.mem[a].used /\ room(h, a) >= size}

(* The lowest free block from a on *)
next_free(h, a) == Min({b \in DOMAIN h.mem : a <= b /\ ~ h.mem[b].used} \cup {heap_end})

allocated(h, a, size) ==
  LET cut   == IF room(h, a) >= size + HEADER + MIN_SIZE THEN split(h, a, size) ELSE h
      taken == [cut EXCEPT !.mem[a].used = TRUE, !.used_mem = @ + cut.mem[a].next - a]
  IN  IF h.lfree = a THEN [taken EXCEPT !.lfree = next_free(taken, a)] ELSE taken

HpMalloc(size) ==
  LET need == atLeast(size)
      a    == Min(fitting(heap, need))
  IN  /\ size <= MEM_SIZE
      /\ fitting(heap, need) # {}
      /\ heap' = allocated(heap, a, need)
      /\ owned' = a :> size @@ owned
      /\ UNCHANGED moved

-----------------------------------------------------------------------------
(* rt_free *)

freed(h, a) ==
  plug_holes([h EXCEPT !.mem[a].used = FALSE,
                       !.lfree = IF a < @ THEN a ELSE @,
                       !.used_mem = @ - (h.mem[a].next - a)], a)

HpFreed(a) ==
  /\ heap' = freed(heap, a)
  /\ owned' = Without(owned, a)

HpFree(a) == a \notin moved /\ HpFreed(a) /\ UNCHANGED moved

-----------------------------------------------------------------------------
(* rt_realloc: the rest of the block is split off when it is large enough;   *)
(* otherwise the data move to a new block, if there is one.                  *)

shrinks(a, size) == size + HEADER + MIN_SIZE < room(heap, a)

HpReallocShrink(a, size) ==
  /\ a \notin moved /\ size # room(heap, a) /\ shrinks(a, size)
  /\ heap' = plug_holes([split(heap, a, size) EXCEPT !.used_mem = @ - (room(heap, a) - size)],
                        a + HEADER + size)
  /\ owned' = [owned EXCEPT ![a] = size]
  /\ UNCHANGED moved

(* The room in a block of the caller does not change between the sections. *)
HpReallocMove(a, size) ==
  LET need == atLeast(size)
      b    == Min(fitting(heap, need))
  IN  /\ a \notin moved
      /\ 0 < size /\ size <= MEM_SIZE /\ size # room(heap, a) /\ ~ shrinks(a, size)
      /\ fitting(heap, need) # {}
      /\ heap' = allocated(heap, b, need)
      /\ owned' = b :> size @@ owned
      /\ moved' = moved \cup {a}

HpReallocFree(a) == a \in moved /\ HpFreed(a) /\ moved' = moved \ {a}
=============================================================================
