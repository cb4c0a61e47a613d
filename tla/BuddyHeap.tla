----------------------------- MODULE BuddyHeap -----------------------------
(***************************************************************************)
(* The kernel heap and the heap of every user program: `Heap`, LockedHeap  *)
(* and LockedHeapWithRescue of buddy_system_allocator.  Free blocks of     *)
(* 2^c bytes are on the list free_list[c]; the intrusive LinkedList is the *)
(* sequence of its items, head first.  Every call runs under the heap's    *)
(* mutex, so it is one step.                                               *)
(***************************************************************************)
EXTENDS Naturals, Sequences, SequencesExt, FiniteSets, FiniteSetsExt

CONSTANTS Orders,           \* the number of free lists (32)
          Word,             \* size_of::<usize>()
          Start, End,       \* the range given to init
          RescueStart, RescueEnd,   \* the range the rescue function adds
          Layouts           \* the requests: records [size, align]

VARIABLES heap,             \* the fields of Heap
          held,             \* the blocks in callers' hands: [ptr, layout]
          rescued           \* the rescue function has added its range

vars == <<heap, held, rescued>>

Class == 0 .. (Orders - 1)

\* The bytes of the pool are too few for two blocks of the last class (so
\* that dealloc never merges past the last list), and the range that rescue
\* adds does not touch the first one.
RangesFit ==
  /\ (End - Start) + (RescueEnd - RescueStart) < 2 ^ Orders
  /\ Start \in 1 .. End /\ End < RescueStart /\ RescueStart <= RescueEnd

-----------------------------------------------------------------------------
(* linked_list.rs *)

push(l, item) == <<item>> \o l

\* The first node whose value is `item` is unlinked (ListNode::pop).
unlink(l, item) == SelectSeq(l, LAMBDA x : x # item)

-----------------------------------------------------------------------------
(* Sizes as exponents of two *)

\* trailing_zeros, for the lowest set bit of an address.
LowBit(n) == Max({c \in Class : n % 2 ^ c = 0})

prev_power_of_two(n) == Max({c \in Class : 2 ^ c <= n})

\* next_power_of_two.
NextPower(n) == Min({c \in 0 .. Orders : n <= 2 ^ c})

\* Faulty variant: the alignment is forgotten.
ClassUnaligned(l) == Max({NextPower(l.size), NextPower(Word)})

\* The list that serves a layout.
ClassOf(l) == Max({NextPower(l.size), NextPower(l.align), NextPower(Word)})

-----------------------------------------------------------------------------
(* Heap::add_to_heap *)

RECURSIVE AddBlocks(_, _, _)
AddBlocks(h, current_start, end) ==
  IF current_start + Word > end THEN h
  ELSE LET c == Min({LowBit(current_start),
                     prev_power_of_two(end - current_start)})
       IN AddBlocks([h EXCEPT !.free_list[c] = push(@, current_start),
                              !.total = @ + 2 ^ c],
                    current_start + 2 ^ c, end)

RoundUp(a) == ((a + Word - 1) \div Word) * Word
RoundDown(a) == (a \div Word) * Word

add_to_heap(h, start, end) == AddBlocks(h, RoundUp(start), RoundDown(end))

new == [free_list |-> [c \in Class |-> <<>>],
        user |-> 0, allocated |-> 0, total |-> 0]

-----------------------------------------------------------------------------
(* Heap::alloc *)

\* A block of class j becomes two of class j - 1, the lower one first, until
\* list c has a block.
RECURSIVE Split(_, _, _)
Split(fl, j, c) ==
  IF j = c THEN fl
  ELSE LET block == Head(fl[j]) IN
         Split([fl EXCEPT ![j] = Tail(@),
                          ![j - 1] = push(push(@, block + 2 ^ (j - 1)), block)],
               j - 1, c)

\* Whether alloc finds a non-empty list.
Fits(h, l) == \E i \in ClassOf(l) .. (Orders - 1) : h.free_list[i] # <<>>

\* The free lists once list ClassOf(l) has a block.
AfterSplit(h, l) ==
  LET c == ClassOf(l)
      i == Min({j \in c .. (Orders - 1) : h.free_list[j] # <<>>})
  IN Split(h.free_list, i, c)

AllocPtr(h, l) == Head(AfterSplit(h, l)[ClassOf(l)])

alloc(h, l) ==
  LET c == ClassOf(l) IN
    [h EXCEPT !.free_list = [AfterSplit(h, l) EXCEPT ![c] = Tail(@)],
              !.user = @ + l.size,
              !.allocated = @ + 2 ^ c]

-----------------------------------------------------------------------------
(* Heap::dealloc *)

\* current_ptr ^ (1 << class).
Buddy(ptr, c) == IF (ptr \div 2 ^ c) % 2 = 0 THEN ptr + 2 ^ c ELSE ptr - 2 ^ c

\* Faulty variant: the block itself stays on its list when it is merged.
RECURSIVE MergeKept(_, _, _)
MergeKept(fl, ptr, c) ==
  LET buddy == Buddy(ptr, c)
      low == Min({ptr, buddy})
  IN IF Contains(fl[c], buddy)
     THEN MergeKept([fl EXCEPT ![c] = unlink(@, buddy),
                               ![c + 1] = push(@, low)], low, c + 1)
     ELSE fl

\* The block at the head of list c is merged with its buddy as long as that
\* one is free too: the buddy is unlinked, then the head is popped.
RECURSIVE MergeLoop(_, _, _)
MergeLoop(fl, ptr, c) ==
  LET buddy == Buddy(ptr, c)
      low == Min({ptr, buddy})
  IN IF Contains(fl[c], buddy)
     THEN MergeLoop([fl EXCEPT ![c] = Tail(unlink(@, buddy)),
                               ![c + 1] = push(@, low)], low, c + 1)
     ELSE fl

Merge(fl, ptr, c) == MergeLoop(fl, ptr, c)

dealloc(h, b) ==
  LET c == ClassOf(b.layout) IN
    [h EXCEPT !.free_list = Merge([@ EXCEPT ![c] = push(@, b.ptr)], b.ptr, c),
              !.user = @ - b.layout.size,
              !.allocated = @ - 2 ^ c]

-----------------------------------------------------------------------------
(* The allocators in use *)

\* init_heap, and the init of the user library.
Init == /\ heap = add_to_heap(new, Start, End)
        /\ held = {}
        /\ rescued = FALSE

\* GlobalAlloc::alloc; a request that fails returns null and changes nothing
\* (the kernel's handle_alloc_error then panics).
Alloc(l) ==
  /\ Fits(heap, l)
  /\ heap' = alloc(heap, l)
  /\ held' = held \cup {[ptr |-> AllocPtr(heap, l), layout |-> l]}
  /\ UNCHANGED rescued

\* LockedHeapWithRescue: a request that fails is tried once more after the
\* rescue function has added memory.
AllocRescue(l) ==
  /\ ~Fits(heap, l)
  /\ ~rescued
  /\ rescued' = TRUE
  /\ LET h == add_to_heap(heap, RescueStart, RescueEnd) IN
       \/ /\ Fits(h, l)
          /\ heap' = alloc(h, l)
          /\ held' = held \cup {[ptr |-> AllocPtr(h, l), layout |-> l]}
       \/ /\ ~Fits(h, l)
          /\ heap' = h
          /\ UNCHANGED held

\* GlobalAlloc::dealloc: callers give back a block with the layout they asked
\* it with.
Dealloc(b) ==
  /\ heap' = dealloc(heap, b)
  /\ held' = held \ {b}
  /\ UNCHANGED rescued

Next == \/ \E l \in Layouts : Alloc(l) \/ AllocRescue(l)
        \/ \E b \in held : Dealloc(b)

Spec == Init /\ [][Next]_vars

-----------------------------------------------------------------------------
(* Properties *)

\* The addresses in the pool: what add_to_heap accepts of the two ranges.
Pool == (RoundUp(Start) .. (RoundDown(End) - 1))
        \cup (IF rescued
              THEN RoundUp(RescueStart) .. (RoundDown(RescueEnd) - 1) ELSE {})

Block(ptr, c) == ptr .. (ptr + 2 ^ c - 1)

FreeBlocks == UNION {{<<p, c>> : p \in Range(heap.free_list[c])} : c \in Class}

\* Every byte of the pool is in exactly one block, free or held, and no block
\* is on a list twice: alloc's splitting and dealloc's merging lose nothing
\* and hand out nothing twice.
BlocksPartition ==
  LET blocks == {Block(f[1], f[2]) : f \in FreeBlocks}
                \cup {Block(b.ptr, ClassOf(b.layout)) : b \in held}
  IN /\ UNION blocks = Pool
     /\ Cardinality(blocks) = Cardinality(FreeBlocks) + Cardinality(held)
     /\ \A x, y \in blocks : x # y => x \cap y = {}
     /\ \A c \in Class : IsInjective(heap.free_list[c])

\* The statistics of Heap agree with the blocks: `user` with what callers
\* asked for, `allocated` with what they were given, and `total` minus
\* `allocated` with what is on the free lists.
StatsAgree ==
  /\ heap.user = MapThenSumSet(LAMBDA b : b.layout.size, held)
  /\ heap.allocated = MapThenSumSet(LAMBDA b : 2 ^ ClassOf(b.layout), held)
  /\ heap.total - heap.allocated
       = MapThenSumSet(LAMBDA c : Len(heap.free_list[c]) * 2 ^ c, Class)

\* alloc fails only when it must: whenever a naturally aligned block of the
\* request's class is free byte for byte, some list from that class on is not
\* empty.  It rests on dealloc merging every pair of free buddies.
FailsOnlyWhenFull ==
  LET used == UNION {Block(b.ptr, ClassOf(b.layout)) : b \in held} IN
    \A l \in Layouts :
      ~Fits(heap, l) =>
        ~\E p \in Pool : /\ p % 2 ^ ClassOf(l) = 0
                         /\ Block(p, ClassOf(l)) \subseteq Pool \ used

\* The buddy heap implements an allocator: what it hands out is aligned, in
\* its memory, and overlaps nothing a caller holds.
AllocatorSpec ==
  INSTANCE Allocator WITH pool <- Pool, owned <- held
AllocatorProperty == AllocatorSpec!Spec

=============================================================================
