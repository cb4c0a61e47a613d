------------------------------ MODULE PageTable ------------------------------
(***************************************************************************)
(* The three levels of page tables (os/src/mm/page_table.rs, address.rs),  *)
(* with the frames that MapArea maps, and the copies between the kernel    *)
(* and user memory that go through them.                                   *)
(*                                                                         *)
(* Tables and data share physical memory: a frame is an array of cells,    *)
(* and a cell is a byte or the bits of a page table entry.  A table has    *)
(* Fan entries (512) and a page PAGE_SIZE bytes (4096).  Of the flags of   *)
(* an entry the model has V.                                               *)
(***************************************************************************)
EXTENDS Lists

CONSTANTS
  Space,        \* address spaces
  Fan, PAGE_SIZE,
  UsizeMod,     \* 2^64
  NFrames,
  Pages,        \* the virtual pages that are mapped
  Copies,       \* the sequences of bytes that are copied to programs
  MaxCopies,    \* bound on the number of copies
  MaxMaps       \* bound on the number of tables and pages made

ASSUME PageTableAssumption ==
  /\ {Fan, PAGE_SIZE, NFrames, MaxCopies, MaxMaps} \subseteq Nat \ {0}
  /\ Pages \subseteq 0..(Fan * Fan * Fan - 1)
  /\ UsizeMod \in Nat
  /\ UsizeMod % (Fan * Fan * Fan * PAGE_SIZE) = 0
  /\ UsizeMod > Fan * Fan * Fan * PAGE_SIZE
  /\ Copies \subseteq Seq(Nat)

VARIABLES
  mem,          \* the cells of each frame
  free,         \* StackFrameAllocator, the next frame last
  root_ppn, frames,       \* PageTable; no frames: no address space
  data_frames,  \* MapArea: page to frame, 0 for none
  copies, maps, \* how many copies there have been, and how many maps
  halted        \* "no", or why the kernel stopped

vars == <<mem, free, root_ppn, frames, data_frames, copies, maps, halted>>

\* Frame 0 is not memory that the kernel manages or maps.
Frame == 1..NFrames
Cells == (0..(Fan - 1)) \union (0..(PAGE_SIZE - 1))
ZeroFrame == [c \in Cells |-> 0]

-----------------------------------------------------------------------------
(* address.rs *)

VaSize == Fan * Fan * Fan * PAGE_SIZE
Vpn == 0..(Fan * Fan * Fan - 1)

\* From<usize> for VirtAddr drops the high bits; From<VirtAddr> for usize
\* extends the sign.
VirtAddr(n) == n % VaSize
usize(va) == IF va >= VaSize \div 2 THEN (va % VaSize) + UsizeMod - VaSize ELSE va
floor(va) == va \div PAGE_SIZE
page_offset(va) == va % PAGE_SIZE

\* VirtPageNum::indexes: the index at each level, the root's first.
indexes(vpn) ==
  LET up == vpn \div Fan IN <<(up \div Fan) % Fan, up % Fan, vpn % Fan>>

-----------------------------------------------------------------------------
(* PageTableEntry *)

V == 1
Pte(ppn, flags) == 2 * ppn + flags
ppn_of(pte) == pte \div 2
is_valid(pte) == pte % 2 = V

-----------------------------------------------------------------------------
(* Allocation.  st has the parts of the state that a walk may change.      *)

\* Faulty variant: frames keep what they held.
Alloc_dirty(st) == [st EXCEPT !.free = Front(@)]

\* FrameTracker::new clears the frame.
Alloc(st) == [st EXCEPT !.free = Front(@), !.mem[Last(st.free)] = ZeroFrame]

\* One level of find_pte_create: make sure that the entry names a table.
Descend(st, ppn, i) ==
  IF is_valid(st.mem[ppn][i]) THEN st
  ELSE LET f == Last(st.free)
           s1 == Alloc(st)
       IN [s1 EXCEPT !.mem[ppn][i] = Pte(f, V), !.frames = Append(@, f)]

\* The walk with both levels, and how many tables it has to make.
find_pte_create(st, root, vpn) ==
  LET ix == indexes(vpn)
      s1 == Descend(st, root, ix[1])
      t1 == ppn_of(s1.mem[root][ix[1]])
      s2 == Descend(s1, t1, ix[2])
  IN [st |-> s2, ppn |-> ppn_of(s2.mem[t1][ix[2]]), idx |-> ix[3]]

TablesMissing(root, vpn) ==
  LET ix == indexes(vpn)
      e == mem[root][ix[1]]
  IN IF ~is_valid(e) THEN 2
     ELSE IF ~is_valid(mem[ppn_of(e)][ix[2]]) THEN 1 ELSE 0

\* find_pte: the place of the entry, or <<>> when a table is missing.
find_pte(root, vpn) ==
  LET ix == indexes(vpn)
      e1 == mem[root][ix[1]]
      e2 == mem[ppn_of(e1)][ix[2]]
  IN IF TablesMissing(root, vpn) > 0 THEN <<>> ELSE <<ppn_of(e2), ix[3]>>

\* translate: it also returns an entry that is not valid.
translate(root, vpn) ==
  LET at == find_pte(root, vpn) IN IF at = <<>> THEN <<>> ELSE <<mem[at[1]][at[2]]>>

-----------------------------------------------------------------------------
(* MapArea on the page table *)

Halt(why) == halted' = why /\ UNCHANGED <<mem, free, root_ppn, frames, data_frames, copies, maps>>

\* PageTable::new.
new(s) ==
  /\ frames[s] = <<>> /\ maps < MaxMaps
  /\ IF free = <<>> THEN Halt("frame_alloc")
     ELSE LET st == Alloc([mem |-> mem, free |-> free])
          IN /\ mem' = st.mem /\ free' = st.free
             /\ root_ppn' = [root_ppn EXCEPT ![s] = Last(free)]
             /\ frames' = [frames EXCEPT ![s] = <<Last(free)>>]
             /\ maps' = maps + 1
             /\ UNCHANGED <<data_frames, copies, halted>>

\* MapArea::map_one for a framed area: the frame of the page comes first, then
\* PageTable::map with the tables it needs.
map_one(s, vpn) ==
  LET f == Last(free)
      st == Alloc([mem |-> mem, free |-> free, frames |-> frames[s]])
      at == find_pte_create(st, root_ppn[s], vpn)
  IN /\ frames[s] # <<>> /\ maps < MaxMaps
     /\ IF Len(free) < 1 + TablesMissing(root_ppn[s], vpn) THEN Halt("frame_alloc")
        ELSE IF is_valid(at.st.mem[at.ppn][at.idx]) THEN Halt("map")
        ELSE /\ mem' = [at.st.mem EXCEPT ![at.ppn][at.idx] = Pte(f, V)]
             /\ free' = at.st.free
             /\ frames' = [frames EXCEPT ![s] = at.st.frames]
             /\ data_frames' = [data_frames EXCEPT ![s][vpn] = f]
             /\ maps' = maps + 1
             /\ UNCHANGED <<root_ppn, copies, halted>>

\* MapArea::unmap_one drops the frame and clears the entry; the tables stay.
unmap_one(s, vpn) ==
  LET at == find_pte(root_ppn[s], vpn)
  IN /\ frames[s] # <<>> /\ data_frames[s][vpn] # 0
     /\ IF translate(root_ppn[s], vpn) = <<>> THEN Halt("unwrap")
        ELSE IF ~is_valid(mem[at[1]][at[2]]) THEN Halt("unmap")
        ELSE /\ free' = Append(free, data_frames[s][vpn])
             /\ data_frames' = [data_frames EXCEPT ![s][vpn] = 0]
             /\ mem' = [mem EXCEPT ![at[1]][at[2]] = 0]
             /\ UNCHANGED <<root_ppn, frames, copies, maps, halted>>

\* The frames of the pages of s, in the order of the pages (a BTreeMap).
PageFrames(s) ==
  LET held(v) == v \in Pages /\ data_frames[s][v] # 0
      below[n \in 0..(Fan * Fan * Fan)] ==
        IF n = 0 THEN <<>>
        ELSE IF held(n - 1) THEN Append(below[n - 1], data_frames[s][n - 1])
        ELSE below[n - 1]
  IN below[Fan * Fan * Fan]

\* Drop of a MemorySet: the tables, then the areas.
drop(s) ==
  /\ frames[s] # <<>>
  /\ free' = free \o frames[s] \o PageFrames(s)
  /\ frames' = [frames EXCEPT ![s] = <<>>]
  /\ root_ppn' = [root_ppn EXCEPT ![s] = 0]
  /\ data_frames' = [data_frames EXCEPT ![s] = [v \in Pages |-> 0]]
  /\ UNCHANGED <<mem, copies, maps, halted>>

-----------------------------------------------------------------------------
(* Copies between the kernel and a program *)

\* Faulty variant: a slice that ends with its page is empty.
slice_end_unfixed(end_va) == page_offset(end_va)

\* Where the slice of a page ends: at the end of the page when end_va is the
\* start of the next one.
slice_end(end_va) == IF page_offset(end_va) = 0 THEN PAGE_SIZE ELSE page_offset(end_va)

\* One iteration of translated_byte_buffer.  A slice is a frame and a range of
\* offsets; frame -1 stands for the failed unwrap.
NextSlice(root, b, end) ==
  LET start_va == VirtAddr(b.start)
      vpn == floor(start_va)
      pte == translate(root, vpn)
      next == (vpn + 1) * PAGE_SIZE
      end_va == IF next <= VirtAddr(end) THEN next ELSE VirtAddr(end)
  IN [start |-> usize(end_va),
      v |-> Append(b.v, [ppn |-> IF pte = <<>> THEN -1 ELSE ppn_of(pte[1]),
                         from |-> page_offset(start_va), to |-> slice_end(end_va)])]

translated_byte_buffer(root, ptr, len) ==
  LET end == (ptr + len) % UsizeMod
      loop[k \in 0..len] ==
        IF k = 0 THEN [start |-> ptr, v |-> <<>>]
        ELSE LET b == loop[k - 1]
             IN IF b.start < end THEN NextSlice(root, b, end) ELSE b
  IN loop[len].v

\* UserBufferIterator::next: the position after at.
IterNext(bufs, at) ==
  IF at.idx + 1 = bufs[at.buf].to - bufs[at.buf].from
  THEN [buf |-> at.buf + 1, idx |-> 0]
  ELSE [at EXCEPT !.idx = @ + 1]

\* UserBuffer::len.
BufferLen(bufs) ==
  LET total[j \in 0..Len(bufs)] ==
        IF j = 0 THEN 0 ELSE total[j - 1] + bufs[j].to - bufs[j].from
  IN total[Len(bufs)]

\* The cells that the iterator of a UserBuffer yields, in order, until there is
\* no buffer left: what Pipe::read and Pipe::write go through.
Positions(bufs) ==
  LET at[k \in 0..BufferLen(bufs)] ==
        IF k = 0 THEN [buf |-> 1, idx |-> 0]
        ELSE IF at[k - 1].buf > Len(bufs) THEN at[k - 1]
        ELSE IterNext(bufs, at[k - 1])
      yields == {k \in 1..BufferLen(bufs) : at[k - 1].buf <= Len(bufs)}
  IN [k \in yields |-> <<bufs[at[k - 1].buf].ppn, bufs[at[k - 1].buf].from + at[k - 1].idx>>]

\* The cells that the loops of sys_fstat and sys_uname fill, slice by slice
\* (sys_getcwd and OSInode::read go through slices in the same order).
SliceCells(b) == [i \in 1..(b.to - b.from) |-> <<b.ppn, b.from + i - 1>>]
SlicePositions(bufs) ==
  LET cells[j \in 0..Len(bufs)] ==
        IF j = 0 THEN <<>> ELSE cells[j - 1] \o SliceCells(bufs[j])
  IN cells[Len(bufs)]

\* Memory after the stores of data[k] to the cells at[k], in the order of k.
Stored(at, data) ==
  [f \in Frame |-> [c \in Cells |->
    LET K == {k \in DOMAIN at : at[k] = <<f, c>>}
    IN IF K = {} THEN mem[f][c] ELSE data[CHOOSE k \in K : \A j \in K : j <= k]]]

\* A call that copies data to the slices bufs, cell by cell as in at.  A page
\* without a frame is a failed unwrap or a page fault in the kernel.
CopyWith(s, bufs, at, data) ==
  /\ frames[s] # <<>> /\ copies < MaxCopies
  /\ IF \E j \in 1..Len(bufs) : bufs[j].ppn \notin Frame THEN Halt("fault")
     ELSE /\ mem' = Stored(at, data)
          /\ copies' = copies + 1
          /\ UNCHANGED <<free, root_ppn, frames, data_frames, maps, halted>>

CopyByIterator(s, ptr, data) ==
  LET bufs == translated_byte_buffer(root_ppn[s], ptr, Len(data))
  IN CopyWith(s, bufs, Positions(bufs), data)
CopyBySlices(s, ptr, data) ==
  LET bufs == translated_byte_buffer(root_ppn[s], ptr, Len(data))
  IN CopyWith(s, bufs, SlicePositions(bufs), data)

-----------------------------------------------------------------------------

Init ==
  /\ mem = [f \in Frame |-> ZeroFrame]
  /\ free = [i \in 1..NFrames |-> NFrames + 1 - i]
  /\ root_ppn = [s \in Space |-> 0]
  /\ frames = [s \in Space |-> <<>>]
  /\ data_frames = [s \in Space |-> [v \in Pages |-> 0]]
  /\ copies = 0 /\ maps = 0 /\ halted = "no"

\* The addresses of the mapped pages, as programs pass them.
Pointers == {usize(v * PAGE_SIZE + o) : v \in Pages, o \in 0..(PAGE_SIZE - 1)}

Stopped == halted # "no" /\ UNCHANGED vars

Next ==
  \/ /\ halted = "no"
     /\ \E s \in Space :
          \/ new(s) \/ drop(s)
          \/ \E vpn \in Pages : map_one(s, vpn) \/ unmap_one(s, vpn)
          \/ \E ptr \in Pointers, data \in Copies :
               CopyByIterator(s, ptr, data) \/ CopyBySlices(s, ptr, data)
  \/ Stopped

Spec == Init /\ [][Next]_vars

-----------------------------------------------------------------------------
(* Properties *)

\* The places that hold frame f: in the free list, among the tables of a space
\* or behind its pages.
Holders(f) ==
  LET at(q) == {i \in DOMAIN q : q[i] = f}
  IN {<<"free", i>> : i \in at(free)}
     \union UNION {{<<s, "table", i>> : i \in at(frames[s])}
                     \union {<<s, "page", v>> : v \in at(data_frames[s])} : s \in Space}

\* Every frame is free, a table of one address space or a page of one, once;
\* and a walk from a root goes through tables of that space only.
TreeOwned ==
  /\ \A f \in Frame : \E h \in Holders(f) : Holders(f) = {h}
  /\ \A s \in Space, v \in Vpn : frames[s] # <<>> =>
       /\ root_ppn[s] = frames[s][1]
       /\ find_pte(root_ppn[s], v) # <<>> => Contains(frames[s], find_pte(root_ppn[s], v)[1])

\* An address space maps exactly the pages its areas hold, to their frames.
LeavesAgree ==
  \A s \in Space, v \in Vpn : frames[s] # <<>> =>
    LET pte == translate(root_ppn[s], v)
    IN IF v \notin Pages \/ data_frames[s][v] = 0 THEN pte = <<>> \/ pte = <<0>>
       ELSE pte = <<Pte(data_frames[s][v], V)>>

\* The tables of a space are its own, and their leaves are its pages.
TablesSound == TreeOwned /\ LeavesAgree

\* What the hardware finds at an address: the walk, then the cell.
Absent == -1
At(s, a) ==
  LET pte == translate(root_ppn[s], floor(a))
  IN IF frames[s] = <<>> \/ pte = <<>> THEN Absent
     ELSE IF ~is_valid(pte[1]) THEN Absent
     ELSE mem[ppn_of(pte[1])][page_offset(a)]

User == INSTANCE UserMemory WITH
  Limits <- {VaSize \div 2, VaSize},
  bytes <- [s \in Space |-> [a \in {v * PAGE_SIZE + o : v \in Pages, o \in 0..(PAGE_SIZE - 1)} |-> At(s, a)]]

\* The tables implement private arrays of bytes: mapping a page makes zeros,
\* a copy changes the bytes from its start on, in order, whatever pages they
\* are on, and nothing else changes anything.  Only a copy that reaches the end
\* of a half of the address space may be cut short.
UserSpec == User!Spec

=============================================================================
