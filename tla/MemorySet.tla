------------------------------ MODULE MemorySet ------------------------------
(***************************************************************************)
(* Physical frames and the address spaces of the processes                 *)
(* (os/src/mm/frame_allocator.rs, memory_set.rs, page_table.rs and the     *)
(* calls of task.rs that build, copy, grow and drop address spaces).       *)
(*                                                                         *)
(* A virtual page holds one value.  Of the three levels of a page table    *)
(* the model has the root, one table that covers the trampoline and the    *)
(* trap context, and one that covers the program, its stack and its heap.  *)
(* The LOAD segments of a program are one area.  Addresses are in units of *)
(* which a page has PAGE_SIZE.  A panic stops the machine.                 *)
(***************************************************************************)
EXTENDS Lists

CONSTANTS
  Proc,         \* heap cells for tasks
  First,        \* the task that add_initproc starts
  None,
  NFrames,      \* frames that init_frame_allocator finds
  Programs,     \* pages that the segments of a program have
  StackPages,   \* USER_STACK_SIZE
  KstackPages,  \* KERNEL_STACK_SIZE
  PAGE_SIZE,
  Top,          \* virtual page of TRAP_CONTEXT_BASE
  Val,          \* what a page can hold
  Stores,       \* the pages that programs write to
  MaxSpaces     \* address spaces built after the first

ASSUME MemoryAssumption ==
  /\ First \in Proc /\ None \notin Nat \union Val
  /\ {NFrames, StackPages, KstackPages, PAGE_SIZE, Top, MaxSpaces} \subseteq Nat \ {0}
  /\ Programs \subseteq Nat \ {0}
  /\ \A n \in Programs : n + StackPages + 2 < Top /\ n + StackPages + KstackPages + 5 <= NFrames
  /\ {0, 1} \subseteq Val
  /\ Stores \subseteq 0..(Top - 1)

VARIABLES
  current, recycled,  \* StackFrameAllocator; its end is NFrames
  mem,            \* what a frame holds
  status,         \* "absent", "run" or "zombie"
  ptes,           \* leaf entries of a page table: page to frame
  tables,         \* PageTable.frames
  areas,          \* each MapArea: its vpn_range and its data_frames
  kernel_stack,   \* the FrameTrackers of the kernel stack
  heap_bottom, program_brk,
  spaces,         \* history: address spaces built
  halted          \* "no", or the panic

allocVars == <<current, recycled>>
spaceVars == <<ptes, tables, areas>>
brkVars == <<heap_bottom, program_brk>>
vars == <<allocVars, mem, status, spaceVars, kernel_stack, brkVars, spaces, halted>>

Frame == 0..(NFrames - 1)
VPN == 0..Top
NoPages == [v \in VPN |-> None]

-----------------------------------------------------------------------------
(* StackFrameAllocator.                                                    *)

\* The frames that successive calls of alloc return.
Supply == Reverse(recycled) \o [i \in 1..(NFrames - current) |-> current + i - 1]

\* The state of the allocator after n calls of alloc and then dealloc of the
\* frames in the sequence back.
alloc_dealloc(n, back) ==
  LET m == Len(recycled)
  IN /\ recycled' = (IF n <= m THEN SubSeq(recycled, 1, m - n) ELSE <<>>) \o back
     /\ current' = IF n <= m THEN current ELSE current + n - m

\* dealloc panics on a frame that was never handed out or is free.
DeallocPanics(back) ==
  \E i \in 1..Len(back) :
    \/ back[i] >= current
    \/ Contains(recycled, back[i])
    \/ \E j \in 1..(i - 1) : back[j] = back[i]

Panic(why) ==
  /\ halted' = why
  /\ UNCHANGED <<allocVars, mem, status, spaceVars, kernel_stack, spaces>>

-----------------------------------------------------------------------------
(* MapArea, PageTable and MemorySet.                                       *)

AreaPages(a) == a.start..(a.end - 1)

\* The pages of areas rs, each with the index of its area, in the order in
\* which the code goes through them.
Pages(rs) ==
  FlattenSeq([j \in 1..Len(rs) |->
    [i \in 1..(rs[j].end - rs[j].start) |-> <<j, rs[j].start + i - 1>>]])

\* PageTable::map asserts that no page is mapped twice.
Disjoint(rs) ==
  \A i, j \in 1..Len(rs) : i # j => AreaPages(rs[i]) \intersect AreaPages(rs[j]) = {}

\* from_elf: the program, a guard page, the stack, the page for sbrk and the
\* trap context.
user_sp(n) == n + 1 + StackPages
ElfAreas(n) ==
  << [start |-> 0, end |-> n],
     [start |-> n + 1, end |-> user_sp(n)],
     [start |-> user_sp(n), end |-> user_sp(n) + 1],
     [start |-> Top, end |-> Top + 1] >>

\* A new MemorySet with areas rs takes its frames in this order: the root,
\* the table of the trampoline, the first page, the table of the program and
\* the other pages.
TableFrames(s) == <<s[1], s[2], s[4]>>
PageFrame(s, i) == IF i = 1 THEN s[3] ELSE s[i + 3]
FramesNeeded(rs) == Len(Pages(rs)) + 3
NewAreas(rs, s) ==
  [j \in 1..Len(rs) |->
    [start |-> rs[j].start, end |-> rs[j].end,
     data_frames |-> [v \in VPN |->
       IF v \in AreaPages(rs[j])
       THEN PageFrame(s, CHOOSE i \in 1..Len(Pages(rs)) : Pages(rs)[i] = <<j, v>>)
       ELSE None]]]

\* The entries that map the pages of areas rs.
AreaOf(rs, v) == {j \in 1..Len(rs) : v \in AreaPages(rs[j])}
PageMap(rs) ==
  [v \in VPN |-> IF AreaOf(rs, v) = {} THEN None
                 ELSE rs[CHOOSE j \in AreaOf(rs, v) : TRUE].data_frames[v]]

\* The frames that come back when a MemorySet, or only its areas, is dropped.
FrameAt(rs, page) == rs[page[1]].data_frames[page[2]]
AreaFrames(p) == [i \in 1..Len(Pages(areas[p])) |-> FrameAt(areas[p], Pages(areas[p])[i])]
SpaceFrames(p) == tables[p] \o AreaFrames(p)

\* Faulty variant: FrameTracker::new does not clear.
NotCleared(fs, pm, content) ==
  [f \in Frame |->
    IF \E v \in VPN : pm[v] = f /\ content[v] # 0 THEN content[CHOOSE v \in VPN : pm[v] = f]
    ELSE mem[f]]

\* FrameTracker::new clears the frames fs; content gives what is copied there.
Cleared(fs, pm, content) ==
  [f \in Frame |->
    IF \E v \in VPN : pm[v] = f THEN content[CHOOSE v \in VPN : pm[v] = f]
    ELSE IF Contains(fs, f) THEN 0 ELSE mem[f]]

\* What from_elf copies to the pages of the program.
ElfContent(n) == [v \in VPN |-> IF v < n THEN 1 ELSE 0]

\* A process p gets a new MemorySet with areas rs and that content, n more
\* frames are taken for a kernel stack, and the frames back are dropped.
NewSpace(p, rs, content, n, back) ==
  LET k == FramesNeeded(rs)
      s == SubSeq(Supply, 1, k + n)
      new == NewAreas(rs, s)
      pm == PageMap(new)
  IN /\ spaces < MaxSpaces
     /\ IF ~Disjoint(rs) THEN Panic("map")
        ELSE IF k + n > Len(Supply) THEN Panic("frame_alloc")
        ELSE IF DeallocPanics(back) THEN Panic("dealloc")
        ELSE /\ alloc_dealloc(k + n, back)
             /\ mem' = Cleared(s, pm, content)
             /\ status' = [status EXCEPT ![p] = "run"]
             /\ ptes' = [ptes EXCEPT ![p] = pm]
             /\ tables' = [tables EXCEPT ![p] = TableFrames(s)]
             /\ areas' = [areas EXCEPT ![p] = new]
             /\ kernel_stack' = IF n = 0 THEN kernel_stack
                                ELSE [kernel_stack EXCEPT ![p] = SubSeq(s, k + 1, k + n)]
             /\ spaces' = spaces + 1
             /\ UNCHANGED halted

Running(p) == halted = "no" /\ status[p] = "run"

-----------------------------------------------------------------------------
(* The operations of a process.                                            *)

\* A store by the program; the trap context is not accessible to it.
Write(p, v, x) ==
  /\ Running(p)
  /\ ptes[p][v] # None
  /\ mem' = [mem EXCEPT ![ptes[p][v]] = x]
  /\ UNCHANGED <<allocVars, status, spaceVars, kernel_stack, brkVars, spaces, halted>>

\* TaskControlBlock::fork with MemorySet::from_existed_user.
fork(p, c) ==
  /\ Running(p) /\ status[c] = "absent"
  /\ NewSpace(c, areas[p], [v \in VPN |-> IF ptes[p][v] = None THEN 0 ELSE mem[ptes[p][v]]],
              KstackPages, <<>>)
  /\ heap_bottom' = [heap_bottom EXCEPT ![c] = heap_bottom[p]]
  /\ program_brk' = [program_brk EXCEPT ![c] = program_brk[p]]

\* TaskControlBlock::spawn: a new program, the heap bounds of the parent.
spawn(p, c, n) ==
  /\ Running(p) /\ status[c] = "absent"
  /\ NewSpace(c, ElfAreas(n), ElfContent(n), KstackPages, <<>>)
  /\ heap_bottom' = [heap_bottom EXCEPT ![c] = heap_bottom[p]]
  /\ program_brk' = [program_brk EXCEPT ![c] = program_brk[p]]

\* Faulty variant: the tables of the old address space are not dropped.
exec_leaking(p, n) ==
  /\ Running(p)
  /\ NewSpace(p, ElfAreas(n), ElfContent(n), 0, AreaFrames(p))
  /\ UNCHANGED brkVars

\* TaskControlBlock::exec: the new MemorySet replaces the old one, which is
\* dropped; the heap bounds stay.
exec(p, n) ==
  /\ Running(p)
  /\ NewSpace(p, ElfAreas(n), ElfContent(n), 0, SpaceFrames(p))
  /\ UNCHANGED brkVars

\* MapArea::append_to for the area at index j: VPNRange::new asserts that the
\* area does not shrink, and PageTable::map that a page is not mapped.
append_to(p, j, new_end) ==
  LET area == areas[p][j]
      old == area.end
      new == old..(new_end - 1)
      s == SubSeq(Supply, 1, new_end - old)
      pm == [v \in VPN |-> IF v \in new THEN s[v - old + 1] ELSE None]
      grown == [start |-> area.start, end |-> new_end,
                data_frames |-> [v \in VPN |-> IF v \in new THEN pm[v] ELSE area.data_frames[v]]]
  IN IF old > new_end THEN Panic("VPNRange")
     ELSE IF new_end - old > Len(Supply) THEN Panic("frame_alloc")
     ELSE IF \E v \in new : ptes[p][v] # None THEN Panic("map")
     ELSE /\ alloc_dealloc(new_end - old, <<>>)
          /\ mem' = Cleared(s, pm, [v \in VPN |-> 0])
          /\ ptes' = [ptes EXCEPT ![p] = [v \in VPN |-> IF v \in new THEN pm[v] ELSE ptes[p][v]]]
          /\ areas' = [areas EXCEPT ![p][j] = grown]
          /\ UNCHANGED <<status, tables, kernel_stack, spaces, halted>>

Ceil(a) == (a + PAGE_SIZE - 1) \div PAGE_SIZE

\* change_program_brk(a).  It extends the area that starts at heap_bottom when
\* the break grows by more than a page, and otherwise only moves the break:
\* shrink_to is never called, since a negative size is not above PAGE_SIZE.
sys_brk(p, a) ==
  /\ Running(p)
  /\ a >= heap_bottom[p]
  /\ UNCHANGED heap_bottom
  /\ program_brk' = [program_brk EXCEPT ![p] = a]
  /\ IF a - program_brk[p] > PAGE_SIZE
     THEN \E j \in 1..Len(areas[p]) :
            /\ areas[p][j].start = heap_bottom[p] \div PAGE_SIZE
            /\ \A i \in 1..(j - 1) : areas[p][i].start # areas[p][j].start
            /\ append_to(p, j, Ceil(a))
     ELSE UNCHANGED <<allocVars, mem, status, spaceVars, kernel_stack, spaces, halted>>

\* exit_current_and_run_next: recycle_data_pages drops the areas; the page
\* table keeps its entries, which nobody uses any more.  The first process
\* does not get as far (exit_initproc of TaskManager).
exit(p) ==
  /\ Running(p) /\ p # First
  /\ IF DeallocPanics(AreaFrames(p)) THEN Panic("dealloc")
     ELSE /\ status' = [status EXCEPT ![p] = "zombie"]
          /\ alloc_dealloc(0, AreaFrames(p))
          /\ areas' = [areas EXCEPT ![p] = <<>>]
          /\ UNCHANGED <<mem, ptes, tables, kernel_stack, spaces, halted>>
  /\ UNCHANGED brkVars

\* waitpid drops the TCB: the kernel stack first, then the MemorySet.
reap(p) ==
  LET back == kernel_stack[p] \o SpaceFrames(p)
  IN /\ halted = "no" /\ status[p] = "zombie"
     /\ IF DeallocPanics(back) THEN Panic("dealloc")
        ELSE /\ status' = [status EXCEPT ![p] = "absent"]
             /\ alloc_dealloc(0, back)
             /\ ptes' = [ptes EXCEPT ![p] = NoPages]
             /\ tables' = [tables EXCEPT ![p] = <<>>]
             /\ kernel_stack' = [kernel_stack EXCEPT ![p] = <<>>]
             /\ UNCHANGED <<mem, areas, spaces, halted>>
     /\ heap_bottom' = [heap_bottom EXCEPT ![p] = 0]
     /\ program_brk' = [program_brk EXCEPT ![p] = 0]

-----------------------------------------------------------------------------
\* TaskControlBlock::new for the initial process.
Init ==
  \E n \in Programs :
    LET rs == ElfAreas(n)
        k == FramesNeeded(rs)
        s == [i \in 1..(k + KstackPages) |-> i - 1]
        new == NewAreas(rs, s)
        pm == PageMap(new)
        Only(x, y) == [p \in Proc |-> IF p = First THEN x ELSE y]
    IN /\ current = k + KstackPages /\ recycled = <<>>
       /\ mem = [f \in Frame |-> IF \E v \in 0..(n - 1) : pm[v] = f THEN 1 ELSE 0]
       /\ status = Only("run", "absent")
       /\ ptes = Only(pm, NoPages)
       /\ tables = Only(TableFrames(s), <<>>)
       /\ areas = Only(new, <<>>)
       /\ kernel_stack = Only(SubSeq(s, k + 1, k + KstackPages), <<>>)
       /\ heap_bottom = Only(user_sp(n) * PAGE_SIZE, 0)
       /\ program_brk = Only((user_sp(n) + 1) * PAGE_SIZE, 0)
       /\ spaces = 0
       /\ halted = "no"

Stopped == halted # "no" /\ UNCHANGED vars

Next ==
  \/ \E p \in Proc :
       \/ \E v \in Stores, x \in Val : Write(p, v, x)
       \/ \E c \in Proc : fork(p, c)
       \/ \E c \in Proc, n \in Programs : spawn(p, c, n)
       \/ \E n \in Programs : exec(p, n)
       \/ \E a \in 1..((Top - 1) * PAGE_SIZE) : sys_brk(p, a)
       \/ exit(p)
       \/ reap(p)
  \/ Stopped

Spec == Init /\ [][Next]_vars

-----------------------------------------------------------------------------
(* Properties.                                                             *)

MapArea == [start : VPN, end : 0..(Top + 1),
            data_frames : [VPN -> Frame \union {None}]]

\* The type invariant: the allocator stays in its range and everything that
\* holds frames holds frames of it.
TypeOK ==
  /\ current \in 0..NFrames /\ recycled \in Seq(Frame)
  /\ mem \in [Frame -> Val]
  /\ status \in [Proc -> {"absent", "run", "zombie"}]
  /\ ptes \in [Proc -> [VPN -> Frame \union {None}]]
  /\ tables \in [Proc -> Seq(Frame)] /\ kernel_stack \in [Proc -> Seq(Frame)]
  /\ areas \in [Proc -> Seq(MapArea)]
  /\ heap_bottom \in [Proc -> Nat] /\ program_brk \in [Proc -> Nat]
  /\ spaces \in 0..MaxSpaces
  /\ halted \in {"no", "frame_alloc", "dealloc", "VPNRange", "map"}

\* Everything that holds frame f: the recycle stack, page tables, areas and
\* kernel stacks.
Holders(f) ==
  {<<"recycled", i>> : i \in {i \in 1..Len(recycled) : recycled[i] = f}}
  \union (UNION {{<<"tables", p, i>> : i \in {i \in 1..Len(tables[p]) : tables[p][i] = f}} : p \in Proc})
  \union (UNION {{<<"stack", p, i>> : i \in {i \in 1..Len(kernel_stack[p]) : kernel_stack[p][i] = f}}
                   : p \in Proc})
  \union (UNION {UNION {{<<"data", p, j, v>> : v \in {v \in VPN : areas[p][j].data_frames[v] = f}}
                          : j \in 1..Len(areas[p])} : p \in Proc})

\* Frames are neither lost nor shared: each frame that was ever handed out is
\* held exactly once (the FrameTrackers of fork, exec, exit and the drop of a
\* TCB), and the panic of dealloc is not reached.
FramesConserved ==
  /\ \A f \in Frame : IF f < current THEN \E h \in Holders(f) : Holders(f) = {h}
                                     ELSE Holders(f) = {}
  /\ halted # "dealloc"

\* An area holds one frame for each of its pages, and a running process maps
\* exactly the pages of its areas, each in one area only, to these frames: no
\* entry of its page table is left for a frame that has gone back to the
\* allocator.
MappedFramesHeld ==
  \A p \in Proc :
    /\ \A j \in 1..Len(areas[p]), v \in VPN :
         areas[p][j].data_frames[v] # None <=> v \in AreaPages(areas[p][j])
    /\ status[p] = "run" => Disjoint(areas[p]) /\ ptes[p] = PageMap(areas[p])

\* Frames, the areas that hold them and the entries that map them agree.
MemorySound == TypeOK /\ FramesConserved /\ MappedFramesHeld

\* What from_elf sets up, and what a process sees of its memory.
ElfImages ==
  {[v \in VPN |-> IF AreaOf(ElfAreas(n), v) = {} THEN None ELSE ElfContent(n)[v]] : n \in Programs}
Space ==
  [p \in Proc |-> [v \in VPN |->
    IF status[p] = "run" /\ ptes[p][v] # None THEN mem[ptes[p][v]] ELSE None]]

Memory == INSTANCE PrivateMemory WITH Zero <- 0, Images <- ElfImages, space <- Space

\* The frames implement private memory: a process reads what it, or the parent
\* it was forked from, last wrote, and new pages are zero.
PrivateSpec == Memory!PrivateSpec
=============================================================================
