-------------------------------- MODULE Mmap --------------------------------
(***************************************************************************)
(* sys_mmap and sys_munmap on top of MemorySet.  They work on page table   *)
(* entries only and know nothing of areas: sys_mmap drops the FrameTracker *)
(* of each page at the end of the iteration that maps it.                  *)
(*                                                                         *)
(* The bytes that sys_mmap reads from the file are left out, and so are    *)
(* pages under tables that do not exist yet and the stores of programs: a  *)
(* store to such a page may reach a frame that has become a page table.    *)
(***************************************************************************)
EXTENDS MemorySet

CONSTANTS
  Gap,        \* pages between the break and a mapping without an address
  MaxPages,   \* pages of one call
  Starts      \* pages whose addresses programs pass

ASSUME MmapAssumption == {Gap, MaxPages} \subseteq Nat /\ Starts \subseteq 0..(Top - 1)

\* The page at which a call with start address 0 maps.
DefaultStart(p) == program_brk[p] \div PAGE_SIZE + Gap

\* Faulty variant: the tracker of a page that is mapped already is forgotten.
LoopFrames_forgotten(done, n) ==
  alloc_dealloc(1, IF done = n THEN <<Supply[1]>> ELSE <<>>)

\* Each iteration of the loop takes a frame and drops it again, whether it
\* maps it or not: all of them get the same one.
LoopFrames(done, n) == alloc_dealloc(1, <<Supply[1]>>)

\* sys_mmap maps done of n pages: it returns at the first page that is mapped
\* already and leaves the pages before it mapped.  A bad descriptor is found
\* after the loop.
sys_mmap(p, start, n) ==
  /\ Running(p)
  /\ start + n <= Top
  /\ IF Supply = <<>> THEN Panic("frame_alloc")
     ELSE /\ \E done \in 0..n :
               LET new == start..(start + done - 1)
               IN /\ \A v \in new : ptes[p][v] = None
                  /\ done < n => ptes[p][start + done] # None
                  /\ LoopFrames(done, n)
                  /\ ptes' = [ptes EXCEPT ![p] = [v \in VPN |-> IF v \in new THEN Supply[1] ELSE @[v]]]
          /\ mem' = [mem EXCEPT ![Supply[1]] = 0]
          /\ UNCHANGED <<status, tables, areas, kernel_stack, spaces, halted>>
  /\ UNCHANGED brkVars

\* sys_munmap clears entries up to the first page that is not mapped.
sys_munmap(p, start, n) ==
  /\ Running(p)
  /\ start + n <= Top
  /\ \E done \in 0..n :
       /\ \A v \in start..(start + done - 1) : ptes[p][v] # None
       /\ done < n => ptes[p][start + done] = None
       /\ ptes' = [ptes EXCEPT ![p] = [v \in VPN |-> IF v \in start..(start + done - 1) THEN None ELSE @[v]]]
  /\ UNCHANGED <<allocVars, mem, status, tables, areas, kernel_stack, brkVars, spaces, halted>>

\* from_existed_user copies every page of every area of the parent; the entry
\* of a page that sys_munmap has cleared names frame 0, which the kernel does
\* not map.
fork_areas(p, c) ==
  IF \A v \in VPN : AreaOf(areas[p], v) # {} => ptes[p][v] # None
  THEN fork(p, c)
  ELSE /\ Running(p) /\ status[c] = "absent"
       /\ Panic("trap_from_kernel")
       /\ UNCHANGED brkVars

MmapNext ==
  \/ \E p \in Proc :
       \/ \E n \in 1..MaxPages :
            \/ \E start \in Starts \union {DefaultStart(p)} : sys_mmap(p, start, n)
            \/ \E start \in Starts : sys_munmap(p, start, n)
       \/ \E c \in Proc : fork_areas(p, c)
       \/ \E c \in Proc, n \in Programs : spawn(p, c, n)
       \/ \E n \in Programs : exec(p, n)
       \/ \E a \in 1..((Top - 1) * PAGE_SIZE) : sys_brk(p, a)
       \/ exit(p)
       \/ reap(p)
  \/ Stopped

MmapSpec == Init /\ [][MmapNext]_vars

-----------------------------------------------------------------------------
\* alloc returns "a new physical frame": no frame that it can hand out is
\* mapped by a process that runs.
FreeFramesUnmapped ==
  \A p \in Proc : status[p] = "run" =>
    \A v \in VPN : ptes[p][v] # None => ~Contains(Supply, ptes[p][v])
=============================================================================
