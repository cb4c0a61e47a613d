# A TLA+ model of bitos

bitos is a kernel for one RISC-V hart (`os/`), a FAT32 crate (`fat32/`), a small user library with
an initial process and a shell (`user/`) and an image builder (`modify-img/`). This directory holds
TLA+ modules translated from that source, the TLC runs that check them on small instances, and TLAPS
proofs for arbitrary instances. `PROJECT.json` maps each definition to the lines that it models and
lists runs, mutants, hazards, findings and theorems.

## 1. The system

The kernel is not preemptible. A trap taken in kernel mode panics, so the code from a trap to the
next switch or return to user mode is one atomic step as far as other tasks can see, and a blocking
call is a loop around `suspend_current_and_run_next`. Concurrency is the interleaving of tasks at
those points. A release build is modelled.

| Part | State | Operations | What is hard |
|---|---|---|---|
| Processes (`os/src/task`, `syscall/process.rs`) | task control blocks (TCBs), parent and children references, ready queue, current task, two identifier allocators | fork, spawn, exit, waitpid, yield, dispatch | reference counts and borrow checks that are only tested at run time; children that exit while their parent exits |
| Scheduler (`task/manager.rs`) | stride and priority of a task | fetch, set_priority | starvation, ties, new tasks |
| Pipes (`fs/pipe.rs`) | ring buffer, two kinds of ends | read, write, close, dup, dup3, fork, exit | suspension in the middle of a transfer, end of file |
| Memory (`mm`, `task.rs`) | free frames, page tables, areas, heap bounds | from_elf, fork, exec, brk, exit, reap | ownership of frames, stale entries, recycled content |
| mmap, munmap (`syscall/process.rs`) | page table entries | the two calls | they bypass the areas |
| Page tables, access to user memory (`mm/page_table.rs`, `address.rs`) | tables of three levels in frames | map, unmap, translate, copies to programs | frames that change between table and data; buffers across pages |
| Block caches (`fat32/src/block_cache.rs`) | two queues, disk | get, modify, evict, write back | one block in two caches; what is on the disk when the machine stops |
| FAT32 (`fat.rs`, `layout.rs`, `vfs.rs`, `fs/inode.rs`) | FAT, FSInfo, directory, open files | open, read, write, close, unlink | hints, chains, offsets of other opens |
| Directories, paths, working directory (`vfs.rs`, `fs/inode.rs`) | slots of directories, `pwd` | open, mkdir, chdir, unlink, ls | long names, relative paths, what a removal leaves behind |
| Descriptor tables (`syscall/fs.rs`, `task.rs`) | `fd_table` | open, dup, dup3, close, pipe2, fork, spawn, exit | holes, sharing, reuse of numbers |
| Libraries in `dependencies/` | heap, lock words, virtqueue | the buddy allocator, `spin`, `virtio-drivers` | merging; threads that race on one word; a device that runs at the same time |
| Standard input and output, clock, traps, dispatch of system calls, start-up, user programs, image builder | - | - | device I/O, assembly, or no state of their own |

Tasks own address spaces and descriptor tables; pipe ends are counted over the descriptor tables of
tasks; files are reached from descriptors through `OSInode` and `VFile`, which use the FAT, which
uses the caches, which use the disk, which is a virtio device. Kernel and programs allocate from a
buddy heap; the FAT32 crate and the static variables use locks of `spin`.

## 2. Modules

Each component module has the code's state as variables, one action per call or loop step, and names
from the source. Definitions called `..._kept`, `..._unchecked` and the like are faulty variants,
used only to show that a property can fail.

| Module | Models | Notes |
|---|---|---|
| `Lists` | `Vec` and `VecDeque` | the sequence operators that several modules share |
| `RecycleAllocator` | `task/id.rs` | operators on the allocator's value; PIDs and kernel stacks use one each |
| `TaskManager` | `task/*.rs`, waitpid | a step runs from a trap to the next switch or return. `current = None` is the idle loop. fetch may take any queued task. `halted` names the panic that stopped the machine |
| `StrideScheduler` | `manager.rs`, `update_stri`, `sys_set_priority` | extends `TaskManager`; fetch takes the smallest stride, the last such task in the queue. Strides are kept relative to the one fetched last |
| `PipeFifo` | - | abstract: a bounded queue of bytes with an end of file |
| `Pipe` | `fs/pipe.rs`, the calls of `syscall/fs.rs` on pipes | one step per byte while `cpu` names the process in the call |
| `PrivateMemory` | - | abstract: each process has a memory of its own, zero where new, copied by fork |
| `MemorySet` | `frame_allocator.rs`, `memory_set.rs`, `page_table.rs`, brk | a page holds one value; three frames stand for the page tables of a process |
| `Mmap` | `sys_mmap`, `sys_munmap` | extends `MemorySet` |
| `UserMemory` | - | abstract: each address space is an array of bytes per page |
| `PageTable` | `page_table.rs`, `address.rs`, `MapArea::map_one` | tables and data are cells of the same frames; addresses keep their width and sign extension. The pointers that programs pass are canonical |
| `Descriptors` | - | abstract: maps from descriptors to files, the lowest free number first |
| `FdTable` | `alloc_fd`, the calls of `syscall/fs.rs` on `fd_table`, fork, spawn, exit | a table is a sequence with holes. Its steps are also shown to be those that `Pipe` has for the ends of a pipe |
| `BlockStore` | - | abstract: blocks hold what was last written, and reach the disk later; small allocations are handed out with zeros |
| `BlockCache` | `block_cache.rs` and its callers in `fat.rs`, `vfs.rs` | two queues over one disk; a data block changes between the two when its cluster is freed and used again. `last` is a history of what was written |
| `FileStore` | - | abstract: the contents of files |
| `Fat32` | `fat.rs`, FAT and FSInfo of `layout.rs`, `vfs.rs`, `fs/inode.rs` | the root directory with short names; a call is a step |
| `NameSpace` | - | abstract: a set of names, each in a directory |
| `DirTree` | `vfs.rs`, directory entries of `layout.rs`, `open_file`, `chdir`, mkdirat, unlinkat | directories as sequences of slots, long names as several slots, paths as sequences of names. A removed directory loses its slots, whatever they hold. A panic ends the behaviour, and so does a call that goes through a position in freed clusters (`stale`) |
| `Allocator` | - | abstract: blocks that are aligned, in the pool and held by one caller |
| `BuddyHeap` | `buddy_system_allocator` | `Heap` with its free lists, and the allocation with a rescue |
| `Guards` | - | abstract: a writer is alone, readers share, one upgradeable guard |
| `TicketMutex`, `FairMutex`, `SpinRwLock`, `SpinOnce`, `SpinBarrier` | `spin` 0.9.8 | every atomic access is a step; memory is sequentially consistent. The system uses the plain mutex, read and write guards of the readers-writer lock and, behind `lazy_static`, `Once`; the ticket mutex (behind a feature flag), the fair mutex, upgradeable guards and the barrier are modelled as library code |
| `SpinLocks` | - | a behaviour of one of the five, and their properties |
| `BlockRequests` | - | abstract: requests that are carried out once and then reported |
| `VirtQueue` | `queue.rs` and `device/blk.rs` of `virtio-drivers` | filling descriptors, publishing the index and the decision to notify are steps; the device is external |
| `MC...` | - | instances for TLC, where a configuration alone is not enough |
| `SequenceLemmas`, `TaskManagerProofs`, `PipeProofs`, `SpinProofs`, `MemorySetProofs`, `PageTableProofs`, `FdProofs`, `BlockCacheProofs` | - | theorems |

`StrideScheduler` implements `TaskManager`, `Pipe` `PipeFifo`, `MemorySet` `PrivateMemory`,
`PageTable` `UserMemory`, `FdTable` `Descriptors`, `BlockCache` `BlockStore`, `Fat32` `FileStore`,
`DirTree` `NameSpace`, `BuddyHeap` `Allocator`, the three locks `Guards` and `VirtQueue`
`BlockRequests`; each mapping is an `INSTANCE ... WITH` at the end of the detailed module.

## 3. Runs

Ten runs pass.

* **tasks** - the initial process and two more, every order of fork, exit, waitpid, suspended calls
  and dispatch. Every runnable task is in exactly one place (`OnePlace`), the run-time checks of the
  kernel never fail (`NoAssertFails`: the strong count in waitpid, the allocator, the unwrap in
  fetch), PIDs are unique and in step with kernel stacks (`IdsInStep`), parents and children
  form a tree (`FamilyTree`), a waiter keeps its child (`WaiterHasChild`), only a running parent
  frees a zombie (`OnlyParentReaps`), and a waitpid that has something to reap returns
  (`WaitReturns`). A parent that asks again and again for a child, by its PID or for any, reaps it
  once it has exited, children that exit re-parented to it included (`ChildrenReaped`); the asking
  is the premise of the property, because `TaskManager` lets programs do anything. The initial
  process of the running system is the shell, which asks only for the child that it has just forked
  (see the deviations). Three cells are
  enough for a parent that exits between a grandparent and a child and for recycled identifiers; the
  theorems cover any number.
* **stride** - the same three cells with strides. A task is ahead of one that stayed runnable by at
  most its last step and priorities stay above 1 (`StrideSound`), and the scheduler implements the fair process manager
  (`FairSpec` of `TaskManager`). `MaxBase` bounds the stride up to which tasks are created: a task
  created at a later time starts further behind, and the older ones wait longer.
* **pipe** - two processes, duplicated descriptors, a ring of two bytes and buffers of up to three,
  so that a write must suspend in the middle. `PipeInv` (the status agrees with the indices, the loops
  with what is in the ring, and who is in a call has a descriptor of its end), `FifoSpec` (the
  refinement), `EofReturns` and `NoStandoff`.
* **memory** - two processes, two programs of different size, pages of two units, so few frames that
  memory runs out. `MemorySound` (each frame is free or has one holder, `FramesConserved`, and the
  entries of a process are the frames of its areas, `MappedFramesHeld`) and `PrivateSpec`.
* **mmap** - partial mappings and unmappings in between. `FramesConserved` still holds.
* **tables** - two kinds of tables, a behaviour has one of them. Page tables: two address spaces, two
  pages that share upper tables, eight frames, fan-out and page size two. `TablesSound` (each frame
  has one owner, a walk stays in tables of its space, and the leaves are the pages of the areas) and `UserSpec` (private arrays of bytes, copies across page boundaries included).
  Descriptor tables: two tasks, tables of up to three places with one standard stream (the code has
  three), two files. `DescriptorsSpec` and `EndsAsInPipe`, which is what *pipe* takes for granted.
* **files** - two layers of the file system, a behaviour has one of them. Blocks: caches of two entries
  over three blocks, allocations of up to three. `CachesSound` (an entry in use is not evicted and the
  queues keep their size), `ReadsLatest` (a block in use reads as it was last written, whichever of
  the caches or the disk has it) and `StoreSpec`, which also says what is on the disk: a block there
  holds what it held before or what was last written to it. So a loss of power or `sys_shutdown`,
  which writes nothing back, leaves in each block contents that it once had, but of no common moment,
  and how much is lost is not bounded. An allocation that fits the data cache is handed out with
  zeros; for a larger one `StoreSpec` leaves open what the blocks hold (see *cache_clear*). Files: two
  names, two open files, three free clusters of two units. `FatSound` (chains are disjoint, end, and
  are as long as the sizes ask; the count of FSInfo is never below the clusters that are free) and
  `FilesSpec`. Both hold up to a search that leaves the FAT, where the model stops.
* **tree** - up to three entries, two long names that share a chunk and the generated short name, a
  short name, absolute and relative paths and "..". `ScansAgree` (a search finds the first live
  entry with the name and nothing else, and ls lists what searches find), `TreeSpec` and
  `DotDotLeadsBack`. Directories are removed empty or not, open or not, as the code does it: the names
  below go with them. Programs never create or remove "..", and have one descriptor.
* **libraries** - six kinds of behaviours. Three threads on a ticket mutex (`TicketsOwned`,
  `GuardsSpec`, `EveryTicketServed`), a fair mutex, a readers-writer lock, a Once or a barrier:
  lock words count the guards and the starving threads, a Once gives out initialised values only and
  nobody is two rounds of a barrier ahead (`SpinSound`); guards exclude each other (`LockGuards`);
  a starving thread comes first (`StarverFirst`); nobody is left in a Once or a barrier
  (`SpinEnds`). Or the buddy heap with an unaligned range and one that a rescue adds: `HeapSound`
  (blocks partition the memory, the statistics agree, requests fail only for want of a block) and
  `AllocatorProperty`.
* **virtqueue** - a read and a write, of one of two values, with and without indirect descriptors and
  event indices, an index that wraps after eight. Queues of eight descriptors hold both requests; one
  of four direct ones is full with one, and the other request has to wait. `QueueSound` (descriptors are neither lost nor
  shared, and the device sees only complete chains) and `RequestsSpec`. Deadlock is checked: no request waits for a
  notification that was not sent.

Two runs show where the code departs from what it says of itself:

* **mmap_free** - the frame behind a page of `sys_mmap` is on the free list, although `alloc` is
  documented to hand out a new frame.
* **cache_clear** - `NewClustersZero`: the comment on `clear_cluster` says that it empties the cluster.
  `alloc_cluster` clears through the data cache only. When it clears more blocks than that cache holds,
  the first zeros are evicted to the disk, and the write back at the end of the call drops the info
  cache before the data cache: a modified entry that is left there from a former use of the block as a
  directory covers the zeros. The counterexample has six states.

### Known deviations without a run

These were met while modelling. Those of orphans, the break, the search for a
cluster, pipes, munmap, unlinked files, removed directories, paths and long entries are in the models, as they are or as the
stop that ends the behaviour, as is `ppid`; the others are outside them.

* `getppid` returns the PID of a parent that has exited: exit re-parents the children and leaves
  `ppid` alone.
* Growing, shrinking and growing the break can fail the assertion in `SimpleRange::new`.
* Orphans are never reaped: exit hands them to `INITPROC`, which is `ch6b_user_shell`, and the shell
  waits only for the child that it has just forked. Their PIDs, kernel stacks and TCBs stay taken.
  (`ch6b_initproc`, which waits for any child, is not started.)
* Clusters freed behind the hint are counted and never found, so that the search can leave the FAT.
* `sys_get_time` writes through the first slice of the buffer only, and `translated_ref` and
  `translated_refmut` translate the first byte of a value only.
* A writer to a pipe without readers polls for ever, and a read waits for its whole buffer.
* A growth of the break by at most a page maps nothing.
* `munmap` can clear an entry that a later fork unwraps.
* A write through a descriptor to an unlinked file allocates clusters that nobody frees.
* `generate_short_name` reads six bytes of a name that may be shorter.
* `remove` frees the clusters of a directory that has entries or is open. A descriptor of what was in
  it, and the ".." of a directory below it, then lead to whatever is there now; the clusters of the
  files below are never freed.
* `update_sys` takes `self` by value, so that the system time is never recorded.
* Outside the root, `chdir` looks its argument up from the root, twice; `unlink` ignores the working
  directory; `create` does not look for an entry of the same name.
* `find_long_name` remembers positions one byte apart. A removal therefore damages the first long
  entry only, which is enough for the search, and panics when that entry is the last of a sector.

Other things met while modelling are part of the models: the exit of the
initial process borrows its own TCB twice; spawn and exec keep the heap bounds of another program;
removing an empty file frees cluster 0; an absolute path that does not exist becomes one name; the
comment on `TaskManager` calls a stride scheduler FIFO.

### Bounds

`|TCB|`, `|Proc|`, `MaxSpaces`, `NFrames`, `MaxBase`, `MaxLen`, `MaxFd`, `LastCluster`, `MaxEntries`,
`MaxOffset`, `MaxMaps`, `MaxCopies`, `MaxFds`, `MaxFiles`, `MaxNodes`, `MaxPwd`, `MaxTicket`,
`MaxRounds` and the `SIZE` in `Setups` are named constants. Each is chosen so that the limit is met inside the run:
TCBs and frames run out and are recycled, the ring wraps and fills, caches evict, clusters run out,
table places are reused, a directory entry crosses a sector, tickets are drawn by all threads while
one holds the lock, a queue is full, indices wrap. Symmetry is used for interchangeable values only:
blocks of clusters, names and handles in *files*, address spaces and tasks in *tables*; neither run
checks liveness.

### Fairness

* `WF(run_tasks)`, and weak fairness of the step of the running task out of a call or back to the
  idle loop: the kernel runs on. A running program is not forced to make a call; the timer forces
  `Yield`.
* `TaskManager` assumes that a task that is queued again and again is dispatched (`SF(DispatchOf)`).
  This is not assumed of the code: the run *stride* derives it from weak fairness and the strides,
  for priorities with a step of at least one.
* `Pipe` assumes strong fairness of `Resume` for the same reason.
* The locks assume that a thread that holds one releases it and that a thread whose ticket is served,
  whose initialiser runs or who is in a barrier goes on. A thread that only spins is not given
  strong fairness: that every ticket is served follows from the order of the tickets.

## 4. Proofs

`tlapm` checks eight modules. Nothing is assumed but the named `ASSUME`s on constants, which TLC
evaluates in the runs.

* **`TaskManagerProofs`.** For any finite set of TCBs, `IInv` is inductive. The checked invariants
  alone are not: that waitpid's assertion holds needs that a zombie is neither queued nor current
  (`OnePlace`) and is in one children list only (`FamilyTree`); that `dealloc` does not fail needs
  `PidsDistinct`, which needs that the recycle stack has no repetition and lies below the mark
  (`AllocatorOK`); that re-parented zombies still have a live parent needs that the initial process
  has not exited, and that waiters are runnable (`CallersRunnable`). Theorems: `TypeCorrect`,
  `TasksHaveOnePlace`, `AssertionsHold`, `IdentifiersUnique`, `ProcessesFormTree`,
  `WaitersKeepChildren` and the action property `ReapedByParent`. For the scheduler,
  `StrideImplementsTaskManager`: each of its steps is a step of the process manager, so these
  theorems carry over; and `StridesStayClose`: `StrideSound` for all priorities and numbers of tasks,
  with the history of who was queued at a dispatch.
* **`PipeProofs`.** `PipeInvariance`: `PipeInv` is inductive. `PipeImplementsFifo`: the ring with its
  three-valued status implements the bounded FIFO for every buffer size and any set of processes. The
  proof rests on lemmas that one byte more or less in the ring is `Append` or `Tail` of its contents.
* **`MemorySetProofs`.** For any number of processes, frames, programs and pages. `FrameInv` says that
  a frame is recycled, never handed out, or in exactly one place of one process, each once; it is
  inductive for fork, exec, brk, exit, reaping, `sys_mmap` and `sys_munmap`, because it says nothing
  of page table entries (`FramesAlwaysConserved`). With entries it takes more: areas do not overlap
  and the entries of a running process are exactly the frames of its areas (`PageInv`). From it
  `MemoryAlwaysSound`, and `FramesImplementPrivateMemory`: two processes that write to shared
  physical memory have private memories, because no frame has two holders.
* **`PageTableProofs`.** For any number of address spaces, fan-out, page size and frames.
  `TablesAlwaysSound`: `TablesSound` follows from `PageInv`, which says who owns each frame (free, a
  table of one space or a page of one, once: `Owner`) and that the cells of the tables of a space are
  a tree whose leaves are its pages (`Live`). `TablesSound` alone is not inductive: it says where a walk ends,
  not which frames it goes through, so that a new table might be linked twice. With ownership, what
  one space writes to its tables and what is copied to a program, which goes to frames of pages only,
  leaves the tables of every other space as they were. The loops over buffers and pages are recursive
  functions; the module proves induction over a set of numbers, and from it what such functions return.
* **`FdProofs`.** For any number of tasks, files and descriptors. `TablesImplementMaps`: sequences with
  holes implement maps that give out the lowest free number; `FdInv` bounds the files that tables may
  name, and `Least` is the existence of that number. `EndsAreAsInPipe`: whatever the calls do to the
  tables, to the ends of a pipe it is a step of `Pipe` or none. It needs `EndInv`: only descendants of
  the task that made the pipe can name its ends.
* **`BlockCacheProofs`.** For any number of blocks and every cache size above one.
  `GuardedEntriesStay` (`CachesSound`): a full queue without repetitions has an entry besides the one
  that is held, so `get_block_cache` finds one to evict and never the one that is in use.
  `ReadersSeeLatest` (`ReadsLatest`) and `CachesImplementStore` (`StoreSpec`) need `StoreIInv`: which
  of two caches and the disk has the last value of a block, through every change of its use. While an
  allocation has cleared no more blocks than the data cache holds (`Fits`), the zeros of each are in
  the data queue, or on the disk with no entry of the info queue left to cover them (`Zeroed`); that
  they are not evicted too early is a count of the queue (`ZerosAtEnd`, `ZerosStay`). Beyond that
  size the theorems say nothing of zeros, and *cache_clear* shows why.
* **`SpinProofs`.** For any number of threads. `TicketsOwnedAlways`: the tickets from the one served to
  the last one drawn belong to one thread each; from it `TicketExcludes`. `SpinAlwaysSound`
  (`SpinSound`), `LocksExclude` (`LockGuards`) and `StarversFirst` rest on one invariant per
  primitive: the word of a `FairMutex` or `RwLock` is the sum of what the threads have added to it,
  attempts that will be undone included (`FairInv`, `RwInv`); one thread builds a `Once` while its
  status is Running (`OnceInv`); every thread is in the current generation of a `Barrier` or has yet
  to leave the one before (`BarrierInv`).
* **`SequenceLemmas`** has the facts about sequences, and about sequences without repetition, that
  these use.

Only model-checked:

* liveness (`WaitReturns`, `ChildrenReaped`, `EofReturns`, `NoStandoff`, `EveryTicketServed`,
  `SpinEnds`, the fairness in `FairSpec`), which is out of the prover's reach;
* `HeapSound`, `AllocatorProperty`, `QueueSound` and `RequestsSpec`: `BuddyHeap` and `VirtQueue` split
  and merge blocks and follow descriptor chains with recursive operators, in whose modules the prover
  has no SMT backend;
* `FatSound`, `FilesSpec`, `ScansAgree`, `DotDotLeadsBack` and `TreeSpec`: `Fat32` and `DirTree` walk
  cluster chains, slots and paths with recursive functions, and what each returns after each call is
  an induction of its own, which has not been done;
* `UserSpec`: `TablesAlwaysSound` shows that copies reach only frames of pages, but not that the byte
  of each position reaches its address.

## 5. What is left out

Data is abstract: a page, a block and a unit of a file hold one small value. Permission bits,
register contexts, formatting and device registers are not modelled. The clock only decides when a
sleeper may go on. The wrap of the 64-bit stride is out of reach of any run of the machine. What
happens after the scan of the FAT has left the table, after a panic, and to a program that stores
through a page of `sys_mmap` is not modelled. Clusters of sub-directories are not: `Fat32` has
clusters and one directory, `DirTree` has directories and no clusters.

### Not modelled

* **Standard input and output, clock, traps, context switch, dispatch of system calls, start-up,
  logging, SBI calls.** Device I/O, assembly, tables from numbers to handlers, or code that runs once
  before there is anything to interleave with. What they do to other parts (suspension, the timer,
  panics) is in the modules of those parts.
* **Mount and umount2** look up names and return. **getcwd, getdents64, fstat, uname, times** report
  state to the program; the copies they make are those of `PageTable`.
* **User programs and shell** are arbitrary callers of the system calls. Only `wait` and `waitpid` of
  their library appear, in the premise of `ChildrenReaped`.
* **Image builder** and the libraries that only it links (`clap`, `fatfs`, `rand`): a sequential host
  tool that parses arguments and copies files.
* **`xmas-elf`, `log`, `bitflags`, `lock_api`, `scopeguard`, `lazy_static`**: parsing, macros, traits
  and wrappers without a protocol. `lazy_static` is `SpinOnce`.
* **The rest of `virtio-drivers`** (console, GPU, input, network, sound, sockets, PCI): the kernel has
  no such device. The kernel's manifest names revision 4ee80e5 of the upstream repository; the queue
  that is modelled is the copy in `dependencies/`. Between the store of the available index and the
  load of `avail_event` the code has no fence; the model is sequentially consistent, so what weaker
  hardware makes of it is not shown.
* **The frame allocator of the buddy crate**, `downgrade_to_upgradeable` of the readers-writer lock,
  `Bitmap` of the FAT32 crate: nothing uses them. `spin` 0.7.1, which the FAT32 crate links, has the
  readers-writer lock of 0.9.8.

Nine tenths of the lines below `src/` are in `dependencies/`, and most of those are argument parsing,
number generation, device definitions, macros and tests. The parts of them with a protocol that this
system relies on are modelled, and some locks beside them; of `os/` and `fat32/` about two fifths of the
lines are mapped. What remains there is I/O, formatting and getters, listed above.

## 6. Further work

`FatSound` is within reach of a proof along the lines of `PageTableProofs`: chains that share no
cluster, in place of trees that share no frame. `UserSpec` needs in addition where the slices of a
buffer begin and end. A composition of `Fat32` and `DirTree` would add the clusters of sub-directories.
