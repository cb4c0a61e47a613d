------------------------------ MODULE BlockCache ------------------------------
(***************************************************************************)
(* The two block caches of the FAT32 crate (fat32/src/block_cache.rs) and  *)
(* the way the crate uses them: FSInfo, the FAT and directories go through *)
(* INFO_CACHE_MANAGER, files and the zeros of new clusters through         *)
(* DATA_BLOCK_CACHE_MANAGER.  A cluster changes between the two when it is *)
(* freed and allocated again.                                              *)
(*                                                                         *)
(* A block holds one value.  The kernel runs one file system call at a     *)
(* time; a step is one call of get_info_cache, get_block_cache or          *)
(* write_to_dev.                                                           *)
(***************************************************************************)
EXTENDS Lists, FiniteSets

CONSTANTS
  Meta,       \* blocks of FSInfo and the FAT
  Data,       \* blocks of clusters
  Val,
  None,
  BLOCK_CACHE_SIZE

ASSUME CacheAssumption ==
  /\ Meta \intersect Data = {} /\ None \notin Meta \union Data
  /\ BLOCK_CACHE_SIZE \in Nat \ {0, 1}
  /\ 0 \in Val /\ None \notin Val

Block == Meta \union Data

VARIABLES
  device,     \* the disk
  info, data, \* the queues of the two managers
  pinned,     \* block whose entry a guard holds, or None
  use,        \* of Data blocks: "free", "cleared", "file" or "dir"
  halted,     \* the panic of get_block_cache
  last        \* history: what was last written to a block that is in use (what
              \* the disk holds when it comes into use), or None

vars == <<device, info, data, pinned, use, halted, last>>

Entry == [id : Block, val : Val, modified : BOOLEAN]

-----------------------------------------------------------------------------
(* BlockCacheManager.  q is a queue, and held the blocks in it whose Arc   *)
(* is in use elsewhere.                                                    *)

Cached(q, b) == \E i \in 1..Len(q) : q[i].id = b
Index(q, b) == CHOOSE i \in 1..Len(q) : q[i].id = b

\* What a reader of b sees.
Lookup(q, b) == IF Cached(q, b) THEN q[Index(q, b)].val ELSE device[b]

\* Faulty variant: the entry is not marked as modified.
Modify_unmarked(q, b, v) == [q EXCEPT ![Index(q, b)].val = v]

\* The queue after a modification of b.
Modify(q, b, v) == [q EXCEPT ![Index(q, b)] = [id |-> b, val |-> v, modified |-> TRUE]]

\* The disk after sync of the entries of q with indices in I.
Sync(q, I) ==
  [b \in Block |-> IF \E i \in I : q[i].id = b /\ q[i].modified
                   THEN Lookup(q, b) ELSE device[b]]

Full(q) == Len(q) = BLOCK_CACHE_SIZE

\* Faulty variant: an entry is evicted whether it is held or not.
Unheld_any(q, held) == 1..Len(q)

Unheld(q, held) == {i \in 1..Len(q) : q[i].id \notin held}

\* get_block_cache(b): the first entry that is not held makes room, and is
\* written to the disk when it is dropped.
RunsOut(q, held, b) == ~Cached(q, b) /\ Full(q) /\ Unheld(q, held) = {}
Evicted(q, held, b) ==
  IF Cached(q, b) \/ ~Full(q) THEN {}
  ELSE {i \in Unheld(q, held) : \A j \in Unheld(q, held) : i <= j}
Get(q, held, b) ==
  LET E == Evicted(q, held, b)
      rest == IF E = {} THEN q ELSE RemoveAt(q, CHOOSE i \in E : TRUE)
  IN IF Cached(q, b) THEN q
     ELSE Append(rest, [id |-> b, val |-> device[b], modified |-> FALSE])

\* Access to b through the info cache and the data cache.  v is None for a
\* read, and what is written otherwise.
Store(q, b, v) == IF v = None THEN q ELSE Modify(q, b, v)
get_info_cache(b, v) ==
  IF RunsOut(info, {pinned}, b)
  THEN halted' = TRUE /\ UNCHANGED <<device, info, data>>
  ELSE /\ info' = Store(Get(info, {pinned}, b), b, v)
       /\ device' = Sync(info, Evicted(info, {pinned}, b))
       /\ UNCHANGED <<data, halted>>
get_block_cache(b, v) ==
  IF RunsOut(data, {}, b)
  THEN halted' = TRUE /\ UNCHANGED <<device, info, data>>
  ELSE /\ data' = Store(Get(data, {}, b), b, v)
       /\ device' = Sync(data, Evicted(data, {}, b))
       /\ UNCHANGED <<info, halted>>

\* Faulty variant: the data cache is dropped first.
WrittenBack_swapped ==
  [b \in Block |->
     IF \E i \in 1..Len(info) : info[i].id = b /\ info[i].modified
     THEN Lookup(info, b) ELSE Sync(data, 1..Len(data))[b]]

\* The disk after write_to_dev, which drops the info cache first and then the
\* data cache.
WrittenBack ==
  [b \in Block |->
     IF \E i \in 1..Len(data) : data[i].id = b /\ data[i].modified
     THEN Lookup(data, b) ELSE Sync(info, 1..Len(info))[b]]

write_to_dev == device' = WrittenBack /\ info' = <<>> /\ data' = <<>>

-----------------------------------------------------------------------------
(* The users of the caches.                                                *)

Clearing == {b \in Data : use[b] = "cleared"}
ByInfo(b) == b \in Meta \/ (b \in Data /\ use[b] = "dir")

Written(b, v) == last' = IF v = None THEN last ELSE [last EXCEPT ![b] = v]

\* FSInfo, FAT and directory entries; also while alloc_cluster is under way.
InfoAccess(b, v) ==
  /\ ByInfo(b) /\ (b \in Data => Clearing = {})
  /\ get_info_cache(b, v) /\ Written(b, v)
  /\ UNCHANGED <<pinned, use>>

\* ShortDirEntry::read_at and write_at on a file.
FileAccess(b, v) ==
  /\ use[b] = "file" /\ Clearing = {}
  /\ get_block_cache(b, v) /\ Written(b, v)
  /\ UNCHANGED <<pinned, use>>

\* read_short_dirent and modify_short_dirent hold the entry of the block with
\* a directory entry while the file is read or written; a write guard marks it
\* modified.
Pin(b) ==
  /\ pinned = None /\ Clearing = {} /\ use[b] = "dir"
  /\ \E v \in {None, Lookup(info, b)} : get_info_cache(b, v)
  /\ pinned' = IF RunsOut(info, {pinned}, b) THEN None ELSE b
  /\ UNCHANGED <<use, last>>

Unpin ==
  /\ pinned # None
  /\ pinned' = None
  /\ UNCHANGED <<device, info, data, use, halted, last>>

\* clear_cluster, called by alloc_cluster before anything is held, for as many
\* blocks as the call is asked for.
clear_cluster(b) ==
  /\ pinned = None
  /\ use[b] = "free"
  /\ get_block_cache(b, 0)
  /\ use' = [use EXCEPT ![b] = IF RunsOut(data, {}, b) THEN @ ELSE "cleared"]
  /\ UNCHANGED <<pinned, last>>

\* cache_write_back, at the end of alloc_cluster (the clusters then belong to
\* a file or a directory) and of VFile::clear.
cache_write_back(kind) ==
  /\ pinned = None
  /\ write_to_dev
  /\ use' = [b \in Data |-> IF use[b] = "cleared" THEN kind ELSE use[b]]
  /\ last' = [b \in Block |-> IF b \in Clearing THEN device'[b] ELSE last[b]]
  /\ UNCHANGED <<pinned, halted>>

\* dealloc_cluster, as VFile::remove calls it: nothing is written back.
dealloc_cluster(b) ==
  /\ pinned = None /\ Clearing = {}
  /\ use[b] \in {"file", "dir"}
  /\ use' = [use EXCEPT ![b] = "free"]
  /\ last' = [last EXCEPT ![b] = None]
  /\ UNCHANGED <<device, info, data, pinned, halted>>

Init ==
  /\ device = [b \in Block |-> 0]
  /\ info = <<>> /\ data = <<>>
  /\ pinned = None
  /\ use \in [Data -> {"free", "file", "dir"}]
  /\ halted = FALSE
  /\ last = [b \in Block |-> IF b \in Data /\ use[b] = "free" THEN None ELSE 0]

Next ==
  /\ ~halted
  /\ \/ \E b \in Block, v \in Val \union {None} : InfoAccess(b, v)
     \/ \E b \in Data, v \in Val \union {None} : FileAccess(b, v)
     \/ \E b \in Data : Pin(b) \/ clear_cluster(b) \/ dealloc_cluster(b)
     \/ Unpin
     \/ \E kind \in {"file", "dir"} : cache_write_back(kind)

Spec == Init /\ [][Next]_vars

-----------------------------------------------------------------------------
(* Properties.                                                             *)

\* The type invariant; a queue is never longer than BLOCK_CACHE_SIZE.
TypeOK ==
  /\ device \in [Block -> Val]
  /\ \A q \in {info, data} : q \in Seq(Entry) /\ Len(q) <= BLOCK_CACHE_SIZE
  /\ pinned \in Data \union {None}
  /\ use \in [Data -> {"free", "cleared", "file", "dir"}]
  /\ halted \in BOOLEAN
  /\ last \in [Block -> Val \union {None}]

\* The entry that a guard of a directory entry refers to stays in the queue,
\* so no second copy of its block is made while the call runs, and the
\* queue has room for another block (the panic "Run out of BlockCache!").
GuardedStays == (pinned # None => Cached(info, pinned)) /\ ~halted

\* The queues stay within their size, and what a guard refers to stays in them.
CachesSound == TypeOK /\ GuardedStays

\* Whoever uses a block reads what was last written to it, through the cache
\* that goes with its use: no write is lost or undone by an eviction, by the
\* other cache, by a use that the block had before, or by writing back.  With
\* both queues empty, after cache_write_back, this is the disk.
ReadsLatest ==
  \A b \in Block : last[b] # None =>
    last[b] = Lookup(IF ByInfo(b) THEN info ELSE data, b)

\* What one alloc_cluster clears without evicting the first of it.
Fitting == {S \in SUBSET Block : Cardinality(S) <= BLOCK_CACHE_SIZE}

StoreModule == INSTANCE BlockStore WITH content <- last, disk <- device

\* What a power loss or sys_shutdown leaves: a block of the disk that is in use
\* only changes to what it holds at that time, so it never falls back behind
\* what the last cache_write_back has saved.  A call of alloc_cluster for no
\* more blocks than the data cache holds hands out zeros.
StoreSpec == StoreModule!StoreSpec

\* What the comment on clear_cluster says ("clear the cluster"): once
\* alloc_cluster writes back, every block that it has cleared holds zeros, also
\* when it clears more of them than the data cache holds.
NewClustersZero == \A b \in Clearing : WrittenBack[b] = 0
=============================================================================
