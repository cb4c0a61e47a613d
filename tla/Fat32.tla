-------------------------------- MODULE Fat32 --------------------------------
(***************************************************************************)
(* Cluster allocation and files of the FAT32 crate (fat32/src/fat.rs, the  *)
(* FAT and FSInfo of layout.rs, vfs.rs) under the open files of the kernel *)
(* (os/src/fs/inode.rs).                                                   *)
(*                                                                         *)
(* There is one directory, the root, and its names are short.  Sizes and   *)
(* offsets are in units of which a cluster has BytesPerCluster; the root   *)
(* has DirentsPerCluster entries in a cluster.  The kernel runs one call   *)
(* at a time, so each call is one step.  What happens after a scan of the  *)
(* FAT has left the table, and after a panic, is not modelled.             *)
(***************************************************************************)
EXTENDS Integers, Sequences, SequencesExt, FiniteSets, FiniteSetsExt

CONSTANTS
  Name,
  Handle,             \* OSInodes
  None,
  LastCluster,        \* the last cluster
  BytesPerCluster,
  DirentsPerCluster,
  Val,                \* what programs write
  Lens,               \* how much they read or write at once
  Flags,              \* the sets of OpenFlags that they use
  MaxEntries,         \* directory entries ever made
  MaxOffset           \* bound on file offsets

\* What the constants must satisfy.
FatAssumption ==
  /\ {BytesPerCluster, DirentsPerCluster, MaxEntries, MaxOffset} \subseteq Nat \ {0}
  /\ LastCluster \in Nat /\ LastCluster > 2
  /\ Lens \subseteq Nat \ {0} /\ 0 \notin Val /\ None \notin Nat
  /\ Flags \subseteq SUBSET {"WRONLY", "RDWR", "CREATE", "TRUNC"}

VARIABLES
  fat,            \* the table: cluster to next cluster
  free_clusters, first_free_cluster,    \* FSInfo
  mem,            \* the clusters of files
  dir,            \* the entries of the root, which are never reused
  root_size,      \* size in vroot_dirent
  inode,          \* OSInode: entry, offset, readable, writable; or None
  halted          \* "no", or why the kernel stopped

fatVars == <<fat, free_clusters, first_free_cluster>>
vars == <<fatVars, mem, dir, root_size, inode, halted>>

FREE_CLUSTER == 0
END_CLUSTER == LastCluster + 1
Cluster == 2..LastCluster
Unit == 0..(BytesPerCluster - 1)

-----------------------------------------------------------------------------
(* FAT.                                                                    *)

get_next_cluster(c) == IF c \in 0..LastCluster THEN fat[c] ELSE c

\* get_cluster_at: the cluster at an index of the chain that starts at c.
get_cluster_at(c, index) ==
  LET at[i \in 0..index] == IF i = 0 THEN c ELSE get_next_cluster(at[i - 1])
  IN at[index]

\* get_all_cluster_of: the walk ends at an entry that is END_CLUSTER or free.
get_all_cluster_of(c) ==
  LET walk[i \in 0..LastCluster] ==
        IF i = 0 THEN <<c>>
        ELSE LET prev == walk[i - 1]
                 next == get_next_cluster(prev[Len(prev)])
             IN IF next \in {END_CLUSTER, FREE_CLUSTER} THEN prev ELSE Append(prev, next)
  IN walk[LastCluster]

final_cluster(c) == get_all_cluster_of(c)[Len(get_all_cluster_of(c))]

\* The free clusters that successive calls of next_free_cluster find.
Scan == SetToSortSeq({c \in (first_free_cluster + 1)..LastCluster : fat[c] = FREE_CLUSTER}, <)

-----------------------------------------------------------------------------
(* FAT32Manager.                                                           *)

\* alloc_cluster(num) followed by the link that increase_size makes from the
\* end of the chain at first, if there is one.
alloc_cluster(num, first) ==
  LET cs == SubSeq(Scan, 1, num)
  IN /\ fat' = [c \in 0..LastCluster |->
                  IF Contains(cs, c)
                  THEN IF c = cs[num] THEN END_CLUSTER
                       ELSE cs[1 + CHOOSE i \in 1..(num - 1) : cs[i] = c]
                  ELSE IF first # 0 /\ c = final_cluster(first) THEN cs[1]
                  ELSE fat[c]]
     /\ free_clusters' = free_clusters - num
     /\ first_free_cluster' = cs[num]

\* How alloc_cluster(num) ends.  num is unsigned: below zero it is huge.
AllocEnds(num) ==
  IF num \notin 0..free_clusters THEN "no_space"
  ELSE IF num > Len(Scan) THEN "overrun" ELSE "no"

\* Faulty variant: clusters keep what they held.
ClearCluster_kept(cs) == mem

\* The clusters after clear_cluster of those in cs.
ClearCluster(cs) ==
  [c \in Cluster |-> IF Contains(cs, c) THEN [u \in Unit |-> 0] ELSE mem[c]]

\* dealloc_cluster of a chain; the hint moves only when its first cluster is
\* in front of it.
dealloc_cluster(cs) ==
  /\ fat' = [c \in 0..LastCluster |-> IF Contains(cs, c) THEN FREE_CLUSTER ELSE fat[c]]
  /\ free_clusters' = free_clusters + Len(cs)
  /\ first_free_cluster' = IF 2 < cs[1] /\ cs[1] < first_free_cluster
                           THEN cs[1] - 1 ELSE first_free_cluster

size_to_clusters(size, per) == (size + per - 1) \div per

Halt(why) == halted' = why /\ UNCHANGED <<fatVars, mem, dir, root_size, inode>>

-----------------------------------------------------------------------------
(* VFile.  An entry is named by its place in dir.                          *)

\* find_short_name: the first entry with the name.
Matches(name) == {s \in 1..Len(dir) : dir[s].name = name /\ ~dir[s].deleted}
find_vfile_byname(name) == Min(Matches(name))

\* Faulty variant: the entry keeps its first cluster.
clear_kept(s) ==
  IF dir[s].first = 0 THEN UNCHANGED <<fatVars, dir>>
  ELSE /\ dealloc_cluster(get_all_cluster_of(dir[s].first))
       /\ dir' = [dir EXCEPT ![s].size = 0]

\* clear and remove.  Both free the chain of the entry; clear leaves an entry
\* without clusters alone, remove takes cluster 0 for its chain.
clear(s) ==
  IF dir[s].first = 0 THEN UNCHANGED <<fatVars, dir>>
  ELSE /\ dealloc_cluster(get_all_cluster_of(dir[s].first))
       /\ dir' = [dir EXCEPT ![s].first = 0, ![s].size = 0]
remove(s) ==
  /\ dealloc_cluster(get_all_cluster_of(dir[s].first))
  /\ dir' = [dir EXCEPT ![s].first = 0, ![s].size = 0, ![s].deleted = TRUE]

\* The index of the first empty entry; deleted entries are not empty.
find_free_dirent == Len(dir)

\* cluster_num_needed for the root to have room for the entry at that index.
RootNeeds ==
  IF find_free_dirent + 1 <= root_size THEN 0
  ELSE size_to_clusters(find_free_dirent + 1, DirentsPerCluster) - Len(get_all_cluster_of(2))

\* create: the entry goes behind all others, and the root grows if it has to.
NewEntry(name) == [name |-> name, size |-> 0, first |-> 0, deleted |-> FALSE]
create(name) ==
  /\ dir' = Append(dir, NewEntry(name))
  /\ IF RootNeeds = 0 THEN UNCHANGED <<fatVars, mem, root_size>>
     ELSE /\ alloc_cluster(RootNeeds, 2)
          /\ mem' = ClearCluster(SubSeq(Scan, 1, RootNeeds))
          /\ root_size' = find_free_dirent + 1
CreateEnds == IF RootNeeds = 0 THEN "no" ELSE AllocEnds(RootNeeds)

\* ShortDirEntry::read_at: how many of n units it reads at off.
read_at(s, off, n) == Max({0, Min({off + n, dir[s].size}) - off})

\* ShortDirEntry::write_at: the clusters after n units v have been written at
\* off along a chain.
write_at(clusters, chain, off, n, v) ==
  [c \in Cluster |-> [u \in Unit |->
    IF \E i \in off..(off + n - 1) :
         chain[i \div BytesPerCluster + 1] = c /\ i % BytesPerCluster = u
    THEN v ELSE clusters[c][u]]]

-----------------------------------------------------------------------------
(* OSInode and the calls of the kernel.                                    *)

OpenInode(s, flags) ==
  [entry |-> s, offset |-> 0,
   readable |-> "WRONLY" \notin flags, writable |-> flags # {}]

\* open_file for a relative name in the root.
open_file(h, name, flags) ==
  /\ inode[h] = None
  /\ IF Matches(name) # {}
     THEN LET s == find_vfile_byname(name)
          IN /\ IF flags \intersect {"CREATE", "TRUNC"} # {} THEN clear(s)
                ELSE UNCHANGED <<fatVars, dir>>
             /\ inode' = [inode EXCEPT ![h] = OpenInode(s, flags)]
             /\ UNCHANGED <<mem, root_size, halted>>
     ELSE IF "CREATE" \notin flags THEN UNCHANGED vars
     ELSE IF CreateEnds # "no" THEN Len(dir) < MaxEntries /\ Halt(CreateEnds)
     ELSE /\ Len(dir) < MaxEntries
          /\ create(name)
          /\ inode' = [inode EXCEPT ![h] = OpenInode(Len(dir) + 1, flags)]
          /\ UNCHANGED halted

\* open_file for "/name": CREATE and TRUNC are not looked at, and a missing
\* file is created under a name that still has the slash.
Slash(name) == <<"/", name>>
open_absolute(h, name, flags) ==
  /\ inode[h] = None
  /\ IF Matches(name) # {}
     THEN /\ inode' = [inode EXCEPT ![h] = OpenInode(find_vfile_byname(name), flags)]
          /\ UNCHANGED <<fatVars, mem, dir, root_size, halted>>
     ELSE IF CreateEnds # "no" THEN Len(dir) < MaxEntries /\ Halt(CreateEnds)
     ELSE /\ Len(dir) < MaxEntries
          /\ create(Slash(name))
          /\ inode' = [inode EXCEPT ![h] = OpenInode(
                         Min(Matches(Slash(name)) \union {Len(dir) + 1}), flags)]
          /\ UNCHANGED halted

\* The inode is dropped with its last descriptor.
close(h) ==
  /\ inode[h] # None
  /\ inode' = [inode EXCEPT ![h] = None]
  /\ UNCHANGED <<fatVars, mem, dir, root_size, halted>>

read(h, n) ==
  /\ inode[h] # None /\ inode[h].readable
  /\ inode' = [inode EXCEPT ![h].offset = @ + read_at(inode[h].entry, @, n)]
  /\ UNCHANGED <<fatVars, mem, dir, root_size, halted>>

\* VFile::write_at: increase_size and then write_at along the chain, which
\* panics when it gets to END_CLUSTER.
write(h, n, v) ==
  LET s == inode[h].entry
      e == dir[s]
      off == inode[h].offset
      size == Max({e.size, off + n})
      needed == size_to_clusters(size, BytesPerCluster) - size_to_clusters(e.size, BytesPerCluster)
      new == SubSeq(Scan, 1, needed)
      chain == (IF e.first = 0 THEN <<>> ELSE get_all_cluster_of(e.first)) \o new
  IN /\ inode[h] # None /\ inode[h].writable
     /\ off + n <= MaxOffset
     /\ IF needed # 0 /\ AllocEnds(needed) # "no" THEN Halt(AllocEnds(needed))
        ELSE IF Len(chain) * BytesPerCluster < off + n THEN Halt("END_CLUSTER")
        ELSE /\ IF needed = 0 THEN UNCHANGED fatVars ELSE alloc_cluster(needed, e.first)
             /\ dir' = [dir EXCEPT ![s].size = size, ![s].first = chain[1]]
             /\ mem' = write_at(ClearCluster(new), chain, off, n, v)
             /\ inode' = [inode EXCEPT ![h].offset = off + n]
             /\ UNCHANGED <<root_size, halted>>

sys_unlink(name) ==
  /\ Matches(name) # {}
  /\ remove(find_vfile_byname(name))
  /\ UNCHANGED <<mem, root_size, inode, halted>>

-----------------------------------------------------------------------------
\* An empty file system.
Init ==
  /\ fat = [c \in 0..LastCluster |-> IF c <= 2 THEN END_CLUSTER ELSE FREE_CLUSTER]
  /\ free_clusters = LastCluster - 2 /\ first_free_cluster = 2
  /\ mem = [c \in Cluster |-> [u \in Unit |-> 0]]
  /\ dir = <<>> /\ root_size = 0
  /\ inode = [h \in Handle |-> None]
  /\ halted = "no"

Stopped == halted # "no" /\ UNCHANGED vars

Next ==
  \/ /\ halted = "no"
     /\ \/ \E h \in Handle :
             \/ \E name \in Name, flags \in Flags :
                  open_file(h, name, flags) \/ open_absolute(h, name, flags)
             \/ close(h)
             \/ \E n \in Lens : read(h, n)
             \/ \E n \in Lens, v \in Val : write(h, n, v)
        \/ \E name \in Name : sys_unlink(name)
  \/ Stopped

Spec == Init /\ [][Next]_vars

-----------------------------------------------------------------------------
(* Properties.                                                             *)

Entries == [name : Name \union {Slash(n) : n \in Name}, size : 0..MaxOffset,
            first : 0..LastCluster, deleted : BOOLEAN]

\* The type invariant.
TypeOK ==
  /\ fat \in [0..LastCluster -> 0..END_CLUSTER]
  /\ free_clusters \in Nat /\ first_free_cluster \in Cluster
  /\ mem \in [Cluster -> [Unit -> Val \union {0}]]
  /\ dir \in Seq(Entries) /\ root_size \in 0..MaxEntries
  /\ inode \in [Handle -> [entry : 1..Len(dir), offset : 0..MaxOffset,
                           readable : BOOLEAN, writable : BOOLEAN] \union {None}]
  /\ halted \in {"no", "no_space", "overrun", "END_CLUSTER"}

\* The chains of the root and of all entries that have one.
Chains == {get_all_cluster_of(2)} \union
          {get_all_cluster_of(dir[s].first) : s \in {s \in 1..Len(dir) : dir[s].first # 0}}

\* Allocation, extension, truncation and removal keep the table sound: the
\* chains are disjoint, end in END_CLUSTER and use up every cluster that is
\* not free, and the chain of a file has the length that its size asks for.
ChainsSound ==
  /\ \A s \in 1..Len(dir) : dir[s].first = 0 <=> dir[s].size = 0
  /\ \A s, t \in 1..Len(dir) : dir[s].first = dir[t].first => dir[s].first = 0 \/ s = t
  /\ LET chains == Chains
     IN /\ \A a, b \in chains : a # b => ToSet(a) \intersect ToSet(b) = {}
        /\ \A a \in chains : fat[a[Len(a)]] = END_CLUSTER
        /\ UNION {ToSet(a) : a \in chains} = {c \in Cluster : fat[c] # FREE_CLUSTER}
  /\ \A s \in 1..Len(dir) : dir[s].first # 0 =>
       Len(get_all_cluster_of(dir[s].first)) = size_to_clusters(dir[s].size, BytesPerCluster)

\* The number in FSInfo is never below the number of free clusters, so
\* alloc_cluster gives up ("no space") only when there are too few.
FreeCountEnough ==
  free_clusters >= Cardinality({c \in Cluster : fat[c] = FREE_CLUSTER})

\* The table, the directory and the FSInfo sector agree.
FatSound == TypeOK /\ ChainsSound /\ FreeCountEnough

FileModule == INSTANCE FileStore WITH
  Zero <- 0, Offset <- 0..MaxOffset,
  content <- [s \in 1..Len(dir) |-> [i \in 1..dir[s].size |->
    mem[get_cluster_at(dir[s].first, (i - 1) \div BytesPerCluster)][(i - 1) % BytesPerCluster]]]

\* Files keep their contents: through chains, offsets of other opens that are
\* stale after a truncation, and clusters that change owner.
FilesSpec == FileModule!FilesSpec

=============================================================================
