------------------------------- MODULE DirTree -------------------------------
(***************************************************************************)
(* Directories, long names and paths: VFile of fat32/src/vfs.rs under      *)
(* open_file and chdir (os/src/fs/inode.rs) and the calls mkdirat, chdir,  *)
(* openat and unlinkat (os/src/syscall/fs.rs).                             *)
(*                                                                         *)
(* A directory is a sequence of slots.  A file has a short entry, and in   *)
(* front of it, if its name is long, one entry for each chunk of the name, *)
(* the last chunk first.  A string with slashes is the sequence that       *)
(* split('/') makes of it: "/" is <<"", "">> and "/a" is <<"", "a">>.      *)
(* Clusters are the subject of Fat32: here a node stands for the chain of  *)
(* an entry, and SlotsPerSector slots make a sector.                       *)
(*                                                                         *)
(* A directory is removed with whatever is in it.  Where its cluster is    *)
(* used after that, by a descriptor of something in it or by the ".." of a *)
(* directory that was in it, what the kernel finds or overwrites is what   *)
(* the cluster was given to since: the model ends there ("stale").         *)
(*                                                                         *)
(* Programs write only to files, create and remove no "..", and do not     *)
(* remove the root.  They keep one descriptor: what an open returns takes  *)
(* its place.                                                              *)
(***************************************************************************)
EXTENDS Naturals, Sequences, SequencesExt, FiniteSets, FiniteSetsExt

CONSTANTS
  Chunks,           \* long name to the chunks of long_name_split
  Alias,            \* long name to its generated short name
  Paths,            \* what programs pass to open and unlink
  NewNames,         \* what they pass to mkdir
  SlotsPerSector,
  MaxNodes,         \* bound on the entries ever made
  MaxPwd            \* bound on the parts of pwd, which chdir can make longer for ever

ASSUME DirTreeAssumption ==
  /\ DOMAIN Alias = DOMAIN Chunks
  /\ \A n \in DOMAIN Chunks : Len(Chunks[n]) > 0
  /\ {SlotsPerSector, MaxNodes, MaxPwd} \subseteq Nat \ {0}
  /\ \A path \in Paths : ~(ToSet(path) \subseteq {"", "."})

VARIABLES
  kind,       \* the attribute of each node: "dir" or "file"
  slots,      \* the slots of each directory
  filled,     \* the files that have clusters
  pwd,        \* of the process
  fd,         \* the VFile of the one descriptor of the process, or Nothing
  halted      \* "no", or why the kernel stopped

vars == <<kind, slots, filled, pwd, fd, halted>>

Root == 1
Node == 1..MaxNodes
Slash == <<"", "">>
Damaged == "damaged"
Freed == 0    \* in place of the node of a directory that has been removed

\* VFile: where the short entry is and how many long entries it has; the root
\* has no entry.
VFile(node, dir, at, longs) == [node |-> node, dir |-> dir, at |-> at, longs |-> longs]
ROOT_INODE == VFile(Root, 0, 0, 0)
Nothing == VFile(0, 0, 0, 0)

\* A VFile whose short entry is in a cluster that has been freed, or that was
\* found under ".." and is a directory that has been removed.
Dangling == VFile(Freed, 0, 0, 1)

IsLong(name) == Len(name) = 1 /\ name[1] \in DOMAIN Chunks

-----------------------------------------------------------------------------
(* Entries *)

\* The checksum of a long entry is that of the short name behind it.
LongDirEntry(name, order) ==
  LET n == Len(Chunks[name])
  IN [type |-> "long", chunk |-> Chunks[name][order], order |-> order,
      last |-> order = n, sum |-> <<Alias[name]>>, deleted |-> FALSE]
ShortDirEntry(name, node) ==
  [type |-> "short", name |-> name, node |-> node, deleted |-> FALSE]

\* What create writes for a name: the long entries, then the short one.
NewEntries(name, node) ==
  IF IsLong(name)
  THEN LET n == Len(Chunks[name[1]])
       IN Append([i \in 1..n |-> LongDirEntry(name[1], n + 1 - i)],
                 ShortDirEntry(<<Alias[name[1]]>>, node))
  ELSE <<ShortDirEntry(name, node)>>

-----------------------------------------------------------------------------
(* Looking up a name in the slots of a directory *)

\* Faulty variant: only the entry of the last chunk is compared.
LongMatches_last(s, name) ==
  LET n == Len(Chunks[name])
  IN {o \in 1..Len(s) :
        /\ s[o].type = "long" /\ s[o].chunk = Chunks[name][n]
        /\ s[o].last /\ ~s[o].deleted /\ s[o].order = n}

\* find_long_name: where the chunks of the name are, the last one first.  The
\* order and the mark for deletion are looked at in the first entry only.
LongMatches(s, name) ==
  LET n == Len(Chunks[name])
  IN {o \in 1..Len(s) :
        /\ s[o].type = "long" /\ s[o].chunk = Chunks[name][n]
        /\ s[o].last /\ ~s[o].deleted /\ s[o].order = n
        /\ \A i \in 1..(n - 1) :
             /\ o + i <= Len(s)
             /\ s[o + i].type = "long" /\ s[o + i].chunk = Chunks[name][n - i]}

\* The first of them decides, even when the short entry behind it does not fit.
find_long_name(s, d, name) ==
  LET n == Len(Chunks[name])
      o == Min(LongMatches(s, name))
  IN IF LongMatches(s, name) = {} \/ o + n > Len(s) THEN Nothing
     ELSE IF s[o + n].type # "short" THEN Nothing
     ELSE IF s[o + n].deleted \/ s[o + n].name # s[o].sum THEN Nothing
     ELSE VFile(s[o + n].node, d, o + n, n)

\* find_short_name: the first entry with the name.
find_short_name(s, d, name) ==
  LET at == {i \in 1..Len(s) : s[i].type = "short" /\ ~s[i].deleted /\ s[i].name = name}
  IN IF at = {} THEN Nothing ELSE VFile(s[Min(at)].node, d, Min(at), 0)

find_vfile_byname(s, d, name) ==
  IF IsLong(name) THEN find_long_name(s, d, name[1]) ELSE find_short_name(s, d, name)

\* find_vfile_bypath from v; the walk fails on the assertion of
\* find_vfile_byname when it gets to a file that is not the end of the path.
\* Its result may be a VFile that dangles.
find_vfile_bypath(v, path) ==
  LET walk[i \in 0..Len(path)] ==
        IF i = 0 THEN [v |-> v, ends |-> "no"]
        ELSE LET w == walk[i - 1]
             IN IF w.ends # "no" \/ w.v = Nothing \/ path[i] \in {"", "."} THEN w
                ELSE IF w.v.node = Freed THEN [w EXCEPT !.ends = "stale"]
                ELSE IF kind[w.v.node] # "dir" THEN [w EXCEPT !.ends = "assert"]
                ELSE [w EXCEPT !.v = find_vfile_byname(slots[w.v.node], w.v.node, <<path[i]>>)]
  IN walk[Len(path)]

search_pwd(path) == find_vfile_bypath(ROOT_INODE, path)

-----------------------------------------------------------------------------
(* Changing a directory *)

\* A panic: the kernel shuts down, and with it goes the process.
Halt(why) ==
  /\ halted' = why
  /\ pwd' = Slash /\ fd' = Nothing
  /\ UNCHANGED <<kind, slots, filled>>

\* Faulty variant: ".." of a new directory names the directory itself.
Dots_self(node, parent) == <<ShortDirEntry(<<".">>, node), ShortDirEntry(<<"..">>, node)>>

\* The entries "." and ".." that create writes into a directory.
Dots(node, parent) == <<ShortDirEntry(<<".">>, node), ShortDirEntry(<<"..">>, parent)>>

\* create in directory d, which does not look for an entry of the name first:
\* what it returns, and so gives "." and "..", is the first one of the name.
Created(d, name, node) == find_vfile_byname(slots[d] \o NewEntries(name, node), d, name)
create(d, name, k) ==
  LET node == Len(kind) + 1
      v == Created(d, name, node)
      s == [slots EXCEPT ![d] = @ \o NewEntries(name, node)]
      kinds == Append(kind, k)
      Is(was) == k = "dir" /\ v # Nothing /\ kinds[v.node] = was
  IN /\ Len(kind) < MaxNodes
     /\ kind' = kinds
     /\ slots' = IF Is("dir") THEN [s EXCEPT ![v.node] = Dots(v.node, d) \o SubSeq(@, 3, Len(@))]
                 ELSE s
     /\ filled' = IF Is("file") THEN filled \union {v.node} ELSE filled

\* modify_long_dirent goes to the byte positions offset + i that
\* find_long_name keeps, all in the first long entry or just behind it.  From
\* the last slot of a sector they leave the block, and modify panics.
LongAt(v) == v.at - v.longs
OutOfBlock(v) == v.longs > 1 /\ LongAt(v) % SlotsPerSector = 0

\* Faulty variant: the mark goes to the slot behind.
Deleted_next(v) == [slots EXCEPT ![v.dir] = [i \in 1..Len(@) |->
  IF i = v.at + 1 THEN [@[i] EXCEPT !.deleted = TRUE] ELSE @[i]]]

\* The slots after the entry of v is deleted: the first long entry is marked
\* and, if there are more, its name is overwritten; the others stay.
Deleted(v) ==
  LET marked == [slots EXCEPT ![v.dir][v.at].deleted = TRUE]
  IN IF v.longs = 0 THEN marked
     ELSE [marked EXCEPT ![v.dir][LongAt(v)].deleted = TRUE,
                         ![v.dir][LongAt(v)].chunk = IF v.longs > 1 THEN Damaged ELSE @]

\* Live entries of a directory, "." and ".." left out.
Live(d) == {i \in 1..Len(slots[d]) :
              /\ slots[d][i].type = "short" /\ ~slots[d][i].deleted
              /\ slots[d][i].name \notin {<<".">>, <<"..">>}}

\* The slots s after the clusters of directory n are freed: the ".." of each
\* directory in it still has the number of its first cluster.
WithoutDir(s, n) ==
  [d \in Node |->
     IF d = n THEN <<>>
     ELSE [i \in 1..Len(s[d]) |->
             IF s[d][i].type = "short" /\ s[d][i].name = <<"..">> /\ s[d][i].node = n
             THEN [s[d][i] EXCEPT !.node = Freed] ELSE s[d][i]]]

\* VFile::remove: the entry loses its first cluster, and a directory with it
\* all its slots, whatever they hold.
remove(v) ==
  IF OutOfBlock(v) THEN Halt("bounds")
  ELSE /\ slots' = WithoutDir(Deleted(v), v.node)
       /\ filled' = filled \ {v.node}
       /\ fd' = IF fd.dir = v.node \/ (fd.node = v.node /\ fd.dir # v.dir)
                THEN Dangling ELSE fd
       /\ UNCHANGED <<kind, pwd, halted>>

-----------------------------------------------------------------------------
(* open_file and chdir *)

\* An open that found v; clear only does something to files with clusters,
\* and visits the long entries first.
Opened(v, truncate) ==
  /\ LET clears == truncate /\ v.node \in filled
     IN IF clears /\ OutOfBlock(v) THEN Halt("bounds")
        ELSE /\ filled' = IF clears THEN filled \ {v.node} ELSE filled
             /\ fd' = IF v.node = Freed THEN Dangling ELSE v
             /\ UNCHANGED <<kind, slots, pwd, halted>>

\* An open that creates the file in d: the name may still have slashes.
OpenedNew(d, name) ==
  /\ create(d, name, "file")
  /\ fd' = Created(d, name, Len(kind) + 1)
  /\ UNCHANGED <<pwd, halted>>

Failed == fd' = Nothing /\ UNCHANGED <<kind, slots, filled, pwd, halted>>

\* The end of open_file: the path is looked up from v.
OpenFrom(v, path, flags) ==
  LET w == find_vfile_bypath(v, path)
  IN IF w.ends # "no" THEN Halt(w.ends)
     ELSE IF w.v # Nothing THEN Opened(w.v, flags \intersect {"CREATE", "TRUNC"} # {})
     ELSE IF "CREATE" \notin flags THEN Failed
     ELSE IF kind[v.node] # "dir" THEN Halt("assert")
     ELSE OpenedNew(v.node, path)

Absolute(path) == path[1] = "" /\ Len(path) > 1

\* "/...": neither CREATE nor TRUNC is looked at, and a file that is missing is
\* created in the root under the whole path.
open_absolute(path) ==
  LET w == search_pwd(path)
  IN /\ Absolute(path)
     /\ IF w.ends # "no" THEN Halt(w.ends)
        ELSE IF w.v # Nothing THEN Opened(w.v, FALSE)
        ELSE OpenedNew(Root, path)

\* AT_FDCWD.
open_at_pwd(path, flags) ==
  LET w == search_pwd(pwd)
  IN /\ ~Absolute(path)
     /\ IF pwd = Slash THEN OpenFrom(ROOT_INODE, path, flags)
        ELSE IF w.ends # "no" THEN Halt(w.ends)
        ELSE IF w.v = Nothing THEN Halt("unwrap")
        ELSE OpenFrom(w.v, path, flags)

open_at_fd(path, flags) == ~Absolute(path) /\ fd # Nothing /\ OpenFrom(fd, path, flags)

\* A write to a file.
sys_write ==
  /\ fd # Nothing
  /\ IF fd = Dangling THEN Halt("stale")
     ELSE /\ kind[fd.node] = "file"
          /\ filled' = filled \union {fd.node}
          /\ UNCHANGED <<kind, slots, pwd, fd, halted>>

\* sys_mkdirat with AT_FDCWD or a descriptor; what create returns is ignored.
Mkdir(v, name) ==
  IF v.node = Freed THEN Halt("stale")
  ELSE IF kind[v.node] # "dir" THEN Halt("assert")
  ELSE create(v.node, name, "dir") /\ UNCHANGED <<pwd, fd, halted>>
mkdir_at_pwd(name) ==
  LET w == search_pwd(pwd)
  IN IF w.ends # "no" THEN Halt(w.ends)
     ELSE IF w.v = Nothing THEN UNCHANGED vars
     ELSE Mkdir(w.v, name)
mkdir_at_fd(name) == fd # Nothing /\ Mkdir(fd, name)

\* What chdir makes of the parts of pwd.
NewPwd(path) ==
  FoldLeft(LAMBDA p, part : IF part = ".." THEN (IF p = <<>> THEN p ELSE Front(p))
                            ELSE IF part = "." THEN p ELSE Append(p, part),
           pwd, path)

\* chdir.  In the root, and for "/...", the name is the new pwd.  Elsewhere the
\* name is looked up from the root, and then once more from what was found.
chdir(path) ==
  LET w == search_pwd(path)
      again == find_vfile_bypath(w.v, path)
      Set(p) == Len(p) <= MaxPwd /\ pwd' = p /\ UNCHANGED <<kind, slots, filled, fd, halted>>
  IN IF pwd = Slash \/ Absolute(path)
     THEN IF path[1] = ".." THEN UNCHANGED vars
          ELSE IF w.ends # "no" THEN Halt(w.ends)
          ELSE IF w.v = Nothing THEN UNCHANGED vars
          ELSE Set(path)
     ELSE IF w.ends # "no" THEN Halt(w.ends)
          ELSE IF w.v = Nothing THEN Halt("unwrap")
          ELSE IF again.ends # "no" THEN Halt(again.ends)
          ELSE IF again.v = Nothing THEN UNCHANGED vars
          ELSE Set(NewPwd(path))

\* sys_unlink: with AT_FDCWD the path is looked up from the root, whatever pwd
\* is; pwd and path are put together, but not used.
Unlink(w) ==
  IF w.ends # "no" THEN Halt(w.ends)
  ELSE w.v # Nothing /\ remove(w.v)
unlink_at_pwd(path) == Unlink(search_pwd(path))
unlink_at_fd(path) == ~Absolute(path) /\ fd # Nothing /\ Unlink(find_vfile_bypath(fd, path))

-----------------------------------------------------------------------------

Init ==
  /\ kind = <<"dir">>
  /\ slots = [n \in Node |-> <<>>]
  /\ filled = {} /\ pwd = Slash /\ fd = Nothing /\ halted = "no"

PlainPaths == {p \in Paths : ".." \notin ToSet(p)}
FlagsFor(path) == IF path \in PlainPaths THEN {{}, {"CREATE"}} ELSE {{}}

Stopped == halted # "no" /\ UNCHANGED vars

Next ==
  \/ /\ halted = "no"
     /\ \/ \E path \in Paths :
             \/ open_absolute(path) \/ chdir(path)
             \/ \E flags \in FlagsFor(path) : open_at_pwd(path, flags) \/ open_at_fd(path, flags)
        \/ \E path \in PlainPaths : unlink_at_pwd(path) \/ unlink_at_fd(path)
        \/ \E name \in NewNames : mkdir_at_pwd(name) \/ mkdir_at_fd(name)
        \/ sys_write
  \/ Stopped

Spec == Init /\ [][Next]_vars

-----------------------------------------------------------------------------
(* VFile::ls *)

\* The parts of a long name, from the first long entry at o on.
Parts(s, o) == [i \in 1..s[o].order |-> s[o + s[o].order - i].chunk]

\* One step of the loop of ls: the slot at st.at.  Slots that are deleted and
\* long entries that are not first are skipped; a first one takes the others
\* and the short entry with it.  The list ends early at a deleted entry there.
LsStep(s, st) ==
  LET e == s[st.at]
      n == IF e.type = "long" THEN e.order ELSE 0
  IN IF e.deleted \/ (e.type = "long" /\ ~e.last) THEN [st EXCEPT !.at = @ + 1]
     ELSE IF e.type = "short" THEN [at |-> st.at + 1, list |-> Append(st.list, e.name)]
     ELSE IF st.at + n > Len(s) \/ \E i \in 1..n : s[st.at + i].deleted
          THEN [st EXCEPT !.at = Len(s) + 1]
     ELSE [at |-> st.at + n + 1, list |-> Append(st.list, Parts(s, st.at))]

ls(s) ==
  LET loop[i \in 0..Len(s)] ==
        IF i = 0 THEN [at |-> 1, list |-> <<>>]
        ELSE LET st == loop[i - 1] IN IF st.at > Len(s) THEN st ELSE LsStep(s, st)
  IN loop[Len(s)].list

-----------------------------------------------------------------------------
(* Properties *)

\* The name of the live entry at slot i: the long one whose entries are all
\* in front of it, or else the short one.
LongNamesAt(s, i) ==
  {n \in DOMAIN Chunks :
     /\ i > Len(Chunks[n]) /\ s[i].name = <<Alias[n]>>
     /\ \A k \in 1..Len(Chunks[n]) : s[i - k] = LongDirEntry(n, k)}
NameAt(s, i) ==
  IF LongNamesAt(s, i) = {} THEN s[i].name ELSE <<CHOOSE n \in LongNamesAt(s, i) : TRUE>>

\* The live entries of directory d in order.
EntriesOf(d) ==
  LET live == Live(d)
      at == SelectSeq([i \in 1..Len(slots[d]) |-> i], LAMBDA i : i \in live)
  IN [i \in 1..Len(at) |-> <<NameAt(slots[d], at[i]), slots[d][at[i]].node>>]

\* A lookup finds the first live entry that has the name, and nothing else:
\* neither names that share chunks or the short name, nor what a removal has
\* left of the long entries, mislead the scans.
LookupAgrees ==
  \A d \in 1..Len(kind) : kind[d] = "dir" =>
    LET entries == EntriesOf(d)
    IN \A name \in Paths \union NewNames :
         LET at == {i \in 1..Len(entries) : entries[i][1] = name}
             v == find_vfile_byname(slots[d], d, name)
         IN name # <<"..">> =>
              IF at = {} THEN v = Nothing ELSE v.node = entries[Min(at)][2]

Tree == INSTANCE NameSpace WITH
  names <- UNION {{[dir |-> d, name |-> NameAt(slots[d], i), node |-> slots[d][i].node] :
                     i \in Live(d)} : d \in 1..Len(kind)}

\* Slots implement a tree of names: whatever the entries of a name are, and
\* wherever a removal writes, a create adds one name to one directory, a
\* removal takes one away, and with it the names in a directory that it was
\* the name of, and nothing else changes any name, until a cluster is used
\* after it was freed.
TreeSpec == Tree!Spec

\* What ls lists of a directory is what lookups find, in the order in which it
\* was made, and the entries "." and "..".
LsAgrees ==
  \A d \in 1..Len(kind) : kind[d] = "dir" =>
    LET shown == SelectSeq(ls(slots[d]), LAMBDA n : n \notin {<<".">>, <<"..">>})
        entries == EntriesOf(d)
    IN shown = [i \in 1..Len(entries) |->
                  LET n == entries[i][1] IN IF IsLong(n) THEN Chunks[n[1]] ELSE n]

\* The two kinds of scan of a directory, for one name and for all, agree with
\* its live entries.
ScansAgree == LookupAgrees /\ LsAgrees

\* Where a directory has an entry "..", it leads to the directory that holds its
\* name, however often mkdir was called for that name and whatever was removed.
DotDotLeadsBack ==
  \A d \in 1..Len(kind) : \A i \in Live(d) :
    LET n == slots[d][i].node
        v == find_short_name(slots[n], n, <<"..">>)
    IN v = Nothing \/ v.node = d

=============================================================================
