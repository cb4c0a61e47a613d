------------------------------- MODULE MCFiles -------------------------------
(***************************************************************************)
(* Blocks and clusters of the FAT32 file system on small instances: a      *)
(* behaviour is one of the block caches or of the files, chosen by layer.  *)
(***************************************************************************)
EXTENDS BlockCache, TLC

CONSTANTS Name, Handle, LastCluster, BytesPerCluster, DirentsPerCluster,
          FileVal, Lens, Flags, MaxEntries, MaxOffset

\* No step looks at which block of the clusters, which name or which handle it
\* is about.
Symmetry == Permutations(Data) \union Permutations(Name) \union Permutations(Handle)

VARIABLES layer, fat, free_clusters, first_free_cluster, mem, dir, root_size,
          inode, fat_halted

fileVars == <<fat, free_clusters, first_free_cluster, mem, dir, root_size, inode, fat_halted>>

Fat == INSTANCE Fat32 WITH Val <- FileVal, halted <- fat_halted

ASSUME FilesAssumption == Fat!FatAssumption

FilesInit == /\ layer \in {"blocks", "files"} /\ Init /\ Fat!Init
             /\ layer = "files" => use = [b \in Data |-> "free"]

FilesNext == \/ layer = "blocks" /\ Next /\ UNCHANGED <<layer, fileVars>>
             \/ layer = "files" /\ Fat!Next /\ UNCHANGED <<layer, vars>>

FileSystem == FilesInit /\ [][FilesNext]_<<layer, vars, fileVars>>

-----------------------------------------------------------------------------

\* The table, the directory and the FSInfo sector agree.
FatSound == Fat!FatSound

\* Files keep their contents: through chains, offsets of other opens that are
\* stale after a truncation, and clusters that change owner.
FilesSpec == Fat!FilesSpec

=============================================================================
