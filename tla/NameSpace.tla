------------------------------ MODULE NameSpace ------------------------------
(***************************************************************************)
(* What the file system promises about names: directories hold names of    *)
(* nodes, a name is added with the node it is made for, and removing one   *)
(* leaves the others, but for those in the directory it was the name of.   *)
(***************************************************************************)
EXTENDS Naturals, Sequences

CONSTANTS Paths, NewNames

VARIABLES
  kind,     \* the nodes made so far: "dir" or "file"
  names     \* the entries: directory, name and node

vars == <<kind, names>>

Init == kind = <<"dir">> /\ names = {}

\* The new node gets a name in one directory; a directory's is from NewNames.
Added(N, M) ==
  \E e \in M \ N :
    /\ M = N \union {e}
    /\ kind[e.dir] = "dir" /\ e.node = Len(kind) + 1
    /\ \/ kind' = Append(kind, "file") /\ e.name \in Paths
       \/ kind' = Append(kind, "dir") /\ e.name \in NewNames

\* A name goes, and if it is that of a directory the names in it.
Removed(N, M) ==
  \E e \in N \ M : M = {f \in N : f # e /\ f.dir # e.node} /\ kind' = kind

Next == LET N == names
            M == names'
        IN Added(N, M) \/ Removed(N, M)

Spec == Init /\ [][Next]_vars
=============================================================================
