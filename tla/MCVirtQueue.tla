---------------------------- MODULE MCVirtQueue ----------------------------
(* VirtQueue for TLC: a read and a write in flight at once.                  *)
EXTENDS VirtQueue

CONSTANTS rd, wr

\* Eight descriptors hold both requests; four hold one, and the other has to
\* wait until the queue is no longer full.
MCSetups == {[SIZE |-> 8, indirect |-> FALSE], [SIZE |-> 4, indirect |-> FALSE],
             [SIZE |-> 4, indirect |-> TRUE]}
MCReqs == {rd, wr}
MCKind == [r \in MCReqs |-> IF r = rd THEN "In" ELSE "Out"]
=============================================================================
