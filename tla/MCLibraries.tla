----------------------------- MODULE MCLibraries -----------------------------
(***************************************************************************)
(* The libraries below the kernel: a behaviour is one of a primitive of    *)
(* the spin crate or of the buddy heap.                                    *)
(***************************************************************************)
EXTENDS SpinLocks

CONSTANTS Orders, Word, Start, End, RescueStart, RescueEnd, Layouts

\* Words of two bytes, an unaligned first range of fourteen usable bytes and a
\* second one of four that a rescue adds.
MCLayouts == {[size |-> 1, align |-> 1], [size |-> 3, align |-> 2],
              [size |-> 2, align |-> 4], [size |-> 5, align |-> 1]}

VARIABLES heap, held, rescued

heapVars == <<heap, held, rescued>>

Buddy == INSTANCE BuddyHeap

ASSUME HeapAssumption == Buddy!RangesFit

HeapStep == kind = "heap" /\ Buddy!Next /\ UNCHANGED spinVars

LibraryInit == kind \in Primitives \union {"heap"} /\ Unused /\ Buddy!Init

LibraryNext == \/ SpinNext /\ UNCHANGED heapVars
               \/ HeapStep

LibrarySpec == LibraryInit /\ [][LibraryNext]_<<spinVars, heapVars>> /\ SpinFairness

-----------------------------------------------------------------------------

\* Buddy heap: every byte is in exactly one block, free or held, the statistics
\* agree with the blocks, and a request fails only when no aligned block of its
\* size is free.
HeapSound == kind = "heap" => /\ Buddy!BlocksPartition
                              /\ Buddy!StatsAgree
                              /\ Buddy!FailsOnlyWhenFull

\* Buddy heap: what it hands out is aligned, in its memory and held by nobody.
AllocatorProperty == Buddy!AllocatorProperty

=============================================================================
