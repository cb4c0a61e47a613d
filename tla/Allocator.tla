----------------------------- MODULE Allocator -----------------------------
(***************************************************************************)
(* What a memory allocator promises: a block it hands out lies in the      *)
(* memory it was given, is aligned as asked and overlaps no block that is  *)
(* still held; a block it takes back is one that is held.                  *)
(***************************************************************************)
EXTENDS Naturals

CONSTANT Layouts            \* the requests, records [size, align]

VARIABLES pool,             \* the addresses the allocator manages
          owned             \* the blocks held by callers, records [ptr, layout]

Bytes(b) == b.ptr .. (b.ptr + b.layout.size - 1)

Init == owned = {}

\* The memory may grow, on its own or to serve a request.
Grow == pool \subseteq pool' /\ owned' = owned

Alloc == \E p \in pool', l \in Layouts :
           LET b == [ptr |-> p, layout |-> l] IN
             /\ pool \subseteq pool'
             /\ p % l.align = 0
             /\ Bytes(b) \subseteq pool'
             /\ \A o \in owned : Bytes(o) \cap Bytes(b) = {}
             /\ owned' = owned \cup {b}

Free == \E b \in owned : owned' = owned \ {b} /\ pool' = pool

Next == Grow \/ Alloc \/ Free

Spec == Init /\ [][Next]_<<pool, owned>>

=============================================================================
