-------------------------- MODULE RecycleAllocator --------------------------
(***************************************************************************)
(* The identifier allocator of os/src/task/id.rs as operators on its       *)
(* state: a high-water mark `current` and a stack `recycled` of returned   *)
(* identifiers.  PID_ALLOCATOR and KSTACK_ALLOCATOR are two such values.   *)
(***************************************************************************)
EXTENDS Lists

RecycleAllocators == [current : Nat, recycled : Seq(Nat)]

\* RecycleAllocator::new: identifiers start from 1.
new == [current |-> 1, recycled |-> <<>>]

\* The identifier that alloc hands out: the one recycled last, else a new one.
AllocId(a) ==
  IF a.recycled # <<>> THEN Last(a.recycled) ELSE a.current

\* The allocator after alloc.
alloc(a) ==
  IF a.recycled # <<>>
  THEN [a EXCEPT !.recycled = Front(@)]
  ELSE [a EXCEPT !.current = @ + 1]

\* The two assertions at the head of dealloc.
DeallocAsserts(a, id) ==
  /\ id < a.current
  /\ ~Contains(a.recycled, id)

\* The allocator after dealloc(id), when the assertions hold.
dealloc(a, id) == [a EXCEPT !.recycled = Append(@, id)]

=============================================================================
