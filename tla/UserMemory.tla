----------------------------- MODULE UserMemory -----------------------------
(***************************************************************************)
(* What page tables promise to the programs that run on them: each address *)
(* space is its own array of bytes, made and unmade a page at a time.      *)
(***************************************************************************)
EXTENDS Integers, Sequences

CONSTANTS Space, Absent,
          PAGE_SIZE, Pages,
          Copies,       \* the sequences of bytes that are copied in at once
          Limits        \* addresses where a copy may stop short

VARIABLES bytes,        \* what each space has at each address
          copies        \* how many copies there have been

vars == <<bytes, copies>>

Addr == {v * PAGE_SIZE + o : v \in Pages, o \in 0..(PAGE_SIZE - 1)}
Page(v) == (v * PAGE_SIZE)..(v * PAGE_SIZE + PAGE_SIZE - 1)

Init == bytes = [s \in Space |-> [a \in Addr |-> Absent]] /\ copies = 0

\* The bytes at A of space s become f, and no others change.
Set(s, A, f(_)) ==
  \A t \in Space, a \in Addr :
    bytes'[t][a] = IF t = s /\ a \in A THEN f(a) ELSE bytes[t][a]

Map(s, v) == /\ UNCHANGED copies
             /\ \A a \in Page(v) : bytes[s][a] = Absent
             /\ Set(s, Page(v), LAMBDA a : 0)

Unmap(s, v) == /\ UNCHANGED copies
               /\ \A a \in Page(v) : bytes[s][a] # Absent
               /\ Set(s, Page(v), LAMBDA a : Absent)

Drop(s) == UNCHANGED copies /\ Set(s, Addr, LAMBDA a : Absent)

Copy(s, start, data) ==
  /\ copies' = copies + 1
  /\ \E n \in 0..Len(data) :
       LET A == start..(start + n - 1)
       IN /\ n = Len(data) \/ \E l \in Limits : start < l /\ l <= start + Len(data)
          /\ A \subseteq Addr /\ \A a \in A : bytes[s][a] # Absent
          /\ Set(s, A, LAMBDA a : data[a - start + 1])

Next == \E s \in Space :
          \/ Drop(s)
          \/ \E v \in Pages : Map(s, v) \/ Unmap(s, v)
          \/ \E start \in Addr, data \in Copies : Copy(s, start, data)

Spec == Init /\ [][Next]_vars

=============================================================================
