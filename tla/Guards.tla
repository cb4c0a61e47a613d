------------------------------- MODULE Guards -------------------------------
(***************************************************************************)
(* What every lock of the spin crate promises: each thread holds no guard, *)
(* a shared one ("read"), an upgradeable one ("up") or an exclusive one    *)
(* ("write"); one thread's guard changes at a time, and only to guards     *)
(* that can be held together.                                              *)
(***************************************************************************)
CONSTANT Thread

VARIABLE guard

Compatible(g) ==
  \A t, u \in Thread :
    t # u => /\ g[t] = "write" => g[u] = "none"
             /\ g[t] = "up" => g[u] # "up"

Init == guard = [t \in Thread |-> "none"]

Change(t) == \E m \in {"none", "read", "up", "write"} :
               /\ guard' = [guard EXCEPT ![t] = m]
               /\ Compatible(guard')

Next == \E t \in Thread : Change(t)

Spec == Init /\ [][Next]_guard

=============================================================================
