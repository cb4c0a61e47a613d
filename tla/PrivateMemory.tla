---------------------------- MODULE PrivateMemory ----------------------------
(***************************************************************************)
(* What the address spaces promise: every process has memory of its own.   *)
(* Nothing that one process does changes a byte of another, fork copies    *)
(* everything, and pages that appear are zero.  MemorySet implements it.   *)
(***************************************************************************)
CONSTANTS
  Proc, VPN, Val, None,
  Zero,      \* what a page holds that the program does not initialise
  Images     \* what the memory of a process holds when its program starts

VARIABLE space      \* space[p][v]: the value on page v of p, or None

Empty == [v \in VPN |-> None]

PrivateInit ==
  \E p \in Proc : /\ space[p] \in Images
                  /\ \A q \in Proc \ {p} : space[q] = Empty

Only(p) == \A q \in Proc \ {p} : space'[q] = space[q]

\* p writes x on a page it has.
Store(p, v, x) == space[p][v] # None /\ space' = [space EXCEPT ![p][v] = x]

\* p gets pages that hold zero.
Grow(p) ==
  /\ Only(p)
  /\ \A v \in VPN : \/ space'[p][v] = space[p][v]
                    \/ space[p][v] = None /\ space'[p][v] = Zero

\* The new process c has a copy of what p has.
Copy(p, c) == space[c] = Empty /\ space' = [space EXCEPT ![c] = space[p]]

\* p starts to run a program, or is gone.
Load(p) == Only(p) /\ space'[p] \in Images \union {Empty}

PrivateNext ==
  \E p \in Proc :
    \/ \E v \in VPN, x \in Val : Store(p, v, x)
    \/ Grow(p)
    \/ \E c \in Proc : Copy(p, c)
    \/ Load(p)

PrivateSpec == PrivateInit /\ [][PrivateNext]_space
=============================================================================
