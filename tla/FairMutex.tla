----------------------------- MODULE FairMutex -----------------------------
(***************************************************************************)
(* spin's FairMutex and SpinMutex.  The lock word of a FairMutex is        *)
(* LOCKED plus STARVED for every thread that has waited too long; a        *)
(* SpinMutex is the same lock on which nobody starves.                     *)
(***************************************************************************)
EXTENDS Naturals, FiniteSets

CONSTANTS Thread

LOCKED == 1
STARVED == 2

VARIABLES lock, pc

vars == <<lock, pc>>

is_locked == lock % 2 = LOCKED

Init == lock = 0 /\ pc = [t \in Thread |-> "idle"]

Goto(t, l) == pc' = [pc EXCEPT ![t] = l]

\* The first exchange of lock has failed, perhaps without a reason (it is
\* weak): the thread spins.
Spin(t) == pc[t] = "idle" /\ Goto(t, "spin") /\ UNCHANGED lock

\* Faulty variant: the exchange only looks at the LOCKED bit.
LockStealing(t) == /\ pc[t] \in {"idle", "spin"} /\ ~is_locked
                   /\ lock' = lock + LOCKED
                   /\ Goto(t, "held")

\* The exchange of lock and of try_lock, from 0 to LOCKED.
Lock(t) == /\ pc[t] \in {"idle", "spin"} /\ lock = 0
           /\ lock' = LOCKED
           /\ Goto(t, "held")

\* A thread that has seen the lock taken more than STARVATION_SPINS times
\* declares that it starves; the lock may be free again by then.
Starve(t) == /\ pc[t] = "spin"
             /\ lock' = lock + STARVED
             /\ Goto(t, "starving")

\* Starvation::try_lock and try_lock_fair set LOCKED; the Starvation is
\* dropped by a later step.
StarverLock(t) == /\ pc[t] = "starving" /\ ~is_locked
                  /\ lock' = lock + LOCKED
                  /\ Goto(t, "relieved")

Relieve(t) == /\ pc[t] = "relieved"
              /\ lock' = lock - STARVED
              /\ Goto(t, "held")

\* A Starvation that is dropped without the lock.
GiveUp(t) == /\ pc[t] = "starving"
             /\ lock' = lock - STARVED
             /\ Goto(t, "idle")

\* Drop of the guard: fetch_and(!LOCKED).
Drop(t) == /\ pc[t] = "held"
           /\ lock' = lock - (lock % 2)
           /\ Goto(t, "idle")

Step(t) == \/ Spin(t) \/ Lock(t) \/ Starve(t) \/ StarverLock(t) \/ Relieve(t)
           \/ GiveUp(t) \/ Drop(t)

Next == \E t \in Thread : Step(t)

Spec == Init /\ [][Next]_vars

-----------------------------------------------------------------------------
(* Properties *)

Starvers == {t \in Thread : pc[t] \in {"starving", "relieved"}}
Holders == {t \in Thread : pc[t] \in {"held", "relieved"}}

\* The lock word counts the starving threads and says whether somebody holds
\* the lock: no decrement is lost or done twice.
FairWordAgrees == lock = LOCKED * Cardinality(Holders) + STARVED * Cardinality(Starvers)

\* What the comment in lock says of starvation, that it prevents newer users
\* from stealing the lock: while a thread starves, only a starving thread
\* takes the lock.
StarverFirst ==
  [][\A t \in Thread : (pc[t] \in {"idle", "spin"} /\ pc'[t] = "held")
                         => \A u \in Thread : pc[u] # "starving"]_vars

\* The mutex implements exclusive guards.
guard == [t \in Thread |-> IF t \in Holders THEN "write" ELSE "none"]
Abstract == INSTANCE Guards
GuardsSpec == Abstract!Spec

=============================================================================
