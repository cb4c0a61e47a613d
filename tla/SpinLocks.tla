----------------------------- MODULE SpinLocks -----------------------------
(***************************************************************************)
(* The primitives of the spin crate side by side: a behaviour is one of a  *)
(* TicketMutex, a FairMutex, an RwLock, a Once or a Barrier, chosen by     *)
(* kind.                                                                   *)
(***************************************************************************)
EXTENDS TicketMutex, FiniteSets

CONSTANTS UsizeMod, MaxRounds

\* A lock word has room for every thread as a reader, and the value that marks
\* uninitialised data is not the value that a thread's builder makes.
ASSUME SpinAssumption ==
  /\ IsFiniteSet(Thread) /\ "uninitialised" \notin Thread
  /\ UsizeMod \in Nat /\ 4 * (Cardinality(Thread) + 1) <= UsizeMod

VARIABLES kind, pc, lock,
          status, data,
          count, generation_id, local_gen, passed

onceVars == <<status, data>>
barrierVars == <<count, generation_id, local_gen, passed>>
spinVars == <<vars, kind, pc, lock, onceVars, barrierVars>>

Fair == INSTANCE FairMutex
Rw == INSTANCE SpinRwLock
Once == INSTANCE SpinOnce
Barrier == INSTANCE SpinBarrier

Is(k) == kind = k /\ UNCHANGED kind

TicketStep(t) == /\ Is("ticket") /\ Step(t)
                 /\ UNCHANGED <<pc, lock, onceVars, barrierVars>>
FairStep(t) == /\ Is("fair") /\ Fair!Step(t)
               /\ UNCHANGED <<vars, onceVars, barrierVars>>
RwStep(t) == /\ Is("rw") /\ Rw!Step(t)
             /\ UNCHANGED <<vars, onceVars, barrierVars>>
OnceStep(t) == /\ Is("once") /\ Once!Step(t)
               /\ UNCHANGED <<vars, lock, barrierVars>>
BarrierStep(t) == /\ Is("barrier") /\ Barrier!Step(t)
                  /\ UNCHANGED <<vars, lock, onceVars>>

Primitives == {"ticket", "fair", "rw", "once", "barrier"}

Unused == Init /\ Fair!Init /\ Rw!Init /\ Once!Init /\ Barrier!Init

SpinInit == kind \in Primitives /\ Unused

SpinNext == \E t \in Thread : \/ TicketStep(t) \/ FairStep(t) \/ RwStep(t)
                              \/ OnceStep(t) \/ BarrierStep(t)

SpinSpec == SpinInit /\ [][SpinNext]_spinVars

\* The fairness each primitive asks for.
SpinFairness ==
  \A t \in Thread :
    /\ WF_spinVars(TicketStep(t) /\ Served(t))
    /\ WF_spinVars(TicketStep(t) /\ Drop(t))
    /\ WF_spinVars(OnceStep(t) /\ Once!Running(t))
    /\ WF_spinVars(BarrierStep(t))

-----------------------------------------------------------------------------
(* The primitives' properties, each about the behaviours of its kind *)

\* The words of the locks count exactly the guards and the threads that starve;
\* whoever is given the value of a Once is given an initialised one; no thread
\* is two rounds of a Barrier ahead of another.
SpinSound == /\ kind = "fair" => Fair!FairWordAgrees
             /\ kind = "rw" => Rw!RwWordAgrees
             /\ kind = "once" => Once!OnceInitialised
             /\ kind = "barrier" => Barrier!InStep

\* Two threads never hold a FairMutex; the writer of an RwLock is alone, and
\* there is one upgradeable guard at most.
LockGuards == Fair!GuardsSpec /\ Rw!GuardsSpec

\* FairMutex: while a thread starves, only a starving thread takes the lock.
StarverFirst == Fair!StarverFirst

\* A call of Once ends unless initialisations fail for ever, and a thread that
\* waits at a Barrier leaves it.
SpinEnds == /\ kind = "once" => Once!OnceReturns
            /\ kind = "barrier" => Barrier!BarrierOpens

=============================================================================
