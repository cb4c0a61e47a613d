---------------------------- MODULE SpinBarrier ----------------------------
(***************************************************************************)
(* spin's Barrier for all the threads of Thread.  Its state is only        *)
(* touched under its mutex, so a stay inside the mutex is one step.        *)
(***************************************************************************)
EXTENDS Integers, FiniteSets

CONSTANTS Thread, MaxRounds

VARIABLES count, generation_id,
          local_gen,        \* each waiting thread's copy of generation_id
          passed,           \* how many waits of each thread have returned
          pc

vars == <<count, generation_id, local_gen, passed, pc>>

num_threads == Cardinality(Thread)

Init == /\ count = 0 /\ generation_id = 0
        /\ local_gen = [t \in Thread |-> 0]
        /\ passed = [t \in Thread |-> 0]
        /\ pc = [t \in Thread |-> "idle"]

\* A thread that is not the last to arrive remembers the generation.
Arrive(t) == /\ pc[t] = "idle" /\ passed[t] < MaxRounds
             /\ count + 1 < num_threads
             /\ count' = count + 1
             /\ local_gen' = [local_gen EXCEPT ![t] = generation_id]
             /\ pc' = [pc EXCEPT ![t] = "waiting"]
             /\ UNCHANGED <<generation_id, passed>>

\* The last one is the leader and begins the next generation.
Lead(t) == /\ pc[t] = "idle" /\ passed[t] < MaxRounds
           /\ count + 1 >= num_threads
           /\ count' = 0
           /\ generation_id' = generation_id + 1
           /\ passed' = [passed EXCEPT ![t] = @ + 1]
           /\ UNCHANGED <<local_gen, pc>>

\* A waiting thread looks at the generation and the count each time it has
\* the mutex again.
Leave(t) == /\ pc[t] = "waiting"
            /\ local_gen[t] # generation_id \/ count >= num_threads
            /\ passed' = [passed EXCEPT ![t] = @ + 1]
            /\ pc' = [pc EXCEPT ![t] = "idle"]
            /\ UNCHANGED <<count, generation_id, local_gen>>

Step(t) == Arrive(t) \/ Lead(t) \/ Leave(t)

Next == \E t \in Thread : Step(t)

\* Every thread comes to the barrier, and a waiting one looks again.
Fairness == \A t \in Thread : WF_vars(Step(t))

-----------------------------------------------------------------------------
(* Properties *)

\* No thread passes the barrier a second time before all have passed it once:
\* a fast thread that is back cannot slip through on the round of a slow one
\* that has not left yet.
InStep == \A t, u \in Thread : passed[t] <= passed[u] + 1

\* Nobody is left behind: a waiting thread leaves.
BarrierOpens == \A t \in Thread : pc[t] = "waiting" ~> pc[t] = "idle"

=============================================================================
