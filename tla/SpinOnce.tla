------------------------------ MODULE SpinOnce ------------------------------
(***************************************************************************)
(* spin's Once, which initialises every lazy_static of the kernel at its   *)
(* first use.  Each thread calls call_once, try_call_once or wait; the     *)
(* builder may return a value, return an error or panic.                   *)
(***************************************************************************)
CONSTANT Thread

VARIABLES status, data, pc

vars == <<status, data, pc>>

NoData == "uninitialised"

Init == /\ status = "Incomplete" /\ data = NoData
        /\ pc = [t \in Thread |-> "idle"]

Goto(t, l) == pc' = [pc EXCEPT ![t] = l]

\* get, the fast path of try_call_once.
Call(t) == /\ pc[t] = "idle"
           /\ Goto(t, IF status = "Complete" THEN "done" ELSE "exchange")
           /\ UNCHANGED <<status, data>>

Wait(t) == /\ pc[t] = "idle"
           /\ Goto(t, "waiting")
           /\ UNCHANGED <<status, data>>

Exchange(t) ==
  /\ pc[t] = "exchange"
  /\ status' = IF status = "Incomplete" THEN "Running" ELSE status
  /\ Goto(t, CASE status = "Incomplete" -> "build"
               [] status = "Running" -> "poll"
               [] status = "Complete" -> "done"
               [] status = "Panicked" -> "panicked")
  /\ UNCHANGED data

\* poll, called by try_call_once and by wait, which poll again in their own
\* way when nobody is initialising.
Poll(t) ==
  /\ pc[t] \in {"poll", "waiting"}
  /\ \/ status = "Incomplete" /\ pc[t] = "poll" /\ Goto(t, "exchange")
     \/ status = "Complete" /\ Goto(t, "done")
     \/ status = "Panicked" /\ Goto(t, "panicked")
  /\ UNCHANGED <<status, data>>

\* The builder returns a value, which is written before the status says so.
Build(t) == /\ pc[t] = "build"
            /\ data' = t
            /\ Goto(t, "publish")
            /\ UNCHANGED status

Publish(t) == /\ pc[t] = "publish"
              /\ status' = "Complete"
              /\ Goto(t, "done")
              /\ UNCHANGED data

\* Faulty variant: an error leaves the status at Running.
BuildErrorKept(t) == pc[t] = "build" /\ Goto(t, "failed") /\ UNCHANGED <<status, data>>

BuildError(t) == /\ pc[t] = "build"
                 /\ status' = "Incomplete"
                 /\ Goto(t, "failed")
                 /\ UNCHANGED data

\* The drop of Finish while the builder's panic unwinds.
BuildPanic(t) == /\ pc[t] = "build"
                 /\ status' = "Panicked"
                 /\ Goto(t, "panicked")
                 /\ UNCHANGED data

\* The caller goes on and may come back.
Return(t) == /\ pc[t] \in {"done", "failed"}
             /\ Goto(t, "idle")
             /\ UNCHANGED <<status, data>>

Running(t) == \/ Exchange(t) \/ Poll(t)
              \/ Build(t) \/ Publish(t) \/ BuildError(t) \/ BuildPanic(t)

Step(t) == Call(t) \/ Wait(t) \/ Running(t) \/ Return(t)

Next == \E t \in Thread : Step(t)

\* A call that can go on does, and a builder ends.
Fairness == \A t \in Thread : WF_vars(Running(t))

-----------------------------------------------------------------------------
(* Properties *)

\* A caller that is given a reference is given an initialised value, and only
\* one thread at a time runs its builder.
OnceInitialised ==
  /\ \A t \in Thread : pc[t] = "done" => status = "Complete" /\ data # NoData
  /\ \A t, u \in Thread : pc[t] \in {"build", "publish"} /\ pc[u] \in {"build", "publish"} => t = u

\* A call only fails to end while builders begin again and again, each to
\* return an error: a failed or poisoned initialisation leaves nobody
\* spinning.  Only wait may spin while nobody initialises.
OnceReturns ==
  \A t \in Thread : <>[](pc[t] \in {"exchange", "poll"})
                     => []<>(\E u \in Thread : pc[u] = "build")

=============================================================================
