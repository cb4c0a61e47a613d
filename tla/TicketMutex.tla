---------------------------- MODULE TicketMutex ----------------------------
(***************************************************************************)
(* spin's TicketMutex, the lock of the kernel heap (LockedHeap).  Every    *)
(* access to next_ticket or next_serving is a step.  Tickets are natural   *)
(* numbers below MaxTicket; the code's wrap at 2^64.                       *)
(***************************************************************************)
EXTENDS Integers

CONSTANTS Thread, MaxTicket

VARIABLES next_ticket, next_serving,
          ticket,           \* the number each thread has drawn or read
          phase             \* where it is in lock, try_lock or the guard

vars == <<next_ticket, next_serving, ticket, phase>>

Init == /\ next_ticket = 0 /\ next_serving = 0
        /\ ticket = [t \in Thread |-> 0]
        /\ phase = [t \in Thread |-> "idle"]

Goto(t, l) == phase' = [phase EXCEPT ![t] = l]

\* lock: draw a ticket, then spin until it is served.
Draw(t) == /\ phase[t] = "idle" /\ next_ticket < MaxTicket
           /\ ticket' = [ticket EXCEPT ![t] = next_ticket]
           /\ next_ticket' = next_ticket + 1
           /\ Goto(t, "spin")
           /\ UNCHANGED next_serving

Served(t) == /\ phase[t] = "spin" /\ next_serving = ticket[t]
             /\ Goto(t, "held")
             /\ UNCHANGED <<next_ticket, next_serving, ticket>>

\* try_lock is a fetch_update of next_ticket: it reads next_ticket, compares
\* next_serving with what it has read, and increments next_ticket only if it
\* is still what it has read; else it starts again with the new value.
TryRead(t) == /\ phase[t] = "idle" /\ next_ticket < MaxTicket
              /\ ticket' = [ticket EXCEPT ![t] = next_ticket]
              /\ Goto(t, "compare")
              /\ UNCHANGED <<next_ticket, next_serving>>

TryCompare(t) == /\ phase[t] = "compare"
                 /\ Goto(t, IF next_serving = ticket[t] THEN "exchange" ELSE "idle")
                 /\ UNCHANGED <<next_ticket, next_serving, ticket>>

\* Faulty variant: next_ticket is incremented whatever it is by now.
TryExchangeBlind(t) == /\ phase[t] = "exchange"
                       /\ next_ticket' = next_ticket + 1
                       /\ Goto(t, "held")
                       /\ UNCHANGED <<next_serving, ticket>>

TryExchange(t) ==
  /\ phase[t] = "exchange"
  /\ \/ /\ next_ticket = ticket[t]
        /\ next_ticket' = next_ticket + 1
        /\ Goto(t, "held")
        /\ UNCHANGED ticket
     \/ /\ next_ticket # ticket[t]
        /\ ticket' = [ticket EXCEPT ![t] = next_ticket]
        /\ Goto(t, "compare")
        /\ UNCHANGED next_ticket
  /\ UNCHANGED next_serving

\* Faulty variant: the guard serves the newest ticket.
DropNewest(t) == /\ phase[t] = "held"
                 /\ next_serving' = next_ticket
                 /\ Goto(t, "idle")
                 /\ UNCHANGED <<next_ticket, ticket>>

\* Drop of the guard: serve the next ticket.
Drop(t) == /\ phase[t] = "held"
           /\ next_serving' = ticket[t] + 1
           /\ Goto(t, "idle")
           /\ UNCHANGED <<next_ticket, ticket>>

Step(t) == \/ Draw(t) \/ Served(t)
           \/ TryRead(t) \/ TryCompare(t) \/ TryExchange(t)
           \/ Drop(t)

Next == \E t \in Thread : Step(t)

\* A spinning thread looks again, and a guard is dropped.
Fairness == \A t \in Thread : WF_vars(Served(t)) /\ WF_vars(Drop(t))

Spec == Init /\ [][Next]_vars
FairSpec == Spec /\ Fairness

-----------------------------------------------------------------------------
(* Properties *)

TypeOK == /\ next_ticket \in Nat /\ next_serving \in Nat
          /\ ticket \in [Thread -> Nat]
          /\ phase \in [Thread -> {"idle", "spin", "compare", "exchange", "held"}]

\* The threads whose ticket counts: those that wait for it or hold the lock.
Drawn == {t \in Thread : phase[t] \in {"spin", "held"}}

\* The tickets from the one being served up to the last one drawn belong to
\* one thread each, waiting or holding: no ticket is drawn twice and none is
\* left without a thread, which would block all the later ones.
TicketsOwned ==
  /\ \A n \in next_serving..(next_ticket - 1) : \E t \in Drawn : ticket[t] = n
  /\ \A t \in Drawn : next_serving <= ticket[t] /\ ticket[t] < next_ticket
  /\ \A t, u \in Drawn : t # u => ticket[t] # ticket[u]

\* The holder is the thread whose ticket is served.
HolderServed == \A t \in Thread : phase[t] = "held" => ticket[t] = next_serving

\* The mutex implements exclusive guards.
guard == [t \in Thread |-> IF phase[t] = "held" THEN "write" ELSE "none"]
Abstract == INSTANCE Guards
GuardsSpec == Abstract!Spec

\* Nobody waits for ever: a thread that has drawn a ticket gets the lock,
\* however often try_lock and other threads take it before.
EveryTicketServed == \A t \in Thread : phase[t] = "spin" ~> phase[t] = "held"

=============================================================================
