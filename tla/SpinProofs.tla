----------------------------- MODULE SpinProofs -----------------------------
(***************************************************************************)
(* The primitives of the spin crate, for any number of threads: what the   *)
(* lock words count, what the guards exclude, that a Once is initialised   *)
(* before it is used and that a Barrier keeps the threads in step.         *)
(***************************************************************************)
EXTENDS SpinLocks, FiniteSetTheorems, TLAPS

-----------------------------------------------------------------------------
(* TicketMutex: no ticket is drawn twice or lost, the holder is the thread   *)
(* whose ticket is served, and so the mutex excludes.                        *)

\* A try_lock that has compared has seen its number served: next_serving has
\* been there, and never goes back.
Compared == \A t \in Thread : phase[t] = "exchange" => ticket[t] <= next_serving

\* The inductive invariant.
TicketInv == /\ TypeOK /\ TicketsOwned /\ HolderServed
        /\ next_serving <= next_ticket
        /\ Compared

\* The first state satisfies the inductive invariant.
THEOREM TicketInvInit == Init => TicketInv
BY DEF Init, TicketInv, TypeOK, TicketsOwned, HolderServed, Compared, Drawn

\* Drawing a ticket keeps it, whoever draws and whatever the phase after:
\* the new ticket is the one number added to the drawn ones.
LEMMA DrawnInv ==
  ASSUME TicketInv, TypeOK', NEW t \in Thread, t \notin Drawn,
         Drawn' = Drawn \cup {t},
         ticket' = [ticket EXCEPT ![t] = next_ticket],
         next_ticket' = next_ticket + 1, next_serving' = next_serving
  PROVE  TicketsOwned'
<1>1. ASSUME NEW n \in next_serving'..(next_ticket' - 1)
      PROVE  \E u \in Drawn' : ticket'[u] = n
  <2>1. CASE n = next_ticket
    BY <2>1, Zenon DEF TicketInv, TypeOK
  <2>2. CASE n # next_ticket
    <3>1. n \in next_serving..(next_ticket - 1)
      BY <2>2 DEF TicketInv, TypeOK
    <3>2. PICK u \in Drawn : ticket[u] = n
      BY <3>1, Zenon DEF TicketInv, TicketsOwned
    <3> QED BY <3>2, Zenon DEF TicketInv, TypeOK, Drawn
  <2> QED BY <2>1, <2>2, Zenon
<1>2. ASSUME NEW u \in Drawn' PROVE next_serving' <= ticket'[u] /\ ticket'[u] < next_ticket'
  BY DEF TicketInv, TypeOK, TicketsOwned, Drawn
<1>3. ASSUME NEW u \in Drawn', NEW v \in Drawn', u # v PROVE ticket'[u] # ticket'[v]
  BY <1>3 DEF TicketInv, TypeOK, TicketsOwned, Drawn
<1> QED BY <1>1, <1>2, <1>3, Zenon DEF TicketsOwned

\* Dropping the guard keeps it: the ticket that leaves is the smallest one.
LEMMA DropInv == ASSUME TicketInv, NEW t \in Thread, Drop(t) PROVE TicketInv'
<1> USE DEF TicketInv, Drop, Goto
<1>1. TypeOK'
  BY DEF TypeOK
<1>2. Drawn' = Drawn \ {t} /\ t \in Drawn /\ ticket[t] = next_serving
  BY Zenon DEF TypeOK, Drawn, HolderServed
<1>3. next_serving' = next_serving + 1 /\ next_serving' <= next_ticket'
  BY <1>2 DEF TypeOK, TicketsOwned
<1>4. TicketsOwned'
  <2>1. ASSUME NEW n \in next_serving'..(next_ticket' - 1)
        PROVE  \E u \in Drawn' : ticket'[u] = n
    <3>1. n \in next_serving..(next_ticket - 1) /\ n # next_serving
      BY <1>3 DEF TypeOK
    <3>2. PICK u \in Drawn : ticket[u] = n
      BY <3>1, Zenon DEF TicketsOwned
    <3> QED BY <1>2, <3>1, <3>2, Zenon
  <2>2. ASSUME NEW u \in Drawn' PROVE next_serving' <= ticket'[u] /\ ticket'[u] < next_ticket'
    <3>1. u \in Thread /\ u \in Drawn /\ ticket[u] # next_serving
      BY <1>2, Zenon DEF TicketsOwned, Drawn
    <3> QED BY <1>3, <3>1 DEF TypeOK, TicketsOwned
  <2>3. ASSUME NEW u \in Drawn', NEW v \in Drawn', u # v PROVE ticket'[u] # ticket'[v]
    BY <1>2, <2>3, Zenon DEF TicketsOwned
  <2> QED BY <2>1, <2>2, <2>3, Zenon DEF TicketsOwned
<1>5. HolderServed'
  <2> SUFFICES ASSUME NEW u \in Thread, phase'[u] = "held" PROVE FALSE
    BY Zenon DEF HolderServed
  <2>1. u # t /\ phase[u] = "held"
    BY Zenon DEF TypeOK
  <2> QED BY <1>2, <2>1, Zenon DEF HolderServed, TicketsOwned, Drawn
<1>6. Compared'
  BY <1>3 DEF TypeOK, Compared
<1> QED BY <1>1, <1>3, <1>4, <1>5, <1>6, Zenon

\* Every step keeps the inductive invariant.
THEOREM TicketInvStep == TicketInv /\ [Next]_vars => TicketInv'
<1> SUFFICES ASSUME TicketInv, [Next]_vars PROVE TicketInv'
  BY Zenon
<1>1. ASSUME NEW t \in Thread, Draw(t) PROVE TicketInv'
  <2> USE <1>1 DEF TicketInv, Draw, Goto
  <2>1. TypeOK'
    BY DEF TypeOK
  <2>2. TicketsOwned'
    <3>1. Drawn' = Drawn \cup {t} /\ t \notin Drawn
      BY Zenon DEF TypeOK, Drawn
    <3> QED BY <2>1, <3>1, DrawnInv, Zenon
  <2>3. HolderServed' /\ Compared' /\ next_serving' <= next_ticket'
    BY DEF TypeOK, HolderServed, Compared
  <2> QED BY <2>1, <2>2, <2>3, Zenon
<1>2. ASSUME NEW t \in Thread, Served(t) PROVE TicketInv'
  <2> USE <1>2 DEF TicketInv, Served, Goto
  <2>1. Drawn' = Drawn
    BY Zenon DEF TypeOK, Drawn
  <2> QED BY <2>1, Zenon DEF TypeOK, TicketsOwned, HolderServed, Compared
<1>3. ASSUME NEW t \in Thread, TryRead(t) PROVE TicketInv'
  <2> USE <1>3 DEF TicketInv, TryRead, Goto
  <2>1. Drawn' = Drawn /\ t \notin Drawn
    BY Zenon DEF TypeOK, Drawn
  <2>2. \A u \in Drawn : ticket'[u] = ticket[u]
    BY <2>1, Zenon DEF TypeOK, Drawn
  <2>3. TicketsOwned'
    BY <2>1, <2>2 DEF TicketsOwned
  <2> QED BY <2>3, Zenon DEF TypeOK, HolderServed, Compared
<1>4. ASSUME NEW t \in Thread, TryCompare(t) PROVE TicketInv'
  <2> USE <1>4 DEF TicketInv, TryCompare, Goto
  <2>1. Drawn' = Drawn
    BY Zenon DEF TypeOK, Drawn
  <2> QED BY <2>1 DEF TypeOK, TicketsOwned, HolderServed, Compared
<1>5. ASSUME NEW t \in Thread, TryExchange(t) PROVE TicketInv'
  <2> USE DEF TicketInv, Goto
  <2>1. CASE next_ticket = ticket[t]
    <3> USE <1>5, <2>1 DEF TryExchange
    <3>1. TypeOK' /\ Drawn' = Drawn \cup {t} /\ t \notin Drawn
      BY DEF TypeOK, Drawn
    <3>2. ticket' = [ticket EXCEPT ![t] = next_ticket] /\ next_serving = next_ticket
      BY DEF TypeOK, Compared
    <3>3. TicketsOwned'
      BY <3>1, <3>2, DrawnInv, Zenon
    <3>4. HolderServed' /\ Compared' /\ next_serving' <= next_ticket'
      BY <3>2 DEF TypeOK, HolderServed, Compared
    <3> QED BY <3>1, <3>3, <3>4, Zenon
  <2>2. CASE next_ticket # ticket[t]
    <3> USE <1>5, <2>2 DEF TryExchange
    <3>1. Drawn' = Drawn /\ t \notin Drawn
      BY Zenon DEF TypeOK, Drawn
    <3>2. \A u \in Drawn : ticket'[u] = ticket[u]
      BY <3>1, Zenon DEF TypeOK, Drawn
    <3>3. TicketsOwned'
      BY <3>1, <3>2 DEF TicketsOwned
    <3> QED BY <3>3, Zenon DEF TypeOK, HolderServed, Compared
  <2> QED BY <2>1, <2>2, Zenon
<1>6. ASSUME NEW t \in Thread, Drop(t) PROVE TicketInv'
  BY <1>6, DropInv, Zenon
<1>7. CASE UNCHANGED vars
  BY <1>7, Zenon DEF vars, TicketInv, TypeOK, TicketsOwned, HolderServed, Compared, Drawn
<1> QED BY <1>1, <1>2, <1>3, <1>4, <1>5, <1>6, <1>7, Zenon DEF Next, Step

\* In every reachable state the tickets from the served one to the last one
\* drawn have exactly one thread each.
THEOREM TicketsOwnedAlways == Spec => []TicketsOwned
<1>1. Spec => []TicketInv
  BY TicketInvInit, TicketInvStep, PTL DEF Spec
<1>2. TicketInv => TicketsOwned
  BY Zenon DEF TicketInv
<1> QED BY <1>1, <1>2, PTL

\* The mutex implements exclusive guards: two threads never hold it.
THEOREM TicketExcludes == Spec => GuardsSpec
<1>1. Init => Abstract!Init
  BY Zenon DEF Init, Abstract!Init, guard
<1>2. TicketInv /\ TicketInv' /\ [Next]_vars => [Abstract!Next]_guard
  <2> SUFFICES ASSUME TicketInv, TicketInv', [Next]_vars, guard' # guard PROVE Abstract!Next
    BY Zenon
  <2>1. PICK t \in Thread : Step(t)
    BY Zenon DEF Next, vars, guard
  <2>2. \A u \in Thread : u # t => guard'[u] = guard[u]
    BY <2>1, Zenon DEF Step, Draw, Served, TryRead, TryCompare, TryExchange, Drop, Goto, guard, TicketInv, TypeOK
  <2>3. guard' = [guard EXCEPT ![t] = guard'[t]] /\ guard'[t] \in {"none", "write"}
    BY <2>2, Zenon DEF guard
  <2>4. Abstract!Compatible(guard')
    BY DEF Abstract!Compatible, guard, TicketInv, HolderServed, TicketsOwned, Drawn
  <2> QED BY <2>3, <2>4, Zenon DEF Abstract!Next, Abstract!Change
<1>3. Spec => []TicketInv
  BY TicketInvInit, TicketInvStep, PTL DEF Spec
<1> QED BY <1>1, <1>2, <1>3, PTL DEF Spec, GuardsSpec, Abstract!Spec

-----------------------------------------------------------------------------
(* Counting threads *)

\* The locks count with the same Cardinality.
LEMMA SameCardinality ==
  \A S : /\ Fair!Cardinality(S) = Cardinality(S)
         /\ Rw!Cardinality(S) = Cardinality(S)
         /\ Barrier!Cardinality(S) = Cardinality(S)
BY Zenon DEF Fair!Cardinality, Rw!Cardinality, Barrier!Cardinality, Cardinality,
             Fair!IsFiniteSet, Rw!IsFiniteSet, Barrier!IsFiniteSet, IsFiniteSet

\* A set of threads is finite, and its size changes by one with one thread.
LEMMA Threads ==
  ASSUME NEW S \in SUBSET Thread, NEW t
  PROVE  /\ Cardinality(S) \in Nat
         /\ Cardinality(S) <= Cardinality(Thread)
         /\ Cardinality(S) = 0 <=> S = {}
         /\ t \notin S => Cardinality(S \cup {t}) = Cardinality(S) + 1
         /\ t \in S => Cardinality(S \ {t}) = Cardinality(S) - 1 /\ Cardinality(S) >= 1
<1>1. IsFiniteSet(S) /\ Cardinality(S) <= Cardinality(Thread)
  BY FS_Subset, SpinAssumption, Zenon
<1>2. Cardinality(S) \in Nat
  BY <1>1, FS_CardinalityType, Zenon
<1>3. Cardinality(S) = 0 <=> S = {}
  BY <1>1, FS_EmptySet, Zenon
<1>4. t \notin S => Cardinality(S \cup {t}) = Cardinality(S) + 1
  BY <1>1, FS_AddElement, Zenon
<1>5. t \in S => Cardinality(S \ {t}) = Cardinality(S) - 1
  BY <1>1, FS_RemoveElement, Zenon
<1>6. t \in S => Cardinality(S) >= 1
  <2>1. t \in S => Cardinality(S) # 0
    BY <1>3, Zenon
  <2> QED BY <2>1, <1>2
<1> QED BY <1>1, <1>2, <1>3, <1>4, <1>5, <1>6, Zenon

\* The lowest bit of a word.
LEMMA LowBit == ASSUME NEW c \in {0, 1}, NEW s \in Nat PROVE (c + 2 * s) % 2 = c
OBVIOUS

-----------------------------------------------------------------------------
(* FairMutex *)

FairLabels == {"idle", "spin", "starving", "relieved", "held"}

\* The word in terms of its two counts.
FairWord(w, h, s) == /\ h \in {0, 1} /\ s \in Nat
                     /\ w = h + 2 * s

\* The inductive invariant of a FairMutex: the word counts the holder and the
\* threads that starve, and one thread at most holds the lock.
FairInv == /\ pc \in [Thread -> FairLabels]
           /\ FairWord(lock, Cardinality(Fair!Holders), Cardinality(Fair!Starvers))
           /\ \A t, u \in Fair!Holders : t = u

\* A word that says nobody holds the lock, or that nobody starves either.
LEMMA FairFree ==
  ASSUME FairInv
  PROVE  /\ Fair!Holders \in SUBSET Thread /\ Fair!Starvers \in SUBSET Thread
         /\ lock % 2 = Cardinality(Fair!Holders)
         /\ ~Fair!is_locked => Fair!Holders = {}
         /\ lock = 0 => Fair!Holders = {} /\ Fair!Starvers = {}
<1> DEFINE h == Cardinality(Fair!Holders)
          s == Cardinality(Fair!Starvers)
<1>1. Fair!Holders \in SUBSET Thread /\ Fair!Starvers \in SUBSET Thread
  BY Zenon DEF Fair!Holders, Fair!Starvers
<1>2. (h = 0 <=> Fair!Holders = {}) /\ (s = 0 <=> Fair!Starvers = {})
  BY <1>1, Threads, Zenon
<1>3. h \in {0, 1} /\ s \in Nat /\ lock = h + 2 * s
  BY Zenon DEF FairInv, FairWord
<1> HIDE DEF h, s
<1>4. lock % 2 = h
  BY <1>3, LowBit, Zenon
<1>5. lock = 0 => h = 0 /\ s = 0
  BY <1>3
<1>6. lock % 2 # 1 => h = 0
  BY <1>3, <1>4, Zenon
<1> QED BY <1>1, <1>2, <1>4, <1>5, <1>6, Zenon DEF h, s, Fair!is_locked, Fair!LOCKED

\* Every step of a FairMutex keeps its invariant.
LEMMA FairStepInv == ASSUME FairInv, NEW t \in Thread, Fair!Step(t) PROVE FairInv'
<1> DEFINE H == Fair!Holders
          S == Fair!Starvers
          h == Cardinality(Fair!Holders)
          s == Cardinality(Fair!Starvers)
<1> USE DEF FairLabels
<1>0. /\ pc \in [Thread -> FairLabels] /\ h \in {0, 1} /\ s \in Nat /\ lock = h + 2 * s
      /\ \A v, u \in H : v = u
  BY Zenon DEF FairInv, FairWord
<1>a. /\ H \in SUBSET Thread /\ S \in SUBSET Thread /\ lock % 2 = h
      /\ (~Fair!is_locked => H = {})
      /\ (lock = 0 => H = {} /\ S = {})
  BY FairFree, Zenon
<1>b. /\ t \notin H => Cardinality(H \cup {t}) = h + 1
      /\ t \in H => Cardinality(H \ {t}) = h - 1 /\ h >= 1
      /\ t \notin S => Cardinality(S \cup {t}) = s + 1
      /\ t \in S => Cardinality(S \ {t}) = s - 1 /\ s >= 1
      /\ H = {} => h = 0
  BY <1>a, Threads, Zenon
<1>1. CASE Fair!Spin(t)
  <2>1. H' = H /\ S' = S /\ pc' \in [Thread -> FairLabels] /\ lock' = lock
    BY <1>0, <1>1, Zenon DEF Fair!Spin, Fair!Goto, Fair!Holders, Fair!Starvers
  <2> QED BY <1>0, <2>1, Zenon DEF FairInv, FairWord
<1>2. CASE Fair!Lock(t)
  <2>1. H' = H \cup {t} /\ S' = S /\ pc' \in [Thread -> FairLabels] /\ t \notin H
    BY <1>0, <1>2, Zenon DEF Fair!Lock, Fair!Goto, Fair!Holders, Fair!Starvers
  <2>2. H = {} /\ lock = 0 /\ lock' = 1
    BY <1>a, <1>2, Zenon DEF Fair!Lock, Fair!LOCKED
  <2>3. Cardinality(H') = h + 1 /\ Cardinality(S') = s /\ h = 0
    BY <2>1, <2>2, <1>b, Zenon
  <2>4. FairWord(lock', Cardinality(H'), Cardinality(S'))
    BY <1>0, <2>2, <2>3 DEF FairWord
  <2> QED BY <2>1, <2>2, <2>4, Zenon DEF FairInv
<1>3. CASE Fair!Starve(t)
  <2>1. H' = H /\ S' = S \cup {t} /\ pc' \in [Thread -> FairLabels] /\ t \notin S /\ lock' = lock + 2
    BY <1>0, <1>3, Zenon DEF Fair!Starve, Fair!Goto, Fair!Holders, Fair!Starvers, Fair!STARVED
  <2>2. Cardinality(H') = h /\ Cardinality(S') = s + 1
    BY <2>1, <1>b, Zenon
  <2>3. FairWord(lock', Cardinality(H'), Cardinality(S'))
    BY <1>0, <2>1, <2>2 DEF FairWord
  <2> QED BY <1>0, <2>1, <2>3, Zenon DEF FairInv
<1>4. CASE Fair!StarverLock(t)
  <2>1. H' = H \cup {t} /\ S' = S /\ pc' \in [Thread -> FairLabels] /\ t \notin H /\ lock' = lock + 1
    BY <1>0, <1>4, Zenon DEF Fair!StarverLock, Fair!Goto, Fair!Holders, Fair!Starvers, Fair!LOCKED
  <2>2. H = {}
    BY <1>a, <1>4, Zenon DEF Fair!StarverLock
  <2>3. Cardinality(H') = h + 1 /\ Cardinality(S') = s /\ h = 0
    BY <2>1, <2>2, <1>b, Zenon
  <2>4. FairWord(lock', Cardinality(H'), Cardinality(S'))
    BY <1>0, <2>1, <2>3 DEF FairWord
  <2> QED BY <2>1, <2>2, <2>4, Zenon DEF FairInv
<1>5. CASE Fair!Relieve(t) \/ Fair!GiveUp(t)
  <2>1. H' = H /\ S' = S \ {t} /\ pc' \in [Thread -> FairLabels] /\ t \in S /\ lock' = lock - 2
    BY <1>0, <1>5, Zenon DEF Fair!Relieve, Fair!GiveUp, Fair!Goto, Fair!Holders, Fair!Starvers, Fair!STARVED
  <2>2. Cardinality(H') = h /\ Cardinality(S') = s - 1 /\ s >= 1
    BY <2>1, <1>b, Zenon
  <2>3. FairWord(lock', Cardinality(H'), Cardinality(S'))
    BY <1>0, <2>1, <2>2 DEF FairWord
  <2> QED BY <1>0, <2>1, <2>3, Zenon DEF FairInv
<1>6. CASE Fair!Drop(t)
  <2>1. H' = H \ {t} /\ S' = S /\ pc' \in [Thread -> FairLabels] /\ t \in H /\ lock' = lock - h
    BY <1>0, <1>a, <1>6, Zenon DEF Fair!Drop, Fair!Goto, Fair!Holders, Fair!Starvers
  <2>2. Cardinality(H') = h - 1 /\ Cardinality(S') = s /\ h >= 1
    BY <2>1, <1>b, Zenon
  <2>3. FairWord(lock', Cardinality(H'), Cardinality(S'))
    BY <1>0, <2>1, <2>2 DEF FairWord
  <2> QED BY <1>0, <2>1, <2>3, Zenon DEF FairInv
<1> QED BY <1>1, <1>2, <1>3, <1>4, <1>5, <1>6, Zenon DEF Fair!Step

\* The invariant says that the word counts the holders and the starvers.
LEMMA FairCounts == FairInv => Fair!FairWordAgrees
BY SameCardinality DEF FairInv, FairWord, Fair!FairWordAgrees, Fair!LOCKED, Fair!STARVED

-----------------------------------------------------------------------------
(* RwLock *)

RwLabels == {"idle", "read", "undo", "write", "up", "up to read", "write to read"}

Readers == Rw!In({"read", "undo", "up to read", "write to read"})
Ups == Rw!In({"up", "up to read"})
Writers == Rw!In({"write", "write to read"})

\* The word in terms of its reader count and its two bits.
RwWord(w, r, u, b) == /\ r \in Nat /\ u \in {0, 1} /\ b \in {0, 1}
                      /\ w = 4 * r + 2 * u + b

\* The two bits agree with the guards.
RwBits(u, b) == /\ b = 1 <=> Writers # {}
                /\ Ups # {} => u = 1
                /\ u = 1 => Ups \cup Writers # {}

\* A writer is alone but for readers that are about to undo, and there is one
\* upgradeable guard at most.
RwExcludes == /\ \A t \in Writers, v \in Thread : v # t => pc[v] \in {"idle", "undo"}
              /\ \A t, v \in Ups : t = v

\* The inductive invariant of an RwLock.
RwInv == /\ pc \in [Thread -> RwLabels]
         /\ \E u, b \in {0, 1} : RwWord(lock, Cardinality(Readers), u, b) /\ RwBits(u, b)
         /\ RwExcludes

\* What the operations read off a word.
LEMMA RwDecode ==
  ASSUME NEW w, NEW r, NEW u, NEW b, RwWord(w, r, u, b)
  PROVE  /\ w \div 4 = r
         /\ Rw!HasWriter(w) <=> b = 1
         /\ Rw!HasUpgraded(w) <=> u = 1
         /\ Rw!ClearBits(w) = 4 * r
<1> USE DEF RwWord
<1>1. w \div 4 = r
  OBVIOUS
<1>2. w % 2 = b
  <2>1. w = b + 2 * (2 * r + u) /\ 2 * r + u \in Nat
    OBVIOUS
  <2> QED BY <2>1, LowBit, Zenon
<1>3. w \div 2 = u + 2 * r
  OBVIOUS
<1>4. (w \div 2) % 2 = u
  BY <1>3, LowBit, Zenon
<1> QED BY <1>1, <1>2, <1>4 DEF Rw!HasWriter, Rw!HasUpgraded, Rw!ClearBits, Rw!READER, Rw!UPGRADED

\* A number below the modulus is its own remainder.
LEMMA SmallMod == ASSUME NEW x \in Nat, NEW m \in Nat, x < m PROVE x % m = x
OBVIOUS

\* The word of any number of threads does not wrap.
LEMMA RwNoWrap ==
  ASSUME NEW w, NEW S \in SUBSET Thread, NEW u, NEW b, RwWord(w, Cardinality(S), u, b)
  PROVE  w \in Nat /\ w % UsizeMod = w
<1>1. Cardinality(S) \in Nat /\ Cardinality(S) <= Cardinality(Thread) /\ Cardinality(Thread) \in Nat
  BY Threads, FS_CardinalityType, SpinAssumption, Zenon
<1>2. w \in Nat /\ w < UsizeMod
  BY <1>1, SpinAssumption DEF RwWord
<1> QED BY <1>2, SmallMod, SpinAssumption, Zenon

\* Every step of an RwLock keeps its invariant.
LEMMA RwStepInv == ASSUME RwInv, NEW t \in Thread, Rw!Step(t) PROVE RwInv'
<1> DEFINE r == Cardinality(Readers)
<1>0. PICK u \in {0, 1}, b \in {0, 1} : RwWord(lock, r, u, b) /\ RwBits(u, b)
  BY Zenon DEF RwInv
<1>a. pc \in [Thread -> RwLabels] /\ RwExcludes
  BY Zenon DEF RwInv
<1>b. /\ Readers \in SUBSET Thread /\ Ups \in SUBSET Thread /\ Writers \in SUBSET Thread
  BY Zenon DEF Readers, Ups, Writers, Rw!In
<1>c. /\ r \in Nat /\ (r = 0 <=> Readers = {})
      /\ t \notin Readers => Cardinality(Readers \cup {t}) = r + 1
      /\ t \in Readers => Cardinality(Readers \ {t}) = r - 1 /\ r >= 1
  BY <1>b, Threads, Zenon
<1>d. /\ Rw!HasWriter(lock) <=> b = 1
      /\ Rw!HasUpgraded(lock) <=> u = 1
      /\ Rw!ClearBits(lock) = 4 * r
  BY <1>0, RwDecode, Zenon
<1>e. /\ lock = 4 * r + 2 * u + b /\ lock \in Nat /\ u \in Nat /\ b \in Nat
      /\ (u = 0 \/ u = 1) /\ (b = 0 \/ b = 1)
  BY <1>0, <1>c DEF RwWord
<1>f. /\ b = 1 <=> Writers # {}
      /\ Ups # {} => u = 1
      /\ u = 1 => Ups \cup Writers # {}
  BY <1>0, Zenon DEF RwBits
<1>g. ASSUME NEW u2 \in {0, 1}, NEW b2 \in {0, 1}, pc' \in [Thread -> RwLabels], RwExcludes',
             RwWord(lock', Cardinality(Readers'), u2, b2), RwBits(u2, b2)'
      PROVE  RwInv'
  BY <1>g, Zenon DEF RwInv
<1>k. ASSUME NEW u2 \in {0, 1}, NEW b2 \in {0, 1},
             Readers' = Readers, lock' = 4 * r + 2 * u2 + b2
      PROVE  RwWord(lock', Cardinality(Readers'), u2, b2)
  BY <1>k, <1>c, Zenon DEF RwWord
<1>l. ASSUME Writers' = {}, Ups' = {} PROVE RwBits(0, 0)' /\ RwExcludes'
  <2>1. RwExcludes'
    BY <1>l, Zenon DEF RwExcludes
  <2>2. RwBits(0, 0)'
    BY <1>l DEF RwBits
  <2> QED BY <2>1, <2>2, Zenon
<1> HIDE DEF r
\* Counting one reader more, with the bits as they are.
<1>h. ASSUME t \notin Readers, Readers' = Readers \cup {t}, lock' = (lock + Rw!READER) % UsizeMod
      PROVE  RwWord(lock', Cardinality(Readers'), u, b)
  <2>1. RwWord(lock + 4, Cardinality(Readers \cup {t}), u, b)
    BY <1>h, <1>c, <1>e DEF RwWord
  <2>2. Readers \cup {t} \in SUBSET Thread
    BY <1>b, Zenon
  <2>3. (lock + 4) % UsizeMod = lock + 4
    BY <2>1, <2>2, RwNoWrap, Zenon
  <2> QED BY <1>h, <2>1, <2>3, Zenon DEF Rw!READER
\* One reader less.
<1>i. ASSUME t \in Readers, Readers' = Readers \ {t}, lock' = Rw!fetch_sub(lock, Rw!READER)
      PROVE  RwWord(lock', Cardinality(Readers'), u, b)
  <2>1. RwWord(lock - 4, Cardinality(Readers \ {t}), u, b)
    BY <1>i, <1>c, <1>e DEF RwWord
  <2>2. Readers \ {t} \in SUBSET Thread
    BY <1>b, Zenon
  <2>3. (lock - 4) % UsizeMod = lock - 4
    BY <2>1, <2>2, RwNoWrap, Zenon
  <2> QED BY <1>i, <2>1, <2>3, Zenon DEF Rw!READER, Rw!fetch_sub
\* The upgradeable guard goes.
<1>j. ASSUME u = 1, Readers' = Readers, lock' = Rw!fetch_sub(lock, Rw!UPGRADED)
      PROVE  RwWord(lock', Cardinality(Readers'), 0, b)
  <2>1. RwWord(lock - 2, Cardinality(Readers), 0, b)
    BY <1>j, <1>c, <1>e DEF RwWord, r
  <2>2. (lock - 2) % UsizeMod = lock - 2
    BY <2>1, <1>b, RwNoWrap, Zenon
  <2> QED BY <1>j, <2>1, <2>2, Zenon DEF Rw!UPGRADED, Rw!fetch_sub
<1> USE DEF RwLabels
<1>1. CASE Rw!TryRead(t)
  <2>1. /\ Readers' = Readers \cup {t} /\ t \notin Readers /\ Ups' = Ups /\ Writers' = Writers
        /\ pc' \in [Thread -> RwLabels] /\ lock' = (lock + Rw!READER) % UsizeMod
    BY <1>a, <1>1, Zenon DEF Rw!TryRead, Rw!Goto, Rw!In, Readers, Ups, Writers
  <2>2. RwWord(lock', Cardinality(Readers'), u, b) /\ RwBits(u, b)'
    BY <1>h, <2>1, <1>f, Zenon DEF RwBits
  <2>3. pc' = [pc EXCEPT ![t] = "undo"] \/ (Writers = {} /\ pc' = [pc EXCEPT ![t] = "read"])
    BY <1>1, <1>d, <1>f, Zenon DEF Rw!TryRead, Rw!Goto, Rw!Taken
  <2>4. RwExcludes'
    BY <1>a, <2>1, <2>3, Zenon DEF RwExcludes
  <2> QED BY <1>g, <2>1, <2>2, <2>4, Zenon
<1>2. CASE Rw!UndoRead(t) \/ Rw!DropRead(t)
  <2>1. /\ Readers' = Readers \ {t} /\ t \in Readers /\ Ups' = Ups /\ Writers' = Writers
        /\ pc' \in [Thread -> RwLabels] /\ lock' = Rw!fetch_sub(lock, Rw!READER)
        /\ pc' = [pc EXCEPT ![t] = "idle"]
    BY <1>a, <1>2, Zenon DEF Rw!UndoRead, Rw!DropRead, Rw!Goto, Rw!In, Readers, Ups, Writers
  <2>2. RwWord(lock', Cardinality(Readers'), u, b) /\ RwBits(u, b)'
    BY <1>i, <2>1, <1>f, Zenon DEF RwBits
  <2>3. RwExcludes'
    BY <1>a, <2>1, Zenon DEF RwExcludes
  <2> QED BY <1>g, <2>1, <2>2, <2>3, Zenon
<1>3. CASE Rw!TryWrite(t)
  <2>1. r = 0 /\ u = 0 /\ b = 0 /\ lock' = 1
    BY <1>3, <1>c, <1>e DEF Rw!TryWrite, Rw!WRITER
  <2>2. Readers = {} /\ Ups = {} /\ Writers = {}
    BY <2>1, <1>c, <1>f
  <2>3. /\ Readers' = Readers /\ Ups' = Ups /\ Writers' = {t}
        /\ pc' \in [Thread -> RwLabels] /\ pc' = [pc EXCEPT ![t] = "write"]
    BY <1>a, <1>3, <2>2, Zenon DEF Rw!TryWrite, Rw!Goto, Rw!In, Readers, Ups, Writers
  <2>4. RwWord(lock', Cardinality(Readers'), 0, 1) /\ RwBits(0, 1)'
    <3>1. lock' = 4 * r + 2 * 0 + 1
      BY <2>1
    <3>2. RwWord(lock', Cardinality(Readers'), 0, 1)
      BY <1>k, <2>3, <3>1, Zenon
    <3>3. RwBits(0, 1)'
      BY <2>2, <2>3, Zenon DEF RwBits
    <3> QED BY <3>2, <3>3, Zenon
  <2>5. \A v \in Thread : pc[v] = "idle"
    BY <1>a, <2>2, Zenon DEF Readers, Ups, Writers, Rw!In
  <2>6. RwExcludes'
    BY <1>a, <2>2, <2>3, <2>5, Zenon DEF RwExcludes
  <2> QED BY <1>g, <2>3, <2>4, <2>6, Zenon
<1>4. CASE Rw!DropWrite(t)
  <2>1. t \in Writers /\ lock' = 4 * r
    BY <1>4, <1>d, Zenon DEF Rw!DropWrite, Writers, Rw!In
  <2>2. /\ Readers' = Readers /\ Ups' = {} /\ Writers' = {}
        /\ pc' \in [Thread -> RwLabels]
    BY <1>a, <1>4, <2>1, Zenon DEF Rw!DropWrite, Rw!Goto, Rw!In, Readers, Ups, Writers, RwExcludes
  <2>3. lock' = 4 * r + 2 * 0 + 0
    BY <2>1, <1>c
  <2>4. RwWord(lock', Cardinality(Readers'), 0, 0)
    BY <1>k, <2>2, <2>3, Zenon
  <2>5. RwBits(0, 0)' /\ RwExcludes'
    BY <1>l, <2>2, Zenon
  <2> QED BY <1>g, <2>2, <2>4, <2>5, Zenon
<1>5. CASE Rw!TryUpgradeable(t)
  <2>1. lock' = 4 * r + 2 + b
    <3>1. lock' = IF u = 1 THEN lock ELSE lock + 2
      BY <1>5, <1>d, Zenon DEF Rw!TryUpgradeable, Rw!UPGRADED
    <3> QED BY <3>1, <1>e, <1>c
  <2>2. CASE Rw!Taken(lock)
    <3>1. pc' = pc /\ Readers' = Readers /\ Ups' = Ups /\ Writers' = Writers
      BY <1>5, <2>2, Zenon DEF Rw!TryUpgradeable, Readers, Ups, Writers, Rw!In
    <3>2. Ups \cup Writers # {}
      BY <2>2, <1>d, <1>f, Zenon DEF Rw!Taken
    <3>3. RwWord(lock', Cardinality(Readers'), 1, b)
      <4>1. lock' = 4 * r + 2 * 1 + b
        BY <2>1, <1>c, <1>e
      <4> QED BY <1>k, <3>1, <4>1, Zenon
    <3>4. RwBits(1, b)'
      BY <3>1, <3>2, <1>f, Zenon DEF RwBits
    <3>5. RwExcludes'
      BY <1>a, <3>1, Zenon DEF RwExcludes
    <3> QED BY <1>g, <1>a, <3>1, <3>3, <3>4, <3>5, Zenon
  <2>3. CASE ~Rw!Taken(lock)
    <3>1. Ups = {} /\ Writers = {} /\ b = 0
      BY <2>3, <1>d, <1>f, Zenon DEF Rw!Taken
    <3>2. /\ Readers' = Readers /\ Ups' = {t} /\ Writers' = {}
          /\ pc' \in [Thread -> RwLabels]
      BY <1>5, <2>3, <3>1, <1>a, Zenon DEF Rw!TryUpgradeable, Rw!Goto, Readers, Ups, Writers, Rw!In
    <3>3. lock' = 4 * r + 2 * 1 + 0
      BY <2>1, <3>1, <1>c
    <3>4. RwWord(lock', Cardinality(Readers'), 1, 0)
      BY <1>k, <3>2, <3>3, Zenon
    <3>5. RwBits(1, 0)'
      <4>1. t \in Ups' /\ Writers' = {}
        BY <3>2, Zenon
      <4>2. Ups' # {} /\ Ups' \cup Writers' # {}
        BY <4>1, Zenon
      <4> QED BY <4>1, <4>2 DEF RwBits
    <3>6. RwExcludes'
      BY <3>2, Zenon DEF RwExcludes
    <3> QED BY <1>g, <3>2, <3>4, <3>5, <3>6, Zenon
  <2> QED BY <2>2, <2>3, Zenon
<1>6. CASE Rw!DropUpgradeable(t) \/ (pc[t] = "up to read" /\ Rw!DowngradeEnd(t))
  <2>1. t \in Ups /\ u = 1 /\ lock' = Rw!fetch_sub(lock, Rw!UPGRADED)
    BY <1>6, <1>f, Zenon DEF Rw!DropUpgradeable, Rw!DowngradeEnd, Ups, Rw!In
  <2>2. Writers = {} /\ b = 0
    BY <2>1, <1>f, <1>a, Zenon DEF RwExcludes, Ups, Writers, Rw!In
  <2>3. /\ Readers' = Readers /\ Ups' = {} /\ Writers' = {}
        /\ pc' \in [Thread -> RwLabels]
    BY <1>a, <1>6, <2>1, <2>2, Zenon
    DEF Rw!DropUpgradeable, Rw!DowngradeEnd, Rw!Goto, Rw!In, Readers, Ups, Writers, RwExcludes
  <2>4. RwWord(lock', Cardinality(Readers'), 0, b)
    BY <1>j, <2>1, <2>3, Zenon
  <2>5. RwBits(0, 0)' /\ RwExcludes'
    BY <1>l, <2>3, Zenon
  <2> QED BY <1>g, <2>2, <2>3, <2>4, <2>5, Zenon
<1>7. CASE Rw!Upgrade(t)
  <2>1. r = 0 /\ b = 0 /\ lock' = 1
    BY <1>7, <1>c, <1>e DEF Rw!Upgrade, Rw!WRITER, Rw!UPGRADED
  <2>2. Readers = {} /\ Writers = {} /\ t \in Ups
    <3>1. Readers = {} /\ Writers = {}
      BY <2>1, <1>c, <1>f
    <3>2. t \in Ups
      BY <1>7, Zenon DEF Rw!Upgrade, Ups, Rw!In
    <3> QED BY <3>1, <3>2, Zenon
  <2>3. \A v \in Thread : v # t => pc[v] = "idle"
    BY <1>a, <2>2, Zenon DEF Readers, Ups, Writers, Rw!In, RwExcludes
  <2>4. /\ Readers' = Readers /\ Ups' = {} /\ Writers' = {t}
        /\ pc' \in [Thread -> RwLabels] /\ pc' = [pc EXCEPT ![t] = "write"]
    BY <1>a, <1>7, <2>2, <2>3, Zenon DEF Rw!Upgrade, Rw!Goto, Rw!In, Readers, Ups, Writers
  <2>5. RwWord(lock', Cardinality(Readers'), 0, 1) /\ RwBits(0, 1)'
    <3>1. lock' = 4 * r + 2 * 0 + 1
      BY <2>1
    <3>2. RwWord(lock', Cardinality(Readers'), 0, 1)
      BY <1>k, <2>4, <3>1, Zenon
    <3>3. RwBits(0, 1)'
      BY <2>4, Zenon DEF RwBits
    <3> QED BY <3>2, <3>3, Zenon
  <2>6. RwExcludes'
    BY <1>a, <2>3, <2>4, Zenon DEF RwExcludes
  <2> QED BY <1>g, <2>4, <2>5, <2>6, Zenon
<1>8. CASE Rw!DowngradeBegin(t)
  <2>1. /\ Readers' = Readers \cup {t} /\ t \notin Readers /\ Ups' = Ups /\ Writers' = Writers
        /\ pc' \in [Thread -> RwLabels] /\ lock' = (lock + Rw!READER) % UsizeMod
        /\ \A v \in Thread : v # t => pc'[v] = pc[v]
    BY <1>a, <1>8, Zenon DEF Rw!DowngradeBegin, Rw!Goto, Rw!In, Readers, Ups, Writers
  <2>2. RwWord(lock', Cardinality(Readers'), u, b) /\ RwBits(u, b)'
    BY <1>h, <2>1, <1>f, Zenon DEF RwBits
  <2>3. t \in Writers \/ t \in Ups
    BY <1>8, Zenon DEF Rw!DowngradeBegin, Ups, Writers, Rw!In
  <2>4. \A v \in Writers : v = t
    BY <1>a, <2>3, Zenon DEF RwExcludes, Ups, Writers, Rw!In
  <2>5. RwExcludes'
    BY <1>a, <2>1, <2>4, Zenon DEF RwExcludes
  <2> QED BY <1>g, <2>1, <2>2, <2>5, Zenon
<1>9. CASE pc[t] = "write to read" /\ Rw!DowngradeEnd(t)
  <2>1. t \in Writers /\ lock' = 4 * r
    BY <1>9, <1>d, Zenon DEF Rw!DowngradeEnd, Writers, Rw!In
  <2>2. /\ Readers' = Readers /\ Ups' = {} /\ Writers' = {}
        /\ pc' \in [Thread -> RwLabels]
    BY <1>a, <1>9, <2>1, Zenon DEF Rw!DowngradeEnd, Rw!Goto, Rw!In, Readers, Ups, Writers, RwExcludes
  <2>3. lock' = 4 * r + 2 * 0 + 0
    BY <2>1, <1>c
  <2>4. RwWord(lock', Cardinality(Readers'), 0, 0)
    BY <1>k, <2>2, <2>3, Zenon
  <2>5. RwBits(0, 0)' /\ RwExcludes'
    BY <1>l, <2>2, Zenon
  <2> QED BY <1>g, <2>2, <2>4, <2>5, Zenon
<1>10. Rw!DowngradeEnd(t) => pc[t] \in {"up to read", "write to read"}
  BY Zenon DEF Rw!DowngradeEnd
<1> QED BY <1>1, <1>2, <1>3, <1>4, <1>5, <1>6, <1>7, <1>8, <1>9, <1>10, Zenon DEF Rw!Step

\* The invariant says what the word counts and which guards its bits stand for.
LEMMA RwCounts == RwInv => Rw!RwWordAgrees
<1> SUFFICES ASSUME RwInv PROVE Rw!RwWordAgrees
  BY Zenon
<1>1. PICK u \in {0, 1}, b \in {0, 1} :
        RwWord(lock, Cardinality(Readers), u, b) /\ RwBits(u, b)
  BY Zenon DEF RwInv
<1>2. /\ lock \div 4 = Cardinality(Readers)
      /\ Rw!HasWriter(lock) <=> b = 1
      /\ Rw!HasUpgraded(lock) <=> u = 1
  BY <1>1, RwDecode, Zenon
<1>3. /\ lock \div Rw!READER = Rw!Cardinality(Readers)
      /\ Rw!HasWriter(lock) <=> Writers # {}
      /\ Ups # {} => Rw!HasUpgraded(lock)
      /\ Rw!HasUpgraded(lock) => Ups \cup Writers # {}
  BY <1>1, <1>2, SameCardinality, Zenon DEF RwBits, Rw!READER
<1>4. Ups \cup Writers = Rw!In({"up", "up to read", "write", "write to read"})
  BY Zenon DEF Ups, Writers, Rw!In
<1> QED BY <1>3, <1>4, Zenon DEF Rw!RwWordAgrees, Readers, Ups, Writers

-----------------------------------------------------------------------------
(* Once *)

OnceLabels == {"idle", "exchange", "poll", "waiting", "build", "publish",
               "done", "failed", "panicked"}

Builds(t) == pc[t] \in {"build", "publish"}

\* The inductive invariant of a Once: while a thread builds, and only one does,
\* the status is Running; it is Complete once there is data, for good.
OnceInv == /\ pc \in [Thread -> OnceLabels]
           /\ status \in {"Incomplete", "Running", "Complete", "Panicked"}
           /\ \A t \in Thread : Builds(t) => status = "Running"
           /\ \A t, u \in Thread : Builds(t) /\ Builds(u) => t = u
           /\ status = "Complete" => data # Once!NoData
           /\ \A t \in Thread : pc[t] = "publish" => data # Once!NoData
           /\ \A t \in Thread : pc[t] = "done" => status = "Complete"

\* Every step of a Once keeps its invariant.
LEMMA OnceStepInv == ASSUME OnceInv, NEW t \in Thread, Once!Step(t) PROVE OnceInv'
<1> USE DEF OnceInv, OnceLabels, Builds, Once!Goto
<1>1. CASE Once!Call(t) \/ Once!Wait(t) \/ Once!Return(t)
  BY <1>1 DEF Once!Call, Once!Wait, Once!Return
<1>2. CASE Once!Exchange(t)
  <2>1. CASE status = "Incomplete"
    <3>1. pc' = [pc EXCEPT ![t] = "build"] /\ status' = "Running" /\ data' = data
      BY <1>2, <2>1, Zenon DEF Once!Exchange
    <3>2. \A u \in Thread : ~Builds(u) /\ pc[u] # "done"
      BY <2>1, Zenon
    <3> QED BY <3>1, <3>2, Zenon
  <2>2. CASE status # "Incomplete"
    <3>1. PICK l \in {"poll", "done", "panicked"} : pc' = [pc EXCEPT ![t] = l]
      BY <1>2, <2>2, Zenon DEF Once!Exchange
    <3>2. status' = status /\ data' = data /\ (l = "done" => status = "Complete")
      BY <1>2, <2>2, <3>1, Zenon DEF Once!Exchange
    <3> QED BY <3>1, <3>2, Zenon
  <2> QED BY <2>1, <2>2, Zenon
<1>3. CASE Once!Poll(t)
  BY <1>3, Zenon DEF Once!Poll
<1>4. CASE Once!Build(t)
  <2>1. status = "Running" /\ data' = t /\ t # Once!NoData /\ status' = status
    BY <1>4, SpinAssumption, Zenon DEF Once!Build, Once!NoData
  <2> QED BY <1>4, <2>1, Zenon DEF Once!Build
<1>5. CASE Once!Publish(t)
  <2>1. \A u \in Thread : u # t => ~Builds(u)
    BY <1>5, Zenon DEF Once!Publish
  <2> QED BY <1>5, <2>1, Zenon DEF Once!Publish
<1>6. CASE Once!BuildError(t) \/ Once!BuildPanic(t)
  <2>1. \A u \in Thread : (u # t => ~Builds(u)) /\ pc[u] # "done"
    BY <1>6, Zenon DEF Once!BuildError, Once!BuildPanic
  <2> QED BY <1>6, <2>1, Zenon DEF Once!BuildError, Once!BuildPanic
<1> QED BY <1>1, <1>2, <1>3, <1>4, <1>5, <1>6, Zenon DEF Once!Step, Once!Running

\* The invariant says that what is given out is initialised.
LEMMA OnceGives == OnceInv => Once!OnceInitialised
BY DEF OnceInv, Once!OnceInitialised, Builds

-----------------------------------------------------------------------------
(* Barrier *)

\* The threads that wait in the current generation.
Waiting == {t \in Thread : pc[t] = "waiting" /\ local_gen[t] = generation_id}

\* The inductive invariant of a Barrier: count has the threads that wait in the
\* current generation, and every thread is in this generation or has yet to
\* leave the one before.
BarrierInv ==
  /\ pc \in [Thread -> {"idle", "waiting"}]
  /\ generation_id \in Nat /\ local_gen \in [Thread -> Nat] /\ passed \in [Thread -> Nat]
  /\ count = Cardinality(Waiting)
  /\ Thread # {} => count < Cardinality(Thread)
  /\ \A t \in Thread :
       IF pc[t] = "idle" THEN passed[t] = generation_id
       ELSE passed[t] = local_gen[t] /\ generation_id \in {local_gen[t], local_gen[t] + 1}

\* Every step of a Barrier keeps its invariant.
LEMMA BarrierStepInv == ASSUME BarrierInv, NEW t \in Thread, Barrier!Step(t) PROVE BarrierInv'
<1> DEFINE n == Cardinality(Thread)
<1>0. /\ pc \in [Thread -> {"idle", "waiting"}]
      /\ generation_id \in Nat /\ local_gen \in [Thread -> Nat] /\ passed \in [Thread -> Nat]
      /\ count = Cardinality(Waiting) /\ count < n
  BY Zenon DEF BarrierInv
<1>a. \A u \in Thread :
        IF pc[u] = "idle" THEN passed[u] = generation_id
        ELSE passed[u] = local_gen[u] /\ generation_id \in {local_gen[u], local_gen[u] + 1}
  BY Zenon DEF BarrierInv
<1>b. Waiting \in SUBSET Thread
  BY Zenon DEF Waiting
<1>c. count \in Nat /\ n \in Nat /\ (t \notin Waiting => Cardinality(Waiting \cup {t}) = count + 1)
  BY <1>0, <1>b, Threads, FS_CardinalityType, SpinAssumption, Zenon
<1>d. Barrier!num_threads = n
  BY SameCardinality, Zenon DEF Barrier!num_threads
<1> HIDE DEF n
<1>1. CASE Barrier!Arrive(t)
  <2>1. /\ pc[t] = "idle" /\ count + 1 < n /\ count' = count + 1
        /\ local_gen' = [local_gen EXCEPT ![t] = generation_id]
        /\ pc' = [pc EXCEPT ![t] = "waiting"]
        /\ generation_id' = generation_id /\ passed' = passed
    BY <1>1, <1>d, Zenon DEF Barrier!Arrive
  <2>2. Waiting' = Waiting \cup {t} /\ t \notin Waiting
    BY <1>0, <2>1, Zenon DEF Waiting
  <2>3. count' = Cardinality(Waiting')
    BY <1>c, <2>1, <2>2, Zenon
  <2>4. \A u \in Thread :
          IF pc'[u] = "idle" THEN passed'[u] = generation_id'
          ELSE passed'[u] = local_gen'[u] /\ generation_id' \in {local_gen'[u], local_gen'[u] + 1}
    BY <1>0, <1>a, <2>1, Zenon
  <2>5. /\ pc' \in [Thread -> {"idle", "waiting"}]
        /\ generation_id' \in Nat /\ local_gen' \in [Thread -> Nat] /\ passed' \in [Thread -> Nat]
    BY <1>0, <2>1, Zenon
  <2> QED BY <2>1, <2>3, <2>4, <2>5, Zenon DEF BarrierInv, n
<1>2. CASE Barrier!Lead(t)
  <2>1. /\ pc[t] = "idle" /\ count + 1 >= n /\ count' = 0
        /\ generation_id' = generation_id + 1
        /\ passed' = [passed EXCEPT ![t] = @ + 1]
        /\ local_gen' = local_gen /\ pc' = pc
    BY <1>2, <1>d, Zenon DEF Barrier!Lead
  <2>2. Waiting = Thread \ {t}
    <3>1. IsFiniteSet(Thread \ {t}) /\ Cardinality(Thread \ {t}) = n - 1
      BY FS_RemoveElement, SpinAssumption, Zenon DEF n
    <3>2. Waiting \in SUBSET (Thread \ {t})
      BY <1>0, <2>1, Zenon DEF Waiting
    <3>3. Cardinality(Thread \ {t}) = Cardinality(Waiting)
      BY <1>0, <1>c, <2>1, <3>1
    <3> QED BY <3>1, <3>2, <3>3, FS_Subset, Zenon
  <2>3. \A u \in Thread : u # t => pc[u] = "waiting" /\ local_gen[u] = generation_id
    BY <2>2, Zenon DEF Waiting
  <2>4. Waiting' = {}
    <3> SUFFICES ASSUME NEW u \in Thread, pc'[u] = "waiting", local_gen'[u] = generation_id'
                 PROVE  FALSE
      BY Zenon DEF Waiting
    <3> QED BY <1>0, <2>1, <2>3
  <2>5. count' = Cardinality(Waiting') /\ count' < n
    <3>1. Cardinality(Waiting') = 0
      BY <2>4, FS_EmptySet, Zenon
    <3> QED BY <3>1, <2>1, <1>0, <1>c
  <2>6. \A u \in Thread :
          IF pc'[u] = "idle" THEN passed'[u] = generation_id'
          ELSE passed'[u] = local_gen'[u] /\ generation_id' \in {local_gen'[u], local_gen'[u] + 1}
    BY <1>0, <1>a, <2>1, <2>3, Zenon
  <2>7. /\ pc' \in [Thread -> {"idle", "waiting"}]
        /\ generation_id' \in Nat /\ local_gen' \in [Thread -> Nat] /\ passed' \in [Thread -> Nat]
    BY <1>0, <2>1
  <2> QED BY <2>5, <2>6, <2>7, Zenon DEF BarrierInv, n
<1>3. CASE Barrier!Leave(t)
  <2>1. /\ pc[t] = "waiting" /\ (local_gen[t] # generation_id \/ count >= n)
        /\ passed' = [passed EXCEPT ![t] = @ + 1]
        /\ pc' = [pc EXCEPT ![t] = "idle"]
        /\ count' = count /\ generation_id' = generation_id /\ local_gen' = local_gen
    BY <1>3, <1>d, Zenon DEF Barrier!Leave
  <2>2. local_gen[t] # generation_id
    BY <1>0, <1>c, <2>1
  <2>3. passed[t] + 1 = generation_id
    BY <1>0, <1>a, <2>1, <2>2, Zenon
  <2>4. Waiting' = Waiting
    BY <1>0, <2>1, <2>2, Zenon DEF Waiting
  <2>5. \A u \in Thread :
          IF pc'[u] = "idle" THEN passed'[u] = generation_id'
          ELSE passed'[u] = local_gen'[u] /\ generation_id' \in {local_gen'[u], local_gen'[u] + 1}
    BY <1>0, <1>a, <2>1, <2>3, Zenon
  <2>6. /\ pc' \in [Thread -> {"idle", "waiting"}]
        /\ generation_id' \in Nat /\ local_gen' \in [Thread -> Nat] /\ passed' \in [Thread -> Nat]
    BY <1>0, <2>1
  <2> QED BY <1>0, <2>1, <2>4, <2>5, <2>6, Zenon DEF BarrierInv, n
<1> QED BY <1>1, <1>2, <1>3, Zenon DEF Barrier!Step

\* The invariant says that nobody is two rounds ahead.
LEMMA BarrierRounds == BarrierInv => Barrier!InStep
<1> SUFFICES ASSUME BarrierInv, NEW t \in Thread, NEW u \in Thread
             PROVE  passed[t] <= passed[u] + 1
  BY Zenon DEF Barrier!InStep
<1>1. passed[t] \in Nat /\ passed[u] \in Nat /\ generation_id \in Nat
  BY Zenon DEF BarrierInv
<1>2. passed[t] <= generation_id /\ generation_id <= passed[u] + 1
  <2>1. \A v \in Thread : generation_id \in {passed[v], passed[v] + 1}
    BY Zenon DEF BarrierInv
  <2> QED BY <1>1, <2>1
<1> QED BY <1>1, <1>2

-----------------------------------------------------------------------------
(* All of them *)

\* The inductive invariant of the primitive that a behaviour is about.
SpinInv == /\ kind \in Primitives
           /\ kind = "ticket" => pc = [t \in Thread |-> "idle"]
           /\ kind = "fair" => FairInv
           /\ kind = "rw" => RwInv
           /\ kind = "once" => OnceInv
           /\ kind = "barrier" => BarrierInv

\* Every primitive starts in its invariant.
LEMMA SpinInvInit == SpinInit => SpinInv
<1> SUFFICES ASSUME SpinInit PROVE SpinInv
  BY Zenon
<1>1. pc = [t \in Thread |-> "idle"] /\ lock = 0 /\ kind \in Primitives
  BY Zenon DEF SpinInit, Unused, Fair!Init
<1>2. Cardinality({}) = 0 /\ \A S : IsFiniteSet(S) => (Cardinality(S) = 0 <=> S = {})
  BY FS_EmptySet, Zenon
<1>3. FairInv
  <2>1. Fair!Holders = {} /\ Fair!Starvers = {}
    BY <1>1, Zenon DEF Fair!Holders, Fair!Starvers
  <2>2. FairWord(lock, Cardinality(Fair!Holders), Cardinality(Fair!Starvers))
    BY <1>1, <1>2, <2>1 DEF FairWord
  <2> QED BY <1>1, <2>1, <2>2, Zenon DEF FairInv, FairLabels
<1>4. RwInv
  <2>1. Readers = {} /\ Ups = {} /\ Writers = {}
    BY <1>1, Zenon DEF Readers, Ups, Writers, Rw!In
  <2>2. RwWord(lock, Cardinality(Readers), 0, 0)
    BY <1>1, <1>2, <2>1 DEF RwWord
  <2>3. RwBits(0, 0)
    BY <2>1 DEF RwBits
  <2>4. RwExcludes
    BY <2>1, Zenon DEF RwExcludes
  <2> QED BY <1>1, <2>2, <2>3, <2>4, Zenon DEF RwInv, RwLabels
<1>5. OnceInv
  BY <1>1, Zenon DEF SpinInit, Unused, Once!Init, OnceInv, OnceLabels, Builds
<1>6. BarrierInv
  <2>1. Waiting = {}
    BY <1>1, Zenon DEF Waiting
  <2>2. count = Cardinality(Waiting) /\ count = 0
    BY <1>2, <2>1, Zenon DEF SpinInit, Unused, Barrier!Init
  <2>3. Thread # {} => 0 < Cardinality(Thread)
    <3>1. Cardinality(Thread) \in Nat
      BY FS_CardinalityType, SpinAssumption, Zenon
    <3>2. Thread # {} => Cardinality(Thread) # 0
      BY <1>2, SpinAssumption, Zenon
    <3> QED BY <3>1, <3>2
  <2> QED BY <1>1, <2>2, <2>3, Zenon DEF SpinInit, Unused, Barrier!Init, BarrierInv
<1> QED BY <1>1, <1>3, <1>4, <1>5, <1>6, Zenon DEF SpinInv

\* Every step keeps the invariant of its primitive.
LEMMA SpinInvStep == SpinInv /\ [SpinNext]_spinVars => SpinInv'
<1> SUFFICES ASSUME SpinInv, [SpinNext]_spinVars PROVE SpinInv'
  BY Zenon
<1> USE DEF SpinInv, Is
<1>1. ASSUME NEW t \in Thread, TicketStep(t) PROVE SpinInv'
  BY <1>1, Zenon DEF TicketStep
<1>2. ASSUME NEW t \in Thread, FairStep(t) PROVE SpinInv'
  BY <1>2, FairStepInv, Zenon DEF FairStep
<1>3. ASSUME NEW t \in Thread, RwStep(t) PROVE SpinInv'
  BY <1>3, RwStepInv, Zenon DEF RwStep
<1>4. ASSUME NEW t \in Thread, OnceStep(t) PROVE SpinInv'
  BY <1>4, OnceStepInv, Zenon DEF OnceStep
<1>5. ASSUME NEW t \in Thread, BarrierStep(t) PROVE SpinInv'
  BY <1>5, BarrierStepInv, Zenon DEF BarrierStep
<1>6. CASE UNCHANGED spinVars
  <2>1. /\ UNCHANGED <<kind, pc, lock, status, data, count, generation_id, local_gen, passed>>
    BY <1>6, Zenon DEF spinVars, onceVars, barrierVars
  <2>2. (FairInv => FairInv') /\ (RwInv => RwInv')
    <3>1. Fair!Holders' = Fair!Holders /\ Fair!Starvers' = Fair!Starvers
      BY <2>1, Zenon DEF Fair!Holders, Fair!Starvers
    <3>2. FairInv => FairInv'
      BY <2>1, <3>1, Zenon DEF FairInv
    <3>3. Readers' = Readers /\ Ups' = Ups /\ Writers' = Writers
      BY <2>1, Zenon DEF Readers, Ups, Writers, Rw!In
    <3>4. RwInv => RwInv'
      BY <2>1, <3>3, Zenon DEF RwInv, RwBits, RwExcludes
    <3> QED BY <3>2, <3>4, Zenon
  <2>3. (OnceInv => OnceInv') /\ (BarrierInv => BarrierInv')
    BY <2>1, Zenon DEF OnceInv, Builds, BarrierInv, Waiting
  <2> QED BY <2>1, <2>2, <2>3, Zenon
<1> QED BY <1>1, <1>2, <1>3, <1>4, <1>5, <1>6, Zenon DEF SpinNext

\* In every reachable state of a lock the word counts the guards and the threads
\* that starve, what a Once gives out is initialised, and no thread is two
\* rounds of a Barrier ahead of another, whatever the number of threads.
THEOREM SpinAlwaysSound == SpinSpec => []SpinSound
<1>1. SpinInv => SpinSound
  BY FairCounts, RwCounts, OnceGives, BarrierRounds, Zenon DEF SpinInv, SpinSound
<1> QED BY <1>1, SpinInvInit, SpinInvStep, PTL DEF SpinSpec

\* Where a thread is not when the behaviour is not one of a FairMutex, or not
\* one of an RwLock: in the labels that mean a guard there.
Labelled ==
  \A t \in Thread :
    /\ pc[t] \in {"held", "relieved", "starving"} => kind = "fair"
    /\ pc[t] \in {"read", "up", "up to read", "write", "write to read"} => kind = "rw"

\* The labels of each primitive are its own.
LEMMA OtherKinds == SpinInv => Labelled
BY DEF Labelled, SpinInv, Primitives, FairInv, FairLabels, RwInv, RwLabels, OnceInv, OnceLabels, BarrierInv

\* A step other than one of the FairMutex, or than one of the RwLock, leaves
\* its guards alone.
LEMMA GuardsOfOthers ==
  ASSUME SpinInv, SpinInv', UNCHANGED kind
  PROVE  /\ kind # "fair" => Fair!guard' = Fair!guard
         /\ kind # "rw" => Rw!guard' = Rw!guard
<1>0. Labelled /\ Labelled'
  BY OtherKinds, PTL
<1>1. ASSUME kind # "fair" PROVE Fair!guard' = Fair!guard
  <2>1. \A t \in Thread : t \notin Fair!Holders /\ t \notin Fair!Holders'
    BY <1>0, <1>1, Zenon DEF Fair!Holders, Labelled
  <2> QED BY <2>1, Zenon DEF Fair!guard
<1>2. ASSUME kind # "rw" PROVE Rw!guard' = Rw!guard
  <2>1. \A t \in Thread : /\ pc[t] \notin {"read", "up", "up to read", "write", "write to read"}
                          /\ pc'[t] \notin {"read", "up", "up to read", "write", "write to read"}
    BY <1>0, <1>2, Zenon DEF Labelled
  <2>2. Rw!guard = [t \in Thread |-> "none"] /\ Rw!guard' = [t \in Thread |-> "none"]
    BY <2>1, Zenon DEF Rw!guard
  <2> QED BY <2>2, Zenon
<1> QED BY <1>1, <1>2, Zenon

\* A step of the FairMutex changes the guard of one thread, and two threads
\* never hold it.
LEMMA FairGuards ==
  ASSUME FairInv, FairInv', NEW t \in Thread, Fair!Step(t)
  PROVE  Fair!Abstract!Next
<1>1. \A u \in Thread : u # t => pc'[u] = pc[u]
  BY Zenon DEF Fair!Step, Fair!Spin, Fair!Lock, Fair!Starve, Fair!StarverLock, Fair!Relieve,
         Fair!GiveUp, Fair!Drop, Fair!Goto, FairInv
<1>2. \A u \in Thread : u # t => Fair!guard'[u] = Fair!guard[u]
  BY <1>1, Zenon DEF Fair!guard, Fair!Holders
<1>3. /\ Fair!guard' = [Fair!guard EXCEPT ![t] = Fair!guard'[t]]
      /\ Fair!guard'[t] \in {"none", "write"}
  BY <1>2, Zenon DEF Fair!guard
<1>4. Fair!Abstract!Compatible(Fair!guard')
  BY Zenon DEF Fair!Abstract!Compatible, Fair!guard, FairInv
<1> QED BY <1>3, <1>4, Zenon DEF Fair!Abstract!Next, Fair!Abstract!Change

\* A step of the RwLock changes the guard of one thread; a writer is alone and
\* there is one upgradeable guard at most.
LEMMA RwGuards ==
  ASSUME RwInv, RwInv', NEW t \in Thread, Rw!Step(t)
  PROVE  Rw!Abstract!Next
<1>1. \A u \in Thread : u # t => pc'[u] = pc[u]
  BY Zenon DEF Rw!Step, Rw!TryRead, Rw!UndoRead, Rw!DropRead, Rw!TryWrite, Rw!DropWrite,
         Rw!TryUpgradeable, Rw!DropUpgradeable, Rw!Upgrade, Rw!DowngradeBegin,
         Rw!DowngradeEnd, Rw!Goto, RwInv
<1> DEFINE G(l) == CASE l = "read" -> "read"
                     [] l \in {"up", "up to read"} -> "up"
                     [] l \in {"write", "write to read"} -> "write"
                     [] OTHER -> "none"
<1>2. /\ Rw!guard = [u \in Thread |-> G(pc[u])]
      /\ Rw!guard' = [u \in Thread |-> G(pc'[u])]
  BY Zenon DEF Rw!guard
<1>3. \A l : /\ G(l) \in {"none", "read", "up", "write"}
             /\ G(l) = "write" <=> l \in {"write", "write to read"}
             /\ G(l) = "up" <=> l \in {"up", "up to read"}
             /\ l \in {"idle", "undo"} => G(l) = "none"
  BY Zenon
<1> HIDE DEF G
<1>4. /\ Rw!guard' = [Rw!guard EXCEPT ![t] = G(pc'[t])]
      /\ G(pc'[t]) \in {"none", "read", "up", "write"}
  <2> DEFINE c == G(pc'[t])
  <2>1. c \in {"none", "read", "up", "write"}
    BY <1>3, Zenon
  <2>2. \A u \in Thread : u # t => G(pc'[u]) = G(pc[u])
    BY <1>1, Zenon
  <2> HIDE DEF c
  <2>3. [u \in Thread |-> G(pc'[u])] = [[u \in Thread |-> G(pc[u])] EXCEPT ![t] = c]
    BY <2>2, Zenon DEF c
  <2> QED BY <1>2, <2>1, <2>3, Zenon DEF c
<1>5. Rw!Abstract!Compatible(Rw!guard')
  <2> SUFFICES ASSUME NEW v \in Thread, NEW u \in Thread, v # u
               PROVE  /\ G(pc'[v]) = "write" => G(pc'[u]) = "none"
                      /\ G(pc'[v]) = "up" => G(pc'[u]) # "up"
    BY <1>2, Zenon DEF Rw!Abstract!Compatible
  <2>1. RwExcludes'
    BY Zenon DEF RwInv
  <2>2. /\ pc'[v] \in {"write", "write to read"} => pc'[u] \in {"idle", "undo"}
        /\ ~(pc'[v] \in {"up", "up to read"} /\ pc'[u] \in {"up", "up to read"})
    BY <2>1, Zenon DEF RwExcludes, Ups, Writers, Rw!In
  <2>3. /\ G(pc'[v]) = "write" => pc'[v] \in {"write", "write to read"}
        /\ \A w \in {u, v} : G(pc'[w]) = "up" => pc'[w] \in {"up", "up to read"}
        /\ pc'[u] \in {"idle", "undo"} => G(pc'[u]) = "none"
    BY <1>3, Zenon
  <2> QED BY <2>2, <2>3, Zenon
<1> QED BY <1>4, <1>5, Zenon DEF Rw!Abstract!Next, Rw!Abstract!Change

\* FairMutex and RwLock implement the guards: two threads never hold the mutex,
\* a writer is alone, and there is one upgradeable guard at most.
THEOREM LocksExclude == SpinSpec => LockGuards
<1>1. SpinInit => Fair!Abstract!Init /\ Rw!Abstract!Init
  <2> SUFFICES ASSUME SpinInit PROVE Fair!Abstract!Init /\ Rw!Abstract!Init
    BY Zenon
  <2>1. pc = [t \in Thread |-> "idle"]
    BY Zenon DEF SpinInit, Unused, Fair!Init
  <2> QED BY <2>1, Zenon DEF Fair!Abstract!Init, Rw!Abstract!Init, Fair!guard, Fair!Holders, Rw!guard
<1>2. SpinInv /\ SpinInv' /\ [SpinNext]_spinVars
        => [Fair!Abstract!Next]_(Fair!guard) /\ [Rw!Abstract!Next]_(Rw!guard)
  <2> SUFFICES ASSUME SpinInv, SpinInv', [SpinNext]_spinVars
               PROVE  /\ Fair!Abstract!Next \/ Fair!guard' = Fair!guard
                      /\ Rw!Abstract!Next \/ Rw!guard' = Rw!guard
    BY Zenon
  <2>1. CASE UNCHANGED spinVars
    <3>1. pc' = pc
      BY <2>1, Zenon DEF spinVars
    <3> QED BY <3>1, Zenon DEF Fair!guard, Fair!Holders, Rw!guard
  <2>2. ASSUME NEW t \in Thread, TicketStep(t) \/ OnceStep(t) \/ BarrierStep(t)
        PROVE  Fair!guard' = Fair!guard /\ Rw!guard' = Rw!guard
    <3>1. UNCHANGED kind /\ kind \notin {"fair", "rw"}
      BY <2>2, Zenon DEF TicketStep, OnceStep, BarrierStep, Is
    <3> QED BY <3>1, GuardsOfOthers, Zenon
  <2>3. ASSUME NEW t \in Thread, FairStep(t)
        PROVE  Fair!Abstract!Next /\ Rw!guard' = Rw!guard
    <3>1. UNCHANGED kind /\ kind = "fair" /\ Fair!Step(t)
      BY <2>3, Zenon DEF FairStep, Is
    <3>2. FairInv /\ FairInv'
      BY <3>1, Zenon DEF SpinInv
    <3> QED BY <3>1, <3>2, FairGuards, GuardsOfOthers, Zenon
  <2>4. ASSUME NEW t \in Thread, RwStep(t)
        PROVE  Rw!Abstract!Next /\ Fair!guard' = Fair!guard
    <3>1. UNCHANGED kind /\ kind = "rw" /\ Rw!Step(t)
      BY <2>4, Zenon DEF RwStep, Is
    <3>2. RwInv /\ RwInv'
      BY <3>1, Zenon DEF SpinInv
    <3> QED BY <3>1, <3>2, RwGuards, GuardsOfOthers, Zenon
  <2> QED BY <2>1, <2>2, <2>3, <2>4, Zenon DEF SpinNext
<1> QED BY <1>1, <1>2, SpinInvInit, SpinInvStep, PTL
        DEF SpinSpec, LockGuards, Fair!GuardsSpec, Rw!GuardsSpec, Fair!Abstract!Spec, Rw!Abstract!Spec

\* A thread that does not starve takes a FairMutex only while nobody starves.
THEOREM StarversFirst == SpinSpec => StarverFirst
<1> DEFINE A == \A t \in Thread : (pc[t] \in {"idle", "spin"} /\ pc'[t] = "held")
                                    => \A u \in Thread : pc[u] # "starving"
<1>1. SpinInv /\ SpinInv' /\ [SpinNext]_spinVars => [A]_(Fair!vars)
  <2> SUFFICES ASSUME SpinInv, SpinInv', [SpinNext]_spinVars,
                      NEW t \in Thread, pc[t] \in {"idle", "spin"}, pc'[t] = "held",
                      NEW u \in Thread
               PROVE  pc[u] # "starving"
    BY Zenon
  <2>1. PICK v \in Thread : TicketStep(v) \/ FairStep(v) \/ RwStep(v) \/ OnceStep(v) \/ BarrierStep(v)
    BY Zenon DEF SpinNext, spinVars
  <2>2. kind' = kind
    BY <2>1, Zenon DEF TicketStep, FairStep, RwStep, OnceStep, BarrierStep, Is
  <2>3. kind = "fair"
    BY <2>2, Zenon DEF SpinInv, Primitives, FairInv, FairLabels, RwInv, RwLabels, OnceInv, OnceLabels, BarrierInv
  <2>4. FairInv /\ Fair!Step(v)
    BY <2>1, <2>3, Zenon DEF SpinInv, TicketStep, FairStep, RwStep, OnceStep, BarrierStep, Is
  <2>5. lock = 0
    BY <2>4, Zenon DEF FairInv, Fair!Step, Fair!Spin, Fair!Lock, Fair!Starve, Fair!StarverLock,
                Fair!Relieve, Fair!GiveUp, Fair!Drop, Fair!Goto
  <2>6. Fair!Starvers = {}
    BY <2>4, <2>5, FairFree, Zenon
  <2> QED BY <2>6, Zenon DEF Fair!Starvers
<1> QED BY <1>1, SpinInvInit, SpinInvStep, PTL DEF SpinSpec, StarverFirst, Fair!StarverFirst

=============================================================================
