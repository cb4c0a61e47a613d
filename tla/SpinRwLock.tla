----------------------------- MODULE SpinRwLock -----------------------------
(***************************************************************************)
(* spin's RwLock, which guards the FAT32 manager, the FAT and the block    *)
(* caches.  The lock word holds the number of readers times READER, the    *)
(* UPGRADED bit and the WRITER bit; every operation on it is a step.       *)
(* downgrade_to_upgradeable, which nothing here calls, is left out.        *)
(***************************************************************************)
EXTENDS Integers, FiniteSets

CONSTANTS Thread,
          UsizeMod          \* the word wraps here (2^64)

READER == 4
UPGRADED == 2
WRITER == 1

VARIABLES lock, pc

vars == <<lock, pc>>

HasWriter(w) == w % 2 = 1
HasUpgraded(w) == (w \div UPGRADED) % 2 = 1
ClearBits(w) == (w \div READER) * READER        \* & !(WRITER | UPGRADED)
fetch_sub(w, n) == (w - n) % UsizeMod

Init == lock = 0 /\ pc = [t \in Thread |-> "idle"]

Goto(t, l) == pc' = [pc EXCEPT ![t] = l]

\* Whether a word refuses new readers and new upgradeable guards.
Taken(w) == HasWriter(w) \/ HasUpgraded(w)

\* try_read counts itself first; one that finds the lock taken takes itself
\* off again in a second step.
TryRead(t) == /\ pc[t] = "idle"
              /\ lock' = (lock + READER) % UsizeMod
              /\ Goto(t, IF Taken(lock) THEN "undo" ELSE "read")

UndoRead(t) == /\ pc[t] = "undo"
               /\ lock' = fetch_sub(lock, READER)
               /\ Goto(t, "idle")

DropRead(t) == /\ pc[t] = "read"
               /\ lock' = fetch_sub(lock, READER)
               /\ Goto(t, "idle")

\* try_write and write: an exchange from 0 to WRITER.
TryWrite(t) == /\ pc[t] = "idle" /\ lock = 0
               /\ lock' = WRITER
               /\ Goto(t, "write")

\* Faulty variant: the writer only takes its own bit off.
DropWriteBit(t) == /\ pc[t] = "write"
                   /\ lock' = fetch_sub(lock, WRITER)
                   /\ Goto(t, "idle")

DropWrite(t) == /\ pc[t] = "write"
                /\ lock' = ClearBits(lock)
                /\ Goto(t, "idle")

\* try_upgradeable_read sets UPGRADED in any case; when the lock was taken the
\* bit is left to its holder to clear.
TryUpgradeable(t) ==
  /\ pc[t] = "idle"
  /\ lock' = IF HasUpgraded(lock) THEN lock ELSE lock + UPGRADED
  /\ IF Taken(lock) THEN UNCHANGED pc ELSE Goto(t, "up")

DropUpgradeable(t) == /\ pc[t] = "up"
                      /\ lock' = fetch_sub(lock, UPGRADED)
                      /\ Goto(t, "idle")

\* Faulty variant: the upgrade does not wait for the readers.
UpgradeHasty(t) == /\ pc[t] = "up"
                   /\ lock' = lock - UPGRADED + WRITER
                   /\ Goto(t, "write")

\* upgrade and try_upgrade: an exchange from UPGRADED to WRITER.
Upgrade(t) == /\ pc[t] = "up" /\ lock = UPGRADED
              /\ lock' = WRITER
              /\ Goto(t, "write")

\* Both downgrades count the guard as a reader before they give up the bit.
DowngradeBegin(t) ==
  /\ pc[t] \in {"up", "write"}
  /\ lock' = (lock + READER) % UsizeMod
  /\ Goto(t, IF pc[t] = "up" THEN "up to read" ELSE "write to read")

DowngradeEnd(t) ==
  /\ \/ pc[t] = "up to read" /\ lock' = fetch_sub(lock, UPGRADED)
     \/ pc[t] = "write to read" /\ lock' = ClearBits(lock)
  /\ Goto(t, "read")

Step(t) == \/ TryRead(t) \/ UndoRead(t) \/ DropRead(t)
           \/ TryWrite(t) \/ DropWrite(t)
           \/ TryUpgradeable(t) \/ DropUpgradeable(t) \/ Upgrade(t)
           \/ DowngradeBegin(t) \/ DowngradeEnd(t)

Next == \E t \in Thread : Step(t)

Spec == Init /\ [][Next]_vars

-----------------------------------------------------------------------------
(* Properties *)

In(labels) == {t \in Thread : pc[t] \in labels}

\* The lock word counts the guards: its reader count is the number of read
\* guards and of threads about to take themselves off; WRITER is set when
\* there is a writer; UPGRADED is set while there is an upgradeable guard and
\* only while somebody will clear it, so that a failed attempt leaves the
\* lock usable.
RwWordAgrees ==
  /\ lock \div READER
       = Cardinality(In({"read", "undo", "up to read", "write to read"}))
  /\ HasWriter(lock) <=> In({"write", "write to read"}) # {}
  /\ In({"up", "up to read"}) # {} => HasUpgraded(lock)
  /\ HasUpgraded(lock)
       => In({"up", "up to read", "write", "write to read"}) # {}

\* The lock implements shared, upgradeable and exclusive guards.
guard == [t \in Thread |->
            CASE pc[t] = "read" -> "read"
              [] pc[t] \in {"up", "up to read"} -> "up"
              [] pc[t] \in {"write", "write to read"} -> "write"
              [] OTHER -> "none"]
Abstract == INSTANCE Guards
GuardsSpec == Abstract!Spec

=============================================================================
