------------------------------ MODULE MCTables ------------------------------
(* The tables of a task on small instances: a behaviour is one of the page   *)
(* tables or of the descriptor tables, chosen by kind.                       *)
EXTENDS PageTable, FdTable, TLC

\* Three bytes touch two pages or three.
MCCopies == {<<1, 2, 3>>}

Symmetry == Permutations(Space) \union Permutations(Task)

VARIABLE kind

TablesInit == kind \in {"pages", "fds"} /\ Init /\ FdInit

TablesNext == \/ kind = "pages" /\ Next /\ UNCHANGED <<kind, fdVars>>
              \/ kind = "fds" /\ FdNext /\ UNCHANGED <<kind, vars>>

TablesSpec == TablesInit /\ [][TablesNext]_<<kind, vars, fdVars>>
=============================================================================
