---------------------------- MODULE MCTaskManager ----------------------------
(* TaskManager for TLC: the initial process, a child and a grandchild.  The  *)
(* run checks liveness, so the cells are not declared symmetric.             *)
EXTENDS TaskManager
=============================================================================
