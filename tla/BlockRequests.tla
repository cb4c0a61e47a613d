--------------------------- MODULE BlockRequests ---------------------------
(***************************************************************************)
(* What a block driver promises to its callers: a request that is          *)
(* submitted is carried out exactly once, on the sector and with the data  *)
(* it was submitted with, and its completion is reported after that.       *)
(***************************************************************************)
CONSTANTS Reqs,             \* the callers' request slots
          Kind,             \* Kind[r]: "In" or "Out"
          Val,              \* contents of a block
          None              \* no contents

VARIABLES disk,             \* the block the requests are about
          phase,            \* "idle", "submitted" or "served"
          data              \* data[r]: the contents of the caller's buffer

vars == <<disk, phase, data>>

Init == /\ disk \in Val
        /\ phase = [r \in Reqs |-> "idle"]
        /\ data = [r \in Reqs |-> None]

Submit(r) ==
  /\ phase[r] = "idle"
  /\ phase' = [phase EXCEPT ![r] = "submitted"]
  /\ \E v \in (IF Kind[r] = "Out" THEN Val ELSE {None}) :
       data' = [data EXCEPT ![r] = v]
  /\ UNCHANGED disk

Serve(r) ==
  /\ phase[r] = "submitted"
  /\ phase' = [phase EXCEPT ![r] = "served"]
  /\ disk' = IF Kind[r] = "Out" THEN data[r] ELSE disk
  /\ data' = IF Kind[r] = "In" THEN [data EXCEPT ![r] = disk] ELSE data

Complete(r) ==
  /\ phase[r] = "served"
  /\ phase' = [phase EXCEPT ![r] = "idle"]
  /\ data' = [data EXCEPT ![r] = None]
  /\ UNCHANGED disk

Next == \E r \in Reqs : Submit(r) \/ Serve(r) \/ Complete(r)

\* A submitted request is carried out, and a caller that keeps asking for a
\* completion gets it.
Spec == /\ Init /\ [][Next]_vars
        /\ \A r \in Reqs : WF_vars(Serve(r)) /\ WF_vars(Complete(r))

=============================================================================
