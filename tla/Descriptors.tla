----------------------------- MODULE Descriptors -----------------------------
(***************************************************************************)
(* What the calls on descriptors promise: each task has a finite map from  *)
(* descriptors to open files.  A new descriptor is the lowest that is not  *)
(* in use, and what one task does leaves the maps of the others alone.     *)
(***************************************************************************)
EXTENDS Naturals

CONSTANTS Task, File, Fd, Std, NStd

VARIABLE fds        \* fds[p]: a function from the open descriptors of p

Nobody == [d \in {} |-> Std]
StdFds == [d \in 0..(NStd - 1) |-> Std]

DescriptorsInit ==
  \E p \in Task : fds = [q \in Task |-> IF q = p THEN StdFds ELSE Nobody]

\* The files that nobody has open.
Unused(m) == File \ UNION {{m[q][d] : d \in DOMAIN m[q]} : q \in Task}

Lowest(t) == CHOOSE d \in Fd \ DOMAIN t : \A e \in Fd \ DOMAIN t : d <= e
Assign(t, d, f) == [e \in DOMAIN t \union {d} |-> IF e = d THEN f ELSE t[e]]
With(t, f) == Assign(t, Lowest(t), f)

\* The maps that one call may leave in place of t, the map of its caller.
Opened(t, new) == {With(t, f) : f \in new}
PipeMade(t, new) ==
  {With(With(t, e[1]), e[2]) : e \in {e \in new \X new : e[1] # e[2]}}
Closed(t) == {[e \in DOMAIN t \ {d} |-> t[e]] : d \in DOMAIN t}
Dupped(t) == {With(t, t[d]) : d \in DOMAIN t}
Dup3ed(t) == {Assign(t, new, t[d]) : d \in DOMAIN t, new \in Fd}

\* The maps that a task may have at first: the standard one, or a copy.
Inherited(m) == {StdFds} \union {m[q] : q \in Task}

\* From the maps m to the maps n: one call of one task, or its exit.
Changes(m, n) ==
  \E p \in Task :
    /\ \A q \in Task \ {p} : n[q] = m[q]
    /\ LET t == m[p] IN
         \/ n[p] \in Closed(t) \union Dupped(t) \union Dup3ed(t) \union {Nobody}
         \/ n[p] \in Opened(t, Unused(m)) \union PipeMade(t, Unused(m))
         \/ t = Nobody /\ n[p] \in Inherited(m)

DescriptorsNext == Changes(fds, fds')

DescriptorsSpec == DescriptorsInit /\ [][DescriptorsNext]_fds
=============================================================================
