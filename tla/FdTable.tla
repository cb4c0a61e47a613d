------------------------------- MODULE FdTable -------------------------------
(***************************************************************************)
(* The descriptor tables of the tasks: fd_table, a Vec<Option<Arc<File>>>, *)
(* under openat, pipe2, dup, dup3, close, fork, spawn and exit.  Files are *)
(* numbered as they are opened; Std stands for the standard streams.       *)
(* Descriptor d is place d + 1 of the sequence.  A call that returns -1    *)
(* leaves everything as it is.                                             *)
(***************************************************************************)
EXTENDS Naturals, Sequences, FiniteSets

CONSTANTS
  Task,
  NStd,       \* the standard descriptors of a new table (3)
  MaxFds,     \* bound on the length of a table
  MaxFiles,   \* bound on the files opened
  Std, None

\* A place of a table is a standard stream, the number of a file or a hole.
ASSUME FdAssumption ==
  /\ NStd \in Nat /\ MaxFds \in Nat /\ MaxFiles \in Nat /\ NStd <= MaxFds
  /\ Std # None /\ Std \notin 1..MaxFiles /\ None \notin 1..MaxFiles

VARIABLES
  fd_table,
  live,       \* the tasks that have not exited
  files,      \* how many files have been opened
  pipe,       \* history: the two ends the first pipe2 made, or <<>>
  kin         \* history: the task that called it and those forked since

fdVars == <<fd_table, live, files, pipe, kin>>

NewTable == [i \in 1..NStd |-> Std]

FdInit ==
  \E p \in Task :
    /\ fd_table = [q \in Task |-> IF q = p THEN NewTable ELSE <<>>]
    /\ live = {p} /\ files = 0 /\ pipe = <<>> /\ kin = {}

Holes(t) == {i \in 1..Len(t) : t[i] = None}

First(S) == CHOOSE i \in S : \A j \in S : i <= j

\* Faulty variant: a hole at the end of the table is missed.
alloc_fd_short(t) ==
  IF Holes(t) \ {Len(t)} = {} THEN Len(t) + 1 ELSE First(Holes(t) \ {Len(t)})

\* The first hole, or a new place at the end.
alloc_fd(t) == IF Holes(t) = {} THEN Len(t) + 1 ELSE First(Holes(t))

Filled(t, f) ==
  LET i == alloc_fd(t) IN IF i > Len(t) THEN Append(t, f) ELSE [t EXCEPT ![i] = f]

Set(p, t) == Len(t) <= MaxFds /\ fd_table' = [fd_table EXCEPT ![p] = t]

Open(p, fd) == fd \in 1..Len(fd_table[p]) /\ fd_table[p][fd] # None

sys_openat(p) ==
  /\ files < MaxFiles
  /\ files' = files + 1
  /\ Set(p, Filled(fd_table[p], files'))
  /\ UNCHANGED <<live, pipe, kin>>

sys_pipe2(p) ==
  /\ files + 2 <= MaxFiles
  /\ files' = files + 2
  /\ Set(p, Filled(Filled(fd_table[p], files + 1), files + 2))
  /\ IF pipe = <<>> THEN pipe' = <<files + 1, files + 2>> /\ kin' = {p}
     ELSE UNCHANGED <<pipe, kin>>
  /\ UNCHANGED live

sys_close(p, fd) ==
  /\ Open(p, fd)
  /\ Set(p, [fd_table[p] EXCEPT ![fd] = None])
  /\ UNCHANGED <<live, files, pipe, kin>>

sys_dup(p, fd) ==
  /\ Open(p, fd)
  /\ Set(p, Filled(fd_table[p], fd_table[p][fd]))
  /\ UNCHANGED <<live, files, pipe, kin>>

\* The table is filled up with holes as far as newfd.
sys_dup3(p, fd, newfd) ==
  /\ Open(p, fd)
  /\ LET t == fd_table[p]
         grown == t \o [i \in 1..(newfd - Len(t)) |-> None]
     IN Set(p, [grown EXCEPT ![newfd] = t[fd]])
  /\ UNCHANGED <<live, files, pipe, kin>>

\* Faulty variant: the child gets a table of its own, as with spawn.
fork_new(p, c) ==
  /\ c \notin live /\ live' = live \union {c}
  /\ Set(c, NewTable)
  /\ kin' = IF p \in kin THEN kin \union {c} ELSE kin
  /\ UNCHANGED <<files, pipe>>

\* The child has a copy of the table, holes included, and the same files.
fork(p, c) ==
  /\ c \notin live /\ live' = live \union {c}
  /\ Set(c, fd_table[p])
  /\ kin' = IF p \in kin THEN kin \union {c} ELSE kin
  /\ UNCHANGED <<files, pipe>>

spawn(c) ==
  /\ c \notin live /\ live' = live \union {c}
  /\ Set(c, NewTable)
  /\ UNCHANGED <<files, pipe, kin>>

exit(p) ==
  /\ live' = live \ {p}
  /\ Set(p, <<>>)
  /\ kin' = kin \ {p}
  /\ UNCHANGED <<files, pipe>>

FdNext ==
  \E p \in live :
    \/ sys_openat(p) \/ sys_pipe2(p) \/ exit(p)
    \/ \E fd \in 1..MaxFds : \/ sys_close(p, fd) \/ sys_dup(p, fd)
                             \/ \E newfd \in 1..MaxFds : sys_dup3(p, fd, newfd)
    \/ \E c \in Task : fork(p, c) \/ spawn(c)

FdSpec == FdInit /\ [][FdNext]_fdVars

-----------------------------------------------------------------------------
(* Properties *)

\* The open descriptors of a task, counted from 0, and their files.
OpenFds(t) == [d \in {i - 1 : i \in (1..Len(t)) \ Holes(t)} |-> t[d + 1]]

Maps == INSTANCE Descriptors WITH
  File <- 1..MaxFiles, Fd <- 0..(MaxFds + 1), fds <- [p \in Task |-> OpenFds(fd_table[p])]

\* The tables with their holes implement maps from descriptors to files: each
\* new descriptor is the lowest that is free, dup3 replaces what the new one
\* named, fork copies a map and no call touches the map of another task.
DescriptorsSpec == Maps!DescriptorsSpec

Ends(f) == [p \in Task |-> Cardinality({i \in 1..Len(fd_table[p]) : fd_table[p][i] = f})]

View == INSTANCE Pipe WITH
  Proc <- Task, Creator <- CHOOSE p \in Task : TRUE,
  Byte <- {0}, RING_BUFFER_SIZE <- 1, MaxLen <- 0, MaxFd <- MaxFds,
  arr <- [i \in {0} |-> 0], head <- 0, tail <- 0, status <- "EMPTY",
  rfd <- Ends(pipe[1]), wfd <- Ends(pipe[2]),
  op <- [p \in Task |-> IF p \in kin THEN "user" ELSE "absent"],
  rem <- [p \in Task |-> 0], loop <- 0, cpu <- None, out <- None, eof <- FALSE

\* Module Pipe keeps of the tables only how many descriptors of each end a
\* process has.  That is enough: whatever the calls do to the tables, with other
\* files in them, tasks that were spawned and numbers that are used again, to
\* the ends of a pipe it is one of the steps of Pipe or no step.
EndsAsInPipe ==
  [][pipe # <<>> => View!Next \/ UNCHANGED View!vars]_fdVars
=============================================================================
