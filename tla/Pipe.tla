-------------------------------- MODULE Pipe --------------------------------
(***************************************************************************)
(* One pipe of os/src/fs/pipe.rs and the processes that share it: the ring *)
(* buffer, the loops of Pipe::read and Pipe::write with their switches to  *)
(* other tasks, and the system calls that copy and drop its two ends.      *)
(*                                                                         *)
(* A process runs in the kernel until it returns or suspends, so `cpu`     *)
(* names the process that is inside a call; the steps of its loop are      *)
(* actions of their own, one per byte, and no other process runs between.  *)
(***************************************************************************)
EXTENDS Integers, Sequences

CONSTANTS
  Proc,                \* processes
  Creator,             \* the one that called sys_pipe2
  Byte,                \* values of a byte
  RING_BUFFER_SIZE,
  MaxLen,              \* longest user buffer of a read or write
  MaxFd,               \* descriptors of one end that one process may hold
  None

ASSUME PipeAssumption ==
  /\ Creator \in Proc /\ None \notin Proc
  /\ 0 \in Byte /\ None \notin Byte
  /\ RING_BUFFER_SIZE \in Nat \ {0}
  /\ MaxLen \in Nat
  /\ MaxFd \in Nat \ {0}

VARIABLES
  arr, head, tail, status,   \* PipeRingBuffer
  rfd, wfd,   \* descriptors of the read and of the write end, per process
  op,         \* the call a process is in, "user", or "absent"
  rem,        \* bytes the user buffer's iterator still has
  loop,       \* iterations left of the for loop of the process on the cpu
  cpu,        \* the process inside a call, or None after a switch or return
  out,        \* history: the byte delivered last
  eof         \* history: some read returned less than it was asked for

ringVars == <<arr, head, tail, status>>
fdVars == <<rfd, wfd>>
vars == <<ringVars, fdVars, op, rem, loop, cpu, out, eof>>

N == RING_BUFFER_SIZE

-----------------------------------------------------------------------------
(* PipeRingBuffer.                                                         *)

\* Faulty variant: the count with the other comparison.
available_write_full ==
  IF status = "FULL" THEN 0
  ELSE IF tail > head THEN head + N - tail ELSE head - tail

available_read ==
  IF status = "EMPTY" THEN 0
  ELSE IF tail > head THEN tail - head ELSE tail + N - head

available_write ==
  IF status = "FULL" THEN 0
  ELSE IF tail >= head THEN head + N - tail ELSE head - tail

\* Faulty variant: the status does not become EMPTY.
read_byte_normal ==
  /\ out' = arr[head]
  /\ head' = (head + 1) % N
  /\ status' = "NORMAL"
  /\ UNCHANGED <<arr, tail>>

read_byte ==
  /\ out' = arr[head]
  /\ head' = (head + 1) % N
  /\ status' = IF (head + 1) % N = tail THEN "EMPTY" ELSE "NORMAL"
  /\ UNCHANGED <<arr, tail>>

write_byte(b) ==
  /\ arr' = [arr EXCEPT ![tail] = b]
  /\ tail' = (tail + 1) % N
  /\ status' = IF head = (tail + 1) % N THEN "FULL" ELSE "NORMAL"
  /\ UNCHANGED <<head, out>>

\* The Arc of the write end lives in descriptor tables and, during a write,
\* on the kernel stack of the writer; the ring buffer holds a Weak one.
all_write_ends_closed == \A p \in Proc : wfd[p] = 0 /\ op[p] # "write"

-----------------------------------------------------------------------------
\* make_pipe and sys_pipe2: the creator gets one descriptor of each end.
Init ==
  /\ arr = [i \in 0..(N - 1) |-> 0]
  /\ head = 0 /\ tail = 0 /\ status = "EMPTY"
  /\ rfd = [p \in Proc |-> IF p = Creator THEN 1 ELSE 0]
  /\ wfd = rfd
  /\ op = [p \in Proc |-> IF p = Creator THEN "user" ELSE "absent"]
  /\ rem = [p \in Proc |-> 0]
  /\ loop = 0
  /\ cpu = None
  /\ out = None
  /\ eof = FALSE

InUser(p) == cpu = None /\ op[p] = "user"

\* sys_read and sys_write with a buffer of n bytes, up to the loop.
sys_read(p, n) ==
  /\ InUser(p) /\ rfd[p] > 0
  /\ op' = [op EXCEPT ![p] = "read"]
  /\ rem' = [rem EXCEPT ![p] = n]
  /\ cpu' = p
  /\ UNCHANGED <<ringVars, fdVars, loop, out, eof>>

sys_write(p, n) ==
  /\ InUser(p) /\ wfd[p] > 0
  /\ op' = [op EXCEPT ![p] = "write"]
  /\ rem' = [rem EXCEPT ![p] = n]
  /\ cpu' = p
  /\ UNCHANGED <<ringVars, fdVars, loop, out, eof>>

\* The call returns to user mode; rem is what it has not transferred.
Return(p) ==
  /\ op' = [op EXCEPT ![p] = "user"]
  /\ rem' = [rem EXCEPT ![p] = 0]
  /\ loop' = 0
  /\ cpu' = None
  /\ UNCHANGED <<ringVars, fdVars, out>>

\* suspend_current_and_run_next inside the loop, and the way back.
Suspend(p) ==
  /\ cpu' = None
  /\ UNCHANGED <<ringVars, fdVars, op, rem, loop, out, eof>>

Resume(p) ==
  /\ cpu = None
  /\ op[p] \in {"read", "write"}
  /\ cpu' = p
  /\ UNCHANGED <<ringVars, fdVars, op, rem, loop, out, eof>>

\* The head of the loop of Pipe::read: the lock is taken and the bytes are
\* counted.  Faulty variant: end of file without a look at the count.
ReadLoopHasty(p) ==
  /\ cpu = p /\ op[p] = "read" /\ loop = 0
  /\ IF all_write_ends_closed
     THEN Return(p) /\ eof' = (eof \/ rem[p] > 0)
     ELSE IF available_read = 0 THEN Suspend(p)
     ELSE /\ loop' = available_read
          /\ UNCHANGED <<ringVars, fdVars, op, rem, cpu, out, eof>>
\* Faulty variant: no look at the write ends.
ReadLoopDeaf(p) ==
  /\ cpu = p /\ op[p] = "read" /\ loop = 0
  /\ IF available_read = 0 THEN Suspend(p)
     ELSE /\ loop' = available_read
          /\ UNCHANGED <<ringVars, fdVars, op, rem, cpu, out, eof>>
ReadLoop(p) ==
  /\ cpu = p /\ op[p] = "read" /\ loop = 0
  /\ IF available_read = 0
     THEN IF all_write_ends_closed
          THEN Return(p) /\ eof' = (eof \/ rem[p] > 0)
          ELSE Suspend(p)
     ELSE /\ loop' = available_read
          /\ UNCHANGED <<ringVars, fdVars, op, rem, cpu, out, eof>>

\* One iteration of its for loop: a byte is moved, or the buffer is full.
ReadByte(p) ==
  /\ cpu = p /\ op[p] = "read" /\ loop > 0
  /\ IF rem[p] > 0
     THEN /\ read_byte
          /\ rem' = [rem EXCEPT ![p] = @ - 1]
          /\ loop' = loop - 1
          /\ UNCHANGED <<fdVars, op, cpu, eof>>
     ELSE Return(p) /\ UNCHANGED eof

\* The same for Pipe::write, which never looks whether a reader is left.
WriteLoop(p) ==
  /\ cpu = p /\ op[p] = "write" /\ loop = 0
  /\ IF available_write = 0 THEN Suspend(p)
     ELSE /\ loop' = available_write
          /\ UNCHANGED <<ringVars, fdVars, op, rem, cpu, out, eof>>

WriteByte(p) ==
  /\ cpu = p /\ op[p] = "write" /\ loop > 0
  /\ IF rem[p] > 0
     THEN /\ \E b \in Byte : write_byte(b)
          /\ rem' = [rem EXCEPT ![p] = @ - 1]
          /\ loop' = loop - 1
          /\ UNCHANGED <<fdVars, op, cpu, eof>>
     ELSE Return(p) /\ UNCHANGED eof

-----------------------------------------------------------------------------
(* The ends of the pipe in the descriptor tables.                          *)

FdStep(p, r, w) ==
  /\ InUser(p)
  /\ r \in 0..MaxFd /\ w \in 0..MaxFd
  /\ rfd' = [rfd EXCEPT ![p] = r]
  /\ wfd' = [wfd EXCEPT ![p] = w]
  /\ UNCHANGED <<ringVars, op, rem, loop, cpu, out, eof>>

\* sys_close takes one descriptor out of the table.
sys_close(p) ==
  \/ rfd[p] > 0 /\ FdStep(p, rfd[p] - 1, wfd[p])
  \/ wfd[p] > 0 /\ FdStep(p, rfd[p], wfd[p] - 1)

\* sys_dup adds a descriptor for an end that is open.
sys_dup(p) ==
  \/ rfd[p] > 0 /\ FdStep(p, rfd[p] + 1, wfd[p])
  \/ wfd[p] > 0 /\ FdStep(p, rfd[p], wfd[p] + 1)

\* sys_dup3 onto a descriptor of the other end drops that one; onto or from
\* a descriptor of another file it acts like sys_dup or sys_close.
sys_dup3(p) ==
  /\ rfd[p] > 0 /\ wfd[p] > 0
  /\ \/ FdStep(p, rfd[p] + 1, wfd[p] - 1)
     \/ FdStep(p, rfd[p] - 1, wfd[p] + 1)

\* fork clones the descriptor table (spawn does not).
fork(p, c) ==
  /\ InUser(p) /\ op[c] = "absent"
  /\ op' = [op EXCEPT ![c] = "user"]
  /\ rfd' = [rfd EXCEPT ![c] = rfd[p]]
  /\ wfd' = [wfd EXCEPT ![c] = wfd[p]]
  /\ UNCHANGED <<ringVars, rem, loop, cpu, out, eof>>

\* exit_current_and_run_next clears the table.
exit(p) ==
  /\ InUser(p)
  /\ op' = [op EXCEPT ![p] = "absent"]
  /\ rfd' = [rfd EXCEPT ![p] = 0]
  /\ wfd' = [wfd EXCEPT ![p] = 0]
  /\ UNCHANGED <<ringVars, rem, loop, cpu, out, eof>>

KernelStep(p) == ReadLoop(p) \/ ReadByte(p) \/ WriteLoop(p) \/ WriteByte(p)

UserStep(p) ==
  \/ \E n \in 0..MaxLen : sys_read(p, n) \/ sys_write(p, n)
  \/ sys_close(p) \/ sys_dup(p) \/ sys_dup3(p)
  \/ \E c \in Proc : fork(p, c)
  \/ exit(p)

\* Every process that had the pipe has exited.
Gone == (\A p \in Proc : op[p] = "absent") /\ UNCHANGED vars

Next ==
  \/ \E p \in Proc : UserStep(p) \/ Resume(p) \/ KernelStep(p)
  \/ Gone

Spec == Init /\ [][Next]_vars

\* The code of a call runs to its end, and a suspended call is resumed again
\* and again (StrideScheduler shows that the scheduler passes over no task).
\* User programs are free to make no call.
FairSpec ==
  /\ Spec
  /\ \A p \in Proc : WF_vars(KernelStep(p)) /\ SF_vars(Resume(p))

-----------------------------------------------------------------------------
(* Properties.                                                             *)

\* The type invariant: head and tail stay inside the array and a for loop
\* never has more iterations than the array has bytes.
TypeOK ==
  /\ arr \in [0..(N - 1) -> Byte]
  /\ head \in 0..(N - 1) /\ tail \in 0..(N - 1)
  /\ status \in {"EMPTY", "NORMAL", "FULL"}
  /\ rfd \in [Proc -> 0..MaxFd] /\ wfd \in [Proc -> 0..MaxFd]
  /\ op \in [Proc -> {"absent", "user", "read", "write"}]
  /\ rem \in [Proc -> 0..MaxLen]
  /\ loop \in 0..N
  /\ cpu \in Proc \union {None}
  /\ out \in Byte \union {None}
  /\ eof \in BOOLEAN

\* The three-valued status separates the two meanings of head = tail, and the
\* loop of a reader (writer) never runs past the bytes (the room) it counted.
RingOK ==
  /\ head = tail <=> status \in {"EMPTY", "FULL"}
  /\ available_read + available_write = N
  /\ cpu # None => op[cpu] \in {"read", "write"}
  /\ cpu = None => loop = 0
  /\ cpu # None /\ loop > 0 /\ op[cpu] = "read" => loop = available_read
  /\ cpu # None /\ loop > 0 /\ op[cpu] = "write" => loop = available_write

\* A process in a call still has a descriptor of the end it uses, and one
\* that does not exist has none.
EndsHeld ==
  \A p \in Proc :
    /\ op[p] = "read" => rfd[p] > 0
    /\ op[p] = "write" => wfd[p] > 0
    /\ op[p] = "absent" => rfd[p] = 0 /\ wfd[p] = 0

\* The ring buffer, the loops over it and the descriptors stay consistent with
\* each other; the three are inductive only together.
PipeInv == TypeOK /\ RingOK /\ EndsHeld

\* The bytes in the ring buffer, oldest first.
contents == [i \in 1..available_read |-> arr[(head + i - 1) % N]]

Fifo == INSTANCE PipeFifo WITH
          Capacity <- N, queue <- contents, open <- ~all_write_ends_closed

\* The pipe implements PipeFifo: bytes in order, none lost or doubled, at most
\* RING_BUFFER_SIZE waiting; a read returns short only when all write ends are
\* closed and the buffer is empty, and no byte appears after that.
FifoSpec == Fifo!FifoSpec

\* Once every write end is closed each read returns.
EofReturns ==
  \A p \in Proc :
    (op[p] = "read" /\ all_write_ends_closed) ~> op[p] # "read"

\* A read and a write that wait at the same time do not wait for ever: one of
\* the two returns.
NoStandoff ==
  \A p, q \in Proc :
    (op[p] = "read" /\ op[q] = "write") ~> (op[p] # "read" \/ op[q] # "write")

=============================================================================
