------------------------------ MODULE PipeFifo ------------------------------
(***************************************************************************)
(* What a pipe promises: bytes come out in the order they went in, never   *)
(* more than Capacity of them wait, and a reader is told "end of file"     *)
(* only when no writer is left and every byte has been read.  Module Pipe  *)
(* implements it.                                                          *)
(***************************************************************************)
EXTENDS Naturals, Sequences

CONSTANTS Byte, Capacity, None

VARIABLES
  queue,    \* the bytes written and not yet read
  open,     \* some process can still write
  out,      \* the byte delivered last
  eof       \* some read has been told "end of file"

fifoVars == <<queue, open, out, eof>>

FifoInit == queue = <<>> /\ open = TRUE /\ out = None /\ eof = FALSE

Put ==
  /\ open
  /\ Len(queue) < Capacity
  /\ \E b \in Byte : queue' = Append(queue, b)
  /\ UNCHANGED <<open, out, eof>>

Get ==
  /\ queue # <<>>
  /\ out' = Head(queue)
  /\ queue' = Tail(queue)
  /\ UNCHANGED <<open, eof>>

Close == open' = FALSE /\ UNCHANGED <<queue, out, eof>>

Eof ==
  /\ ~open /\ queue = <<>>
  /\ eof' = TRUE
  /\ UNCHANGED <<queue, open, out>>

FifoNext == Put \/ Get \/ Close \/ Eof

FifoSpec == FifoInit /\ [][FifoNext]_fifoVars
=============================================================================
