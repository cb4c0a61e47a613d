----------------------------- MODULE PipeProofs -----------------------------
(***************************************************************************)
(* Proofs about module Pipe: its invariants, and that it implements        *)
(* PipeFifo, for every buffer size, number of processes and descriptors.   *)
(***************************************************************************)
EXTENDS Pipe, SequenceTheorems, TLAPS

-----------------------------------------------------------------------------
(* The ring.                                                               *)

\* One subtraction reduces an index that has run once past the end.
LEMMA ModIndex ==
  ASSUME NEW x \in 0..(2 * N - 1)
  PROVE  x % N = IF x < N THEN x ELSE x - N
PROOF
  <1>1. N \in Nat /\ N > 0
    BY PipeAssumption DEF N
  <1> HIDE DEF N
  <1> QED BY <1>1

\* What available_read and available_write count, between 0 and N.
LEMMA Counts ==
  ASSUME TypeOK, RingOK
  PROVE  /\ N \in Nat /\ N > 0
         /\ available_read \in 0..N
         /\ available_write \in 0..N
         /\ available_read + available_write = N
PROOF
  <1>1. N \in Nat /\ N > 0
    BY PipeAssumption DEF N
  <1> HIDE DEF N
  <1> QED BY <1>1 DEF TypeOK, RingOK, available_read, available_write

\* read_byte takes one byte off the count, and keeps the ring consistent.
LEMMA ReadByteRing ==
  ASSUME TypeOK, RingOK, read_byte, available_read > 0
  PROVE  /\ head' \in 0..(N - 1)
         /\ head' = IF head + 1 = N THEN 0 ELSE head + 1
         /\ status' \in {"EMPTY", "NORMAL", "FULL"}
         /\ head' = tail' <=> status' \in {"EMPTY", "FULL"}
         /\ available_read' = available_read - 1
         /\ available_read' + available_write' = N
PROOF
  <1>1. N \in Nat /\ N > 0
    BY PipeAssumption DEF N
  <1>2. /\ head \in 0..(N - 1) /\ tail \in 0..(N - 1)
        /\ status \in {"EMPTY", "NORMAL", "FULL"}
        /\ head = tail <=> status \in {"EMPTY", "FULL"}
    BY DEF TypeOK, RingOK
  <1>3. head' = IF head + 1 = N THEN 0 ELSE head + 1
    <2>1. (head + 1) % N = IF head + 1 < N THEN head + 1 ELSE head + 1 - N
      BY <1>1, <1>2, ModIndex
    <2> HIDE DEF N
    <2> QED BY <1>1, <1>2, <2>1 DEF read_byte
  <1>4. /\ tail' = tail
        /\ status' = IF head' = tail THEN "EMPTY" ELSE "NORMAL"
        /\ N' = N
    BY DEF read_byte, N
  <1> HIDE DEF N
  <1> QED BY <1>1, <1>2, <1>3, <1>4 DEF available_read, available_write

\* write_byte adds one to the count.
LEMMA WriteByteRing ==
  ASSUME TypeOK, RingOK, NEW b, write_byte(b), available_write > 0
  PROVE  /\ tail' \in 0..(N - 1)
         /\ tail' = IF tail + 1 = N THEN 0 ELSE tail + 1
         /\ status' \in {"EMPTY", "NORMAL", "FULL"}
         /\ head' = tail' <=> status' \in {"EMPTY", "FULL"}
         /\ available_write' = available_write - 1
         /\ available_read' = available_read + 1
         /\ available_read' + available_write' = N
PROOF
  <1>1. N \in Nat /\ N > 0
    BY PipeAssumption DEF N
  <1>2. /\ head \in 0..(N - 1) /\ tail \in 0..(N - 1)
        /\ status \in {"EMPTY", "NORMAL", "FULL"}
        /\ head = tail <=> status \in {"EMPTY", "FULL"}
    BY DEF TypeOK, RingOK
  <1>3. tail' = IF tail + 1 = N THEN 0 ELSE tail + 1
    <2>1. (tail + 1) % N = IF tail + 1 < N THEN tail + 1 ELSE tail + 1 - N
      BY <1>1, <1>2, ModIndex
    <2> HIDE DEF N
    <2> QED BY <1>1, <1>2, <2>1 DEF write_byte
  <1>4. /\ head' = head
        /\ status' = IF head = tail' THEN "FULL" ELSE "NORMAL"
        /\ N' = N
    BY DEF write_byte, N
  <1> HIDE DEF N
  <1> QED BY <1>1, <1>2, <1>3, <1>4 DEF available_read, available_write

-----------------------------------------------------------------------------
(* The invariant.                                                          *)

\* A pipe that make_pipe has just made satisfies the invariant.
LEMMA InitPipeInv == Init => PipeInv
PROOF
  <1>1. N \in Nat /\ N > 0
    BY PipeAssumption DEF N
  <1> HIDE DEF N
  <1> SUFFICES ASSUME Init PROVE PipeInv
    OBVIOUS
  <1>2. TypeOK
    <2>1. arr \in [0..(N - 1) -> Byte]
      BY PipeAssumption DEF Init
    <2>2. rfd \in [Proc -> 0..MaxFd] /\ wfd \in [Proc -> 0..MaxFd] /\ rem \in [Proc -> 0..MaxLen]
      BY PipeAssumption DEF Init
    <2>3. op \in [Proc -> {"absent", "user", "read", "write"}]
      BY DEF Init
    <2>4. head \in 0..(N - 1) /\ tail \in 0..(N - 1) /\ loop \in 0..N
      BY <1>1 DEF Init
    <2> QED BY <2>1, <2>2, <2>3, <2>4 DEF Init, TypeOK
  <1>3. RingOK
    BY <1>1 DEF Init, RingOK, available_read, available_write
  <1>4. EndsHeld
    BY DEF Init, EndsHeld
  <1> QED BY <1>2, <1>3, <1>4 DEF PipeInv

\* A step that leaves the ring, the cpu and the loop alone.
LEMMA UserFrame ==
  ASSUME PipeInv, UNCHANGED <<ringVars, rem, loop, cpu, out, eof>>, cpu = None,
         rfd' \in [Proc -> 0..MaxFd], wfd' \in [Proc -> 0..MaxFd],
         op' \in [Proc -> {"absent", "user", "read", "write"}], EndsHeld'
  PROVE  PipeInv'
PROOF
  <1>1. TypeOK'
    BY DEF PipeInv, TypeOK, ringVars, N
  <1>2. available_read' = available_read /\ available_write' = available_write
    BY DEF ringVars, available_read, available_write, N
  <1>3. RingOK'
    BY <1>2 DEF PipeInv, RingOK, ringVars, N
  <1> QED BY <1>1, <1>3 DEF PipeInv

\* The calls that move descriptors, fork and exit.
LEMMA FdPipeInv ==
  ASSUME PipeInv, NEW p \in Proc,
         \/ sys_close(p) \/ sys_dup(p) \/ sys_dup3(p)
         \/ (\E c \in Proc : fork(p, c)) \/ exit(p)
  PROVE  PipeInv'
PROOF
  <1>0. /\ rfd \in [Proc -> 0..MaxFd] /\ wfd \in [Proc -> 0..MaxFd]
        /\ op \in [Proc -> {"absent", "user", "read", "write"}]
        /\ MaxFd \in Nat
    BY PipeAssumption DEF PipeInv, TypeOK
  <1>1. ASSUME NEW r, NEW w, FdStep(p, r, w) PROVE PipeInv'
    <2>1. rfd' \in [Proc -> 0..MaxFd] /\ wfd' \in [Proc -> 0..MaxFd]
      BY <1>0, <1>1 DEF FdStep
    <2>2. EndsHeld'
      BY <1>0, <1>1 DEF FdStep, InUser, PipeInv, EndsHeld
    <2> QED BY <1>0, <1>1, <2>1, <2>2, UserFrame DEF FdStep, InUser
  <1>2. ASSUME NEW c \in Proc, fork(p, c) PROVE PipeInv'
    <2>1. /\ rfd' \in [Proc -> 0..MaxFd] /\ wfd' \in [Proc -> 0..MaxFd]
          /\ op' \in [Proc -> {"absent", "user", "read", "write"}]
      BY <1>0, <1>2 DEF fork
    <2>2. EndsHeld'
      BY <1>0, <1>2 DEF fork, InUser, PipeInv, EndsHeld
    <2> QED BY <1>2, <2>1, <2>2, UserFrame DEF fork, InUser
  <1>3. CASE exit(p)
    <2>1. /\ rfd' \in [Proc -> 0..MaxFd] /\ wfd' \in [Proc -> 0..MaxFd]
          /\ op' \in [Proc -> {"absent", "user", "read", "write"}]
      BY <1>0, <1>3 DEF exit
    <2>2. EndsHeld'
      BY <1>0, <1>3 DEF exit, InUser, PipeInv, EndsHeld
    <2> QED BY <1>3, <2>1, <2>2, UserFrame DEF exit, InUser
  <1>4. CASE sys_close(p) \/ sys_dup(p) \/ sys_dup3(p)
    BY <1>1, <1>4 DEF sys_close, sys_dup, sys_dup3
  <1> QED BY <1>2, <1>3, <1>4

\* Steps that leave the ring and the descriptors alone: entering a call,
\* returning, suspending and resuming, and counting at the head of the loop.
LEMMA CallFrame ==
  ASSUME PipeInv, UNCHANGED <<ringVars, fdVars, out>>,
         op' \in [Proc -> {"absent", "user", "read", "write"}],
         rem' \in [Proc -> 0..MaxLen], cpu' \in Proc \union {None},
         eof' \in BOOLEAN, EndsHeld',
         cpu' # None => op'[cpu'] \in {"read", "write"},
         \/ loop' = 0
         \/ cpu' # None /\ op'[cpu'] = "read" /\ loop' = available_read
         \/ cpu' # None /\ op'[cpu'] = "write" /\ loop' = available_write
  PROVE  PipeInv'
PROOF
  <1>0. TypeOK /\ RingOK
    BY DEF PipeInv
  <1>1. available_read' = available_read /\ available_write' = available_write
    BY DEF ringVars, available_read, available_write, N
  <1>2. loop' \in 0..N
    <2>1. N \in Nat /\ available_read \in 0..N /\ available_write \in 0..N
      BY <1>0, Counts
    <2> QED BY <2>1
  <1>3. TypeOK'
    BY <1>0, <1>2 DEF TypeOK, ringVars, fdVars, N
  <1>4. RingOK'
    BY <1>0, <1>1 DEF RingOK, ringVars, N
  <1> QED BY <1>3, <1>4 DEF PipeInv

\* sys_read, sys_write and the way back from a switch.
LEMMA EnterPipeInv ==
  ASSUME PipeInv, NEW p \in Proc,
         \/ \E n \in 0..MaxLen : sys_read(p, n) \/ sys_write(p, n)
         \/ Resume(p)
  PROVE  PipeInv'
PROOF
  <1>0. /\ op \in [Proc -> {"absent", "user", "read", "write"}]
        /\ rem \in [Proc -> 0..MaxLen] /\ eof \in BOOLEAN
        /\ cpu = None => loop = 0
        /\ p # None
    <2>1. p # None
      BY PipeAssumption
    <2>2. TypeOK /\ RingOK
      BY DEF PipeInv
    <2>3. cpu = None => loop = 0
      BY <2>2 DEF RingOK
    <2> QED BY <2>1, <2>2, <2>3 DEF TypeOK
  <1>1. ASSUME NEW n \in 0..MaxLen, sys_read(p, n) \/ sys_write(p, n) PROVE PipeInv'
    <2>1. /\ op' \in [Proc -> {"absent", "user", "read", "write"}]
          /\ rem' \in [Proc -> 0..MaxLen]
          /\ op'[p] \in {"read", "write"} /\ cpu' = p /\ loop' = 0 /\ eof' = eof
          /\ UNCHANGED <<ringVars, fdVars, out>>
      BY <1>0, <1>1 DEF sys_read, sys_write, InUser
    <2>2. EndsHeld'
      BY <1>0, <1>1 DEF sys_read, sys_write, fdVars, PipeInv, EndsHeld
    <2> QED BY <1>0, <2>1, <2>2, CallFrame
  <1>2. CASE Resume(p)
    <2>1. EndsHeld'
      BY <1>2 DEF Resume, fdVars, PipeInv, EndsHeld
    <2> QED BY <1>0, <1>2, <2>1, CallFrame DEF Resume
  <1> QED BY <1>1, <1>2

\* A call that returns or suspends.
LEMMA LeavePipeInv ==
  ASSUME PipeInv, NEW p \in Proc, eof' \in BOOLEAN,
         Return(p) \/ (Suspend(p) /\ loop = 0)
  PROVE  PipeInv'
PROOF
  <1>0. /\ op \in [Proc -> {"absent", "user", "read", "write"}]
        /\ rem \in [Proc -> 0..MaxLen]
        /\ 0 \in 0..MaxLen
    <2>1. 0 \in 0..MaxLen
      BY PipeAssumption
    <2>2. TypeOK
      BY DEF PipeInv
    <2> QED BY <2>1, <2>2 DEF TypeOK
  <1>1. /\ op' \in [Proc -> {"absent", "user", "read", "write"}]
        /\ rem' \in [Proc -> 0..MaxLen]
        /\ cpu' = None /\ loop' = 0
        /\ UNCHANGED <<ringVars, fdVars, out>>
    BY <1>0 DEF Return, Suspend
  <1>2. EndsHeld'
    BY <1>0 DEF Return, Suspend, fdVars, PipeInv, EndsHeld
  <1> QED BY <1>1, <1>2, CallFrame

\* Pipe::read and Pipe::write.
LEMMA KernelPipeInv ==
  ASSUME PipeInv, NEW p \in Proc, KernelStep(p)
  PROVE  PipeInv'
PROOF
  <1>0. /\ TypeOK /\ RingOK /\ p # None
        /\ op \in [Proc -> {"absent", "user", "read", "write"}]
        /\ rem \in [Proc -> 0..MaxLen] /\ MaxLen \in Nat
        /\ eof \in BOOLEAN /\ cpu \in Proc \union {None}
        /\ loop \in 0..N /\ N \in Nat
    BY PipeAssumption DEF PipeInv, TypeOK, N
  <1>1. CASE ReadLoop(p)
    <2>1. CASE available_read = 0
      BY <1>0, <1>1, <2>1, LeavePipeInv DEF ReadLoop, Suspend
    <2>2. CASE available_read # 0
      <3>1. EndsHeld'
        BY <1>1, <2>2 DEF ReadLoop, fdVars, PipeInv, EndsHeld
      <3> QED BY <1>0, <1>1, <2>2, <3>1, CallFrame DEF ReadLoop
    <2> QED BY <2>1, <2>2
  <1>2. CASE WriteLoop(p)
    <2>1. CASE available_write = 0
      BY <1>0, <1>2, <2>1, LeavePipeInv DEF WriteLoop, Suspend
    <2>2. CASE available_write # 0
      <3>1. EndsHeld'
        BY <1>2, <2>2 DEF WriteLoop, fdVars, PipeInv, EndsHeld
      <3> QED BY <1>0, <1>2, <2>2, <3>1, CallFrame DEF WriteLoop
    <2> QED BY <2>1, <2>2
  <1>3. CASE ReadByte(p)
    <2>1. CASE rem[p] > 0
      <3>1. /\ read_byte /\ rem' = [rem EXCEPT ![p] = @ - 1] /\ loop' = loop - 1
            /\ UNCHANGED <<fdVars, op, cpu, eof>> /\ cpu = p /\ op[p] = "read" /\ loop > 0
        BY <1>3, <2>1 DEF ReadByte
      <3>2. loop = available_read
        BY <1>0, <3>1 DEF RingOK
      <3>3. /\ head' \in 0..(N - 1) /\ status' \in {"EMPTY", "NORMAL", "FULL"}
            /\ head' = tail' <=> status' \in {"EMPTY", "FULL"}
            /\ available_read' = available_read - 1
            /\ available_read' + available_write' = N
        BY <1>0, <3>1, <3>2, ReadByteRing
      <3>4. rem' \in [Proc -> 0..MaxLen] /\ loop' \in 0..N
        BY <1>0, <2>1, <3>1
      <3>5. TypeOK'
        BY <1>0, <3>1, <3>3, <3>4 DEF TypeOK, read_byte, fdVars, N
      <3>6. RingOK'
        BY <1>0, <3>1, <3>2, <3>3, <3>4 DEF RingOK, N
      <3> QED BY <3>1, <3>5, <3>6 DEF PipeInv, EndsHeld, fdVars
    <2>2. CASE ~(rem[p] > 0)
      BY <1>0, <1>3, <2>2, LeavePipeInv DEF ReadByte
    <2> QED BY <2>1, <2>2
  <1>4. CASE WriteByte(p)
    <2>1. CASE rem[p] > 0
      <3>1. /\ rem' = [rem EXCEPT ![p] = @ - 1] /\ loop' = loop - 1
            /\ UNCHANGED <<fdVars, op, cpu, eof>> /\ cpu = p /\ op[p] = "write" /\ loop > 0
        BY <1>4, <2>1 DEF WriteByte
      <3>2. PICK b \in Byte : write_byte(b)
        BY <1>4, <2>1 DEF WriteByte
      <3>3. loop = available_write
        BY <1>0, <3>1 DEF RingOK
      <3>4. /\ tail' \in 0..(N - 1) /\ status' \in {"EMPTY", "NORMAL", "FULL"}
            /\ head' = tail' <=> status' \in {"EMPTY", "FULL"}
            /\ available_write' = available_write - 1
            /\ available_read' + available_write' = N
        BY <1>0, <3>1, <3>2, <3>3, WriteByteRing
      <3>5. rem' \in [Proc -> 0..MaxLen] /\ loop' \in 0..N
        BY <1>0, <2>1, <3>1
      <3>6. TypeOK'
        BY <1>0, <3>1, <3>2, <3>4, <3>5 DEF TypeOK, write_byte, fdVars, N
      <3>7. RingOK'
        BY <1>0, <3>1, <3>3, <3>4, <3>5 DEF RingOK, N
      <3> QED BY <3>1, <3>6, <3>7 DEF PipeInv, EndsHeld, fdVars
    <2>2. CASE ~(rem[p] > 0)
      BY <1>0, <1>4, <2>2, LeavePipeInv DEF WriteByte
    <2> QED BY <2>1, <2>2
  <1> QED BY <1>1, <1>2, <1>3, <1>4 DEF KernelStep

\* Every step preserves the invariant.
LEMMA NextPipeInv == PipeInv /\ [Next]_vars => PipeInv'
PROOF
  <1> SUFFICES ASSUME PipeInv, [Next]_vars PROVE PipeInv'
    OBVIOUS
  <1>1. ASSUME NEW p \in Proc, UserStep(p) PROVE PipeInv'
    BY <1>1, FdPipeInv, EnterPipeInv DEF UserStep
  <1>2. ASSUME UNCHANGED vars PROVE PipeInv'
    BY <1>2 DEF vars, ringVars, fdVars, PipeInv, TypeOK, RingOK, EndsHeld,
                available_read, available_write, N
  <1> QED BY <1>1, <1>2, EnterPipeInv, KernelPipeInv DEF Next, Gone

\* The type invariant, the consistency of the ring buffer with the loops that
\* use it, and the descriptors behind every call hold in every reachable state.
THEOREM PipeInvariance == Spec => []PipeInv
  BY InitPipeInv, NextPipeInv, PTL DEF Spec

-----------------------------------------------------------------------------
(* The refinement of PipeFifo.                                             *)

\* A function on 1..n is a sequence of length n.
LEMMA FuncIsSeq ==
  ASSUME NEW S, NEW n \in Nat, NEW f \in [1..n -> S]
  PROVE  f \in Seq(S) /\ Len(f) = n
  OBVIOUS

\* contents is a sequence of available_read bytes.
LEMMA ContentsSeq ==
  ASSUME PipeInv
  PROVE  /\ contents \in Seq(Byte)
         /\ Len(contents) = available_read
         /\ available_read \in 0..N
         /\ \A i \in 1..available_read :
              contents[i] = arr[IF head + i - 1 < N THEN head + i - 1 ELSE head + i - 1 - N]
PROOF
  <1>1. N \in Nat /\ N > 0 /\ available_read \in 0..N
    BY Counts DEF PipeInv
  <1>2. head \in 0..(N - 1) /\ arr \in [0..(N - 1) -> Byte]
    BY DEF PipeInv, TypeOK
  <1> DEFINE idx(i) == IF head + i - 1 < N THEN head + i - 1 ELSE head + i - 1 - N
  <1> HIDE DEF N
  <1>3. ASSUME NEW i \in 1..available_read
        PROVE  (head + i - 1) % N = idx(i) /\ idx(i) \in 0..(N - 1)
    <2>1. head + i - 1 \in 0..(2 * N - 1)
      BY <1>1, <1>2
    <2>2. (head + i - 1) % N = IF head + i - 1 < N THEN head + i - 1 ELSE head + i - 1 - N
      <3>1. PICK x \in 0..(2 * N - 1) : x = head + i - 1
        BY <2>1
      <3>2. x % N = IF x < N THEN x ELSE x - N
        BY ModIndex
      <3>3. (head + i - 1) % N = x % N
        BY <3>1, Zenon
      <3>4. (IF x < N THEN x ELSE x - N) = idx(i)
        BY <1>1, <1>2, <3>1
      <3> QED BY <3>2, <3>3, <3>4, Zenon
    <2> QED BY <1>1, <1>2, <2>2
  <1> HIDE DEF idx
  <1>4. \A i \in 1..available_read : arr[(head + i - 1) % N] = arr[idx(i)] /\ arr[idx(i)] \in Byte
    BY <1>2, <1>3
  <1> DEFINE n == available_read
  <1>5. contents = [i \in 1..n |-> arr[(head + i - 1) % N]]
    BY DEF contents
  <1> HIDE DEF n
  <1>6. n \in Nat /\ \A i \in 1..n : arr[(head + i - 1) % N] = arr[idx(i)] /\ arr[idx(i)] \in Byte
    BY <1>1, <1>4 DEF n
  <1>7. contents \in Seq(Byte) /\ Len(contents) = n /\ \A i \in 1..n : contents[i] = arr[idx(i)]
    <2>1. contents \in [1..n -> Byte]
      BY <1>5, <1>6
    <2> QED BY <1>5, <1>6, <2>1, FuncIsSeq
  <1> QED BY <1>1, <1>7 DEF n, idx

\* read_byte is Get.
LEMMA ReadIsGet ==
  ASSUME PipeInv, PipeInv', read_byte, available_read > 0,
         UNCHANGED <<fdVars, op, eof>>
  PROVE  Fifo!Get
PROOF
  <1>1. /\ available_read' = available_read - 1
        /\ head' = IF head + 1 = N THEN 0 ELSE head + 1
    BY ReadByteRing DEF PipeInv
  <1>2. head \in 0..(N - 1) /\ N \in Nat /\ N > 0
    BY PipeAssumption DEF PipeInv, TypeOK, N
  <1>3. /\ contents \in Seq(Byte)
        /\ Len(contents) = available_read
        /\ available_read \in 0..N
        /\ \A i \in 1..available_read :
             contents[i] = arr[IF head + i - 1 < N THEN head + i - 1 ELSE head + i - 1 - N]
    BY ContentsSeq
  <1>4. /\ contents' \in Seq(Byte)
        /\ Len(contents') = available_read'
        /\ \A i \in 1..available_read' :
             contents'[i] = arr[IF head' + i - 1 < N THEN head' + i - 1 ELSE head' + i - 1 - N]
    <2>1. arr' = arr /\ N' = N /\ Byte' = Byte
      BY DEF read_byte, N
    <2>2. (contents \in Seq(Byte) /\ Len(contents) = available_read
           /\ \A i \in 1..available_read :
             contents[i] = arr[IF head + i - 1 < N THEN head + i - 1 ELSE head + i - 1 - N])'
      BY ContentsSeq, PTL
    <2> QED BY <2>1, <2>2
  <1> DEFINE q == contents  r == contents'  n == available_read  m == available_read'
  <1> HIDE DEF N, q, r, n, m
  <1>5. /\ n \in 1..N /\ m = n - 1 /\ q \in Seq(Byte) /\ Len(q) = n
        /\ r \in Seq(Byte) /\ Len(r) = m
        /\ \A i \in 1..n : q[i] = arr[IF head + i - 1 < N THEN head + i - 1 ELSE head + i - 1 - N]
        /\ \A i \in 1..m : r[i] = arr[IF head' + i - 1 < N THEN head' + i - 1 ELSE head' + i - 1 - N]
    BY <1>1, <1>2, <1>3, <1>4 DEF q, r, n, m
  <1>6. \A i \in 1..m : r[i] = q[i + 1]
    <2> SUFFICES ASSUME NEW i \in 1..m PROVE r[i] = q[i + 1]
      OBVIOUS
    <2>1. i + 1 \in 1..n
      BY <1>5
    <2>2. q[i + 1] = arr[IF head + (i + 1) - 1 < N THEN head + (i + 1) - 1 ELSE head + (i + 1) - 1 - N]
      BY <1>5, <2>1
    <2>3. (IF head + (i + 1) - 1 < N THEN head + (i + 1) - 1 ELSE head + (i + 1) - 1 - N)
          = (IF head' + i - 1 < N THEN head' + i - 1 ELSE head' + i - 1 - N)
      BY <1>1, <1>2, <1>5
    <2> QED BY <1>5, <2>2, <2>3
  <1>7. r = Tail(q)
    BY <1>5, <1>6
  <1>8. q # <<>> /\ Head(q) = arr[head]
    BY <1>2, <1>5
  <1>9. out' = arr[head] /\ UNCHANGED eof
    BY DEF read_byte
  <1>10. UNCHANGED ~all_write_ends_closed
    BY DEF all_write_ends_closed, fdVars
  <1> QED BY <1>7, <1>8, <1>9, <1>10 DEF q, r, Fifo!Get

\* write_byte is Put.
LEMMA WriteIsPut ==
  ASSUME PipeInv, PipeInv', NEW b \in Byte, write_byte(b), available_write > 0,
         NEW p \in Proc, op[p] = "write", UNCHANGED <<fdVars, op, eof>>
  PROVE  Fifo!Put
PROOF
  <1>1. /\ available_read' = available_read + 1
        /\ available_write \in 0..N
        /\ available_read + available_write = N
    BY WriteByteRing, Counts DEF PipeInv
  <1>2. /\ head \in 0..(N - 1) /\ tail \in 0..(N - 1) /\ N \in Nat /\ N > 0
        /\ arr \in [0..(N - 1) -> Byte]
        /\ arr' = [arr EXCEPT ![tail] = b] /\ head' = head
    BY PipeAssumption DEF PipeInv, TypeOK, N, write_byte
  <1>3. /\ contents \in Seq(Byte)
        /\ Len(contents) = available_read
        /\ available_read \in 0..N
        /\ \A i \in 1..available_read :
             contents[i] = arr[IF head + i - 1 < N THEN head + i - 1 ELSE head + i - 1 - N]
    BY ContentsSeq
  <1>4. /\ contents' \in Seq(Byte)
        /\ Len(contents') = available_read'
        /\ \A i \in 1..available_read' :
             contents'[i] = arr'[IF head + i - 1 < N THEN head + i - 1 ELSE head + i - 1 - N]
    <2>1. N' = N /\ Byte' = Byte
      BY DEF N
    <2>2. (contents \in Seq(Byte) /\ Len(contents) = available_read
           /\ \A i \in 1..available_read :
             contents[i] = arr[IF head + i - 1 < N THEN head + i - 1 ELSE head + i - 1 - N])'
      BY ContentsSeq, PTL
    <2> QED BY <1>2, <2>1, <2>2
  <1>5. tail = IF head + available_read < N THEN head + available_read
                                            ELSE head + available_read - N
    <2>1. status # "FULL"
      BY <1>1 DEF available_write
    <2>2. CASE status = "EMPTY"
      <3>1. head = tail /\ available_read = 0
        BY <2>2 DEF available_read, PipeInv, RingOK
      <3> QED BY <1>2, <3>1
    <2>3. CASE status # "EMPTY"
      <3>1. head # tail
        BY <2>1, <2>3 DEF PipeInv, RingOK
      <3>2. available_read = IF tail > head THEN tail - head ELSE tail + N - head
        BY <2>3 DEF available_read
      <3> QED BY <1>2, <3>1, <3>2
    <2> QED BY <2>2, <2>3
  <1> DEFINE q == contents  r == contents'  n == available_read  m == available_read'
  <1>6. /\ n \in Nat /\ n < N /\ m = n + 1 /\ q \in Seq(Byte) /\ Len(q) = n
        /\ r \in Seq(Byte) /\ Len(r) = m
        /\ tail = IF head + n < N THEN head + n ELSE head + n - N
        /\ \A i \in 1..n : q[i] = arr[IF head + i - 1 < N THEN head + i - 1 ELSE head + i - 1 - N]
        /\ \A i \in 1..m : r[i] = arr'[IF head + i - 1 < N THEN head + i - 1 ELSE head + i - 1 - N]
    <2>1. available_read \in Nat /\ available_read < N
      BY <1>1, <1>2, <1>3
    <2> QED BY <1>1, <1>3, <1>4, <1>5, <2>1, Zenon
  <1> HIDE DEF q, r, n, m
  <1>7. \A i \in 1..n : r[i] = q[i]
    <2> SUFFICES ASSUME NEW i \in 1..n PROVE r[i] = q[i]
      OBVIOUS
    <2> DEFINE k == IF head + i - 1 < N THEN head + i - 1 ELSE head + i - 1 - N
    <2>1. k \in 0..(N - 1) /\ k # tail
      BY <1>2, <1>6
    <2>2. r[i] = arr'[k] /\ q[i] = arr[k]
      BY <1>6
    <2> HIDE DEF k
    <2> QED BY <1>2, <2>1, <2>2
  <1>8. r[n + 1] = b
    <2>1. r[n + 1] = arr'[tail]
      BY <1>2, <1>6
    <2> QED BY <1>2, <2>1
  <1>9. r = Append(q, b)
    BY <1>6, <1>7, <1>8
  <1>10. out' = out /\ eof' = eof
    BY DEF write_byte
  <1>11. ~all_write_ends_closed /\ ~all_write_ends_closed'
    BY DEF all_write_ends_closed, fdVars
  <1> QED BY <1>6, <1>9, <1>10, <1>11 DEF q, r, Fifo!Put

\* A step that leaves the ring alone closes the FIFO, or does nothing to it.
LEMMA RingKept ==
  ASSUME UNCHANGED <<ringVars, out, eof>>,
         all_write_ends_closed => all_write_ends_closed'
  PROVE  Fifo!Close \/ UNCHANGED Fifo!fifoVars
PROOF
  <1>1. contents' = contents
    BY DEF contents, available_read, ringVars, N
  <1> QED BY <1>1 DEF Fifo!Close, Fifo!fifoVars, all_write_ends_closed

\* Every step of the pipe is a step of the FIFO or leaves it unchanged.
LEMMA NextIsFifo ==
  PipeInv /\ PipeInv' /\ [Next]_vars => [Fifo!FifoNext]_(Fifo!fifoVars)
PROOF
  <1> SUFFICES ASSUME PipeInv, PipeInv', [Next]_vars
               PROVE  Fifo!FifoNext \/ UNCHANGED Fifo!fifoVars
    OBVIOUS
  <1>0. /\ op \in [Proc -> {"absent", "user", "read", "write"}]
        /\ wfd \in [Proc -> 0..MaxFd] /\ MaxFd \in Nat
    BY PipeAssumption DEF PipeInv, TypeOK
  <1>1. ASSUME UNCHANGED <<ringVars, out, eof>>,
               all_write_ends_closed => all_write_ends_closed'
        PROVE  Fifo!FifoNext \/ UNCHANGED Fifo!fifoVars
    BY <1>1, RingKept DEF Fifo!FifoNext
  <1>2. ASSUME NEW p \in Proc, UserStep(p) \/ Resume(p)
        PROVE  Fifo!FifoNext \/ UNCHANGED Fifo!fifoVars
    <2>1. UNCHANGED <<ringVars, out, eof>>
      BY <1>2 DEF UserStep, Resume, sys_read, sys_write, sys_close, sys_dup, sys_dup3,
                  FdStep, fork, exit
    <2>2. ASSUME all_write_ends_closed PROVE all_write_ends_closed'
      <3>1. CASE Resume(p) \/ exit(p) \/ \E c \in Proc : fork(p, c)
        BY <1>0, <2>2, <3>1 DEF Resume, exit, fork, fdVars, all_write_ends_closed
      <3>2. CASE \E n \in 0..MaxLen : sys_read(p, n) \/ sys_write(p, n)
        BY <1>0, <2>2, <3>2 DEF sys_read, sys_write, fdVars, all_write_ends_closed
      <3>3. CASE sys_close(p) \/ sys_dup(p) \/ sys_dup3(p)
        BY <1>0, <2>2, <3>3 DEF sys_close, sys_dup, sys_dup3, FdStep, all_write_ends_closed
      <3> QED BY <1>2, <3>1, <3>2, <3>3 DEF UserStep
    <2> QED BY <1>1, <2>1, <2>2
  <1>3. ASSUME NEW p \in Proc, op[p] \in {"read", "write"}, Return(p)
        PROVE  /\ UNCHANGED <<ringVars, out>>
               /\ all_write_ends_closed' <=> all_write_ends_closed
    BY <1>0, <1>3 DEF Return, fdVars, all_write_ends_closed, PipeInv, EndsHeld
  <1>4. ASSUME NEW p \in Proc, ReadLoop(p)
        PROVE  Fifo!FifoNext \/ UNCHANGED Fifo!fifoVars
    <2>1. CASE available_read = 0 /\ all_write_ends_closed
      <3>1. /\ Return(p) /\ eof' = (eof \/ rem[p] > 0) /\ op[p] = "read"
        BY <1>4, <2>1 DEF ReadLoop
      <3>2. contents = <<>>
        BY <2>1, ContentsSeq
      <3>3. contents' = contents
        BY <1>3, <3>1 DEF contents, available_read, ringVars, N
      <3>4. CASE rem[p] > 0
        BY <1>3, <2>1, <3>1, <3>2, <3>3, <3>4 DEF Fifo!FifoNext, Fifo!Eof
      <3>5. CASE ~(rem[p] > 0)
        BY <1>1, <1>3, <3>1, <3>5 DEF PipeInv, TypeOK
      <3> QED BY <3>4, <3>5
    <2>2. CASE ~(available_read = 0 /\ all_write_ends_closed)
      BY <1>1, <1>4, <2>2 DEF ReadLoop, Suspend, fdVars, all_write_ends_closed
    <2> QED BY <2>1, <2>2
  <1>5. ASSUME NEW p \in Proc, WriteLoop(p)
        PROVE  Fifo!FifoNext \/ UNCHANGED Fifo!fifoVars
    BY <1>1, <1>5 DEF WriteLoop, Suspend, fdVars, all_write_ends_closed
  <1>6. ASSUME NEW p \in Proc, ReadByte(p)
        PROVE  Fifo!FifoNext \/ UNCHANGED Fifo!fifoVars
    <2>1. loop = available_read /\ loop > 0
      BY <1>6, PipeAssumption DEF ReadByte, PipeInv, RingOK
    <2> QED BY <1>1, <1>3, <1>6, <2>1, ReadIsGet DEF ReadByte, Fifo!FifoNext
  <1>7. ASSUME NEW p \in Proc, WriteByte(p)
        PROVE  Fifo!FifoNext \/ UNCHANGED Fifo!fifoVars
    <2>1. loop = available_write /\ loop > 0
      BY <1>7, PipeAssumption DEF WriteByte, PipeInv, RingOK
    <2> QED BY <1>1, <1>3, <1>7, <2>1, WriteIsPut DEF WriteByte, Fifo!FifoNext
  <1>8. CASE UNCHANGED vars
    BY <1>1, <1>8 DEF vars, ringVars, fdVars, all_write_ends_closed
  <1> QED BY <1>2, <1>4, <1>5, <1>6, <1>7, <1>8 DEF Next, KernelStep, Gone

\* The ring buffer with its loops and its reference-counted ends implements
\* the bounded FIFO, for every size of the buffer and any number of processes.
THEOREM PipeImplementsFifo == Spec => FifoSpec
PROOF
  <1>1. Init => Fifo!FifoInit
    <2> SUFFICES ASSUME Init PROVE Fifo!FifoInit
      OBVIOUS
    <2>1. contents = <<>>
      <3>1. available_read = 0
        BY DEF Init, available_read
      <3> QED BY <3>1, InitPipeInv, ContentsSeq
    <2>2. ~all_write_ends_closed
      BY PipeAssumption DEF Init, all_write_ends_closed
    <2> QED BY <2>1, <2>2 DEF Init, Fifo!FifoInit
  <1>2. Spec => []PipeInv
    BY InitPipeInv, NextPipeInv, PTL DEF Spec
  <1> QED BY <1>1, <1>2, NextIsFifo, PTL DEF Spec, FifoSpec, Fifo!FifoSpec

=============================================================================
