--------------------------- MODULE StrideScheduler ---------------------------
(***************************************************************************)
(* The choice that TaskManager::fetch makes: the queued task of smallest   *)
(* stride, the last of them in the queue when there are several.  A task   *)
(* that is dispatched advances its stride by BIGSTRIDE / pri.              *)
(*                                                                         *)
(* Strides grow without bound and fetch only compares them, so the model   *)
(* keeps them relative: the stride of the code is stride[t] + base, and a  *)
(* dispatch moves base to the stride it fetched.  A new task starts at the *)
(* stride 0 of the code, that is at -base; base saturates above MaxBase,   *)
(* and tasks are created only while it is at most MaxBase.                 *)
(***************************************************************************)
EXTENDS TaskManager

CONSTANTS
  BIGSTRIDE,     \* config.rs
  DefaultPri,    \* the pri of a new task
  Prios,         \* arguments of sys_set_priority
  MaxBase        \* bound on base up to which tasks are created

ASSUME StrideAssumption ==
  /\ BIGSTRIDE \in Nat
  /\ DefaultPri \in Nat /\ DefaultPri > 1
  /\ Prios \subseteq Int
  /\ MaxBase \in Nat

VARIABLES
  stride,      \* stride of a task, less base
  pri,         \* priority of a task
  base,        \* what has been taken off the strides
  passed,      \* history: the tasks in the queue when the task was last fetched
  last_step    \* history: how far the stride advanced then

strideVars == <<stride, pri, base, passed, last_step>>
svars == <<vars, strideVars>>

Runnable(t) == status[t] \in {"Ready", "Running"}

StrideInit ==
  /\ Init
  /\ stride = [t \in TCB |-> 0]
  /\ pri = [t \in TCB |-> DefaultPri]
  /\ base = 0
  /\ passed = [t \in TCB |-> {}]
  /\ last_step = [t \in TCB |-> 0]

\* Faulty variant: the head of the queue.
IsHead(i) == i = 1

\* The index that fetch ends with: its scan replaces the candidate whenever
\* the stride at hand is smaller or equal.
IsFetched(i) ==
  \A j \in 1..Len(ready_queue) :
    IF j <= i THEN stride[ready_queue[i]] <= stride[ready_queue[j]]
              ELSE stride[ready_queue[i]] < stride[ready_queue[j]]

\* How far update_stri advances a task.
Step(t) == BIGSTRIDE \div pri[t]

\* Faulty variant: update_stri is not called.
StrideKept(i) ==
  /\ UNCHANGED <<stride, pri, base, last_step>>
  /\ passed' = [passed EXCEPT ![ready_queue[i]] =
                  {t \in TCB : status[t] = "Ready"} \ {ready_queue[i]}]

\* run_tasks calls update_stri on the task it fetched.
update_stri(i) ==
  LET f == ready_queue[i]
      waiting == {t \in TCB \ {f} : status[t] = "Ready"}
  IN /\ stride' = [t \in TCB |-> IF t = f THEN Step(f)
                                ELSE IF t \in waiting THEN stride[t] - stride[f] ELSE 0]
     /\ base' = IF base + stride[f] <= MaxBase THEN base + stride[f] ELSE MaxBase + 1
     /\ passed' = [t \in TCB |-> IF t = f THEN waiting
                                ELSE IF t \in waiting THEN passed[t] \ {u \in TCB : status[u] # "Ready"}
                                ELSE {}]
     /\ last_step' = [last_step EXCEPT ![f] = Step(f)]
     /\ UNCHANGED pri

FetchStride(i) == IsFetched(i) /\ Dispatch(i) /\ update_stri(i)

run_tasks_stride ==
  /\ halted = "no" /\ current = None
  /\ IF ready_queue = <<>> THEN FetchPanic /\ UNCHANGED strideVars
     ELSE \E i \in 1..Len(ready_queue) : FetchStride(i)

\* fork and spawn: stride 0 and priority 16 whatever the parent has.
sys_fork_stride(t, c) ==
  /\ base <= MaxBase
  /\ sys_fork(t, c)
  /\ stride' = [stride EXCEPT ![c] = 0 - base]
  /\ pri' = [pri EXCEPT ![c] = DefaultPri]
  /\ passed' = [u \in TCB |-> IF u = c THEN {} ELSE passed[u] \ {c}]
  /\ last_step' = [last_step EXCEPT ![c] = 0]
  /\ UNCHANGED base

\* Values up to 1 are refused.
sys_set_priority(t, p) ==
  /\ InUser(t)
  /\ p > 1
  /\ pri' = [pri EXCEPT ![t] = p]
  /\ UNCHANGED <<vars, stride, base, passed, last_step>>

StrideNext ==
  \/ run_tasks_stride
  \/ \E t \in TCB : TaskStep(t) /\ UNCHANGED strideVars
  \/ \E t, c \in TCB : sys_fork_stride(t, c)
  \/ \E t \in TCB, p \in Prios : sys_set_priority(t, p)
  \/ exit_initproc /\ UNCHANGED strideVars
  \/ Stopped /\ UNCHANGED strideVars

StrideSpec == StrideInit /\ [][StrideNext]_svars

\* The idle loop and a resumed call run to their end and the timer interrupts
\* user mode; nothing is assumed about which task fetch takes.
StrideFairness ==
  /\ WF_svars(run_tasks_stride)
  /\ \A t \in TCB :
       /\ WF_svars(Yield(t) /\ UNCHANGED strideVars)
       /\ WF_svars((BlockAgain(t) \/ BlockReturn(t)) /\ UNCHANGED strideVars)
       /\ WF_svars(WaitResume(t) /\ UNCHANGED strideVars)

StrideFairSpec == StrideSpec /\ StrideFairness

-----------------------------------------------------------------------------
\* The type invariant: a priority stays above 1, so that update_stri never
\* divides by zero.
StrideTypeOK ==
  /\ stride \in [TCB -> Int]
  /\ pri \in [TCB -> {p \in Int : p > 1}]
  /\ base \in 0..(MaxBase + 1)
  /\ passed \in [TCB -> SUBSET TCB]
  /\ last_step \in [TCB -> Nat]

\* The fairness of stride scheduling: a task is never ahead of a task that
\* has been waiting or running since the former was last fetched by more than
\* the one step it made then (fetch takes the smallest stride, update_stri
\* moves only the fetched task and only forward).
StrideGap ==
  \A i, j \in TCB :
    Runnable(i) /\ Runnable(j) /\ j \in passed[i] =>
      stride[i] - last_step[i] <= stride[j]

\* A task is never ahead by more than its last step, and never stepped by a
\* division by zero.
StrideSound == StrideTypeOK /\ StrideGap

=============================================================================
