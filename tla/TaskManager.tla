----------------------------- MODULE TaskManager -----------------------------
(***************************************************************************)
(* Processes of bitos: creation, scheduling places, exit, re-parenting and *)
(* reaping (os/src/task/*.rs, os/src/syscall/process.rs).                  *)
(*                                                                         *)
(* The kernel is uniprocessor and a trap taken in the kernel panics, so    *)
(* the code from a trap to the next switch or return to user mode is one   *)
(* action.  After a switch the idle loop of run_tasks is the only code     *)
(* that can run: `current` is None and only fetch is enabled.              *)
(*                                                                         *)
(* This module lets fetch take any queued task.  StrideScheduler adds the  *)
(* strides and the choice the code makes, and implements this module.      *)
(***************************************************************************)
EXTENDS RecycleAllocator, FiniteSets

CONSTANTS
  TCB,        \* heap cells for task control blocks; |TCB| bounds the tasks
  INITPROC,   \* the cell of the initial process
  Calls,      \* calls other than waitpid in which a task may suspend
  None

ASSUME TCBAssumption == INITPROC \in TCB /\ None \notin TCB /\ IsFiniteSet(TCB)
ASSUME CallsAssumption == Calls \subseteq {"nanosleep", "io"}

VARIABLES
  status,           \* TaskStatus of a cell, or "Freed" when no TCB is there
  pid,              \* PidHandle
  ppid,             \* the immutable parent identifier
  kernel_stack,     \* identifier of the kernel stack
  parent,           \* Weak reference to the parent
  children,         \* Vec of strong references
  syscall,          \* the system call the task is suspended in, or "none"
  wait_pid,         \* the argument of the waitpid it is suspended in
  ready_queue,      \* TASK_MANAGER.ready_queue
  current,          \* PROCESSOR.current
  PID_ALLOCATOR,
  KSTACK_ALLOCATOR,
  halted            \* "no", or why the machine stopped

allocVars == <<pid, ppid, kernel_stack, PID_ALLOCATOR, KSTACK_ALLOCATOR>>
treeVars == <<parent, children>>
callVars == <<syscall, wait_pid>>
vars == <<status, allocVars, treeVars, callVars, ready_queue, current, halted>>

Status == {"Freed", "Ready", "Running", "Zombie"}
\* Panics that the code's own assertions and unwraps raise.
Asserts == {"strong_count", "dealloc", "fetch_empty"}
Halts == {"no", "shutdown", "already_borrowed"} \union Asserts

\* What the user of waitpid may ask for; -1 stands for any child.
WaitArgs == {-1} \union 1..Cardinality(TCB)

Live(t) == status[t] # "Freed"

Init ==
  /\ status = [t \in TCB |-> IF t = INITPROC THEN "Ready" ELSE "Freed"]
  /\ pid = [t \in TCB |-> IF t = INITPROC THEN AllocId(new) ELSE 0]
  /\ kernel_stack = pid
  /\ ppid = [t \in TCB |-> 0]
  /\ parent = [t \in TCB |-> None]
  /\ children = [t \in TCB |-> <<>>]
  /\ syscall = [t \in TCB |-> "none"]
  /\ wait_pid = [t \in TCB |-> 0]
  /\ ready_queue = <<INITPROC>>
  /\ current = None
  /\ PID_ALLOCATOR = alloc(new)
  /\ KSTACK_ALLOCATOR = alloc(new)
  /\ halted = "no"

-----------------------------------------------------------------------------
(* The processor and the ready queue.                                      *)

\* One round of run_tasks that takes the task at index i of the queue.
Dispatch(i) ==
  /\ current' = ready_queue[i]
  /\ status' = [status EXCEPT ![ready_queue[i]] = "Running"]
  /\ ready_queue' = RemoveAt(ready_queue, i)
  /\ UNCHANGED <<allocVars, treeVars, callVars, halted>>

\* fetch unwraps the first queue element before it looks for the minimum.
FetchPanic ==
  /\ halted' = "fetch_empty"
  /\ UNCHANGED <<status, allocVars, treeVars, callVars, ready_queue, current>>

\* The idle loop runs when no task does.
run_tasks ==
  /\ halted = "no" /\ current = None
  /\ IF ready_queue = <<>> THEN FetchPanic
     ELSE \E i \in 1..Len(ready_queue) : Dispatch(i)

\* Faulty variant: the task is not queued again.
suspend_unqueued(t) ==
  /\ current' = None
  /\ status' = [status EXCEPT ![t] = "Ready"]
  /\ UNCHANGED ready_queue

\* suspend_current_and_run_next, up to the switch to the idle loop.
suspend_current(t) ==
  /\ current' = None
  /\ status' = [status EXCEPT ![t] = "Ready"]
  /\ ready_queue' = Append(ready_queue, t)

InUser(t) == halted = "no" /\ current = t /\ syscall[t] = "none"

\* sys_yield, and the timer interrupt of trap_handler.
Yield(t) ==
  /\ InUser(t)
  /\ suspend_current(t)
  /\ UNCHANGED <<allocVars, treeVars, callVars, halted>>

\* A read or write that has to wait, and sys_nanosleep, suspend inside the
\* call; a task suspended in a read or write keeps a clone of its own Arc.
Block(t, call) ==
  /\ InUser(t)
  /\ suspend_current(t)
  /\ syscall' = [syscall EXCEPT ![t] = call]
  /\ UNCHANGED <<allocVars, treeVars, wait_pid, halted>>

\* Back from the switch such a call tests its condition again.
BlockAgain(t) ==
  /\ halted = "no" /\ current = t /\ syscall[t] \in Calls
  /\ suspend_current(t)
  /\ UNCHANGED <<allocVars, treeVars, callVars, halted>>

BlockReturn(t) ==
  /\ halted = "no" /\ current = t /\ syscall[t] \in Calls
  /\ syscall' = [syscall EXCEPT ![t] = "none"]
  /\ UNCHANGED <<status, allocVars, treeVars, wait_pid, ready_queue, current, halted>>

-----------------------------------------------------------------------------
(* Creation.                                                               *)

\* TaskControlBlock::fork and ::spawn followed by add_task: the child gets a
\* PID and a kernel stack, joins its parent's children and the ready queue.
sys_fork(t, c) ==
  /\ InUser(t)
  /\ ~Live(c)
  /\ status' = [status EXCEPT ![c] = "Ready"]
  /\ pid' = [pid EXCEPT ![c] = AllocId(PID_ALLOCATOR)]
  /\ PID_ALLOCATOR' = alloc(PID_ALLOCATOR)
  /\ kernel_stack' = [kernel_stack EXCEPT ![c] = AllocId(KSTACK_ALLOCATOR)]
  /\ KSTACK_ALLOCATOR' = alloc(KSTACK_ALLOCATOR)
  /\ ppid' = [ppid EXCEPT ![c] = pid[t]]
  /\ parent' = [parent EXCEPT ![c] = t]
  /\ children' = [children EXCEPT ![t] = Append(@, c)]
  /\ ready_queue' = Append(ready_queue, c)
  /\ UNCHANGED <<callVars, current, halted>>

-----------------------------------------------------------------------------
(* Exit.                                                                   *)

\* Faulty variant: the children do not learn their new parent.
exit_parent_kept(t) ==
  /\ InUser(t)
  /\ t # INITPROC
  /\ current' = None
  /\ status' = [status EXCEPT ![t] = "Zombie"]
  /\ children' = [children EXCEPT ![INITPROC] = @ \o children[t], ![t] = <<>>]
  /\ UNCHANGED <<allocVars, callVars, parent, ready_queue, halted>>

\* exit_current_and_run_next: sys_exit and the faults of trap_handler.
exit_current(t) ==
  /\ InUser(t)
  /\ t # INITPROC
  /\ current' = None
  /\ status' = [status EXCEPT ![t] = "Zombie"]
  /\ parent' = [c \in TCB |->
                 IF Contains(children[t], c) THEN INITPROC ELSE parent[c]]
  /\ children' = [children EXCEPT ![INITPROC] = @ \o children[t], ![t] = <<>>]
  /\ UNCHANGED <<allocVars, callVars, ready_queue, halted>>

\* The initial process exits: IDLE_PID is 0, which the allocator never hands
\* out, so the test on it fails, and the code borrows INITPROC for the
\* children while it holds the TCB of the exiting task, which is the same.
exit_initproc ==
  /\ InUser(INITPROC)
  /\ current' = None
  /\ status' = [status EXCEPT ![INITPROC] = "Zombie"]
  /\ halted' = "already_borrowed"
  /\ UNCHANGED <<allocVars, treeVars, callVars, ready_queue>>

-----------------------------------------------------------------------------
(* Reaping.                                                                *)

Matches(c, p) == p = -1 \/ p = pid[c]
Reapable(c, p) == status[c] = "Zombie" /\ Matches(c, p)
HasMatch(t, p) == \E i \in 1..Len(children[t]) : Matches(children[t][i], p)

\* Faulty variant: the count is taken while the parent's list still has c.
ReferencesEarly(c, ch) == Cardinality({p \in TCB : Contains(children[p], c)})

\* Arc::strong_count of c without the local variable of waitpid: references
\* from the children lists ch, the ready queue, the processor, the static
\* INITPROC and the kernel stack of a task suspended in a read or write.
References(c, ch) ==
  Cardinality(UNION {{<<p, i>> : i \in {j \in 1..Len(ch[p]) : ch[p][j] = c}}
                      : p \in TCB})
  + Cardinality({i \in 1..Len(ready_queue) : ready_queue[i] = c})
  + Cardinality({r \in {"current", "INITPROC", "stack"} :
                   \/ r = "current" /\ current = c
                   \/ r = "INITPROC" /\ c = INITPROC
                   \/ r = "stack" /\ syscall[c] = "io"})

\* Dropping a TCB drops its PidHandle and its KernelStack, which go back to
\* their allocators.  Faulty variant: the kernel stack has no Drop.
DropPid(c) ==
  /\ PID_ALLOCATOR' = dealloc(PID_ALLOCATOR, pid[c])
  /\ UNCHANGED KSTACK_ALLOCATOR
DropIds(c) ==
  /\ PID_ALLOCATOR' = dealloc(PID_ALLOCATOR, pid[c])
  /\ KSTACK_ALLOCATOR' = dealloc(KSTACK_ALLOCATOR, kernel_stack[c])

\* waitpid removes the zombie at index i and drops the last reference to it.
Reap(t, i) ==
  LET c == children[t][i]
      ch == [children EXCEPT ![t] = RemoveAt(@, i)]
  IN /\ children' = ch
     /\ syscall' = [syscall EXCEPT ![t] = "none"]
     /\ wait_pid' = [wait_pid EXCEPT ![t] = 0]
     /\ halted' = IF References(c, ch) # 0 THEN "strong_count"
                  ELSE IF /\ DeallocAsserts(PID_ALLOCATOR, pid[c])
                          /\ DeallocAsserts(KSTACK_ALLOCATOR, kernel_stack[c])
                       THEN "no" ELSE "dealloc"
     /\ DropIds(c)
     /\ status' = [status EXCEPT ![c] = "Freed"]
     /\ pid' = [pid EXCEPT ![c] = 0]
     /\ kernel_stack' = [kernel_stack EXCEPT ![c] = 0]
     /\ ppid' = [ppid EXCEPT ![c] = 0]
     /\ parent' = [parent EXCEPT ![c] = None]
     /\ UNCHANGED <<ready_queue, current>>

\* One call of waitpid from the loop of sys_waitpid; p is the argument.
WaitNoChild(t, p) ==
  /\ ~HasMatch(t, p)
  /\ syscall' = [syscall EXCEPT ![t] = "none"]
  /\ wait_pid' = [wait_pid EXCEPT ![t] = 0]
  /\ UNCHANGED <<status, allocVars, treeVars, ready_queue, current, halted>>

\* Faulty variant: a zombie behind a child that is none is not seen.
WaitFoundFirst(t, p) ==
  /\ \E i \in 1..Len(children[t]) : Reapable(children[t][i], p)
  /\ IF Reapable(children[t][1], p) THEN Reap(t, 1)
     ELSE /\ suspend_current(t)
          /\ syscall' = [syscall EXCEPT ![t] = "waitpid"]
          /\ wait_pid' = [wait_pid EXCEPT ![t] = p]
          /\ UNCHANGED <<allocVars, treeVars, halted>>
WaitFound(t, p) ==
  \E i \in 1..Len(children[t]) :
    /\ Reapable(children[t][i], p)
    /\ \A j \in 1..(i - 1) : ~Reapable(children[t][j], p)
    /\ Reap(t, i)

\* Faulty variant: waits for a PID that is not among the children.
WaitAgainUnchecked(t, p) ==
  /\ \A i \in 1..Len(children[t]) : ~Reapable(children[t][i], p)
  /\ suspend_current(t)
  /\ syscall' = [syscall EXCEPT ![t] = "waitpid"]
  /\ wait_pid' = [wait_pid EXCEPT ![t] = p]
  /\ UNCHANGED <<allocVars, treeVars, halted>>
WaitAgain(t, p) ==
  /\ HasMatch(t, p)
  /\ \A i \in 1..Len(children[t]) : ~Reapable(children[t][i], p)
  /\ suspend_current(t)
  /\ syscall' = [syscall EXCEPT ![t] = "waitpid"]
  /\ wait_pid' = [wait_pid EXCEPT ![t] = p]
  /\ UNCHANGED <<allocVars, treeVars, halted>>

waitpid(t, p) == WaitNoChild(t, p) \/ WaitFound(t, p) \/ WaitAgain(t, p)

\* sys_waitpid from user mode, and its loop after the switch back.
sys_waitpid(t, p) == InUser(t) /\ waitpid(t, p)
WaitResume(t) ==
  /\ halted = "no" /\ current = t /\ syscall[t] = "waitpid"
  /\ waitpid(t, wait_pid[t])

-----------------------------------------------------------------------------
\* sys_shutdown, and the panics on an unknown system call or trap.
Halt(t) ==
  /\ InUser(t)
  /\ halted' = "shutdown"
  /\ UNCHANGED <<status, allocVars, treeVars, callVars, ready_queue, current>>

\* The machine stays stopped.
Stopped == halted # "no" /\ UNCHANGED vars

\* What the code running for task t may do, but for creating a task.
TaskStep(t) ==
  \/ Yield(t)
  \/ \E call \in Calls : Block(t, call)
  \/ BlockAgain(t)
  \/ BlockReturn(t)
  \/ exit_current(t)
  \/ \E p \in WaitArgs : sys_waitpid(t, p)
  \/ WaitResume(t)
  \/ Halt(t)

Next ==
  \/ run_tasks
  \/ \E t \in TCB : TaskStep(t)
  \/ \E t, c \in TCB : sys_fork(t, c)
  \/ exit_initproc
  \/ Stopped

Spec == Init /\ [][Next]_vars

\* What keeps the kernel moving: the idle loop and the code of a resumed call
\* run to their end, the timer interrupts a task in user mode, and fetch does
\* not pass over a queued task for ever (StrideScheduler bounds how often).
DispatchOf(t) ==
  /\ halted = "no" /\ current = None
  /\ \E i \in 1..Len(ready_queue) : ready_queue[i] = t /\ Dispatch(i)

Fairness ==
  /\ WF_vars(run_tasks)
  /\ \A t \in TCB : /\ SF_vars(DispatchOf(t))
                    /\ WF_vars(Yield(t))
                    /\ WF_vars(BlockAgain(t) \/ BlockReturn(t))
                    /\ WF_vars(WaitResume(t))

FairSpec == Spec /\ Fairness

-----------------------------------------------------------------------------
(* Properties.                                                             *)

\* The type invariant: the queue and the children lists hold only TCBs, and
\* what the allocators hand out and take back are natural numbers.
TypeOK ==
  /\ status \in [TCB -> Status]
  /\ pid \in [TCB -> Nat]
  /\ ppid \in [TCB -> Nat]
  /\ kernel_stack \in [TCB -> Nat]
  /\ parent \in [TCB -> TCB \union {None}]
  /\ children \in [TCB -> Seq(TCB)]
  /\ syscall \in [TCB -> Calls \union {"none", "waitpid"}]
  /\ wait_pid \in [TCB -> WaitArgs \union {0}]
  /\ ready_queue \in Seq(TCB)
  /\ current \in TCB \union {None}
  /\ PID_ALLOCATOR \in RecycleAllocators
  /\ KSTACK_ALLOCATOR \in RecycleAllocators
  /\ halted \in Halts

\* Every runnable task has exactly one place: a Ready task is queued exactly
\* once, the Running task is the processor's current one, and a zombie or a
\* freed TCB is in neither place (suspend, exit, fork and fetch each move a
\* task between the queue and the processor).
OnePlace ==
  /\ IsInjective(ready_queue)
  /\ \A t \in TCB :
       /\ status[t] = "Ready" <=> Contains(ready_queue, t)
       /\ status[t] = "Running" <=> current = t

\* None of the kernel's own checks fires: the reference count that waitpid
\* asserts, the assertions of RecycleAllocator::dealloc, the unwrap in fetch.
NoAssertFails == halted \notin Asserts

\* The PID and the kernel stack of a task carry the same number, and the two
\* allocators stay in step ("the kernel stack that corresponds to the PID").
PidIsKstack ==
  /\ pid = kernel_stack
  /\ PID_ALLOCATOR = KSTACK_ALLOCATOR

\* No two tasks that exist share a PID, and the PID of none is on the recycle
\* stack or still to be handed out for the first time.
PidsDistinct ==
  \A t \in TCB : Live(t) =>
    /\ \A u \in TCB : Live(u) /\ pid[u] = pid[t] => u = t
    /\ DeallocAsserts(PID_ALLOCATOR, pid[t])

\* Identifiers and the tasks that have them stay in step, for PIDs and for
\* kernel stacks.
IdsInStep == PidIsKstack /\ PidsDistinct

\* Re-parenting and reaping keep the processes a tree: every task but INITPROC
\* is exactly once in the children of exactly one task, which is its parent
\* and has not exited; so every zombie can still be reaped, and the Weak
\* reference to the parent can be upgraded.
FamilyTree ==
  /\ \A p \in TCB : IsInjective(children[p])
  /\ \A c, p \in TCB :
       Contains(children[p], c) <=> Live(c) /\ c # INITPROC /\ parent[c] = p
  /\ \A c \in TCB : Live(c) /\ c # INITPROC =>
       /\ parent[c] \in TCB
       /\ halted = "no" => status[parent[c]] \in {"Ready", "Running"}

\* A task suspended in waitpid still has a child that it waits for: nothing
\* but its own waitpid takes a child away, so the loop of sys_waitpid never
\* ends with -1 after it has once suspended.
WaiterHasChild ==
  \A t \in TCB : syscall[t] = "waitpid" => HasMatch(t, wait_pid[t])

-----------------------------------------------------------------------------
(* What the invariants above need to be inductive.                         *)

\* The recycle stack holds no identifier twice and only ones handed out.
AllocatorOK(a) ==
  /\ IsInjective(a.recycled)
  /\ \A x \in ToSet(a.recycled) : x < a.current

\* A task suspended in a call is runnable, and the initial process is.
CallersRunnable ==
  /\ \A t \in TCB : syscall[t] # "none" => status[t] \in {"Ready", "Running"}
  /\ halted = "no" => status[INITPROC] \in {"Ready", "Running"}

IInv ==
  /\ TypeOK
  /\ OnePlace
  /\ NoAssertFails
  /\ PidIsKstack
  /\ PidsDistinct
  /\ AllocatorOK(PID_ALLOCATOR)
  /\ FamilyTree
  /\ WaiterHasChild
  /\ CallersRunnable

-----------------------------------------------------------------------------
\* A zombie stays one until its parent, running, reaps it; no other step
\* frees a TCB.
OnlyParentReaps ==
  [][\A t \in TCB : Live(t) /\ ~Live(t)' =>
        status[t] = "Zombie" /\ current = parent[t]]_vars

\* A task suspended in waitpid that has a zombie to reap gets out of the call.
WaitReturns ==
  \A t \in TCB :
    (/\ syscall[t] = "waitpid"
     /\ \E i \in 1..Len(children[t]) : Reapable(children[t][i], wait_pid[t]))
      ~> (syscall[t] # "waitpid" \/ halted # "no")

\* A turn of a waitpid by p for a child such as t: for t itself, as the shell
\* waits for the program it has started, or for any child.
AsksFor(p, t) ==
  \/ \E a \in {-1, pid[t]} : sys_waitpid(p, a)
  \/ WaitResume(p) /\ Matches(t, wait_pid[p])

\* A zombie is not passed over: as long as its parent goes on asking for it,
\* for it alone or for any child, it is reaped, whatever other children there
\* are, in whatever order they exit and however many are created in between.
\* The parent may be the one that forked it or, for an orphan, INITPROC.
ChildrenReaped ==
  \A p, t \in TCB :
    []<><<AsksFor(p, t)>>_vars =>
      (status[t] = "Zombie" /\ parent[t] = p)
        ~> (status[t] # "Zombie" \/ parent[t] # p \/ halted # "no")

=============================================================================
