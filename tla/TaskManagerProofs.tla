-------------------------- MODULE TaskManagerProofs --------------------------
(***************************************************************************)
(* Proofs about TaskManager, for every set of TCBs, and about              *)
(* StrideScheduler: it implements TaskManager, and no task gets ahead of a *)
(* waiting one by more than one step.                                      *)
(***************************************************************************)
EXTENDS StrideScheduler, SequenceLemmas, FiniteSetTheorems, TLAPS

-----------------------------------------------------------------------------
(* The identifier allocator.                                               *)

\* AllocatorOK in terms of Contains.
LEMMA AllocatorOKContains ==
  ASSUME NEW a \in RecycleAllocators
  PROVE  AllocatorOK(a) <=> /\ IsInjective(a.recycled)
                            /\ \A x : Contains(a.recycled, x) => x < a.current
  BY ToSetContains, Zenon DEF AllocatorOK, RecycleAllocators

\* RecycleAllocator::alloc hands out an identifier that nobody holds and that
\* dealloc will accept back, and disturbs no identifier that is held.
LEMMA AllocProperties ==
  ASSUME NEW a \in RecycleAllocators, AllocatorOK(a)
  PROVE  /\ alloc(a) \in RecycleAllocators
         /\ AllocId(a) \in Nat
         /\ AllocatorOK(alloc(a))
         /\ DeallocAsserts(alloc(a), AllocId(a))
         /\ \A id \in Nat : DeallocAsserts(a, id) =>
              id # AllocId(a) /\ DeallocAsserts(alloc(a), id)
PROOF
  <1>0. a.recycled \in Seq(Nat) /\ a.current \in Nat
    BY Zenon DEF RecycleAllocators
  <1>1. CASE a.recycled # <<>>
    <2> DEFINE f == Front(a.recycled)
    <2>1. /\ f \in Seq(Nat)
          /\ IsInjective(f)
          /\ \A x : Contains(f, x) <=> Contains(a.recycled, x) /\ x # Last(a.recycled)
          /\ Contains(a.recycled, Last(a.recycled))
          /\ Last(a.recycled) \in Nat
      BY <1>0, <1>1, FrontProperties, FrontMembers, Zenon DEF AllocatorOK
    <2>2. AllocId(a) = Last(a.recycled)
      BY <1>1, Zenon DEF AllocId
    <2>3. /\ alloc(a) \in RecycleAllocators
          /\ alloc(a).recycled = f
          /\ alloc(a).current = a.current
      BY <1>0, <1>1, <2>1, Zenon DEF alloc, RecycleAllocators
    <2> HIDE DEF f
    <2> QED BY <2>1, <2>2, <2>3, AllocatorOKContains, Zenon DEF DeallocAsserts
  <1>2. CASE a.recycled = <<>>
    <2>1. AllocId(a) = a.current
      BY <1>2, Zenon DEF AllocId
    <2>2. /\ alloc(a) \in RecycleAllocators
          /\ alloc(a).recycled = a.recycled
          /\ alloc(a).current = a.current + 1
      BY <1>0, <1>2 DEF alloc, RecycleAllocators
    <2>3. \A x : ~Contains(a.recycled, x)
      BY <1>2 DEF Contains
    <2> QED BY <1>0, <2>1, <2>2, <2>3, AllocatorOKContains DEF DeallocAsserts
  <1> QED BY <1>1, <1>2, Zenon

\* dealloc of an identifier that passes its assertions keeps the recycle stack
\* free of duplicates and disturbs no other identifier that is held.
LEMMA DeallocProperties ==
  ASSUME NEW a \in RecycleAllocators, AllocatorOK(a),
         NEW id \in Nat, DeallocAsserts(a, id)
  PROVE  /\ dealloc(a, id) \in RecycleAllocators
         /\ AllocatorOK(dealloc(a, id))
         /\ \A other \in Nat : DeallocAsserts(a, other) /\ other # id =>
              DeallocAsserts(dealloc(a, id), other)
PROOF
  <1> DEFINE r == Append(a.recycled, id)
  <1>1. a.recycled \in Seq(Nat) /\ a.current \in Nat
    BY Zenon DEF RecycleAllocators
  <1>2. /\ r \in Seq(Nat)
        /\ IsInjective(r)
        /\ \A x : Contains(r, x) <=> Contains(a.recycled, x) \/ x = id
    BY <1>1, SeqAppend, AppendMembers, Zenon DEF AllocatorOK, DeallocAsserts
  <1>3. /\ dealloc(a, id) \in RecycleAllocators
        /\ dealloc(a, id).recycled = r
        /\ dealloc(a, id).current = a.current
    BY <1>1, <1>2, Zenon DEF dealloc, RecycleAllocators
  <1> HIDE DEF r
  <1> QED BY <1>1, <1>2, <1>3, AllocatorOKContains, Zenon DEF DeallocAsserts

-----------------------------------------------------------------------------
(* The inductive invariant.                                                *)

\* The state that add_initproc leaves satisfies the inductive invariant.
LEMMA InitIInv == Init => IInv
PROOF
  <1> SUFFICES ASSUME Init PROVE IInv
    BY Zenon
  <1>1. /\ AllocId(new) = 1
        /\ alloc(new) = [current |-> 2, recycled |-> <<>>]
        /\ \A x : ~Contains(alloc(new).recycled, x)
        /\ IsInjective(alloc(new).recycled)
    BY DEF AllocId, alloc, new, Contains, IsInjective
  <1>2. /\ \A x : ~Contains(<<>>, x)
        /\ \A x : Contains(<<INITPROC>>, x) <=> x = INITPROC
        /\ IsInjective(<<>>) /\ IsInjective(<<INITPROC>>)
    BY DEF Contains, IsInjective
  <1>3. alloc(new) \in RecycleAllocators
    BY <1>1 DEF RecycleAllocators
  <1>4. TypeOK
    BY <1>1, <1>3, TCBAssumption DEF Init, TypeOK, Status, Halts
  <1>5. OnePlace
    BY <1>2, TCBAssumption, Zenon DEF Init, OnePlace
  <1>6. NoAssertFails
    BY Zenon DEF Init, NoAssertFails, Asserts
  <1>7. PidIsKstack
    BY Zenon DEF Init, PidIsKstack
  <1>8. PidsDistinct
    BY <1>1, TCBAssumption DEF Init, PidsDistinct, Live, DeallocAsserts
  <1>9. AllocatorOK(PID_ALLOCATOR)
    BY <1>1, <1>3, AllocatorOKContains, Zenon DEF Init
  <1>10. FamilyTree
    BY <1>2, TCBAssumption, Zenon DEF Init, FamilyTree, Live
  <1>11. WaiterHasChild
    BY Zenon DEF Init, WaiterHasChild
  <1>12. CallersRunnable
    BY TCBAssumption, Zenon DEF Init, CallersRunnable
  <1> QED
    BY <1>4, <1>5, <1>6, <1>7, <1>8, <1>9, <1>10, <1>11, <1>12, Zenon DEF IInv

\* suspend_current_and_run_next moves the running task to the queue.
LEMMA SuspendPlaces ==
  ASSUME TypeOK, OnePlace, NEW t \in TCB, current = t, suspend_current(t)
  PROVE  /\ status' \in [TCB -> Status]
         /\ ready_queue' \in Seq(TCB)
         /\ current' \in TCB \union {None}
         /\ OnePlace'
         /\ status[t] = "Running"
         /\ \A u \in TCB : status'[u] = IF u = t THEN "Ready" ELSE status[u]
PROOF
  <1>1. status[t] = "Running" /\ ~Contains(ready_queue, t)
    BY Zenon DEF OnePlace
  <1>2. /\ ready_queue' \in Seq(TCB)
        /\ IsInjective(ready_queue')
        /\ \A x : Contains(ready_queue', x) <=> Contains(ready_queue, x) \/ x = t
    BY <1>1, SeqAppend, AppendMembers DEF suspend_current, TypeOK, OnePlace
  <1>3. /\ status' \in [TCB -> Status]
        /\ \A u \in TCB : status'[u] = IF u = t THEN "Ready" ELSE status[u]
        /\ current' = None
    BY Zenon DEF suspend_current, TypeOK, Status
  <1>4. OnePlace'
    BY <1>1, <1>2, <1>3, TCBAssumption, Zenon DEF OnePlace
  <1> QED BY <1>1, <1>2, <1>3, <1>4, Zenon

\* A step that leaves the processes and their identifiers alone and keeps the
\* runnable ones runnable disturbs nothing that depends on them.
LEMMA KeepsTree ==
  ASSUME IInv, UNCHANGED <<allocVars, treeVars>>,
         \A u \in TCB : /\ Live(u)' <=> Live(u)
                        /\ status[u] \in {"Ready", "Running"} <=>
                             status'[u] \in {"Ready", "Running"},
         halted' = "no" => halted = "no"
  PROVE  /\ PidIsKstack' /\ PidsDistinct' /\ AllocatorOK(PID_ALLOCATOR)'
         /\ FamilyTree'
         /\ pid' \in [TCB -> Nat] /\ ppid' \in [TCB -> Nat]
         /\ kernel_stack' \in [TCB -> Nat]
         /\ parent' \in [TCB -> TCB \union {None}] /\ children' \in [TCB -> Seq(TCB)]
         /\ PID_ALLOCATOR' \in RecycleAllocators
         /\ KSTACK_ALLOCATOR' \in RecycleAllocators
PROOF
  <1>1. /\ pid' = pid /\ ppid' = ppid /\ kernel_stack' = kernel_stack
        /\ PID_ALLOCATOR' = PID_ALLOCATOR /\ KSTACK_ALLOCATOR' = KSTACK_ALLOCATOR
        /\ parent' = parent /\ children' = children
    BY Zenon DEF allocVars, treeVars
  <1>2. PidIsKstack'
    BY <1>1, Zenon DEF IInv, PidIsKstack
  <1>3. PidsDistinct'
    BY <1>1, Zenon DEF IInv, PidsDistinct, DeallocAsserts
  <1>4. AllocatorOK(PID_ALLOCATOR)'
    BY <1>1, Zenon DEF IInv, AllocatorOK
  <1>5. FamilyTree'
    BY <1>1, Zenon DEF IInv, FamilyTree
  <1> QED BY <1>1, <1>2, <1>3, <1>4, <1>5, Zenon DEF IInv, TypeOK

\* Suspension: sys_yield, the timer, and calls that wait.
LEMMA SuspendIInv ==
  ASSUME IInv, NEW t \in TCB, current = t, suspend_current(t),
         UNCHANGED <<allocVars, treeVars, halted>>,
         syscall' \in [TCB -> Calls \union {"none", "waitpid"}],
         wait_pid' \in [TCB -> WaitArgs \union {0}],
         \A u \in TCB : u # t => syscall'[u] = syscall[u] /\ wait_pid'[u] = wait_pid[u],
         syscall'[t] = "waitpid" => HasMatch(t, wait_pid'[t])
  PROVE  IInv'
PROOF
  <1>1. /\ status' \in [TCB -> Status]
        /\ ready_queue' \in Seq(TCB)
        /\ current' \in TCB \union {None}
        /\ OnePlace'
        /\ status[t] = "Running"
        /\ \A u \in TCB : status'[u] = IF u = t THEN "Ready" ELSE status[u]
    BY SuspendPlaces, Zenon DEF IInv
  <1>2. \A u \in TCB : /\ Live(u)' <=> Live(u)
                       /\ status[u] \in {"Ready", "Running"} <=>
                            status'[u] \in {"Ready", "Running"}
    BY <1>1, Zenon DEF Live
  <1>3. /\ PidIsKstack' /\ PidsDistinct' /\ AllocatorOK(PID_ALLOCATOR)'
        /\ FamilyTree'
        /\ pid' \in [TCB -> Nat] /\ ppid' \in [TCB -> Nat]
        /\ kernel_stack' \in [TCB -> Nat]
        /\ parent' \in [TCB -> TCB \union {None}] /\ children' \in [TCB -> Seq(TCB)]
        /\ PID_ALLOCATOR' \in RecycleAllocators
        /\ KSTACK_ALLOCATOR' \in RecycleAllocators
    BY <1>2, KeepsTree, Zenon
  <1>4. TypeOK'
    BY <1>1, <1>3, Zenon DEF IInv, TypeOK
  <1>5. WaiterHasChild'
    BY DEF IInv, WaiterHasChild, HasMatch, Matches, allocVars, treeVars
  <1>6. CallersRunnable' /\ NoAssertFails'
    BY <1>1, TCBAssumption, Zenon DEF IInv, CallersRunnable, NoAssertFails
  <1> QED BY <1>1, <1>3, <1>4, <1>5, <1>6, Zenon DEF IInv

\* A step that changes only the call a task is in, or stops the machine.
LEMMA CallIInv ==
  ASSUME IInv, UNCHANGED <<status, allocVars, treeVars, ready_queue, current>>,
         syscall' \in [TCB -> Calls \union {"none", "waitpid"}],
         wait_pid' \in [TCB -> WaitArgs \union {0}],
         \A u \in TCB : \/ syscall'[u] = "none"
                        \/ syscall'[u] = syscall[u] /\ wait_pid'[u] = wait_pid[u],
         halted' \in Halts, halted' \notin Asserts,
         halted' = "no" => halted = "no"
  PROVE  IInv'
PROOF
  <1>1. \A u \in TCB : /\ Live(u)' <=> Live(u)
                       /\ status[u] \in {"Ready", "Running"} <=>
                            status'[u] \in {"Ready", "Running"}
    BY Zenon DEF Live
  <1>2. /\ PidIsKstack' /\ PidsDistinct' /\ AllocatorOK(PID_ALLOCATOR)'
        /\ FamilyTree'
        /\ pid' \in [TCB -> Nat] /\ ppid' \in [TCB -> Nat]
        /\ kernel_stack' \in [TCB -> Nat]
        /\ parent' \in [TCB -> TCB \union {None}] /\ children' \in [TCB -> Seq(TCB)]
        /\ PID_ALLOCATOR' \in RecycleAllocators
        /\ KSTACK_ALLOCATOR' \in RecycleAllocators
    BY <1>1, KeepsTree, Zenon
  <1>3. TypeOK'
    BY <1>2, Zenon DEF IInv, TypeOK
  <1>4. OnePlace'
    BY Zenon DEF IInv, OnePlace
  <1>5. WaiterHasChild'
    BY DEF IInv, WaiterHasChild, HasMatch, Matches, allocVars, treeVars
  <1>6. CallersRunnable' /\ NoAssertFails'
    BY Zenon DEF IInv, CallersRunnable, NoAssertFails
  <1> QED BY <1>2, <1>3, <1>4, <1>5, <1>6, Zenon DEF IInv

\* The idle loop: fetch finds a task, because the initial process is runnable
\* and not on the processor.
LEMMA RunTasksIInv ==
  ASSUME IInv, run_tasks
  PROVE  IInv'
PROOF
  <1>1. Contains(ready_queue, INITPROC)
    BY TCBAssumption, Zenon DEF IInv, CallersRunnable, OnePlace, run_tasks
  <1>2. ready_queue # <<>>
    BY <1>1 DEF Contains
  <1>3. PICK i \in 1..Len(ready_queue) : Dispatch(i)
    BY <1>2, Zenon DEF run_tasks
  <1> DEFINE f == ready_queue[i]
  <1>4. f \in TCB /\ Contains(ready_queue, f)
    BY SeqElement, Zenon DEF IInv, TypeOK, Contains
  <1>5. status[f] = "Ready"
    BY <1>4, Zenon DEF IInv, OnePlace
  <1>6. /\ ready_queue' \in Seq(TCB)
        /\ IsInjective(ready_queue')
        /\ \A x : Contains(ready_queue', x) <=> Contains(ready_queue, x) /\ x # f
    BY <1>3, RemoveAtProperties, RemoveAtMembers, Zenon DEF Dispatch, IInv, TypeOK, OnePlace
  <1>7. /\ status' \in [TCB -> Status]
        /\ \A u \in TCB : status'[u] = IF u = f THEN "Running" ELSE status[u]
        /\ current' = f /\ current = None
        /\ UNCHANGED <<allocVars, treeVars, callVars, halted>>
    BY <1>3, <1>4, Zenon DEF Dispatch, run_tasks, IInv, TypeOK, Status
  <1> HIDE DEF f
  <1>8. OnePlace'
    BY <1>4, <1>5, <1>6, <1>7, TCBAssumption, Zenon DEF IInv, OnePlace
  <1>9. \A u \in TCB : /\ Live(u)' <=> Live(u)
                       /\ status[u] \in {"Ready", "Running"} <=>
                            status'[u] \in {"Ready", "Running"}
    BY <1>5, <1>7, Zenon DEF Live
  <1>10. /\ PidIsKstack' /\ PidsDistinct' /\ AllocatorOK(PID_ALLOCATOR)'
         /\ FamilyTree'
         /\ pid' \in [TCB -> Nat] /\ ppid' \in [TCB -> Nat]
         /\ kernel_stack' \in [TCB -> Nat]
         /\ parent' \in [TCB -> TCB \union {None}] /\ children' \in [TCB -> Seq(TCB)]
         /\ PID_ALLOCATOR' \in RecycleAllocators
         /\ KSTACK_ALLOCATOR' \in RecycleAllocators
    BY <1>7, <1>9, KeepsTree, Zenon
  <1>11. TypeOK'
    BY <1>4, <1>6, <1>7, <1>10, Zenon DEF IInv, TypeOK, callVars
  <1>12. WaiterHasChild'
    BY <1>7, Zenon DEF IInv, WaiterHasChild, HasMatch, Matches, allocVars, treeVars, callVars
  <1>13. CallersRunnable' /\ NoAssertFails'
    BY <1>7, <1>9, TCBAssumption, Zenon DEF IInv, CallersRunnable, NoAssertFails, callVars
  <1> QED BY <1>8, <1>10, <1>11, <1>12, <1>13, Zenon DEF IInv

\* fork and spawn.
LEMMA ForkIInv ==
  ASSUME IInv, NEW t \in TCB, NEW c \in TCB, sys_fork(t, c)
  PROVE  IInv'
PROOF
  <1>1. /\ halted = "no" /\ current = t /\ status[t] = "Running"
        /\ status[c] = "Freed" /\ c # t /\ c # INITPROC
        /\ ~Contains(ready_queue, c) /\ current # c
    BY TCBAssumption, Zenon DEF sys_fork, InUser, Live, IInv, OnePlace, CallersRunnable
  <1>2. \A p \in TCB : ~Contains(children[p], c)
    BY <1>1, Zenon DEF IInv, FamilyTree, Live
  <1>3. \A u \in TCB : ~Contains(children[c], u)
    BY <1>1, Zenon DEF IInv, FamilyTree
  <1>4. /\ alloc(PID_ALLOCATOR) \in RecycleAllocators
        /\ AllocId(PID_ALLOCATOR) \in Nat
        /\ AllocatorOK(alloc(PID_ALLOCATOR))
        /\ DeallocAsserts(alloc(PID_ALLOCATOR), AllocId(PID_ALLOCATOR))
        /\ \A id \in Nat : DeallocAsserts(PID_ALLOCATOR, id) =>
              id # AllocId(PID_ALLOCATOR) /\ DeallocAsserts(alloc(PID_ALLOCATOR), id)
    BY AllocProperties, Zenon DEF IInv, TypeOK
  <1>5. /\ status' = [status EXCEPT ![c] = "Ready"]
        /\ pid' = [pid EXCEPT ![c] = AllocId(PID_ALLOCATOR)]
        /\ kernel_stack' = pid'
        /\ PID_ALLOCATOR' = alloc(PID_ALLOCATOR)
        /\ KSTACK_ALLOCATOR' = PID_ALLOCATOR'
        /\ ppid' = [ppid EXCEPT ![c] = pid[t]]
        /\ parent' = [parent EXCEPT ![c] = t]
        /\ children' = [children EXCEPT ![t] = Append(children[t], c)]
        /\ ready_queue' = Append(ready_queue, c)
        /\ UNCHANGED <<syscall, wait_pid, current, halted>>
    BY Zenon DEF sys_fork, IInv, PidIsKstack, callVars
  <1>6. /\ ready_queue' \in Seq(TCB)
        /\ IsInjective(ready_queue')
        /\ \A x : Contains(ready_queue', x) <=> Contains(ready_queue, x) \/ x = c
    BY <1>1, <1>5, SeqAppend, AppendMembers, Zenon DEF IInv, TypeOK, OnePlace
  <1>7. /\ Append(children[t], c) \in Seq(TCB)
        /\ IsInjective(Append(children[t], c))
        /\ \A x : Contains(Append(children[t], c), x) <=> Contains(children[t], x) \/ x = c
    BY <1>2, SeqAppend, AppendMembers DEF IInv, TypeOK, FamilyTree
  <1>8. TypeOK'
    BY <1>4, <1>5, <1>6, <1>7, Zenon DEF IInv, TypeOK, Status
  <1>9. OnePlace'
    BY <1>1, <1>5, <1>6, Zenon DEF IInv, OnePlace, TypeOK
  <1>10. PidIsKstack' /\ AllocatorOK(PID_ALLOCATOR)' /\ NoAssertFails'
    BY <1>4, <1>5, Zenon DEF IInv, PidIsKstack, AllocatorOK, NoAssertFails
  <1>11. PidsDistinct'
    <2> SUFFICES ASSUME NEW u \in TCB, Live(u)'
                 PROVE  /\ \A v \in TCB : Live(v)' /\ pid'[v] = pid'[u] => v = u
                        /\ DeallocAsserts(PID_ALLOCATOR', pid'[u])
      BY Zenon DEF PidsDistinct, DeallocAsserts
    <2>1. \A v \in TCB : v # c =>
            /\ Live(v)' <=> Live(v)
            /\ pid'[v] = pid[v] /\ pid[v] \in Nat
            /\ Live(v) => DeallocAsserts(PID_ALLOCATOR, pid[v])
      BY <1>5, Zenon DEF IInv, TypeOK, Live, PidsDistinct
    <2>2. pid'[c] = AllocId(PID_ALLOCATOR)
      BY <1>5, Zenon DEF IInv, TypeOK
    <2>3. \A v \in TCB : v # c /\ Live(v)' => pid'[v] # pid'[c]
      BY <1>4, <2>1, <2>2, Zenon
    <2>4. DeallocAsserts(PID_ALLOCATOR', pid'[u])
      BY <1>4, <1>5, <2>1, <2>2, Zenon
    <2>5. ASSUME NEW v \in TCB, Live(v)', pid'[v] = pid'[u] PROVE v = u
      <3>1. CASE u = c \/ v = c
        BY <2>3, <2>5, <3>1, Zenon
      <3>2. CASE u # c /\ v # c
        BY <2>1, <2>5, <3>2, Zenon DEF IInv, PidsDistinct
      <3> QED BY <3>1, <3>2, Zenon
    <2> QED BY <2>4, <2>5, Zenon
  <1>12. FamilyTree'
    <2>1. \A p \in TCB : children'[p] = IF p = t THEN Append(children[t], c) ELSE children[p]
      BY <1>5, Zenon DEF IInv, TypeOK
    <2>2. \A u \in TCB : /\ parent'[u] = IF u = c THEN t ELSE parent[u]
                         /\ status'[u] = IF u = c THEN "Ready" ELSE status[u]
      BY <1>5, Zenon DEF IInv, TypeOK
    <2>3. \A p \in TCB : IsInjective(children'[p])
      BY <1>7, <2>1, Zenon DEF IInv, FamilyTree
    <2>4. ASSUME NEW u \in TCB, NEW p \in TCB
          PROVE  Contains(children'[p], u) <=>
                   (status'[u] # "Freed" /\ u # INITPROC /\ parent'[u] = p)
      <3>1. CASE u = c
        BY <1>1, <1>2, <1>7, <2>1, <2>2, <3>1, Zenon
      <3>2. CASE u # c
        BY <1>7, <2>1, <2>2, <3>2 DEF IInv, FamilyTree, Live
      <3> QED BY <3>1, <3>2, Zenon
    <2>5. ASSUME NEW u \in TCB, status'[u] # "Freed", u # INITPROC
          PROVE  /\ parent'[u] \in TCB
                 /\ halted' = "no" => status'[parent'[u]] \in {"Ready", "Running"}
      BY <1>1, <1>5, <2>2, <2>5 DEF IInv, FamilyTree, Live
    <2> QED BY <2>3, <2>4, <2>5, Zenon DEF FamilyTree, Live
  <1>13. WaiterHasChild'
    <2> SUFFICES ASSUME NEW u \in TCB, syscall[u] = "waitpid"
                 PROVE  HasMatch(u, wait_pid[u])'
      BY <1>5, Zenon DEF WaiterHasChild
    <2>1. u # t
      BY Zenon DEF sys_fork, InUser
    <2>2. children'[u] = children[u]
      BY <1>5, <2>1, Zenon DEF IInv, TypeOK
    <2>3. PICK i \in 1..Len(children[u]) : Matches(children[u][i], wait_pid[u])
      BY Zenon DEF IInv, WaiterHasChild, HasMatch
    <2>4. children[u][i] \in TCB /\ children[u][i] # c
      BY <1>2, SeqElement, Zenon DEF IInv, TypeOK, Contains
    <2>5. pid'[children[u][i]] = pid[children[u][i]]
      BY <1>5, <2>4, Zenon DEF IInv, TypeOK
    <2> QED BY <1>5, <2>2, <2>3, <2>5, Zenon DEF HasMatch, Matches
  <1>14. CallersRunnable'
    <2>1. \A u \in TCB : status[u] \in {"Ready", "Running"} =>
                          status'[u] \in {"Ready", "Running"}
      BY <1>5, Zenon DEF IInv, TypeOK
    <2>2. /\ \A u \in TCB : syscall[u] # "none" => status[u] \in {"Ready", "Running"}
          /\ halted = "no" => status[INITPROC] \in {"Ready", "Running"}
      BY Zenon DEF IInv, CallersRunnable
    <2>3. syscall' = syscall /\ halted' = halted
      BY <1>5, Zenon
    <2> QED BY <2>1, <2>2, <2>3, TCBAssumption, Zenon DEF CallersRunnable
  <1> QED
    BY <1>8, <1>9, <1>10, <1>11, <1>12, <1>13, <1>14, Zenon DEF IInv

\* exit_current_and_run_next of a task that is not the initial process.
LEMMA ExitIInv ==
  ASSUME IInv, NEW t \in TCB, exit_current(t)
  PROVE  IInv'
PROOF
  <1>1. /\ halted = "no" /\ current = t /\ status[t] = "Running" /\ syscall[t] = "none"
        /\ t # INITPROC /\ INITPROC \in TCB
        /\ status[INITPROC] \in {"Ready", "Running"}
    BY TCBAssumption, Zenon DEF exit_current, InUser, IInv, OnePlace, CallersRunnable
  <1>2. /\ current' = None
        /\ \A u \in TCB : status'[u] = IF u = t THEN "Zombie" ELSE status[u]
        /\ status' \in [TCB -> Status]
        /\ \A c \in TCB : parent'[c] = IF Contains(children[t], c) THEN INITPROC ELSE parent[c]
        /\ parent' \in [TCB -> TCB \union {None}]
        /\ UNCHANGED <<pid, ppid, kernel_stack, PID_ALLOCATOR, KSTACK_ALLOCATOR,
                       syscall, wait_pid, ready_queue, halted>>
    BY <1>1, Zenon DEF exit_current, IInv, TypeOK, Status, allocVars, callVars
  <1>3. children[INITPROC] \in Seq(TCB) /\ children[t] \in Seq(TCB)
    BY <1>1, Zenon DEF IInv, TypeOK
  <1> DEFINE all == children[INITPROC] \o children[t]
  <1>4. \A p \in TCB : children'[p] = CASE p = INITPROC -> all
                                        [] p = t        -> <<>>
                                        [] OTHER        -> children[p]
    BY <1>1, Zenon DEF exit_current, IInv, TypeOK
  <1>5. /\ all \in Seq(TCB)
        /\ \A x : Contains(all, x) <=> Contains(children[INITPROC], x) \/ Contains(children[t], x)
        /\ \A i \in 1..Len(children[INITPROC]) :
             i \in 1..Len(all) /\ all[i] = children[INITPROC][i]
    <2>1. all \in Seq(TCB)
      BY <1>3, SeqConcat, Zenon
    <2>2. \A x : Contains(all, x) <=> Contains(children[INITPROC], x) \/ Contains(children[t], x)
      BY <1>3, ConcatMembers, Zenon
    <2>3. \A i \in 1..Len(children[INITPROC]) :
             i \in 1..Len(all) /\ all[i] = children[INITPROC][i]
      BY <1>3, ConcatPrefix, Zenon
    <2> QED BY <2>1, <2>2, <2>3, Zenon
  <1>6. IsInjective(all)
    <2>1. ASSUME NEW x PROVE ~(Contains(children[INITPROC], x) /\ Contains(children[t], x))
      <3>1. CASE x \in TCB
        <4>1. \A p \in TCB : Contains(children[p], x) => parent[x] = p
          BY <3>1, Zenon DEF IInv, FamilyTree
        <4> QED BY <1>1, <4>1, Zenon
      <3>2. CASE x \notin TCB
        BY <1>3, <3>2, ContainsTyped, Zenon
      <3> QED BY <3>1, <3>2, Zenon
    <2>2. IsInjective(children[INITPROC]) /\ IsInjective(children[t])
      BY <1>1, Zenon DEF IInv, FamilyTree
    <2> QED BY <1>3, <2>1, <2>2, ConcatMembers, Zenon
  <1> HIDE DEF all
  <1>7. children' \in [TCB -> Seq(TCB)]
    <2>1. children' = [children EXCEPT ![INITPROC] = all, ![t] = <<>>]
      BY Zenon DEF exit_current, all
    <2>2. <<>> \in Seq(TCB)
      OBVIOUS
    <2> QED BY <1>5, <2>1, <2>2, Zenon DEF IInv, TypeOK
  <1>8. TypeOK'
    BY <1>2, <1>7, Zenon DEF IInv, TypeOK
  <1>9. OnePlace'
    BY <1>1, <1>2, TCBAssumption, Zenon DEF IInv, OnePlace
  <1>10. PidIsKstack' /\ AllocatorOK(PID_ALLOCATOR)' /\ NoAssertFails'
    BY <1>2, Zenon DEF IInv, PidIsKstack, AllocatorOK, NoAssertFails
  <1>11. PidsDistinct'
    <2>1. \A u \in TCB : Live(u)' <=> Live(u)
      BY <1>1, <1>2, Zenon DEF Live
    <2>2. pid' = pid /\ PID_ALLOCATOR' = PID_ALLOCATOR
      BY <1>2, Zenon
    <2>3. PidsDistinct
      BY Zenon DEF IInv
    <2> QED BY <2>1, <2>2, <2>3, Zenon DEF PidsDistinct, DeallocAsserts
  <1>12. FamilyTree'
    <2>1. \A x : ~Contains(<<>>, x)
      BY DEF Contains
    <2>2. \A p \in TCB : IsInjective(children'[p])
      <3>1. IsInjective(<<>>)
        BY DEF IsInjective
      <3> QED BY <1>4, <1>6, <3>1, Zenon DEF IInv, FamilyTree
    <2>3. ASSUME NEW c \in TCB, NEW p \in TCB
          PROVE  Contains(children'[p], c) <=>
                   (status'[c] # "Freed" /\ c # INITPROC /\ parent'[c] = p)
      <3>0. /\ status'[c] # "Freed" <=> status[c] # "Freed"
            /\ \A q \in TCB : Contains(children[q], c) <=>
                 (status[c] # "Freed" /\ c # INITPROC /\ parent[c] = q)
        BY <1>1, <1>2, Zenon DEF IInv, FamilyTree, Live
      <3>1. CASE p = INITPROC
        BY <1>1, <1>2, <1>4, <1>5, <3>0, <3>1
      <3>2. CASE p = t
        BY <1>1, <1>2, <1>4, <2>1, <3>0, <3>2
      <3>3. CASE p # INITPROC /\ p # t
        BY <1>1, <1>2, <1>4, <3>0, <3>3
      <3> QED BY <3>1, <3>2, <3>3, Zenon
    <2>4. ASSUME NEW c \in TCB, status'[c] # "Freed", c # INITPROC
          PROVE  parent'[c] \in TCB /\ status'[parent'[c]] \in {"Ready", "Running"}
      <3>1. /\ status[c] # "Freed"
            /\ parent[c] \in TCB /\ status[parent[c]] \in {"Ready", "Running"}
            /\ Contains(children[t], c) <=> parent[c] = t
        BY <1>1, <1>2, <2>4, Zenon DEF IInv, FamilyTree, Live
      <3> QED BY <1>1, <1>2, <3>1, Zenon
    <2> QED BY <2>2, <2>3, <2>4, Zenon DEF FamilyTree, Live
  <1>13. WaiterHasChild'
    <2> SUFFICES ASSUME NEW u \in TCB, syscall[u] = "waitpid"
                 PROVE  HasMatch(u, wait_pid[u])'
      BY <1>2, Zenon DEF WaiterHasChild
    <2>1. u # t
      BY <1>1, Zenon
    <2>2. PICK i \in 1..Len(children[u]) : Matches(children[u][i], wait_pid[u])
      BY Zenon DEF IInv, WaiterHasChild, HasMatch
    <2>3. i \in 1..Len(children'[u]) /\ children'[u][i] = children[u][i]
      BY <1>4, <1>5, <2>1, Zenon
    <2> QED BY <1>2, <2>2, <2>3, Zenon DEF HasMatch, Matches
  <1>14. CallersRunnable'
    BY <1>1, <1>2, Zenon DEF IInv, CallersRunnable
  <1> QED
    BY <1>8, <1>9, <1>10, <1>11, <1>12, <1>13, <1>14, Zenon DEF IInv

\* exit of the initial process: the kernel stops with a double borrow.
LEMMA ExitInitIInv ==
  ASSUME IInv, exit_initproc
  PROVE  IInv'
PROOF
  <1>1. /\ current = INITPROC /\ INITPROC \in TCB /\ syscall[INITPROC] = "none"
        /\ status[INITPROC] = "Running"
    BY TCBAssumption, Zenon DEF exit_initproc, InUser, IInv, OnePlace
  <1>2. /\ current' = None /\ halted' = "already_borrowed"
        /\ \A u \in TCB : status'[u] = IF u = INITPROC THEN "Zombie" ELSE status[u]
        /\ status' \in [TCB -> Status]
        /\ UNCHANGED <<pid, ppid, kernel_stack, PID_ALLOCATOR, KSTACK_ALLOCATOR,
                       parent, children, syscall, wait_pid, ready_queue>>
    BY <1>1, Zenon DEF exit_initproc, IInv, TypeOK, Status, allocVars, callVars, treeVars
  <1>3. TypeOK' /\ NoAssertFails'
    BY <1>2, Zenon DEF IInv, TypeOK, NoAssertFails, Halts, Asserts
  <1>4. OnePlace'
    BY <1>1, <1>2, TCBAssumption, Zenon DEF IInv, OnePlace
  <1>5. PidIsKstack' /\ AllocatorOK(PID_ALLOCATOR)' /\ PidsDistinct'
    BY <1>1, <1>2, Zenon DEF IInv, PidIsKstack, AllocatorOK, PidsDistinct, Live, DeallocAsserts
  <1>6. FamilyTree'
    BY <1>1, <1>2, Zenon DEF IInv, FamilyTree, Live
  <1>7. WaiterHasChild'
    BY <1>2, Zenon DEF IInv, WaiterHasChild, HasMatch, Matches
  <1>8. CallersRunnable'
    BY <1>1, <1>2, Zenon DEF IInv, CallersRunnable
  <1> QED BY <1>3, <1>4, <1>5, <1>6, <1>7, <1>8, Zenon DEF IInv

\* The assertion on Arc::strong_count in waitpid: no reference to a zombie is
\* left once it is out of its parent's children.
LEMMA NoReferences ==
  ASSUME IInv, halted = "no", NEW t \in TCB, current = t,
         NEW i \in 1..Len(children[t]), status[children[t][i]] = "Zombie"
  PROVE  References(children[t][i], [children EXCEPT ![t] = RemoveAt(children[t], i)]) = 0
PROOF
  <1> DEFINE c == children[t][i]
             ch == [children EXCEPT ![t] = RemoveAt(children[t], i)]
  <1>1. children[t] \in Seq(TCB) /\ IsInjective(children[t])
    BY Zenon DEF IInv, TypeOK, FamilyTree
  <1>2. c \in TCB /\ Contains(children[t], c) /\ status[c] = "Zombie"
    BY <1>1, SeqElement, Zenon DEF Contains
  <1>3. parent[c] = t /\ c # INITPROC
    BY <1>2, Zenon DEF IInv, FamilyTree
  <1>4. ASSUME NEW p \in TCB PROVE ~Contains(ch[p], c)
    <2>1. ch[p] = IF p = t THEN RemoveAt(children[t], i) ELSE children[p]
      BY Zenon DEF IInv, TypeOK
    <2>2. ~Contains(RemoveAt(children[t], i), c)
      BY <1>1, RemoveAtMembers
    <2>3. Contains(children[p], c) => parent[c] = p
      BY <1>2, Zenon DEF IInv, FamilyTree
    <2> QED BY <1>3, <2>1, <2>2, <2>3, Zenon
  <1> HIDE DEF c, ch
  <1>5. UNION {{<<p, k>> : k \in {j \in 1..Len(ch[p]) : ch[p][j] = c}} : p \in TCB} = {}
    BY <1>4, Zenon DEF Contains
  <1>6. {k \in 1..Len(ready_queue) : ready_queue[k] = c} = {}
    BY <1>2, Zenon DEF IInv, OnePlace, Contains
  <1>7. current # c /\ syscall[c] = "none"
    BY <1>2, Zenon DEF IInv, OnePlace, CallersRunnable
  <1>8. {r \in {"current", "INITPROC", "stack"} :
           \/ r = "current" /\ current = c
           \/ r = "INITPROC" /\ c = INITPROC
           \/ r = "stack" /\ syscall[c] = "io"} = {}
    BY <1>3, <1>7, Zenon
  <1>9. Cardinality({}) = 0
    BY FS_EmptySet, Zenon
  <1>10. References(c, ch) = Cardinality({}) + Cardinality({}) + Cardinality({})
    BY <1>5, <1>6, <1>8, Zenon DEF References
  <1>11. References(c, ch) = 0
    BY <1>9, <1>10
  <1> QED BY <1>11, Zenon DEF c, ch

\* waitpid takes a zombie out of the children and frees it.
LEMMA ReapIInv ==
  ASSUME IInv, halted = "no", NEW t \in TCB, current = t,
         NEW i \in 1..Len(children[t]), status[children[t][i]] = "Zombie", Reap(t, i)
  PROVE  IInv'
PROOF
  <1> DEFINE c == children[t][i]
             rest == RemoveAt(children[t], i)
  <1>1. children[t] \in Seq(TCB) /\ IsInjective(children[t])
    BY Zenon DEF IInv, TypeOK, FamilyTree
  <1>2. c \in TCB /\ Contains(children[t], c) /\ status[c] = "Zombie" /\ pid[c] \in Nat
    BY <1>1, SeqElement, Zenon DEF Contains, IInv, TypeOK
  <1>3. /\ parent[c] = t /\ c # INITPROC /\ c # t /\ status[t] = "Running"
        /\ syscall[c] = "none"
    BY <1>2, Zenon DEF IInv, FamilyTree, OnePlace, CallersRunnable
  <1>4. /\ rest \in Seq(TCB)
        /\ IsInjective(rest)
        /\ \A x : Contains(rest, x) <=> Contains(children[t], x) /\ x # c
    BY <1>1, RemoveAtProperties, RemoveAtMembers, Zenon
  <1>5. References(c, [children EXCEPT ![t] = rest]) = 0
    BY <1>2, NoReferences, Zenon
  <1>6. /\ DeallocAsserts(PID_ALLOCATOR, pid[c])
        /\ kernel_stack[c] = pid[c] /\ KSTACK_ALLOCATOR = PID_ALLOCATOR
    BY <1>2, Zenon DEF IInv, PidsDistinct, PidIsKstack, Live
  <1>7. /\ dealloc(PID_ALLOCATOR, pid[c]) \in RecycleAllocators
        /\ AllocatorOK(dealloc(PID_ALLOCATOR, pid[c]))
        /\ \A other \in Nat : DeallocAsserts(PID_ALLOCATOR, other) /\ other # pid[c] =>
              DeallocAsserts(dealloc(PID_ALLOCATOR, pid[c]), other)
    BY <1>2, <1>6, DeallocProperties, Zenon DEF IInv, TypeOK
  <1>8. halted' = "no"
    BY <1>5, <1>6, Zenon DEF Reap
  <1>9. /\ children' = [children EXCEPT ![t] = rest]
        /\ syscall' = [syscall EXCEPT ![t] = "none"]
        /\ wait_pid' = [wait_pid EXCEPT ![t] = 0]
        /\ PID_ALLOCATOR' = dealloc(PID_ALLOCATOR, pid[c])
        /\ KSTACK_ALLOCATOR' = PID_ALLOCATOR'
        /\ status' = [status EXCEPT ![c] = "Freed"]
        /\ pid' = [pid EXCEPT ![c] = 0]
        /\ kernel_stack' = pid'
        /\ ppid' = [ppid EXCEPT ![c] = 0]
        /\ parent' = [parent EXCEPT ![c] = None]
        /\ UNCHANGED <<ready_queue, current>>
    BY <1>6, Zenon DEF Reap, DropIds, IInv, PidIsKstack
  <1> HIDE DEF c, rest
  <1>10. TypeOK'
    BY <1>4, <1>7, <1>8, <1>9, Zenon DEF IInv, TypeOK, Status, Halts
  <1>11. OnePlace'
    BY <1>2, <1>9, Zenon DEF IInv, OnePlace, TypeOK
  <1>12. PidIsKstack' /\ AllocatorOK(PID_ALLOCATOR)' /\ NoAssertFails'
    BY <1>7, <1>8, <1>9, Zenon DEF IInv, PidIsKstack, AllocatorOK, NoAssertFails, Asserts
  <1>13. PidsDistinct'
    <2>1. \A u \in TCB : Live(u)' <=> Live(u) /\ u # c
      BY <1>9, Zenon DEF IInv, TypeOK, Live
    <2>2. \A u \in TCB : u # c => pid'[u] = pid[u] /\ pid[u] \in Nat
      BY <1>9, Zenon DEF IInv, TypeOK
    <2>3. \A u \in TCB : Live(u) /\ u # c => pid[u] # pid[c]
      BY <1>2, Zenon DEF IInv, PidsDistinct, Live
    <2>4. \A u \in TCB : Live(u)' => DeallocAsserts(PID_ALLOCATOR, pid[u])'
      BY <1>7, <1>9, <2>1, <2>2, <2>3, Zenon DEF IInv, PidsDistinct, DeallocAsserts
    <2> QED BY <2>1, <2>2, <2>4, Zenon DEF IInv, PidsDistinct
  <1>14. FamilyTree'
    <2>1. \A p \in TCB : children'[p] = IF p = t THEN rest ELSE children[p]
      BY <1>9, Zenon DEF IInv, TypeOK
    <2>2. \A u \in TCB : /\ parent'[u] = IF u = c THEN None ELSE parent[u]
                         /\ status'[u] = IF u = c THEN "Freed" ELSE status[u]
      BY <1>9, Zenon DEF IInv, TypeOK
    <2>3. \A p \in TCB : IsInjective(children'[p])
      BY <1>4, <2>1, Zenon DEF IInv, FamilyTree
    <2>4. ASSUME NEW u \in TCB, NEW p \in TCB
          PROVE  Contains(children'[p], u) <=>
                   (status'[u] # "Freed" /\ u # INITPROC /\ parent'[u] = p)
      <3>0. /\ Contains(children[p], u) <=> (status[u] # "Freed" /\ u # INITPROC /\ parent[u] = p)
            /\ \A x : Contains(rest, x) <=> Contains(children[t], x) /\ x # c
        BY <1>4, Zenon DEF IInv, FamilyTree, Live
      <3>1. CASE u = c
        <4>1. status'[u] = "Freed"
          BY <2>2, <3>1, Zenon
        <4>2. CASE p = t
          BY <2>1, <3>0, <3>1, <4>1, <4>2, Zenon
        <4>3. CASE p # t
          BY <1>3, <2>1, <3>0, <3>1, <4>1, <4>3, Zenon
        <4> QED BY <4>2, <4>3, Zenon
      <3>2. CASE u # c
        <4>1. status'[u] = status[u] /\ parent'[u] = parent[u]
          BY <2>2, <3>2, Zenon
        <4>2. CASE p = t
          BY <2>1, <3>0, <3>2, <4>1, <4>2, Zenon
        <4>3. CASE p # t
          BY <2>1, <3>0, <4>1, <4>3, Zenon
        <4> QED BY <4>2, <4>3, Zenon
      <3> QED BY <3>1, <3>2, Zenon
    <2>5. ASSUME NEW u \in TCB, status'[u] # "Freed", u # INITPROC
          PROVE  parent'[u] \in TCB /\ status'[parent'[u]] \in {"Ready", "Running"}
      <3>1. u # c /\ status[u] # "Freed" /\ parent'[u] = parent[u]
        BY <2>2, <2>5, Zenon
      <3>2. parent[u] \in TCB /\ status[parent[u]] \in {"Ready", "Running"}
        BY <1>2, <2>5, <3>1, Zenon DEF IInv, FamilyTree, Live
      <3>3. parent[u] # c
        BY <1>2, <3>2, Zenon
      <3> QED BY <2>2, <3>1, <3>2, <3>3, Zenon
    <2> QED BY <2>3, <2>4, <2>5, Zenon DEF FamilyTree, Live
  <1>15. WaiterHasChild'
    <2> SUFFICES ASSUME NEW u \in TCB, syscall'[u] = "waitpid"
                 PROVE  HasMatch(u, wait_pid[u])'
      BY Zenon DEF WaiterHasChild
    <2>1. u # t /\ syscall[u] = "waitpid" /\ wait_pid'[u] = wait_pid[u]
          /\ children'[u] = children[u]
      BY <1>9, Zenon DEF IInv, TypeOK
    <2>2. PICK k \in 1..Len(children[u]) : Matches(children[u][k], wait_pid[u])
      BY <2>1, Zenon DEF IInv, WaiterHasChild, HasMatch
    <2>3. children[u][k] \in TCB /\ Contains(children[u], children[u][k])
      BY SeqElement, Zenon DEF IInv, TypeOK, Contains
    <2>4. children[u][k] # c
      <3>1. Contains(children[u], c) => parent[c] = u
        BY <1>2, Zenon DEF IInv, FamilyTree
      <3> QED BY <1>3, <2>1, <2>3, <3>1, Zenon
    <2>5. pid'[children[u][k]] = pid[children[u][k]]
      BY <1>9, <2>3, <2>4, Zenon DEF IInv, TypeOK
    <2> QED BY <2>1, <2>2, <2>5, Zenon DEF HasMatch, Matches
  <1>16. CallersRunnable'
    <2>1. ASSUME NEW u \in TCB, syscall'[u] # "none"
          PROVE  status'[u] \in {"Ready", "Running"}
      BY <1>2, <1>3, <1>9, <2>1, Zenon DEF IInv, CallersRunnable, TypeOK
    <2>2. status'[INITPROC] \in {"Ready", "Running"}
      BY <1>3, <1>9, TCBAssumption, Zenon DEF IInv, CallersRunnable, TypeOK
    <2> QED BY <2>1, <2>2, Zenon DEF CallersRunnable
  <1> QED
    BY <1>10, <1>11, <1>12, <1>13, <1>14, <1>15, <1>16, Zenon DEF IInv

\* One call of waitpid, from user mode or from the loop of sys_waitpid.
LEMMA WaitpidIInv ==
  ASSUME IInv, halted = "no", NEW t \in TCB, current = t, NEW p \in WaitArgs \union {0},
         waitpid(t, p)
  PROVE  IInv'
PROOF
  <1>1. CASE WaitNoChild(t, p)
    <2>1. /\ syscall' \in [TCB -> Calls \union {"none", "waitpid"}]
          /\ wait_pid' \in [TCB -> WaitArgs \union {0}]
          /\ \A u \in TCB : \/ syscall'[u] = "none"
                            \/ syscall'[u] = syscall[u] /\ wait_pid'[u] = wait_pid[u]
      BY <1>1, Zenon DEF WaitNoChild, IInv, TypeOK
    <2>2. halted' \in Halts /\ halted' \notin Asserts /\ (halted' = "no" => halted = "no")
      BY <1>1, Zenon DEF WaitNoChild, IInv, TypeOK, NoAssertFails
    <2> QED BY <1>1, <2>1, <2>2, CallIInv, Zenon DEF WaitNoChild
  <1>2. CASE WaitFound(t, p)
    <2>1. PICK i \in 1..Len(children[t]) : Reapable(children[t][i], p) /\ Reap(t, i)
      BY <1>2, Zenon DEF WaitFound
    <2> QED BY <2>1, ReapIInv, Zenon DEF Reapable
  <1>3. CASE WaitAgain(t, p)
    <2>1. /\ syscall' \in [TCB -> Calls \union {"none", "waitpid"}]
          /\ wait_pid' \in [TCB -> WaitArgs \union {0}]
          /\ \A u \in TCB : u # t => syscall'[u] = syscall[u] /\ wait_pid'[u] = wait_pid[u]
          /\ wait_pid'[t] = p /\ HasMatch(t, p)
      BY <1>3, Zenon DEF WaitAgain, IInv, TypeOK
    <2> QED BY <1>3, <2>1, SuspendIInv, Zenon DEF WaitAgain
  <1> QED BY <1>1, <1>2, <1>3, Zenon DEF waitpid

\* Every step of the code that runs for a task keeps the invariant.
LEMMA TaskStepIInv ==
  ASSUME IInv, NEW t \in TCB, TaskStep(t)
  PROVE  IInv'
PROOF
  <1>1. CASE Yield(t)
    <2>1. /\ current = t /\ suspend_current(t)
          /\ UNCHANGED <<allocVars, treeVars, halted, syscall, wait_pid>>
          /\ syscall[t] = "none"
      BY <1>1, Zenon DEF Yield, InUser, callVars
    <2> QED BY <2>1, SuspendIInv, Zenon DEF IInv, TypeOK
  <1>2. ASSUME NEW call \in Calls, Block(t, call) PROVE IInv'
    <2>1. /\ current = t /\ suspend_current(t)
          /\ UNCHANGED <<allocVars, treeVars, halted, wait_pid>>
          /\ syscall' = [syscall EXCEPT ![t] = call]
      BY <1>2, Zenon DEF Block, InUser
    <2>2. call # "waitpid"
      BY CallsAssumption, Zenon
    <2> QED BY <2>1, <2>2, SuspendIInv, Zenon DEF IInv, TypeOK
  <1>3. CASE BlockAgain(t)
    <2>1. /\ current = t /\ suspend_current(t)
          /\ UNCHANGED <<allocVars, treeVars, halted, syscall, wait_pid>>
          /\ syscall[t] # "waitpid"
      BY <1>3, CallsAssumption, Zenon DEF BlockAgain, callVars
    <2> QED BY <2>1, SuspendIInv, Zenon DEF IInv, TypeOK
  <1>4. CASE BlockReturn(t)
    <2>1. /\ UNCHANGED <<status, allocVars, treeVars, wait_pid, ready_queue, current, halted>>
          /\ syscall' = [syscall EXCEPT ![t] = "none"]
      BY <1>4, Zenon DEF BlockReturn
    <2> QED BY <2>1, CallIInv, Zenon DEF IInv, TypeOK, NoAssertFails
  <1>5. CASE exit_current(t)
    BY <1>5, ExitIInv, Zenon
  <1>6. ASSUME NEW p \in WaitArgs, sys_waitpid(t, p) PROVE IInv'
    BY <1>6, WaitpidIInv, Zenon DEF sys_waitpid, InUser
  <1>7. CASE WaitResume(t)
    BY <1>7, WaitpidIInv, Zenon DEF WaitResume, IInv, TypeOK
  <1>8. CASE Halt(t)
    <2>1. /\ UNCHANGED <<status, allocVars, treeVars, syscall, wait_pid, ready_queue, current>>
          /\ halted' = "shutdown"
      BY <1>8, Zenon DEF Halt, callVars
    <2>2. "shutdown" \in Halts /\ "shutdown" \notin Asserts /\ "shutdown" # "no"
      BY Zenon DEF Halts, Asserts
    <2> QED BY <2>1, <2>2, CallIInv, Zenon DEF IInv, TypeOK
  <1> QED
    BY <1>1, <1>2, <1>3, <1>4, <1>5, <1>6, <1>7, <1>8, Zenon DEF TaskStep

\* IInv is inductive.
LEMMA NextIInv == IInv /\ [Next]_vars => IInv'
PROOF
  <1> SUFFICES ASSUME IInv, [Next]_vars PROVE IInv'
    BY Zenon
  <1>1. CASE run_tasks
    BY <1>1, RunTasksIInv, Zenon
  <1>2. ASSUME NEW t \in TCB, TaskStep(t) PROVE IInv'
    BY <1>2, TaskStepIInv, Zenon
  <1>3. ASSUME NEW t \in TCB, NEW c \in TCB, sys_fork(t, c) PROVE IInv'
    BY <1>3, ForkIInv, Zenon
  <1>4. CASE exit_initproc
    BY <1>4, ExitInitIInv, Zenon
  <1>5. CASE UNCHANGED vars
    <2>1. UNCHANGED <<status, allocVars, treeVars, syscall, wait_pid, ready_queue, current, halted>>
      BY <1>5, Zenon DEF vars, callVars
    <2> QED BY <2>1, CallIInv, Zenon DEF IInv, TypeOK, NoAssertFails
  <1> QED
    BY <1>1, <1>2, <1>3, <1>4, <1>5, Zenon DEF Next, Stopped

-----------------------------------------------------------------------------
(* Theorems.                                                               *)

\* IInv is an invariant of the process manager.
THEOREM Invariance == Spec => []IInv
  BY InitIInv, NextIInv, PTL DEF Spec

\* Type correctness.
THEOREM TypeCorrect == Spec => []TypeOK
PROOF
  <1>1. IInv => TypeOK
    BY Zenon DEF IInv
  <1> QED BY <1>1, Invariance, PTL

\* Suspend, exit, fork and fetch keep every runnable task in exactly one place.
THEOREM TasksHaveOnePlace == Spec => []OnePlace
PROOF
  <1>1. IInv => OnePlace
    BY Zenon DEF IInv
  <1> QED BY <1>1, Invariance, PTL

\* The assertions of waitpid and of the allocator and the unwrap of fetch never
\* fail, whatever the number of tasks.
THEOREM AssertionsHold == Spec => []NoAssertFails
PROOF
  <1>1. IInv => NoAssertFails
    BY Zenon DEF IInv
  <1> QED BY <1>1, Invariance, PTL

\* A task's kernel stack has the number of its PID, and no PID is shared.
THEOREM IdentifiersUnique == Spec => []IdsInStep
PROOF
  <1>1. IInv => IdsInStep
    BY Zenon DEF IInv, IdsInStep
  <1> QED BY <1>1, Invariance, PTL

\* The processes stay a tree through fork, re-parenting and reaping.
THEOREM ProcessesFormTree == Spec => []FamilyTree
PROOF
  <1>1. IInv => FamilyTree
    BY Zenon DEF IInv
  <1> QED BY <1>1, Invariance, PTL

\* A task that waits in sys_waitpid keeps a child to wait for.
THEOREM WaitersKeepChildren == Spec => []WaiterHasChild
PROOF
  <1>1. IInv => WaiterHasChild
    BY Zenon DEF IInv
  <1> QED BY <1>1, Invariance, PTL

\* No step but a Reap frees a TCB.
LEMMA FreedByReap ==
  ASSUME IInv, [Next]_vars, NEW u \in TCB, status[u] # "Freed", status'[u] = "Freed"
  PROVE  \E t \in TCB : /\ current = t
                        /\ \E i \in 1..Len(children[t]) :
                             status[children[t][i]] = "Zombie" /\ Reap(t, i)
PROOF
  <1>0. status \in [TCB -> Status] /\ ready_queue \in Seq(TCB)
    BY Zenon DEF IInv, TypeOK
  <1>1. ASSUME NEW t \in TCB, suspend_current(t) PROVE FALSE
    BY <1>0, <1>1, Zenon DEF suspend_current
  <1>2. CASE run_tasks
    BY <1>0, <1>2, SeqElement, Zenon DEF run_tasks, FetchPanic, Dispatch
  <1>3. ASSUME NEW t \in TCB, NEW p \in WaitArgs \union {0}, waitpid(t, p), current = t
        PROVE  \E i \in 1..Len(children[t]) :
                 status[children[t][i]] = "Zombie" /\ Reap(t, i)
    BY <1>1, <1>3, Zenon DEF waitpid, WaitNoChild, WaitFound, WaitAgain, Reapable
  <1>4. ASSUME NEW t \in TCB, TaskStep(t)
        PROVE  /\ current = t
               /\ \E i \in 1..Len(children[t]) :
                    status[children[t][i]] = "Zombie" /\ Reap(t, i)
    <2>1. CASE \E p \in WaitArgs : sys_waitpid(t, p)
      BY <1>3, <2>1, Zenon DEF sys_waitpid, InUser
    <2>2. CASE WaitResume(t)
      BY <1>3, <2>2, Zenon DEF WaitResume, IInv, TypeOK
    <2>3. CASE exit_current(t)
      BY <1>0, <2>3, Zenon DEF exit_current
    <2>4. CASE Yield(t) \/ BlockAgain(t) \/ \E call \in Calls : Block(t, call)
      BY <1>1, <2>4, Zenon DEF Yield, BlockAgain, Block
    <2>5. CASE BlockReturn(t) \/ Halt(t)
      BY <2>5, Zenon DEF BlockReturn, Halt
    <2> QED BY <1>4, <2>1, <2>2, <2>3, <2>4, <2>5, Zenon DEF TaskStep
  <1>5. ASSUME NEW t \in TCB, NEW c \in TCB, sys_fork(t, c) PROVE FALSE
    BY <1>0, <1>5, Zenon DEF sys_fork
  <1>6. CASE exit_initproc
    BY <1>0, <1>6, Zenon DEF exit_initproc
  <1>7. CASE UNCHANGED vars
    BY <1>7, Zenon DEF vars
  <1> QED BY <1>2, <1>4, <1>5, <1>6, <1>7, Zenon DEF Next, Stopped

\* Only waitpid of the parent frees a TCB, and only that of a zombie.
THEOREM ReapedByParent == Spec => OnlyParentReaps
PROOF
  <1>1. ASSUME IInv, [Next]_vars, NEW u \in TCB, Live(u), ~Live(u)'
        PROVE  status[u] = "Zombie" /\ current = parent[u]
    <2>1. PICK t \in TCB : /\ current = t
                           /\ \E i \in 1..Len(children[t]) :
                                status[children[t][i]] = "Zombie" /\ Reap(t, i)
      BY <1>1, FreedByReap, Zenon DEF Live
    <2>2. PICK i \in 1..Len(children[t]) :
                 status[children[t][i]] = "Zombie" /\ Reap(t, i)
      BY <2>1, Zenon
    <2>3. children[t][i] \in TCB /\ Contains(children[t], children[t][i])
      BY <1>1, SeqElement, Zenon DEF IInv, TypeOK, Contains
    <2>4. u = children[t][i]
      BY <1>1, <2>2, <2>3, Zenon DEF Reap, IInv, TypeOK, Live
    <2> QED BY <1>1, <2>1, <2>2, <2>3, <2>4, Zenon DEF IInv, FamilyTree
  <1>2. IInv /\ [Next]_vars =>
          [\A t \in TCB : Live(t) /\ ~Live(t)' =>
             status[t] = "Zombie" /\ current = parent[t]]_vars
    BY <1>1, Zenon
  <1> QED BY <1>2, Invariance, PTL DEF Spec, OnlyParentReaps

-----------------------------------------------------------------------------
(* StrideScheduler implements TaskManager.                                 *)

\* A step of the stride scheduler is a step of the process manager.
LEMMA StrideStep == [StrideNext]_svars => [Next]_vars
PROOF
  <1> SUFFICES ASSUME [StrideNext]_svars PROVE [Next]_vars
    BY Zenon
  <1>1. CASE run_tasks_stride
    BY <1>1, Zenon DEF run_tasks_stride, FetchStride, run_tasks, Next
  <1>2. ASSUME NEW t \in TCB, TaskStep(t) PROVE Next
    BY <1>2, Zenon DEF Next
  <1>3. ASSUME NEW t \in TCB, NEW c \in TCB, sys_fork_stride(t, c) PROVE Next
    BY <1>3, Zenon DEF sys_fork_stride, Next
  <1>4. ASSUME NEW t \in TCB, NEW p \in Prios, sys_set_priority(t, p)
        PROVE  UNCHANGED vars
    BY <1>4, Zenon DEF sys_set_priority
  <1>5. CASE exit_initproc \/ Stopped
    BY <1>5, Zenon DEF Next
  <1>6. CASE UNCHANGED svars
    BY <1>6, Zenon DEF svars
  <1> QED BY <1>1, <1>2, <1>3, <1>4, <1>5, <1>6, Zenon DEF StrideNext

\* The strides, the priorities and the choice of fetch add nothing to what
\* the process manager may do.
THEOREM StrideImplementsTaskManager == StrideSpec => Spec
PROOF
  <1>1. StrideInit => Init
    BY Zenon DEF StrideInit
  <1> QED BY <1>1, StrideStep, PTL DEF StrideSpec, Spec

-----------------------------------------------------------------------------
(* The gap between strides.                                                *)

\* The step of a task is a natural number, because priorities are above 1.
LEMMA StepNat ==
  ASSUME NEW p \in Int, p > 1
  PROVE  BIGSTRIDE \div p \in Nat
  BY StrideAssumption

\* What StrideGap needs to be inductive: the stride of the code is never
\* negative (a new task starts at 0 and strides only grow).
StrideInv ==
  /\ StrideTypeOK
  /\ StrideGap
  /\ \A t \in TCB : Runnable(t) => base + stride[t] >= 0

\* Only fork makes a task runnable.
LEMMA TaskStepRunnable ==
  ASSUME IInv, NEW t \in TCB, TaskStep(t) \/ (t = INITPROC /\ exit_initproc),
         NEW u \in TCB, Runnable(u)'
  PROVE  Runnable(u)
PROOF
  <1>0. status \in [TCB -> Status]
    BY Zenon DEF IInv, TypeOK
  <1>1. ASSUME current = t, suspend_current(t) PROVE Runnable(u)
    BY <1>0, <1>1, Zenon DEF suspend_current, Runnable, IInv, OnePlace
  <1>2. ASSUME NEW p, waitpid(t, p), current = t PROVE Runnable(u)
    <2>1. CASE WaitNoChild(t, p)
      BY <2>1, Zenon DEF WaitNoChild, Runnable
    <2>2. CASE WaitFound(t, p)
      BY <1>0, <2>2, Zenon DEF WaitFound, Reap, Runnable
    <2>3. CASE WaitAgain(t, p)
      BY <1>1, <1>2, <2>3, Zenon DEF WaitAgain
    <2> QED BY <1>2, <2>1, <2>2, <2>3, Zenon DEF waitpid
  <1>3. CASE \E p \in WaitArgs : sys_waitpid(t, p)
    BY <1>2, <1>3, Zenon DEF sys_waitpid, InUser
  <1>4. CASE WaitResume(t)
    BY <1>2, <1>4, Zenon DEF WaitResume
  <1>5. CASE exit_current(t) \/ exit_initproc
    BY <1>0, <1>5, Zenon DEF exit_current, exit_initproc, Runnable
  <1>6. CASE Yield(t) \/ BlockAgain(t) \/ \E call \in Calls : Block(t, call)
    BY <1>1, <1>6, Zenon DEF Yield, BlockAgain, Block, InUser
  <1>7. CASE BlockReturn(t) \/ Halt(t)
    BY <1>7, Zenon DEF BlockReturn, Halt, Runnable
  <1> QED BY <1>3, <1>4, <1>5, <1>6, <1>7, Zenon DEF TaskStep

\* The invariant survives a step that leaves strides alone and makes no task
\* runnable.
LEMMA StrideFrame ==
  ASSUME StrideInv, UNCHANGED <<stride, base, passed, last_step>>, StrideTypeOK',
         \A u \in TCB : Runnable(u)' => Runnable(u)
  PROVE  StrideInv'
  BY Zenon DEF StrideInv, StrideGap

\* fetch and update_stri.
LEMMA FetchStrideInv ==
  ASSUME IInv, StrideInv, current = None,
         NEW i \in 1..Len(ready_queue), FetchStride(i)
  PROVE  StrideInv'
PROOF
  <1> DEFINE f == ready_queue[i]
  <1>1. f \in TCB /\ status[f] = "Ready"
    BY SeqElement, Zenon DEF IInv, TypeOK, OnePlace, Contains
  <1>2. ASSUME NEW u \in TCB, status[u] = "Ready" PROVE stride[f] <= stride[u]
    <2>1. PICK j \in 1..Len(ready_queue) : ready_queue[j] = u
      BY <1>2, Zenon DEF IInv, OnePlace, Contains
    <2>2. stride[u] \in Int /\ stride[f] \in Int
      BY <1>1, Zenon DEF StrideInv, StrideTypeOK
    <2> QED BY <2>1, <2>2 DEF FetchStride, IsFetched
  <1>3. \A u \in TCB : Runnable(u) <=> status[u] = "Ready"
    BY TCBAssumption, Zenon DEF Runnable, IInv, OnePlace
  <1>4. \A u \in TCB : Runnable(u)' <=> status[u] = "Ready"
    <2>1. status' = [status EXCEPT ![f] = "Running"]
      BY Zenon DEF FetchStride, Dispatch
    <2> QED BY <1>1, <1>3, <2>1, Zenon DEF Runnable, IInv, TypeOK
  <1>5. Step(f) \in Nat
    BY <1>1, StepNat, Zenon DEF Step, StrideInv, StrideTypeOK
  <1>6. /\ stride'[f] = Step(f) /\ last_step'[f] = Step(f) /\ f \notin passed'[f]
        /\ \A u \in TCB : u # f /\ status[u] = "Ready" =>
             stride'[u] = stride[u] - stride[f] /\ passed'[u] \subseteq passed[u]
        /\ \A u \in TCB : u # f => last_step'[u] = last_step[u]
        /\ base' = IF base + stride[f] <= MaxBase THEN base + stride[f] ELSE MaxBase + 1
        /\ pri' = pri
    <2>1. stride'[f] = Step(f) /\ last_step'[f] = Step(f) /\ f \notin passed'[f]
      BY <1>1, Zenon DEF FetchStride, update_stri, StrideInv, StrideTypeOK
    <2>2. ASSUME NEW u \in TCB, u # f, status[u] = "Ready"
          PROVE  stride'[u] = stride[u] - stride[f] /\ passed'[u] \subseteq passed[u]
      BY <2>2, Zenon DEF FetchStride, update_stri
    <2>3. \A u \in TCB : u # f => last_step'[u] = last_step[u]
      BY Zenon DEF FetchStride, update_stri, StrideInv, StrideTypeOK
    <2> QED BY <2>1, <2>2, <2>3, Zenon DEF FetchStride, update_stri
  <1>7. /\ stride \in [TCB -> Int] /\ last_step \in [TCB -> Nat]
        /\ passed \in [TCB -> SUBSET TCB]
        /\ base \in Int /\ base >= 0 /\ MaxBase \in Nat
        /\ base + stride[f] >= 0
    BY <1>1, <1>3, StrideAssumption DEF StrideInv, StrideTypeOK
  <1>8. StrideTypeOK'
    <2>1. stride' \in [TCB -> Int] /\ last_step' \in [TCB -> Nat]
          /\ passed' \in [TCB -> SUBSET TCB]
      BY <1>1, <1>5, <1>7 DEF FetchStride, update_stri
    <2>2. base' \in 0..(MaxBase + 1)
      BY <1>1, <1>6, <1>7
    <2> QED BY <1>6, <2>1, <2>2, Zenon DEF StrideTypeOK, StrideInv
  <1> HIDE DEF f
  <1>9. StrideGap'
    <2> SUFFICES ASSUME NEW a \in TCB, NEW b \in TCB, status[a] = "Ready",
                        status[b] = "Ready", b \in passed'[a]
                 PROVE  stride'[a] - last_step'[a] <= stride'[b]
      BY <1>4, Zenon DEF StrideGap
    <2>1. CASE a = f
      <3>1. stride'[a] = Step(f) /\ last_step'[a] = Step(f)
        BY <1>6, <2>1, Zenon
      <3>2. b # f
        BY <1>6, <2>1, Zenon
      <3>3. stride'[b] = stride[b] - stride[f]
        BY <1>6, <3>2, Zenon
      <3>4. stride[f] <= stride[b] /\ stride[f] \in Int /\ stride[b] \in Int
        BY <1>1, <1>2, <1>7, Zenon
      <3> QED BY <1>5, <3>1, <3>3, <3>4
    <2>2. CASE a # f
      <3>1. b \in passed[a]
        BY <1>6, <2>2, Zenon
      <3>2. stride[a] - last_step[a] <= stride[b]
        BY <1>3, <3>1, Zenon DEF StrideInv, StrideGap
      <3>3. stride'[a] = stride[a] - stride[f] /\ last_step'[a] = last_step[a]
        BY <1>6, <2>2, Zenon
      <3>4. stride'[b] = stride[b] - stride[f] \/ (b = f /\ stride'[b] = Step(f))
        BY <1>6, Zenon
      <3>5. /\ stride[a] \in Int /\ stride[b] \in Int /\ stride[f] \in Int
            /\ last_step[a] \in Nat
        BY <1>1, <1>7, Zenon
      <3> QED BY <1>5, <3>2, <3>3, <3>4, <3>5
    <2> QED BY <2>1, <2>2, Zenon
  <1>10. ASSUME NEW u \in TCB, Runnable(u)' PROVE base' + stride'[u] >= 0
    <2>1. status[u] = "Ready"
      BY <1>4, <1>10, Zenon
    <2>2. base + stride[u] >= 0 /\ stride[f] <= stride[u]
      BY <1>2, <1>3, <2>1, Zenon DEF StrideInv
    <2>3. stride'[u] = stride[u] - stride[f] \/ stride'[u] = Step(f)
      BY <1>6, <2>1, Zenon
    <2>4. stride[u] \in Int /\ stride[f] \in Int
      BY <1>1, <1>7, Zenon
    <2>5. base' = base + stride[f] \/ base' = MaxBase + 1
      BY <1>6, Zenon
    <2>6. base' >= 0 /\ base' \in Int
      BY <1>5, <1>7, <2>4, <2>5
    <2>7. stride[u] - stride[f] >= 0
      BY <2>2, <2>4
    <2> QED BY <1>5, <2>3, <2>4, <2>6, <2>7
  <1> QED BY <1>8, <1>9, <1>10, Zenon DEF StrideInv

\* fork and spawn start the child at the stride 0 of the code.
LEMMA ForkStrideInv ==
  ASSUME IInv, StrideInv, NEW t \in TCB, NEW c \in TCB, sys_fork_stride(t, c)
  PROVE  StrideInv'
PROOF
  <1>1. StrideTypeOK'
    BY StrideAssumption DEF sys_fork_stride, StrideInv, StrideTypeOK
  <1>2. \A u \in TCB : u # c => /\ Runnable(u)' <=> Runnable(u)
                                /\ stride'[u] = stride[u]
                                /\ last_step'[u] = last_step[u]
                                /\ passed'[u] = passed[u] \ {c}
    BY Zenon DEF sys_fork_stride, sys_fork, Runnable, StrideInv, StrideTypeOK, IInv, TypeOK
  <1>3. /\ stride'[c] = 0 - base /\ passed'[c] = {} /\ base' = base
        /\ base \in Int
    BY DEF sys_fork_stride, StrideInv, StrideTypeOK
  <1>4. StrideGap'
    BY <1>2, <1>3, Zenon DEF StrideInv, StrideGap
  <1>5. ASSUME NEW u \in TCB, Runnable(u)' PROVE base' + stride'[u] >= 0
    BY <1>2, <1>3, <1>5 DEF StrideInv
  <1> QED BY <1>1, <1>4, <1>5, Zenon DEF StrideInv

\* StrideInv is inductive relative to the invariant of the process manager.
LEMMA NextStrideInv == IInv /\ StrideInv /\ [StrideNext]_svars => StrideInv'
PROOF
  <1> SUFFICES ASSUME IInv, StrideInv, [StrideNext]_svars PROVE StrideInv'
    BY Zenon
  <1>0. ASSUME UNCHANGED strideVars, \A u \in TCB : Runnable(u)' => Runnable(u)
        PROVE  StrideInv'
    <2>1. StrideTypeOK'
      BY <1>0, Zenon DEF strideVars, StrideInv, StrideTypeOK
    <2> QED BY <1>0, <2>1, StrideFrame, Zenon DEF strideVars
  <1>1. CASE run_tasks_stride
    <2>1. CASE ready_queue = <<>>
      BY <1>0, <1>1, <2>1, Zenon DEF run_tasks_stride, FetchPanic, Runnable
    <2>2. CASE ready_queue # <<>>
      BY <1>1, <2>2, FetchStrideInv, Zenon DEF run_tasks_stride
    <2> QED BY <2>1, <2>2, Zenon
  <1>2. ASSUME NEW t \in TCB, TaskStep(t), UNCHANGED strideVars PROVE StrideInv'
    BY <1>0, <1>2, TaskStepRunnable, Zenon
  <1>3. ASSUME NEW t \in TCB, NEW c \in TCB, sys_fork_stride(t, c) PROVE StrideInv'
    BY <1>3, ForkStrideInv, Zenon
  <1>4. ASSUME NEW t \in TCB, NEW p \in Prios, sys_set_priority(t, p) PROVE StrideInv'
    <2>1. StrideTypeOK'
      BY <1>4, StrideAssumption, Zenon DEF sys_set_priority, StrideInv, StrideTypeOK
    <2>2. \A u \in TCB : Runnable(u)' => Runnable(u)
      BY <1>4, Zenon DEF sys_set_priority, vars, Runnable
    <2> QED BY <1>4, <2>1, <2>2, StrideFrame, Zenon DEF sys_set_priority
  <1>5. CASE exit_initproc /\ UNCHANGED strideVars
    BY <1>0, <1>5, TaskStepRunnable, TCBAssumption, Zenon
  <1>6. CASE UNCHANGED svars \/ (Stopped /\ UNCHANGED strideVars)
    BY <1>0, <1>6, Zenon DEF svars, Stopped, vars, Runnable
  <1> QED BY <1>1, <1>2, <1>3, <1>4, <1>5, <1>6, Zenon DEF StrideNext

\* The strides are well typed and no task gets ahead of a task that has been
\* runnable since its last dispatch by more than the step of that dispatch, for
\* any number of tasks and any priorities.
THEOREM StridesStayClose == StrideSpec => []StrideSound
PROOF
  <1>1. StrideInit => StrideInv
    BY StrideAssumption
       DEF StrideInit, StrideInv, StrideTypeOK, StrideGap
  <1>2. StrideInv => StrideSound
    BY Zenon DEF StrideInv, StrideSound
  <1>3. StrideSpec => []IInv
    BY StrideImplementsTaskManager, Invariance, PTL
  <1> QED BY <1>1, <1>2, <1>3, NextStrideInv, PTL DEF StrideSpec

=============================================================================
