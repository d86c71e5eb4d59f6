--------------------------- MODULE SchedulerProofs ---------------------------
(***************************************************************************)
(* Proofs, for any set of task cells and any bounds, that the scheduler's  *)
(* ring stays well linked and in creation order, that neither the          *)
(* processor nor the scheduler nor ps touches freed memory, and that a     *)
(* zombie is never resumed.                                                *)
(***************************************************************************)
EXTENDS Scheduler, TLAPS

\* The inductive invariant.  RingWellLinked alone is not preserved by Unlink: a
\* two-element cycle detached from the head would satisfy it.  RingInPidOrder
\* excludes such cycles, because pids strictly increase along the links.
IInv ==
  /\ TypeOK
  /\ RingWellLinked
  /\ RingInPidOrder
  /\ PidsUnique
  /\ RunsOnLiveMemory
  /\ FramesMatchTasks
  /\ NoHalfTask
  /\ OneRunning
  /\ PsReadsTaskMemory

USE KernelAssumption, NullAssumption, BoundAssumption

\* scheduler_init establishes the invariant: the kernel task is alone on the ring.
LEMMA InitIInv == Init => IInv
  <1> SUFFICES ASSUME Init PROVE IInv
    OBVIOUS
  <1> USE DEF Init, Cell, Live, LiveStack, State
  <1>1. TypeOK
    BY DEF TypeOK
  <1>2. RingWellLinked /\ RingInPidOrder /\ PidsUnique
    BY DEF RingWellLinked, RingInPidOrder, PidsUnique
  <1>3. RunsOnLiveMemory /\ FramesMatchTasks /\ NoHalfTask /\ OneRunning /\ PsReadsTaskMemory
    BY DEF RunsOnLiveMemory, FramesMatchTasks, NoHalfTask, OneRunning, PsReadsTaskMemory
  <1> QED
    BY <1>1, <1>2, <1>3 DEF IInv

\* task_create links the new task between the youngest task and the head.
LEMMA TaskCreateIInv ==
  ASSUME IInv, NEW t \in Task, task_create(t)
  PROVE  IInv'
  <1> DEFINE last == prev[Kernel]
  <1>1. TypeOK'
    BY DEF IInv, TypeOK, State, RingWellLinked, task_create, AssignPid, InsertAtTail, Live, Cell, psVars, histVars
  <1>2. /\ Kernel \in Live /\ t \notin Live /\ Live' = Live \cup {t}
        /\ last \in Live /\ next[last] = Kernel
    BY DEF IInv, RingWellLinked, task_create, Live
  <1>3. /\ next'[t] = Kernel /\ next'[last] = t
        /\ prev'[t] = last /\ prev'[Kernel] = t
        /\ \A u \in Live : u # last => next'[u] = next[u]
        /\ \A u \in Live : u # Kernel => prev'[u] = prev[u]
    BY <1>2 DEF IInv, TypeOK, task_create, AssignPid, InsertAtTail, Live, Cell
  <1>4. RingWellLinked'
    <2>1. \A u \in Live : /\ next[u] \in Live /\ prev[next[u]] = u
                          /\ prev[u] \in Live /\ next[prev[u]] = u
      BY DEF IInv, RingWellLinked
    <2> HIDE DEF last
    <2>2. ASSUME NEW u \in Live PROVE next'[u] \in Live' /\ prev'[next'[u]] = u
      BY <2>1, <1>2, <1>3
    <2>3. ASSUME NEW u \in Live PROVE prev'[u] \in Live' /\ next'[prev'[u]] = u
      BY <2>1, <1>2, <1>3 DEF last
    <2> QED
      BY <2>2, <2>3, <1>2, <1>3 DEF RingWellLinked
  <1>5. /\ id'[t] = next_pid
        /\ \A u \in Live : id'[u] = id[u] /\ id[u] \in Nat /\ id[u] < next_pid
        /\ next_pid \in Nat \ {0} /\ next_pid' = next_pid + 1
    BY DEF IInv, TypeOK, PidsUnique, task_create, AssignPid, Live, Cell
  <1>6. PidsUnique'
    BY <1>2, <1>5 DEF IInv, PidsUnique, task_create, AssignPid, Live
  <1>7. RingInPidOrder'
    <2>1. /\ \A u \in Live : next[u] \in Live
          /\ \A u, v \in Live : next[u] = next[v] => u = v
          /\ \A u, v \in Live : /\ next[u] # Kernel => id[u] < id[next[u]]
                                /\ id[u] < id[v] => next[u] # Kernel /\ id[next[u]] <= id[v]
      BY DEF IInv, RingWellLinked, RingInPidOrder
    <2> HIDE DEF last
    <2>2. id[Kernel] = 0
      BY DEF IInv, PidsUnique
    <2>3. ASSUME NEW u \in Live, NEW v \in Live
          PROVE  /\ next'[u] # Kernel /\ id'[u] < id'[next'[u]]
                 /\ id'[u] < id'[v] => id'[next'[u]] <= id'[v]
      BY <2>1, <2>2, <1>2, <1>3, <1>5
    <2>4. ASSUME NEW u \in Live PROVE id'[next'[u]] <= id'[t]
      BY <2>1, <1>2, <1>3, <1>5
    <2> QED
      BY <2>3, <2>4, <1>2, <1>3, <1>5 DEF RingInPidOrder
  <1>8. RunsOnLiveMemory' /\ FramesMatchTasks' /\ NoHalfTask'
    BY DEF IInv, RunsOnLiveMemory, FramesMatchTasks, NoHalfTask, task_create, ShellIdle, Live, LiveStack, psVars
  <1>9. OneRunning' /\ PsReadsTaskMemory'
    BY DEF IInv, TypeOK, OneRunning, PsReadsTaskMemory, task_create, ShellIdle, Live, Cell, psVars, histVars
  <1> QED
    BY <1>1, <1>4, <1>6, <1>7, <1>8, <1>9 DEF IInv

\* The failure path of task_create touches only a cell that is not linked.
LEMMA TaskCreateNoStackIInv ==
  ASSUME IInv, NEW t \in Task, task_create_no_stack(t)
  PROVE  IInv'
  <1> USE DEF task_create_no_stack, ShellIdle, Live, LiveStack, Cell, heapVars, psVars, histVars
  <1>1. TypeOK'
    BY DEF IInv, TypeOK, State
  <1>2. \A u \in Live : /\ next'[u] = next[u] /\ prev'[u] = prev[u]
                        /\ id'[u] = id[u] /\ state'[u] = state[u]
    BY DEF IInv, TypeOK
  <1>3. RingWellLinked' /\ RingInPidOrder' /\ PidsUnique'
    BY <1>2 DEF IInv, RingWellLinked, RingInPidOrder, PidsUnique
  <1>4. RunsOnLiveMemory' /\ FramesMatchTasks' /\ NoHalfTask' /\ OneRunning' /\ PsReadsTaskMemory'
    BY <1>2 DEF IInv, RunsOnLiveMemory, FramesMatchTasks, NoHalfTask, OneRunning, PsReadsTaskMemory
  <1> QED
    BY <1>1, <1>3, <1>4 DEF IInv

\* task_kill marks a linked task other than the kernel task, which is running.
LEMMA TaskKillIInv ==
  ASSUME IInv, NEW p \in 0..MaxPid, task_kill(p)
  PROVE  IInv'
  <1> USE DEF task_kill, ShellIdle, Live, LiveStack, Cell, heapVars, psVars, histVars
  <1>1. PICK t \in Live : id[t] = p /\ state' = [state EXCEPT ![t] = "ZOMBIE"]
    BY Zenon
  <1>2. t # Kernel
    BY <1>1 DEF IInv, PidsUnique
  <1>3. TypeOK'
    BY <1>1 DEF IInv, TypeOK, State
  <1>4. RingWellLinked' /\ RingInPidOrder' /\ PidsUnique'
    BY DEF IInv, RingWellLinked, RingInPidOrder, PidsUnique
  <1>5. OneRunning'
    BY <1>1, <1>2 DEF IInv, TypeOK, OneRunning
  <1>6. RunsOnLiveMemory' /\ FramesMatchTasks' /\ NoHalfTask' /\ PsReadsTaskMemory'
    BY DEF IInv, RunsOnLiveMemory, FramesMatchTasks, NoHalfTask, PsReadsTaskMemory
  <1> QED
    BY <1>3, <1>4, <1>5, <1>6 DEF IInv

\* A step that leaves the list and the heap alone keeps the ring facts.
LEMMA SameListIInv ==
  ASSUME IInv, UNCHANGED <<next, prev, id, structs, stacks, next_pid>>
  PROVE  RingWellLinked' /\ RingInPidOrder' /\ PidsUnique' /\ NoHalfTask'
  BY DEF IInv, RingWellLinked, RingInPidOrder, PidsUnique, NoHalfTask, Live

\* Entering scheduler_schedule() by a tick or a yield saves the running context.
LEMMA EnterIInv ==
  ASSUME IInv, scheduler_tick \/ scheduler_yield
  PROVE  IInv'
  <1> USE DEF scheduler_tick, scheduler_yield, EnterSchedule, Live, LiveStack, Cell,
              listVars, heapVars, psVars, histVars
  <1>1. TypeOK'
    BY DEF IInv, TypeOK, RingWellLinked
  <1>2. RunsOnLiveMemory' /\ FramesMatchTasks'
    BY DEF IInv, RunsOnLiveMemory, FramesMatchTasks, RingWellLinked
  <1>3. OneRunning' /\ PsReadsTaskMemory'
    BY DEF IInv, OneRunning, PsReadsTaskMemory
  <1> QED
    BY <1>1, <1>2, <1>3, SameListIInv DEF IInv

\* The store of ZOMBIE in task_exit concerns the running task only.
LEMMA TaskExitIInv ==
  ASSUME IInv, task_exit
  PROVE  IInv'
  <1> USE DEF task_exit, Live, LiveStack, Cell, heapVars, psVars, histVars
  <1>1. TypeOK'
    BY DEF IInv, TypeOK, State
  <1>2. RunsOnLiveMemory' /\ FramesMatchTasks'
    BY DEF IInv, RunsOnLiveMemory, FramesMatchTasks
  <1>3. OneRunning' /\ PsReadsTaskMemory'
    BY DEF IInv, TypeOK, PidsUnique, OneRunning, PsReadsTaskMemory
  <1> QED
    BY <1>1, <1>2, <1>3, SameListIInv DEF IInv

\* SYS_EXIT marks the running task and enters scheduler_schedule() at once.
LEMMA SysExitIInv ==
  ASSUME IInv, sys_exit
  PROVE  IInv'
  <1> USE DEF sys_exit, EnterSchedule, Live, LiveStack, Cell, heapVars, psVars, histVars
  <1>1. TypeOK'
    BY DEF IInv, TypeOK, State, RingWellLinked
  <1>2. RunsOnLiveMemory' /\ FramesMatchTasks'
    BY DEF IInv, RunsOnLiveMemory, FramesMatchTasks, RingWellLinked
  <1>3. OneRunning' /\ PsReadsTaskMemory'
    BY DEF IInv, TypeOK, PidsUnique, OneRunning, PsReadsTaskMemory
  <1> QED
    BY <1>1, <1>2, <1>3, SameListIInv DEF IInv

\* Reaping one zombie: its neighbours are linked to each other and the cursor
\* moves on to a task that is still linked.
LEMMA ReapFreeIInv ==
  ASSUME IInv, reap_free
  PROVE  IInv'
  <1> DEFINE p == prev[cursor]
  <1> DEFINE n == next[cursor]
  <1>1. TypeOK'
    BY DEF IInv, TypeOK, RingWellLinked, RunsOnLiveMemory, reap_free, FreeTask, Unlink, Live, Cell, psVars
  <1>2. /\ cursor \in Live /\ cursor # Kernel /\ cursor # current_task
        /\ Live' = Live \ {cursor} /\ Kernel \in Live
        /\ next' = [next EXCEPT ![p] = n] /\ prev' = [prev EXCEPT ![n] = p]
        /\ id' = id /\ state' = state /\ cursor' = n
    BY DEF IInv, RunsOnLiveMemory, reap_free, FreeTask, Reapable, Unlink, Live
  <1>3. /\ \A u \in Live : /\ next[u] \in Live /\ prev[next[u]] = u
                           /\ prev[u] \in Live /\ next[prev[u]] = u
        /\ \A u, v \in Live : /\ next[u] # Kernel => id[u] < id[next[u]]
                              /\ id[u] < id[v] => next[u] # Kernel /\ id[next[u]] <= id[v]
        /\ \A u \in Live : id[u] \in Nat
    BY DEF IInv, RingWellLinked, RingInPidOrder, TypeOK, Live, Cell
  <1>4. p \in Live /\ n \in Live /\ p # cursor /\ n # cursor /\ next[p] = cursor
    BY <1>2, <1>3
  <1>5. /\ next'[p] = n /\ prev'[n] = p
        /\ \A u \in Live : u # p => next'[u] = next[u]
        /\ \A u \in Live : u # n => prev'[u] = prev[u]
    BY <1>2, <1>4 DEF IInv, TypeOK, Live, Cell
  <1> HIDE DEF p, n
  <1>6. RingWellLinked'
    <2>1. ASSUME NEW u \in Live' PROVE next'[u] \in Live' /\ prev'[next'[u]] = u
      BY <1>2, <1>3, <1>4, <1>5 DEF n, p
    <2>2. ASSUME NEW u \in Live' PROVE prev'[u] \in Live' /\ next'[prev'[u]] = u
      BY <1>2, <1>3, <1>4, <1>5 DEF n, p
    <2> QED
      BY <2>1, <2>2 DEF RingWellLinked
  <1>7. RingInPidOrder'
    <2>1. id[Kernel] = 0 /\ \A u, v \in Live : id[u] = id[v] => u = v
      BY DEF IInv, PidsUnique
    <2>2. ASSUME NEW u \in Live' PROVE next'[u] # Kernel => id'[u] < id'[next'[u]]
      BY <1>2, <1>3, <1>4, <1>5, <2>1 DEF n
    <2>3. ASSUME NEW u \in Live', NEW v \in Live', id'[u] < id'[v]
          PROVE  next'[u] # Kernel /\ id'[next'[u]] <= id'[v]
      <3>1. id[u] < id[v] /\ u \in Live /\ v \in Live /\ v # cursor
        BY <2>3, <1>2
      <3>2. CASE u # p
        BY <3>1, <3>2, <1>2, <1>3, <1>5
      <3>3. CASE u = p
        <4> cursor \in Live
          BY <1>2
        <4>1. id[cursor] <= id[v]
          BY <3>1, <3>3, <1>3, <1>4
        <4>2. id[cursor] < id[v]
          <5>1. id[cursor] # id[v]
            BY <3>1, <2>1
          <5>2. id[cursor] \in Nat /\ id[v] \in Nat
            BY <3>1, <1>3
          <5> QED
            BY <5>1, <5>2, <4>1
        <4>3. n # Kernel /\ id[n] <= id[v]
          BY <4>2, <3>1, <1>3 DEF n
        <4> QED
          BY <4>3, <3>3, <1>2, <1>5
      <3> QED
        BY <3>2, <3>3
    <2> QED
      BY <2>2, <2>3 DEF RingInPidOrder
  <1>8. PidsUnique' /\ NoHalfTask'
    BY <1>2 DEF IInv, PidsUnique, NoHalfTask, reap_free, FreeTask, Live
  <1>9. RunsOnLiveMemory' /\ FramesMatchTasks'
    BY <1>2, <1>4 DEF IInv, RunsOnLiveMemory, FramesMatchTasks, reap_free, FreeTask, Live, LiveStack
  <1>10. OneRunning'
    BY <1>2 DEF IInv, OneRunning, reap_free
  <1>11. PsReadsTaskMemory'
    BY <1>2, <1>4, <1>5 DEF IInv, TypeOK, PsReadsTaskMemory, reap_free, psVars
  <1> QED
    BY <1>1, <1>6, <1>7, <1>8, <1>9, <1>10, <1>11 DEF IInv

\* Moving a loop variable of scheduler_schedule() along the ring.
LEMMA CursorIInv ==
  ASSUME IInv, reap_skip \/ reap_done
  PROVE  IInv'
  <1> USE DEF reap_skip, reap_done, Live, LiveStack, Cell,
              listVars, heapVars, psVars, histVars
  <1>1. TypeOK'
    BY DEF IInv, TypeOK, RingWellLinked, RunsOnLiveMemory
  <1>2. RunsOnLiveMemory' /\ FramesMatchTasks'
    BY DEF IInv, RunsOnLiveMemory, FramesMatchTasks, RingWellLinked
  <1>3. OneRunning' /\ PsReadsTaskMemory'
    BY DEF IInv, OneRunning, PsReadsTaskMemory
  <1> QED
    BY <1>1, <1>2, <1>3, SameListIInv DEF IInv

\* What the selection loop settles on is linked, and READY if it is a new task.
LEMMA ChosenRunnable ==
  ASSUME IInv, pc = "select", cursor = current_task \/ Runnable(cursor)
  PROVE  /\ Chosen \in Live
         /\ Chosen # current_task => state[Chosen] = "READY"
         /\ Chosen = current_task => state[Chosen] = "RUNNING"
  BY DEF IInv, Chosen, Runnable, RunsOnLiveMemory, OneRunning, TypeOK, State, Live, Cell

\* The selection loop and the context switch.
LEMMA SelectIInv ==
  ASSUME IInv, select
  PROVE  IInv'
  <1> USE DEF select, Live, LiveStack, Cell, heapVars, psVars, histVars
  <1>1. CASE cursor # current_task /\ ~Runnable(cursor)
    <2>1. TypeOK'
      BY <1>1 DEF IInv, TypeOK, RingWellLinked, RunsOnLiveMemory
    <2>2. RunsOnLiveMemory' /\ FramesMatchTasks' /\ OneRunning' /\ PsReadsTaskMemory'
      BY <1>1 DEF IInv, RunsOnLiveMemory, FramesMatchTasks, OneRunning, PsReadsTaskMemory, RingWellLinked
    <2> QED
      BY <2>1, <2>2, SameListIInv DEF IInv
  <1>2. CASE cursor = current_task \/ Runnable(cursor)
    <2>1. /\ Chosen \in Live /\ Chosen \in Cell /\ Chosen \in LiveStack
          /\ Chosen = current_task => state[Chosen] = "RUNNING"
      BY <1>2, ChosenRunnable DEF IInv, TypeOK, NoHalfTask
    <2>2. TypeOK'
      BY <1>2, <2>1 DEF IInv, TypeOK, State, Switched
    <2>3. RunsOnLiveMemory' /\ FramesMatchTasks'
      BY <1>2, <2>1 DEF IInv, RunsOnLiveMemory, FramesMatchTasks
    <2>4. OneRunning' /\ PsReadsTaskMemory'
      BY <1>2, <2>1 DEF IInv, TypeOK, OneRunning, PsReadsTaskMemory, Switched
    <2> QED
      BY <2>2, <2>3, <2>4, SameListIInv DEF IInv
  <1> QED
    BY <1>1, <1>2

\* The shell's ps only moves its own variables.
LEMMA PsIInv ==
  ASSUME IInv, ps_start \/ PsStep
  PROVE  IInv'
  <1> USE DEF ps_start, PsStep, ps_count_step, ps_print_step, ps_done, ShellIdle, Live, LiveStack, Cell,
              listVars, heapVars, psVars, histVars
  <1>1. TypeOK'
    BY DEF IInv, TypeOK, RingWellLinked, PsReadsTaskMemory
  <1>2. RunsOnLiveMemory' /\ FramesMatchTasks' /\ OneRunning'
    BY DEF IInv, RunsOnLiveMemory, FramesMatchTasks, OneRunning
  <1>3. PsReadsTaskMemory'
    BY DEF IInv, PsReadsTaskMemory, RingWellLinked
  <1> QED
    BY <1>1, <1>2, <1>3, SameListIInv DEF IInv

\* Every step of the scheduler preserves the invariant.
LEMMA NextIInv ==
  ASSUME IInv, [Next]_vars
  PROVE  IInv'
  <1>1. ASSUME NEW t \in Task, task_create(t) \/ task_create_no_stack(t) PROVE IInv'
    BY <1>1, TaskCreateIInv, TaskCreateNoStackIInv
  <1>2. ASSUME NEW p \in 0..MaxPid, task_kill(p) PROVE IInv'
    BY <1>2, TaskKillIInv
  <1>3. CASE task_exit \/ sys_exit \/ scheduler_tick \/ scheduler_yield
    BY <1>3, TaskExitIInv, SysExitIInv, EnterIInv
  <1>4. CASE HandlerStep
    BY <1>4, ReapFreeIInv, CursorIInv, SelectIInv DEF HandlerStep
  <1>5. CASE ps_start \/ PsStep
    BY <1>5, PsIInv
  <1>6. CASE UNCHANGED vars
    BY <1>6 DEF vars, listVars, heapVars, psVars, histVars, IInv, TypeOK, RingWellLinked, RingInPidOrder,
       PidsUnique, RunsOnLiveMemory, FramesMatchTasks, NoHalfTask, OneRunning, PsReadsTaskMemory,
       Live, LiveStack
  <1> QED
    BY <1>1, <1>2, <1>3, <1>4, <1>5, <1>6 DEF Next

\* The invariant holds in every reachable state.
THEOREM Invariance == Spec => []IInv
  BY InitIInv, NextIInv, PTL DEF Spec

\* The ring of kernel/scheduler.c is always well typed, well linked, complete and
\* in pid order.
THEOREM RingCorrect == Spec => []RingOrdered
  <1>1. IInv => RingOrdered
    BY DEF IInv, RingOrdered
  <1> QED
    BY <1>1, Invariance, PTL

\* The processor runs on an allocated stack, scheduler_schedule() dereferences
\* allocated structures only, ps reads task memory only, and every task that is
\* not executing has a saved frame.
THEOREM MemoryCorrect == Spec => []MemorySafe
  <1>1. IInv => MemorySafe
    BY DEF IInv, MemorySafe
  <1> QED
    BY <1>1, Invariance, PTL

\* Only the current task is RUNNING and the kernel task is never a zombie.
THEOREM ContextsCorrect == Spec => []OneRunning
  <1>1. IInv => OneRunning
    BY DEF IInv
  <1> QED
    BY <1>1, Invariance, PTL

\* No context switch resumes a task that exited or was killed.
THEOREM NoZombieResumed == Spec => ZombieNeverResumed
  <1> DEFINE A == \A t \in structs : state[t] = "ZOMBIE" =>
                    /\ t \in structs' => state'[t] = "ZOMBIE"
                    /\ current_task' = t => current_task = t
  <1>1. ASSUME IInv, [Next]_vars PROVE [A]_vars
    <2>1. CASE select
      BY <2>1, <1>1, ChosenRunnable DEF IInv, TypeOK, select, Switched, Cell
    <2>2. ASSUME NEW t \in Task, task_create(t) \/ task_create_no_stack(t) PROVE A
      BY <2>2, <1>1 DEF IInv, TypeOK, task_create, task_create_no_stack, Cell
    <2>3. CASE task_exit \/ sys_exit \/ \E p \in 0..MaxPid : task_kill(p)
      BY <2>3, <1>1 DEF IInv, TypeOK, task_exit, sys_exit, task_kill, Live, Cell
    <2>4. CASE UNCHANGED <<state, current_task>>
      BY <2>4
    <2> QED
      BY Zenon, <1>1, <2>1, <2>2, <2>3, <2>4 DEF Next, HandlerStep, PsStep, scheduler_tick, scheduler_yield,
         reap_free, reap_skip, reap_done, ps_start, ps_count_step, ps_print_step, ps_done,
         listVars, vars
  <1> QED
    BY <1>1, Invariance, PTL DEF Spec, ZombieNeverResumed
=============================================================================
