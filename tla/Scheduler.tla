------------------------------ MODULE Scheduler ------------------------------
(***************************************************************************)
(* The preemptive round-robin scheduler of kernel/scheduler.c: a circular, *)
(* doubly linked list of task structures headed by the static kernel task, *)
(* the interrupt-context pass scheduler_schedule() that reaps zombies and  *)
(* picks the next task, the thread-context operations task_create,         *)
(* task_kill, task_exit and scheduler_yield, the two scheduling system     *)
(* calls of kernel/isr.c, and the shell's unlocked walk of the list (ps).  *)
(*                                                                         *)
(* Task structures are memory cells: the heap hands out an element of Task *)
(* and a freed cell keeps its last contents until it is handed out again,  *)
(* which is what a stale pointer reads.  Interrupt context is broken into  *)
(* one step per loop iteration; thread code runs only when pc = "thread"   *)
(* (interrupts enabled), and irq_save() sections are single steps.         *)
(***************************************************************************)
EXTENDS Integers, FiniteSets

CONSTANTS
  Task,        \* cells the heap can hand out for a task_t (with its stack)
  Kernel,      \* the static kernel_task
  NULL,        \* the null pointer
  MAX_TASKS,   \* limit enforced by task_create
  MaxPid       \* bound of the model: task_create is called at most this often

ASSUME KernelAssumption == Kernel \notin Task
ASSUME NullAssumption == NULL \notin Task \cup {Kernel}
ASSUME BoundAssumption == MAX_TASKS \in Nat \ {0} /\ MaxPid \in Nat
ASSUME TaskAssumption == IsFiniteSet(Task)

VARIABLES
  state,         \* task_t.state
  next,          \* task_t.next
  prev,          \* task_t.prev
  id,            \* task_t.id
  structs,       \* cells of Task currently allocated as a task_t
  stacks,        \* tasks whose stack_base is currently allocated
  framed,        \* tasks whose regs_ptr is a frame that was saved, not resumed
  current_task,
  next_pid,
  pc,            \* "thread", or the loop scheduler_schedule() is in
  cursor,        \* its local curr / next_task
  ps_pc,         \* the shell's ps: "idle", "count" or "print"
  ps_curr,       \* its local curr
  ps_count,      \* c while counting, nodes left to print afterwards
  ps_seen,       \* tasks printed so far
  ps_snap,       \* history: tasks linked when ps began
  ps_alive       \* history: those of them not reaped since

listVars == <<state, next, prev, id>>
heapVars == <<structs, stacks>>
psVars == <<ps_pc, ps_curr, ps_count, ps_seen>>
histVars == <<ps_snap, ps_alive>>
vars == <<listVars, heapVars, framed, current_task, next_pid, pc, cursor, psVars, histVars>>

Cell == Task \cup {Kernel}
\* kernel_task is static, so its structure and the boot stack are never freed.
Live == structs \cup {Kernel}
LiveStack == stacks \cup {Kernel}
State == {"READY", "RUNNING", "ZOMBIE"}
Runnable(t) == state[t] \in {"READY", "RUNNING"}

(***************************************************************************)
(* scheduler_init, with the memory of the heap cells arbitrary (zero).     *)
(***************************************************************************)
Init ==
  /\ state = [t \in Cell |-> IF t = Kernel THEN "RUNNING" ELSE "READY"]
  /\ next = [t \in Cell |-> IF t = Kernel THEN Kernel ELSE NULL]
  /\ prev = [t \in Cell |-> IF t = Kernel THEN Kernel ELSE NULL]
  /\ id = [t \in Cell |-> 0]
  /\ structs = {} /\ stacks = {} /\ framed = {}
  /\ current_task = Kernel
  /\ next_pid = 1
  /\ pc = "thread" /\ cursor = Kernel
  /\ ps_pc = "idle" /\ ps_curr = Kernel /\ ps_count = 0
  /\ ps_seen = {} /\ ps_snap = {} /\ ps_alive = {}

-----------------------------------------------------------------------------
(***************************************************************************)
(* Thread context: the shell is the kernel task, and is the only caller of *)
(* task_create, task_kill and scheduler_get_task_list.                     *)
(***************************************************************************)
ShellIdle == pc = "thread" /\ current_task = Kernel /\ ps_pc = "idle"

\* Insertion before task_head: t becomes the last task of the ring.
InsertAtTail(t) ==
  /\ next' = [next EXCEPT ![t] = Kernel, ![prev[Kernel]] = t]
  /\ prev' = [prev EXCEPT ![t] = prev[Kernel], ![Kernel] = t]

BelowTaskLimit == Cardinality(Live) < MAX_TASKS

AssignPid(t) ==
  /\ id' = [id EXCEPT ![t] = next_pid]
  /\ next_pid' = next_pid + 1

task_create(t) ==
  /\ ShellIdle
  /\ BelowTaskLimit
  /\ t \notin structs
  /\ next_pid <= MaxPid
  /\ InsertAtTail(t)
  /\ AssignPid(t)
  /\ state' = [state EXCEPT ![t] = "READY"]
  /\ structs' = structs \cup {t}
  /\ stacks' = stacks \cup {t}
  /\ framed' = framed \cup {t}
  /\ UNCHANGED <<current_task, pc, cursor, psVars, histVars>>

\* The structure was allocated (zeroed), the stack was not: it is given back.
task_create_no_stack(t) ==
  /\ ShellIdle
  /\ BelowTaskLimit
  /\ t \notin structs
  /\ state' = [state EXCEPT ![t] = "READY"]
  /\ next' = [next EXCEPT ![t] = NULL]
  /\ prev' = [prev EXCEPT ![t] = NULL]
  /\ id' = [id EXCEPT ![t] = 0]
  /\ UNCHANGED <<heapVars, framed, current_task, next_pid, pc, cursor, psVars, histVars>>

task_kill(pid) ==
  /\ ShellIdle
  /\ pid # 0
  /\ \E t \in Live :
       /\ id[t] = pid
       /\ state[t] # "ZOMBIE"
       /\ state' = [state EXCEPT ![t] = "ZOMBIE"]
  /\ UNCHANGED <<next, prev, id, heapVars, framed, current_task, next_pid, pc, cursor,
                 psVars, histVars>>

-----------------------------------------------------------------------------
(***************************************************************************)
(* Entry into scheduler_schedule(): the interrupted context is saved and   *)
(* the reaping loop starts behind the head.                                *)
(***************************************************************************)
MutReapSkipsFirst ==
  /\ framed' = framed \cup {current_task}
  /\ pc' = "reap"
  /\ cursor' = next[next[Kernel]]
EnterSchedule ==
  /\ framed' = framed \cup {current_task}
  /\ pc' = "reap"
  /\ cursor' = next[Kernel]

\* IRQ0 while interrupts are enabled: scheduler_tick().
scheduler_tick ==
  /\ pc = "thread"
  /\ EnterSchedule
  /\ UNCHANGED <<listVars, heapVars, current_task, next_pid, psVars, histVars>>

\* INT 0x80 with SYS_YIELD, from scheduler_yield().
scheduler_yield ==
  /\ pc = "thread"
  /\ EnterSchedule
  /\ UNCHANGED <<listVars, heapVars, current_task, next_pid, psVars, histVars>>

\* task_exit: the store of ZOMBIE is an ordinary preemptible instruction; the
\* task then yields (or a tick arrives first).
task_exit ==
  /\ pc = "thread"
  /\ id[current_task] # 0
  /\ state[current_task] = "RUNNING"
  /\ state' = [state EXCEPT ![current_task] = "ZOMBIE"]
  /\ UNCHANGED <<next, prev, id, heapVars, framed, current_task, next_pid, pc, cursor,
                 psVars, histVars>>

\* INT 0x80 with SYS_EXIT: both in interrupt context.
sys_exit ==
  /\ pc = "thread"
  /\ id[current_task] # 0
  /\ state[current_task] = "RUNNING"
  /\ state' = [state EXCEPT ![current_task] = "ZOMBIE"]
  /\ EnterSchedule
  /\ UNCHANGED <<next, prev, id, heapVars, current_task, next_pid, psVars, histVars>>

-----------------------------------------------------------------------------
(***************************************************************************)
(* Interrupt context: the body of scheduler_schedule().                    *)
(***************************************************************************)
MutReapCurrent(t) == state[t] = "ZOMBIE"
Reapable(t) == state[t] = "ZOMBIE" /\ t # current_task

MutNoBackLink(t) ==
  /\ next' = [next EXCEPT ![prev[t]] = next[t]]
  /\ prev' = prev
Unlink(t) ==
  /\ next' = [next EXCEPT ![prev[t]] = next[t]]
  /\ prev' = [prev EXCEPT ![next[t]] = prev[t]]

FreeTask(t) ==
  /\ structs' = structs \ {t}
  /\ stacks' = stacks \ {t}

reap_free ==
  /\ pc = "reap" /\ cursor # Kernel
  /\ Reapable(cursor)
  /\ Unlink(cursor)
  /\ FreeTask(cursor)
  /\ framed' = framed \ {cursor}
  /\ ps_alive' = ps_alive \ {cursor}
  /\ cursor' = next[cursor]
  /\ UNCHANGED <<state, id, current_task, next_pid, pc, psVars, ps_snap>>

reap_skip ==
  /\ pc = "reap" /\ cursor # Kernel
  /\ ~Reapable(cursor)
  /\ cursor' = next[cursor]
  /\ UNCHANGED <<listVars, heapVars, framed, current_task, next_pid, pc, psVars, histVars>>

MutSelectFromHead ==
  /\ pc = "reap" /\ cursor = Kernel
  /\ pc' = "select"
  /\ cursor' = next[Kernel]
  /\ UNCHANGED <<listVars, heapVars, framed, current_task, next_pid, psVars, histVars>>
reap_done ==
  /\ pc = "reap" /\ cursor = Kernel
  /\ pc' = "select"
  /\ cursor' = next[current_task]
  /\ UNCHANGED <<listVars, heapVars, framed, current_task, next_pid, psVars, histVars>>

\* The task that scheduler_schedule() settles on once the loop has stopped.
Chosen == IF cursor = current_task /\ ~Runnable(current_task) THEN Kernel ELSE cursor

MutZombieMadeReady(new) ==
  [t \in Cell |-> IF t = new THEN "RUNNING" ELSE IF t = current_task THEN "READY" ELSE state[t]]
\* A RUNNING task that loses the processor becomes READY, a zombie stays one.
Switched(new) ==
  [t \in Cell |-> IF t = new THEN "RUNNING"
                  ELSE IF t = current_task /\ state[t] = "RUNNING" THEN "READY"
                  ELSE state[t]]

\* One test of the selection loop.  Since no code of the tree ever sets WAITING or
\* BLOCKED and the reaping loop has just run, the loop's body is never entered.
select ==
  /\ pc = "select"
  /\ IF cursor # current_task /\ ~Runnable(cursor)
     THEN /\ cursor' = next[cursor]
          /\ UNCHANGED <<state, framed, current_task, pc>>
     ELSE /\ state' = IF Chosen = current_task THEN state ELSE Switched(Chosen)
          /\ current_task' = Chosen
          /\ framed' = framed \ {Chosen}          \* iret pops the frame regs_ptr names
          /\ pc' = "thread"
          /\ UNCHANGED cursor
  /\ UNCHANGED <<next, prev, id, heapVars, next_pid, psVars, histVars>>

-----------------------------------------------------------------------------
(***************************************************************************)
(* cmd_ps in the shell: scheduler_get_task_list counts the ring and then   *)
(* the shell prints that many nodes, both with interrupts enabled.         *)
(***************************************************************************)
ps_start ==
  /\ ShellIdle
  /\ ps_pc' = "count" /\ ps_curr' = Kernel /\ ps_count' = 0
  /\ ps_seen' = {} /\ ps_snap' = Live /\ ps_alive' = Live
  /\ UNCHANGED <<listVars, heapVars, framed, current_task, next_pid, pc, cursor>>

MutCountOneShort ==
  /\ pc = "thread" /\ current_task = Kernel /\ ps_pc = "count"
  /\ ps_count' = IF next[ps_curr] = Kernel THEN ps_count ELSE ps_count + 1
  /\ ps_curr' = next[ps_curr]
  /\ ps_pc' = IF next[ps_curr] = Kernel THEN "print" ELSE "count"
  /\ UNCHANGED <<listVars, heapVars, framed, current_task, next_pid, pc, cursor, ps_seen, histVars>>
ps_count_step ==
  /\ pc = "thread" /\ current_task = Kernel /\ ps_pc = "count"
  /\ ps_count' = ps_count + 1
  /\ ps_curr' = next[ps_curr]
  /\ ps_pc' = IF next[ps_curr] = Kernel THEN "print" ELSE "count"
  /\ UNCHANGED <<listVars, heapVars, framed, current_task, next_pid, pc, cursor, ps_seen, histVars>>

MutPrintNeverAdvances ==
  /\ pc = "thread" /\ current_task = Kernel /\ ps_pc = "print" /\ ps_count > 0
  /\ ps_seen' = ps_seen \cup {ps_curr}
  /\ ps_curr' = next[ps_curr]
  /\ UNCHANGED <<listVars, heapVars, framed, current_task, next_pid, pc, cursor, ps_pc, ps_count, histVars>>
ps_print_step ==
  /\ pc = "thread" /\ current_task = Kernel /\ ps_pc = "print" /\ ps_count > 0
  /\ ps_seen' = ps_seen \cup {ps_curr}
  /\ ps_curr' = next[ps_curr]
  /\ ps_count' = ps_count - 1
  /\ UNCHANGED <<listVars, heapVars, framed, current_task, next_pid, pc, cursor, ps_pc, histVars>>

ps_done ==
  /\ pc = "thread" /\ current_task = Kernel /\ ps_pc = "print" /\ ps_count = 0
  /\ ps_pc' = "idle" /\ ps_curr' = Kernel /\ ps_seen' = {} /\ ps_snap' = {} /\ ps_alive' = {}
  /\ UNCHANGED <<listVars, heapVars, framed, current_task, next_pid, pc, cursor, ps_count>>

-----------------------------------------------------------------------------
HandlerStep == reap_free \/ reap_skip \/ reap_done \/ select
PsStep == ps_count_step \/ ps_print_step \/ ps_done

Next ==
  \/ \E t \in Task : task_create(t) \/ task_create_no_stack(t)
  \/ \E p \in 0..MaxPid : task_kill(p)
  \/ task_exit \/ sys_exit
  \/ scheduler_tick \/ scheduler_yield
  \/ HandlerStep
  \/ ps_start \/ PsStep

\* The PIT keeps interrupting a processor whose interrupts are enabled, and an
\* interrupt handler runs to its iret.
Fairness == WF_vars(scheduler_tick) /\ WF_vars(HandlerStep)

\* Each time slice of the shell executes at least one iteration of a ps loop.
ShellProgress == SF_vars(PsStep)

Spec == Init /\ [][Next]_vars /\ Fairness /\ ShellProgress

-----------------------------------------------------------------------------
\* Type correctness of the task structures, the heap cells and the local
\* variables of scheduler_schedule() and ps.
TypeOK ==
  /\ state \in [Cell -> State]
  /\ next \in [Cell -> Cell \cup {NULL}]
  /\ prev \in [Cell -> Cell \cup {NULL}]
  /\ id \in [Cell -> Nat]
  /\ structs \in SUBSET Task /\ stacks \in SUBSET Task /\ framed \in SUBSET Cell
  /\ current_task \in Cell
  /\ next_pid \in Nat \ {0}
  /\ pc \in {"thread", "reap", "select"}
  /\ cursor \in Cell
  /\ ps_pc \in {"idle", "count", "print"}
  /\ ps_curr \in Cell
  /\ ps_count \in Nat
  /\ ps_seen \subseteq Cell /\ ps_snap \subseteq Cell /\ ps_alive \subseteq Cell

\* The list surgery of task_create and of the reaping loop keeps next and prev
\* inverse to each other and never leaves a link to a freed structure.
RingWellLinked ==
  \A t \in Live :
    /\ next[t] \in Live /\ prev[next[t]] = t
    /\ prev[t] \in Live /\ next[prev[t]] = t

\* The processor never executes on a freed stack, and scheduler_schedule()
\* never follows a pointer to a freed structure, whatever exits or is killed.
RunsOnLiveMemory ==
  /\ current_task \in Live \cap LiveStack
  /\ pc # "thread" => cursor \in Live

\* Every linked task that is not executing has exactly one saved register
\* frame to be resumed from, on a stack that is still allocated.
FramesMatchTasks ==
  framed = IF pc = "thread" THEN Live \ {current_task} ELSE Live

\* Structures and stacks are allocated and freed together: no failure path of
\* task_create and no reaping leaves one without the other.
NoHalfTask == structs = stacks

\* Only the current task is RUNNING; it is RUNNING unless it is exiting, and
\* the kernel task, which scheduler_schedule() falls back on, is never a zombie.
OneRunning ==
  /\ \A t \in Live : state[t] = "RUNNING" => t = current_task
  /\ state[current_task] \in {"RUNNING", "ZOMBIE"}
  /\ state[Kernel] # "ZOMBIE"

\* Linked tasks have different pids and only the kernel task has pid 0, so that
\* kill <pid> ends the task the user named and task_exit tells tasks from the kernel.
PidsUnique ==
  /\ id[Kernel] = 0
  /\ \A t \in structs : id[t] \in 1..(next_pid - 1)
  /\ \A t, u \in Live : id[t] = id[u] => t = u

\* The ring is in creation order and skips nobody: next is the linked task with
\* the smallest larger pid, and the head behind the youngest.
RingInPidOrder ==
  \A t, u \in Live :
    /\ next[t] # Kernel => id[t] < id[next[t]]
    /\ id[t] < id[u] => next[t] # Kernel /\ id[next[t]] <= id[u]

\* The ring of tasks stays a ring through every creation, kill and reaping: well
\* linked both ways, in creation order with nobody left out, with distinct pids.
RingOrdered == TypeOK /\ RingWellLinked /\ RingInPidOrder /\ PidsUnique

\* ps may stand on a structure that is reaped under it, but it only ever reads
\* structures that were linked when it began and the heap has not handed out since.
PsReadsTaskMemory ==
  ps_pc # "idle" =>
    /\ ps_curr \in ps_snap /\ Live \subseteq ps_snap
    /\ \A t \in ps_snap : next[t] \in ps_snap

\* Neither the processor, the scheduler nor ps uses memory of a task that has been
\* reaped, and every task that is to be resumed has its frame on a live stack.
MemorySafe == RunsOnLiveMemory /\ FramesMatchTasks /\ NoHalfTask /\ PsReadsTaskMemory

\* ps, which reads the ring without disabling interrupts, still prints every task that outlives it.
PsListsSurvivors == ps_pc = "print" /\ ps_count = 0 => ps_alive \subseteq ps_seen

\* A task that exited or was killed never gets the processor back, and stays a
\* zombie for as long as its structure is linked.
ZombieNeverResumed ==
  [][\A t \in structs : state[t] = "ZOMBIE" =>
       /\ t \in structs' => state'[t] = "ZOMBIE"
       /\ current_task' = t => current_task = t]_vars

\* A task that is READY gets the processor, unless it is killed first.
ReadyEventuallyRuns ==
  \A t \in Task : (t \in structs /\ state[t] = "READY") ~>
                   (current_task = t \/ state[t] = "ZOMBIE")

\* A task that exited or was killed is eventually unlinked and its memory freed.
ZombieEventuallyReaped ==
  \A t \in Task : (t \in structs /\ state[t] = "ZOMBIE") ~> (t \notin structs)

\* ps terminates although tasks are unlinked while it walks the ring.
PsTerminates == (ps_pc # "idle") ~> (ps_pc = "idle")

\* Every task, every zombie and every listing gets its turn.
Progress == ReadyEventuallyRuns /\ ZombieEventuallyReaped /\ PsTerminates
=============================================================================
