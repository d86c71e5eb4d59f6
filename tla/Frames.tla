------------------------------- MODULE Frames -------------------------------
(***************************************************************************)
(* Interrupts and system calls on the stacks: the stubs of kernel/isr.s,   *)
(* the gates of kernel/idt.c, the handlers of kernel/isr.c as far as they  *)
(* use the frame, and the frame that task_create builds by hand.           *)
(*                                                                         *)
(* A word of a stack is its kind and its value; pusha is one word, and the *)
(* code segment is left out.  Which task is next is the subject of module  *)
(* Scheduler.  Every gate is an interrupt gate, so that only an exception  *)
(* could come before iret, and it never returns.                           *)
(***************************************************************************)
EXTENDS Integers, Sequences

CONSTANTS
  Threads, Main,    \* tasks, and the one that runs from the start
  Irqs              \* lines that interrupt, the timer's 0 among them

ASSUME FramesAssumption == Main \in Threads /\ 0 \in Irqs

VARIABLES
  stack,            \* of each task, the last word on top
  regs_ptr,         \* task->regs_ptr, as a height of the stack
  current_task,
  cpu,              \* eip, whether interrupts are on, the registers
  vector,           \* of the interrupt that is handled
  frame_pc,         \* "task", "hlt", "stub", "handler", "return" or "panic"
  eax,              \* what the handler returns: a height of the stack of current_task
  had               \* what each task has in the processor, NoTask if there is none

frameVars == <<stack, regs_ptr, current_task, cpu, vector, frame_pc, eax, had>>

NoTask == [eip |-> -1]
W(kind, v) == <<kind, v>>
Segments == [ds |-> "ds", es |-> "es", fs |-> "fs", gs |-> "gs"]
Fresh == [eip |-> 0, on |-> TRUE, gp |-> 0, seg |-> Segments]
Live == {t \in Threads : had[t] # NoTask}

FramesInit ==
  /\ stack = [t \in Threads |-> <<>>] /\ regs_ptr = [t \in Threads |-> 0] /\ current_task = Main
  /\ cpu = Fresh /\ vector = 0 /\ frame_pc = "task" /\ eax = 0
  /\ had = [t \in Threads |-> IF t = Main THEN Fresh ELSE NoTask]

-----------------------------------------------------------------------------
(***************************************************************************)
(* The processor: a task runs, turns interrupts off and on, halts.         *)
(***************************************************************************)
Runs(c) ==
  /\ frame_pc = "task" /\ cpu' = c /\ had' = [had EXCEPT ![current_task] = c]
  /\ UNCHANGED <<stack, regs_ptr, current_task, vector, frame_pc, eax>>
run == Runs([cpu EXCEPT !.eip = (@ + 1) % 2, !.gp = (@ + 1) % 3])
irq_save == Runs([cpu EXCEPT !.on = FALSE])
irq_restore == Runs([cpu EXCEPT !.on = TRUE])

\* The loops that wait, net.c and shell.c: if (irq_are_enabled()) hlt().
hlt ==
  /\ frame_pc = "task" /\ cpu.on /\ frame_pc' = "hlt"
  /\ UNCHANGED <<stack, regs_ptr, current_task, cpu, vector, eax, had>>

\* Exceptions that push an error code, and all there are.
WithCode == {8, 10, 11, 12, 13, 14, 17, 21}
Exceptions == (0..14) \cup (16..19) \cup WithCode

interrupt_gate(v) ==
  /\ stack' = [stack EXCEPT ![current_task] =
                 @ \o <<W("eflags", cpu.on), W("eip", cpu.eip)>> \o (IF v \in WithCode THEN <<W("err", v)>> ELSE <<>>)]
  /\ cpu' = [cpu EXCEPT !.on = FALSE] /\ vector' = v /\ frame_pc' = "stub"
  /\ UNCHANGED <<regs_ptr, current_task, eax, had>>

exception == frame_pc = "task" /\ \E v \in Exceptions : interrupt_gate(v)
hw_irq == frame_pc \in {"task", "hlt"} /\ cpu.on /\ \E l \in Irqs : interrupt_gate(32 + l)
int_0x80 == frame_pc = "task" /\ interrupt_gate(128)

-----------------------------------------------------------------------------
(***************************************************************************)
(* The stubs.  A frame of task_create looks like one of theirs.            *)
(***************************************************************************)
ISR_ERRCODE == {8, 10, 11, 12, 13, 14, 17, 21, 30}
Saved(gp, s) == <<W("gp", gp), W("ds", s.ds), W("es", s.es), W("fs", s.fs), W("gs", s.gs)>>

isr_common ==
  /\ frame_pc = "stub" /\ frame_pc' = "handler"
  /\ stack' = [stack EXCEPT ![current_task] =
                 @ \o (IF vector \in ISR_ERRCODE THEN <<>> ELSE <<W("err", 0)>>) \o <<W("int_no", vector)>>
                   \o Saved(cpu.gp, cpu.seg)]
  /\ UNCHANGED <<regs_ptr, current_task, cpu, vector, eax, had>>

\* struct regs: the words below the top, the segment registers first.
Top == Len(stack[current_task])
Field(s, h, name) ==
  s[h - CASE name = "gs" -> 0 [] name = "fs" -> 1 [] name = "es" -> 2 [] name = "ds" -> 3 [] name = "gp" -> 4
          [] name = "int_no" -> 5 [] name = "err_code" -> 6 [] name = "eip" -> 7 [] name = "eflags" -> 8]

\* From the pointer that the handler returned; vector and eax have no meaning then.
isr_return ==
  LET s == stack[current_task]
      Get(name) == Field(s, eax, name)[2]
  IN /\ frame_pc = "return" /\ frame_pc' = "task"
     /\ cpu' = [eip |-> Get("eip"), on |-> Get("eflags"), gp |-> Get("gp"),
                seg |-> [ds |-> Get("ds"), es |-> Get("es"), fs |-> Get("fs"), gs |-> Get("gs")]]
     /\ stack' = [stack EXCEPT ![current_task] = SubSeq(s, 1, eax - 9)]
     /\ vector' = 0 /\ eax' = 0 /\ UNCHANGED <<regs_ptr, current_task, had>>

task_create(t) ==
  /\ frame_pc = "task" /\ t \notin Live
  /\ stack' = [stack EXCEPT ![t] = <<W("ret", "task_exit"), W("eflags", TRUE), W("eip", 0), W("err", 0), W("int_no", 0)>> \o Saved(0, Segments)]
  /\ regs_ptr' = [regs_ptr EXCEPT ![t] = 10] /\ had' = [had EXCEPT ![t] = Fresh]
  /\ UNCHANGED <<current_task, cpu, vector, frame_pc, eax>>

-----------------------------------------------------------------------------
(***************************************************************************)
(* The handlers.                                                           *)
(***************************************************************************)
\* exception_handler stops the machine.
exception_handler ==
  /\ frame_pc = "handler" /\ vector < 32 /\ frame_pc' = "panic"
  /\ UNCHANGED <<stack, regs_ptr, current_task, cpu, vector, eax, had>>

Returns == eax' = Top /\ frame_pc' = "return" /\ UNCHANGED <<regs_ptr, current_task>>
scheduler_schedule(ready) ==
  /\ regs_ptr' = [regs_ptr EXCEPT ![current_task] = Top]
  /\ current_task' \in ready /\ eax' = regs_ptr'[current_task'] /\ frame_pc' = "return"

irq_handler ==
  /\ frame_pc = "handler" /\ vector \in 32..47
  /\ IF vector = 32 THEN scheduler_schedule(Live) ELSE Returns
  /\ UNCHANGED <<stack, cpu, vector, had>>

\* A result is stored in the frame, for the task to find it in eax.
SetsResult ==
  /\ stack' = [stack EXCEPT ![current_task][Top - 4] = W("gp", 2)]
  /\ had' = [had EXCEPT ![current_task].gp = 2]

\* SYS_WRITE, SYS_GETPID, SYS_UPTIME, an unknown number, and SYS_EXIT of the kernel's task.
syscall_result == frame_pc = "handler" /\ vector = 128 /\ SetsResult /\ Returns /\ UNCHANGED <<cpu, vector>>

\* sleep_ms halts until the time is over only if interrupts are on.
MutSleepHalts ==
  /\ frame_pc = "handler" /\ vector = 128 /\ SetsResult
  /\ frame_pc' = "hlt" /\ eax' = Top
  /\ UNCHANGED <<cpu, vector, regs_ptr, current_task>>
sys_sleep ==
  /\ frame_pc = "handler" /\ vector = 128 /\ SetsResult
  /\ IF cpu.on THEN frame_pc' = "hlt" /\ eax' = Top /\ UNCHANGED <<regs_ptr, current_task>> ELSE Returns
  /\ UNCHANGED <<cpu, vector>>

sys_yield == frame_pc = "handler" /\ vector = 128 /\ SetsResult /\ scheduler_schedule(Live) /\ UNCHANGED <<cpu, vector>>

sys_exit ==
  /\ frame_pc = "handler" /\ vector = 128 /\ current_task # Main
  /\ had' = [had EXCEPT ![current_task] = NoTask]
  /\ scheduler_schedule(Live \ {current_task}) /\ UNCHANGED <<stack, cpu, vector>>

FramesNext ==
  \/ run \/ irq_save \/ irq_restore \/ hlt \/ exception \/ hw_irq \/ int_0x80 \/ isr_common \/ isr_return
  \/ \E t \in Threads : task_create(t)
  \/ exception_handler \/ irq_handler \/ syscall_result \/ sys_sleep \/ sys_yield \/ sys_exit

-----------------------------------------------------------------------------
\* The handler finds in struct regs the number, the error code and the instruction of
\* every kind of interrupt; a task that goes on, on its own frame or on the one it was
\* created with, has its registers and flags back (with the result of its system call)
\* and nothing is left on its stack; and the processor never halts with interrupts off
\* but to stop for good.
FramesExact ==
  LET Get(name) == Field(stack[current_task], Top, name)
  IN /\ frame_pc = "handler" =>
          /\ Get("int_no") = W("int_no", vector) /\ Get("err_code") = W("err", IF vector \in WithCode THEN vector ELSE 0)
          /\ Get("eip") = W("eip", had[current_task].eip)
     /\ frame_pc = "task" =>
          /\ cpu = had[current_task]
          /\ stack[current_task] = IF current_task = Main THEN <<>> ELSE <<W("ret", "task_exit")>>
     /\ frame_pc = "hlt" => cpu.on
=============================================================================
