-------------------------------- MODULE Timer -------------------------------
(***************************************************************************)
(* The clock tick of kernel/timer.c and the tasks that sleep on it.  The   *)
(* counter has TICK_WRAP values and wraps around; a sleeping task halts    *)
(* the processor between two looks at it, and an interrupt may come        *)
(* between a look and the halt.                                            *)
(***************************************************************************)
EXTENDS Integers

CONSTANTS
  TICK_WRAP,      \* values of the counter, 2^32 in the code
  TICK_MS,        \* 1000 / TIMER_HZ
  Sleepers,       \* tasks
  Durations,      \* the milliseconds they ask for
  MaxDelay        \* bound: ticks for which a task may wait for its turn

ASSUME TimerAssumption ==
  /\ TICK_MS \in Nat \ {0} /\ Durations \subseteq Nat /\ MaxDelay \in Nat
  /\ \A ms \in Durations : (ms \div TICK_MS) + 2 * MaxDelay + 2 < TICK_WRAP

VARIABLES
  ticks,          \* timer_state.ticks
  start, ticks_to_wait,
  sleep_pc,       \* "awake", "look", "halt" or "halted"
  delay,          \* ticks since the task last moved
  slept           \* ticks since sleep_ms was called

timerVars == <<ticks, start, ticks_to_wait, sleep_pc, delay, slept>>

\* The tasks sleep for the first time at any value of the counter.
TimerInit ==
  /\ start = [t \in Sleepers |-> 0] /\ ticks_to_wait = [t \in Sleepers |-> 0]
  /\ sleep_pc = [t \in Sleepers |-> "awake"] /\ delay = [t \in Sleepers |-> 0] /\ slept = [t \in Sleepers |-> 0]

Woken == [t \in Sleepers |-> IF sleep_pc[t] = "halted" THEN "look" ELSE sleep_pc[t]]

\* timer_handler; the tick ends a halt.  A task that is ready to run gets its turn.
timer_handler ==
  /\ \A t \in Sleepers : sleep_pc[t] \in {"look", "halt"} => delay[t] < MaxDelay
  /\ ticks' = (ticks + 1) % TICK_WRAP
  /\ sleep_pc' = Woken
  /\ delay' = [t \in Sleepers |-> IF sleep_pc[t] \in {"look", "halt"} THEN delay[t] + 1 ELSE 0]
  /\ slept' = [t \in Sleepers |-> IF sleep_pc[t] = "awake" THEN slept[t] ELSE slept[t] + 1]
  /\ UNCHANGED <<start, ticks_to_wait>>

\* Any other interrupt ends a halt too.
interrupt == sleep_pc' = Woken /\ UNCHANGED <<ticks, start, ticks_to_wait, delay, slept>>

\* sleep_ms; with interrupts off, or for no time, it does not look at the counter.
sleep_ms(t, ms) ==
  /\ sleep_pc[t] = "awake" /\ ms # 0
  /\ start' = [start EXCEPT ![t] = ticks]
  /\ ticks_to_wait' = [ticks_to_wait EXCEPT ![t] = IF ms \div TICK_MS = 0 THEN 1 ELSE ms \div TICK_MS]
  /\ sleep_pc' = [sleep_pc EXCEPT ![t] = "look"]
  /\ delay' = [delay EXCEPT ![t] = 0] /\ slept' = [slept EXCEPT ![t] = 0]
  /\ UNCHANGED ticks

\* The condition of the loop is evaluated in 32 bits.
MutEndTime(t) == ticks < (start[t] + ticks_to_wait[t]) % TICK_WRAP
MustWait(t) == (ticks - start[t]) % TICK_WRAP < ticks_to_wait[t]

look(t) ==
  /\ sleep_pc[t] = "look"
  /\ sleep_pc' = [sleep_pc EXCEPT ![t] = IF MustWait(t) THEN "halt" ELSE "awake"]
  /\ delay' = [delay EXCEPT ![t] = 0]
  /\ UNCHANGED <<ticks, start, ticks_to_wait, slept>>

halt(t) ==
  /\ sleep_pc[t] = "halt"
  /\ sleep_pc' = [sleep_pc EXCEPT ![t] = "halted"]
  /\ delay' = [delay EXCEPT ![t] = 0]
  /\ UNCHANGED <<ticks, start, ticks_to_wait, slept>>

TimerNext ==
  \/ timer_handler \/ interrupt
  \/ \E t \in Sleepers : look(t) \/ halt(t) \/ \E ms \in Durations : sleep_ms(t, ms)

-----------------------------------------------------------------------------
\* sleep_ms returns after the number of ticks it was asked for and never earlier,
\* wherever the counter wraps around meanwhile, and later only by the time its task
\* waited for its turn and the one tick that may slip in before the halt.
SleepsItsTime ==
  \A t \in Sleepers :
    /\ sleep_pc[t] = "awake" => slept[t] >= ticks_to_wait[t]
    /\ slept[t] <= ticks_to_wait[t] + 2 * MaxDelay + 1
=============================================================================
