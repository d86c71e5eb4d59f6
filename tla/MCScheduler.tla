---------------------------- MODULE MCScheduler ----------------------------
(***************************************************************************)
(* Scheduler with a history variable for round-robin order, for TLC.       *)
(***************************************************************************)
EXTENDS Scheduler, TLC

\* since[t]: the tasks given the processor since the READY task t last had it.
VARIABLE since

mcVars == <<vars, since>>

Recorded(t) ==
  IF t \notin Live' \/ state'[t] # "READY" \/ t = current_task' THEN {}
  ELSE IF current_task' # current_task THEN since[t] \cup {current_task'}
  ELSE since[t]

MCInit == Init /\ since = [t \in Cell |-> {}]
MCNext == Next /\ since' = [t \in Cell |-> Recorded(t)]
MCSpec == MCInit /\ [][MCNext]_mcVars

\* Round robin: scheduler_schedule() never gives a task the processor a second
\* time while another task has been READY all along.
NoOvertaking ==
  [][current_task' # current_task =>
       \A t \in Live \ {current_task'} :
         state[t] = "READY" => current_task' \notin since[t]]_mcVars

TaskSymmetry == Permutations(Task)
=============================================================================
