------------------------------- MODULE NicIrq -------------------------------
(***************************************************************************)
(* When kernel/nic.c looks for frames: nic_handle_irq on an interrupt and  *)
(* nic_poll from the loops that wait, for both controllers.  A controller  *)
(* stores a frame and notes the cause of its interrupt afterwards; reading *)
(* the register (E1000), or writing back what was read (RTL8139), clears   *)
(* the causes, and the driver then takes frames up to its budget.          *)
(*                                                                         *)
(* Both run with interrupts off, so they do not overlap; the controller    *)
(* goes on meanwhile.  The line is up while a cause is noted.              *)
(***************************************************************************)
EXTENDS Integers

CONSTANTS
  NicKinds,         \* controllers
  FrameRoom,        \* frames that fit in the receive ring of each
  RX_BUDGET         \* 32

ASSUME NicIrqAssumption == \A k \in NicKinds : FrameRoom[k] \in Nat

VARIABLES
  nic_kind,         \* driver_type
  rx_waiting,       \* frames in the ring
  rx_coming,        \* a frame is stored and its cause is not yet noted
  icr, icr_read,    \* causes noted, and those the driver read
  nic_pc, nic_by,   \* nic_by: "irq" or "poll"
  rx_budget,
  rx_cut            \* the last look ended for its budget

nicIrqVars == <<nic_kind, rx_waiting, rx_coming, icr, icr_read, nic_pc, nic_by, rx_budget, rx_cut>>

NicIrqInit ==
  /\ rx_waiting = 0 /\ rx_coming = FALSE /\ icr = {} /\ icr_read = {}
  /\ nic_pc = "thread" /\ nic_by = "poll" /\ rx_budget = RX_BUDGET /\ rx_cut = FALSE

-----------------------------------------------------------------------------
hw_frame ==
  /\ rx_waiting < FrameRoom[nic_kind] /\ rx_waiting' = rx_waiting + 1 /\ rx_coming' = TRUE
  /\ UNCHANGED <<nic_kind, icr, icr_read, nic_pc, nic_by, rx_budget, rx_cut>>

\* A frame was received, or something else happened: a frame left, the link changed.
hw_cause ==
  /\ \/ rx_coming /\ rx_coming' = FALSE /\ icr' = icr \cup {"receive"}
     \/ icr' = icr \cup {"other"} /\ UNCHANGED rx_coming
  /\ UNCHANGED <<nic_kind, rx_waiting, icr_read, nic_pc, nic_by, rx_budget, rx_cut>>

-----------------------------------------------------------------------------
\* On an interrupt of the line, its own or of another device, and from a task.
nic_handle_irq ==
  /\ nic_pc = "thread" /\ nic_pc' = "read" /\ nic_by' = "irq" /\ rx_budget' = RX_BUDGET
  /\ UNCHANGED <<nic_kind, rx_waiting, rx_coming, icr, icr_read, rx_cut>>
nic_poll ==
  /\ nic_pc = "thread" /\ nic_pc' = "read" /\ nic_by' = "poll" /\ rx_budget' = RX_BUDGET
  /\ UNCHANGED <<nic_kind, rx_waiting, rx_coming, icr, icr_read, rx_cut>>

\* Without a cause the interrupt was not meant for this device.
AfterRead == IF nic_by = "irq" /\ icr = {} THEN "thread" ELSE "take"
read_causes ==
  /\ nic_pc = "read" /\ icr_read' = icr
  /\ IF nic_kind = "E1000" THEN icr' = {} /\ nic_pc' = AfterRead
     ELSE UNCHANGED icr /\ nic_pc' = IF icr = {} THEN AfterRead ELSE "ack"
  /\ UNCHANGED <<nic_kind, rx_waiting, rx_coming, nic_by, rx_budget, rx_cut>>

write_causes ==
  /\ nic_pc = "ack" /\ nic_pc' = "take" /\ icr' = icr \ icr_read
  /\ UNCHANGED <<nic_kind, rx_waiting, rx_coming, icr_read, nic_by, rx_budget, rx_cut>>

\* e1000_poll_rx and rtl8139_poll_rx: one frame, all of them after an error, the end.
take_frame ==
  /\ nic_pc = "take" /\ rx_waiting > 0 /\ rx_budget > 0
  /\ rx_waiting' = rx_waiting - 1 /\ rx_budget' = rx_budget - 1
  /\ UNCHANGED <<nic_kind, rx_coming, icr, icr_read, nic_pc, nic_by, rx_cut>>
give_up ==
  /\ nic_pc = "take" /\ rx_waiting > 0 /\ rx_budget > 0 /\ nic_kind = "RTL8139"
  /\ rx_waiting' = 0 /\ nic_pc' = "thread" /\ rx_cut' = FALSE
  /\ UNCHANGED <<nic_kind, rx_coming, icr, icr_read, nic_by, rx_budget>>
MutClearsLate ==
  /\ nic_pc = "take" /\ (rx_waiting = 0 \/ rx_budget = 0)
  /\ nic_pc' = "thread" /\ rx_cut' = (rx_waiting > 0) /\ icr' = {}
  /\ UNCHANGED <<nic_kind, rx_waiting, rx_coming, icr_read, nic_by, rx_budget>>
poll_ends ==
  /\ nic_pc = "take" /\ (rx_waiting = 0 \/ rx_budget = 0)
  /\ nic_pc' = "thread" /\ rx_cut' = (rx_waiting > 0)
  /\ UNCHANGED <<nic_kind, rx_waiting, rx_coming, icr, icr_read, nic_by, rx_budget>>

NicIrqNext ==
  hw_frame \/ hw_cause \/ nic_handle_irq \/ nic_poll \/ read_causes \/ write_causes \/ take_frame \/ give_up \/ poll_ends

-----------------------------------------------------------------------------
\* A frame that waits is announced: outside the driver, frames in the ring mean an
\* interrupt that is requested or about to be, whatever arrived while the causes were
\* cleared and the ring was emptied.  Only a ring that holds more frames than the
\* budget can be left with some that nobody announces until the next nic_poll.
NoFrameStranded ==
  nic_pc = "thread" /\ rx_waiting > 0 /\ icr = {} /\ ~rx_coming => rx_cut /\ FrameRoom[nic_kind] > RX_BUDGET
=============================================================================
