--------------------------------- MODULE Irq --------------------------------
(***************************************************************************)
(* Interrupts from the request line to the handler: the two 8259           *)
(* controllers as kernel/pic.c programs them, and irq_handler of           *)
(* kernel/isr.c, which acknowledges an interrupt before it handles it.     *)
(*                                                                         *)
(* irq_handler runs with interrupts off, but devices request at any time.  *)
(* A request that is gone when the processor asks for its number is        *)
(* reported as line 7 of its controller with no in-service bit.            *)
(***************************************************************************)
EXTENDS Integers, FiniteSets

CONSTANTS
  Lines,        \* lines with a device, the controller's own cascade excepted
  NicLines      \* lines the network controller may have been given

CASCADE == 2
ASSUME IrqAssumption == Lines \subseteq (0..15) \ {CASCADE} /\ NicLines \subseteq Lines

VARIABLES
  nic_irq,      \* nic_state.irq
  irr, isr,     \* request and in-service bits, line 8 and up of the second controller
  due,          \* lines whose device waits for its handler
  int_no,       \* the line irq_handler runs for
  irq_pc        \* "thread" outside irq_handler

irqVars == <<nic_irq, irr, isr, due, int_no, irq_pc>>

\* pic_remap resets both controllers and unmasks every line.
pic_remap ==
  /\ irr = {} /\ isr = {} /\ due = {} /\ int_no = 0 /\ irq_pc = "thread"

-----------------------------------------------------------------------------
(***************************************************************************)
(* The controllers: lower lines first, and none while one that is at least *)
(* as urgent is in service; the second controller hangs on line 2.         *)
(***************************************************************************)
MasterLine(l) == IF l >= 8 THEN CASCADE ELSE l
Presented(l) ==
  /\ \A m \in isr : m < 8 => m > MasterLine(l)
  /\ \A m \in isr : m >= 8 /\ l >= 8 => m > l
MoreUrgent(m, l) == MasterLine(m) < MasterLine(l) \/ (MasterLine(m) = MasterLine(l) /\ m < l)
Served(l) == isr \cup {l, MasterLine(l)}

device_requests(l) == irr' = irr \cup {l} /\ due' = due \cup {l} /\ UNCHANGED <<nic_irq, isr, int_no, irq_pc>>

Interrupted(l) == int_no' = l /\ irq_pc' = "entry" /\ UNCHANGED <<nic_irq, due>>

acknowledge(l) ==
  /\ irq_pc = "thread" /\ l \in irr /\ Presented(l)
  /\ \A m \in irr : Presented(m) => ~MoreUrgent(m, l)
  /\ irr' = irr \ {l} /\ isr' = Served(l) /\ Interrupted(l)

\* A disturbance on a line of the first controller, and of the second.
spurious_7 == irq_pc = "thread" /\ Presented(7) /\ Interrupted(7) /\ UNCHANGED <<irr, isr>>
spurious_15 ==
  /\ irq_pc = "thread" /\ Presented(15)
  /\ isr' = isr \cup {CASCADE} /\ Interrupted(15) /\ UNCHANGED irr

\* A non-specific end of interrupt clears the most urgent bit of that controller.
Eoi(bits) == IF bits = {} THEN {} ELSE bits \ {CHOOSE m \in bits : \A n \in bits : m <= n}
Master(bits) == {m \in bits : m < 8}
Slave(bits) == bits \ Master(bits)
EoiMaster(bits) == Eoi(Master(bits)) \cup Slave(bits)
EoiSlave(bits) == Master(bits) \cup Eoi(Slave(bits))

pic_send_eoi(irq, bits) == EoiMaster(IF irq >= 8 THEN EoiSlave(bits) ELSE bits)

-----------------------------------------------------------------------------
(***************************************************************************)
(* irq_handler.                                                            *)
(***************************************************************************)
pic_is_spurious_irq7 == 7 \notin isr
pic_is_spurious_irq15 == 15 \notin isr

Spurious == (int_no = 7 /\ pic_is_spurious_irq7) \/ (int_no = 15 /\ pic_is_spurious_irq15)

\* A spurious interrupt of the second controller is in service in the first.
MutNoCascadeEoi ==
  /\ irq_pc = "entry" /\ Spurious
  /\ UNCHANGED isr
  /\ irq_pc' = "thread" /\ UNCHANGED <<nic_irq, irr, due, int_no>>
dismiss ==
  /\ irq_pc = "entry" /\ Spurious
  /\ isr' = IF int_no = 15 THEN EoiMaster(isr) ELSE isr
  /\ irq_pc' = "thread" /\ UNCHANGED <<nic_irq, irr, due, int_no>>

accept ==
  /\ irq_pc = "entry" /\ ~Spurious
  /\ isr' = pic_send_eoi(int_no, isr)
  /\ irq_pc' = "handle" /\ UNCHANGED <<nic_irq, irr, due, int_no>>

\* The timer, the keyboard, the serial port and the mouse have a handler each;
\* nic_handle_irq is called for every line and looks at its own only.
Handled == {0, 1, 4, 12} \cup {nic_irq}

handle ==
  /\ irq_pc = "handle"
  /\ due' = due \ ({int_no} \cap Handled)
  /\ irq_pc' = "thread" /\ UNCHANGED <<nic_irq, irr, isr, int_no>>

IrqNext ==
  \/ \E l \in Lines : device_requests(l) \/ acknowledge(l)
  \/ spurious_7 \/ spurious_15 \/ dismiss \/ accept \/ handle

-----------------------------------------------------------------------------
\* Whenever irq_handler has returned, no in-service bit is left that would keep a
\* line from interrupting, and a device that waits has its request pending or its
\* handler about to run: no spurious interrupt, and no request that comes while
\* another is handled, silences a line.
NoLineSilenced ==
  /\ irq_pc = "thread" => isr = {}
  /\ due \cap Handled \subseteq irr \cup (IF irq_pc = "thread" THEN {} ELSE {int_no})
=============================================================================
