-------------------------------- MODULE Mouse -------------------------------
(***************************************************************************)
(* kernel/mouse.c: mouse_init, which talks to the PS/2 controller with the *)
(* keyboard's port switched off and before interrupts are enabled, and     *)
(* mouse_handler, which puts packets together from the bytes of IRQ12.     *)
(* A wait for the controller may time out, and an answer of the mouse may  *)
(* come after the wait for it is over.                                     *)
(***************************************************************************)
EXTENDS Integers, Sequences

CONSTANTS
  Width, Height,           \* of the screen
  Deltas,                  \* movements to the right and up
  MaxJams,                 \* bound: waits for the controller that time out
  MaxLate                  \* bound: answers that come late

VARIABLES
  mpc, rate,               \* where mouse_init is, how many sample rate bytes are sent
  enable_mouse_irq, config,\* of ps2_restore_keyboard
  kbc,                     \* the controller's configuration byte
  dual,                    \* the controller has a second port
  out,                     \* bytes to be read from the controller
  jams, late,
  mouse, rates_ok,         \* what is connected; it understood the rate sequence
  streaming,               \* it sends packets
  present, packet_size, packet,
  sending,                 \* bytes under way
  pos, buttons,            \* pointer and buttons as the driver has them
  aim, pressed,            \* as they are, while driver and mouse are in step
  lost                     \* a byte did not arrive

initVars == <<mpc, rate, enable_mouse_irq, config, kbc, dual, out, jams, late, mouse, rates_ok>>
streamVars == <<packet, sending, pos, buttons, aim, pressed, lost>>
mouseVars == <<initVars, streaming, present, packet_size, streamVars>>

PS2_ACK == 250
Resend == 254
Bit(b, k) == (b \div 2^k) % 2
WithBit(b, k) == IF Bit(b, k) = 1 THEN b ELSE b + 2^k
WithoutBit(b, k) == IF Bit(b, k) = 1 THEN b - 2^k ELSE b
Irq1 == 0                  \* bits of the configuration byte
Irq12 == 1
Port1Off == 4
Port2Off == 5
Centre == [x |-> Width \div 2, y |-> Height \div 2]

MouseInit ==
  /\ mpc = "disable1" /\ rate = 0 /\ enable_mouse_irq = FALSE /\ config = 0
  /\ kbc = 101 /\ dual \in BOOLEAN /\ out = <<>> /\ jams = 0 /\ late = 0
  /\ mouse \in {"none", "plain", "wheel"} /\ rates_ok = TRUE
  /\ streaming = FALSE /\ present = FALSE /\ packet_size = 3 /\ packet = <<>> /\ sending = <<>>
  /\ pos = Centre /\ buttons = 0 /\ aim = Centre /\ pressed = 0 /\ lost = FALSE

-----------------------------------------------------------------------------
(***************************************************************************)
(* mouse_init.                                                             *)
(***************************************************************************)
At1(l) == mpc = l /\ UNCHANGED <<dual, mouse, streamVars>>
Jam == jams < MaxJams /\ jams' = jams + 1

\* ps2_restore_keyboard follows.
Restore(with_mouse) == mpc' = "read" /\ enable_mouse_irq' = with_mouse

\* A command to the controller itself: it changes the configuration byte.
Command(l, next, byte) ==
  /\ At1(l)
  /\ \/ kbc' = byte /\ mpc' = next /\ UNCHANGED <<jams, enable_mouse_irq>>
     \/ Jam /\ kbc' = kbc
        /\ IF l = "disable1" THEN mpc' = "done" /\ UNCHANGED enable_mouse_irq ELSE Restore(FALSE)
  /\ UNCHANGED <<rate, config, late, rates_ok, streaming, present, packet_size, out>>

disable_port1 == Command("disable1", "disable2", WithBit(kbc, Port1Off))
disable_port2 == Command("disable2", "enable2", WithBit(kbc, Port2Off))
enable_port2 == Command("enable2", "config", IF dual THEN WithoutBit(kbc, Port2Off) ELSE kbc)

\* ps2_read_config: the next byte to be read, which is the configuration unless an
\* answer of the mouse is still there; 0 after a timeout.
ReadConfig(v) ==
  \/ /\ v = Head(Append(out, kbc)) /\ out' = Tail(Append(out, kbc)) /\ UNCHANGED jams
  \/ /\ Jam /\ v = 0 /\ UNCHANGED out

test_port2 ==
  /\ At1("config")
  /\ \E v \in {kbc, 0} :
       /\ ReadConfig(v)
       /\ IF Bit(v, Port2Off) = 1 THEN Restore(FALSE) ELSE mpc' = "defaults" /\ UNCHANGED enable_mouse_irq
  /\ UNCHANGED <<rate, config, kbc, late, rates_ok, streaming, present, packet_size>>

\* mouse_send_cmd: what it returns, and whether the mouse did what it was told.
mouse_send_cmd(ok, obeyed) ==
  \/ Jam /\ ~ok /\ ~obeyed /\ UNCHANGED <<out, late>>
  \/ mouse = "none" /\ out = <<>> /\ ~ok /\ ~obeyed /\ UNCHANGED <<out, late, jams>>
  \/ \E answer \in {PS2_ACK, Resend} :
       /\ mouse # "none" /\ obeyed = (answer = PS2_ACK)
       /\ ok = (Head(Append(out, answer)) = PS2_ACK) /\ out' = Tail(Append(out, answer))
       /\ UNCHANGED <<late, jams>>
  \/ \E answer \in {PS2_ACK, Resend} :
       /\ mouse # "none" /\ out = <<>> /\ late < MaxLate
       /\ obeyed = (answer = PS2_ACK) /\ ~ok /\ out' = <<answer>> /\ late' = late + 1
       /\ UNCHANGED jams

set_defaults ==
  /\ At1("defaults")
  /\ \E ok, obeyed \in BOOLEAN :
       /\ mouse_send_cmd(ok, obeyed)
       /\ IF ok THEN mpc' = "rates" /\ UNCHANGED enable_mouse_irq ELSE Restore(FALSE)
  /\ UNCHANGED <<rate, config, kbc, rates_ok, streaming, present, packet_size>>

\* The bytes of the sample rate sequence, whose results do not matter here.
set_rates ==
  /\ At1("rates")
  /\ \E ok, obeyed \in BOOLEAN :
       mouse_send_cmd(ok, obeyed) /\ rates_ok' = IF rate < 6 THEN rates_ok /\ obeyed ELSE rates_ok
  /\ rate' = rate + 1
  /\ mpc' = CASE rate + 1 = 6 -> "id" [] rate + 1 = 8 -> "enable" [] OTHER -> "rates"
  /\ UNCHANGED <<enable_mouse_irq, config, kbc, streaming, present, packet_size>>

MouseId == IF mouse = "wheel" /\ rates_ok THEN 3 ELSE 0

SizeFor(id) == IF id \in {3, 4} THEN 4 ELSE 3

\* GET_DEV_ID: the identity follows the acknowledgement.
get_id ==
  /\ At1("id")
  /\ \E ok, obeyed \in BOOLEAN : mouse_send_cmd(ok, obeyed) /\ mpc' = IF ok THEN (IF obeyed THEN "idbyte" ELSE "stale") ELSE "rates"
  /\ UNCHANGED <<rate, enable_mouse_irq, config, kbc, rates_ok, streaming, present, packet_size>>

read_id ==
  /\ At1("idbyte") \/ At1("stale")
  /\ LET bytes == IF mpc = "idbyte" THEN Append(out, MouseId) ELSE out
     IN IF bytes = <<>> THEN UNCHANGED <<out, packet_size>>
        ELSE out' = Tail(bytes) /\ packet_size' = SizeFor(Head(bytes))
  /\ mpc' = "rates"
  /\ UNCHANGED <<rate, enable_mouse_irq, config, kbc, jams, late, rates_ok, streaming, present>>

enable ==
  /\ At1("enable")
  /\ \E ok, obeyed \in BOOLEAN : mouse_send_cmd(ok, obeyed) /\ streaming' = obeyed /\ Restore(ok)
  /\ UNCHANGED <<rate, config, kbc, rates_ok, present, packet_size>>

-----------------------------------------------------------------------------
(***************************************************************************)
(* ps2_restore_keyboard.                                                   *)
(***************************************************************************)
MutKeepsPort1Off(c) == IF enable_mouse_irq THEN WithoutBit(WithBit(WithBit(c, Irq1), Irq12), Port2Off) ELSE WithBit(c, Irq1)
Restored(c) ==
  LET kb == WithoutBit(WithBit(c, Irq1), Port1Off)
  IN IF enable_mouse_irq THEN WithoutBit(WithBit(kb, Irq12), Port2Off) ELSE kb

restore_read ==
  /\ At1("read")
  /\ \E v \in {kbc, 0, PS2_ACK, Resend, 3} : ReadConfig(v) /\ config' = Restored(v)
  /\ mpc' = "write"
  /\ UNCHANGED <<rate, enable_mouse_irq, kbc, late, rates_ok, streaming, present, packet_size>>

restore_write ==
  /\ At1("write")
  /\ \/ UNCHANGED jams /\ kbc' = IF dual THEN config ELSE WithBit(config, Port2Off)
     \/ Jam /\ UNCHANGED kbc
  /\ mpc' = "enable1"
  /\ UNCHANGED <<rate, enable_mouse_irq, config, late, out, rates_ok, streaming, present, packet_size>>

\* The port is enabled, what is left to read thrown away; mouse_init returns.
restore_enable ==
  /\ At1("enable1")
  /\ \/ kbc' = WithoutBit(kbc, Port1Off) /\ UNCHANGED jams
     \/ Jam /\ UNCHANGED kbc
  /\ out' = <<>> /\ present' = enable_mouse_irq /\ mpc' = "done"
  /\ rate' = 0 /\ config' = 0 /\ enable_mouse_irq' = FALSE
  /\ UNCHANGED <<late, rates_ok, streaming, packet_size>>

-----------------------------------------------------------------------------
(***************************************************************************)
(* Packets.                                                                *)
(***************************************************************************)
Clamp(v, size) == IF v < 0 THEN 0 ELSE IF v >= size THEN size - 1 ELSE v
Step2(p, dx, dy) == [x |-> Clamp(p.x + dx, Width), y |-> Clamp(p.y - dy, Height)]

\* Nothing has happened that could put driver and mouse out of step.
InStep == present /\ late = 0 /\ jams = 0 /\ ~lost

\* The mouse reports a movement, or that it was too large.  What it does after a
\* start that was not clean is left out.
mouse_moves ==
  /\ mpc = "done" /\ streaming /\ sending = <<>> /\ late = 0 /\ jams = 0
  /\ \E d \in Deltas, flags \in {0, 1, 64} :
       /\ sending' = <<8 + flags + (IF d.x < 0 THEN 16 ELSE 0) + (IF d.y < 0 THEN 32 ELSE 0),
                       d.x % 256, d.y % 256>> \o IF MouseId = 3 THEN <<0>> ELSE <<>>
       /\ aim' = IF flags = 64 \/ ~InStep THEN aim ELSE Step2(aim, d.x, d.y)
       /\ pressed' = IF InStep THEN flags % 8 ELSE 0
  /\ UNCHANGED <<initVars, streaming, present, packet_size, packet, pos, buttons, lost>>

Delta(first, byte, k) == IF Bit(first, k) = 1 THEN byte - 256 ELSE byte

mouse_handler ==
  /\ sending # <<>>
  /\ sending' = Tail(sending)
  /\ LET pkt == Append(packet, Head(sending))
     IN IF ~present \/ (packet = <<>> /\ Bit(Head(sending), 3) = 0) THEN UNCHANGED <<packet, pos, buttons>>
        ELSE IF Len(pkt) < packet_size THEN packet' = pkt /\ UNCHANGED <<pos, buttons>>
        ELSE /\ packet' = <<>> /\ buttons' = pkt[1] % 8
             /\ pos' = IF Bit(pkt[1], 6) + Bit(pkt[1], 7) > 0 THEN pos
                       ELSE Step2(pos, Delta(pkt[1], pkt[2], 4), Delta(pkt[1], pkt[3], 5))
  /\ UNCHANGED <<initVars, streaming, present, packet_size, aim, pressed, lost>>

lose_byte ==
  /\ sending # <<>>
  /\ sending' = Tail(sending) /\ lost' = TRUE /\ aim' = Centre /\ pressed' = 0
  /\ UNCHANGED <<initVars, streaming, present, packet_size, packet, pos, buttons>>

MouseNext ==
  \/ disable_port1 \/ disable_port2 \/ enable_port2 \/ test_port2 \/ set_defaults \/ set_rates
  \/ get_id \/ read_id \/ enable \/ restore_read \/ restore_write \/ restore_enable
  \/ mouse_moves \/ mouse_handler \/ lose_byte

MouseSpec == MouseInit /\ [][MouseNext]_mouseVars

-----------------------------------------------------------------------------
\* However mouse_init ends, the keyboard's port and interrupt are on again, even
\* if one wait for the controller timed out and the answer it read as the
\* configuration was the mouse's ("CRITICAL: Always re-enable PS/2 Port 1").
KeyboardRestored == mpc = "done" /\ jams <= 1 => Bit(kbc, Irq1) = 1 /\ Bit(kbc, Port1Off) = 0

\* If the driver counts on the mouse and no wait timed out, its port and interrupt
\* are on.
MouseConnected == present /\ jams = 0 => Bit(kbc, Irq12) = 1 /\ Bit(kbc, Port2Off) = 0

\* mouse_init leaves the controller with the keyboard on, and with the mouse on if it
\* was found.
PortsRestored == KeyboardRestored /\ MouseConnected

\* The pointer never leaves the screen, and, unless an answer came late, a wait
\* timed out or a byte was lost, it is where the movements put it, with the
\* buttons that are pressed.
PointerTracks ==
  /\ pos.x \in 0..(Width - 1) /\ pos.y \in 0..(Height - 1)
  /\ InStep /\ sending = <<>> => pos = aim /\ buttons = pressed

=============================================================================
