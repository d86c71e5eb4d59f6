-------------------------------- MODULE Input -------------------------------
(***************************************************************************)
(* Keyboard and serial input of kernel/keyboard.c and kernel/serial.c: the *)
(* interrupt handlers and the task that reads input share ring buffers.    *)
(*                                                                         *)
(* An interrupt handler, and a section between irq_save() and              *)
(* irq_restore(), is one action.  The rest of the reading task runs with   *)
(* interrupts enabled and is cut at every access to shared memory; pc is   *)
(* where it stands.  Its pushes of ring entries (todo) take five steps.    *)
(***************************************************************************)
EXTENDS Integers, Sequences

CONSTANTS
  KB_BUFFER_SIZE,       \* slots of the ASCII, keycode and event rings
  SERIAL_RX_RING_SIZE,  \* slots of the serial ring
  FIFO_DEPTH,           \* bytes the UART holds
  Scancodes,            \* <<key, released>> pairs the keyboard may send
  Bytes,                \* bytes that may arrive on the line
  Calls                 \* functions the reading task calls

ASSUME SizeAssumption ==
  /\ KB_BUFFER_SIZE \in Nat /\ KB_BUFFER_SIZE > 1
  /\ SERIAL_RX_RING_SIZE \in Nat /\ SERIAL_RX_RING_SIZE > 1
  /\ FIFO_DEPTH \in Nat

VARIABLES
  ring,       \* the rings "ascii" (key_buffer) and "event" (event_buffer)
  kc,         \* keycode_buffer
  srx,        \* serial_rx_ring
  fifo,       \* bytes in the UART
  mods,       \* kb_modifiers
  e0_prefix,
  ansi_state, ansi_param,
  pc,         \* where the reading task stands, "idle" between calls
  fn,         \* the function it called
  todo,       \* <<ring, value>> pairs it still has to push
  ret,        \* where it goes on after the pushes
  nxt, idx    \* its copies of the head in event_push and buffer_push

kbVars == <<mods, e0_prefix, kc>>
taskVars == <<ansi_state, ansi_param, pc, fn, todo, ret, nxt, idx>>
vars == <<ring, srx, fifo, kbVars, taskVars>>

NONE == "none"
EmptyRing(n) == [buf |-> [i \in 0..(n - 1) |-> NONE], head |-> 0, tail |-> 0]

\* keyboard_init, serial_init.
Init ==
  /\ ring = [r \in {"ascii", "event"} |-> EmptyRing(KB_BUFFER_SIZE)]
  /\ kc = EmptyRing(KB_BUFFER_SIZE)
  /\ srx = EmptyRing(SERIAL_RX_RING_SIZE)
  /\ fifo = <<>>
  /\ mods = [shift |-> 0, ctrl |-> 0, alt |-> 0, caps |-> 0, num |-> 1, scroll |-> 0]
  /\ e0_prefix = 0 /\ ansi_state = 0 /\ ansi_param = NONE
  /\ pc = "idle" /\ fn = NONE /\ todo = <<>> /\ ret = "idle" /\ nxt = 0 /\ idx = 0

-----------------------------------------------------------------------------
\* The rings: one slot stays empty, a push to a full ring is dropped.
MutNoWrap(i, n) == i + 1
After(i, n) == (i + 1) % n
IsEmpty(r) == r.head = r.tail

Push(r, x, n) ==
  IF After(r.head, n) = r.tail THEN r
  ELSE [r EXCEPT !.buf[r.head] = x, !.head = After(r.head, n)]

Front(r) == r.buf[r.tail]
Pop(r, n) == [r EXCEPT !.tail = After(r.tail, n)]
Contents(r, n) == [i \in 1..((r.head - r.tail) % n) |-> r.buf[(r.tail + i - 1) % n]]

-----------------------------------------------------------------------------
(***************************************************************************)
(* IRQ1.  A scancode is a key and its release bit; the table entries that  *)
(* the handler treats alike are represented by one key.                    *)
(***************************************************************************)
Modifier == [LSHIFT |-> "shift", RSHIFT |-> "shift", CTRL |-> "ctrl", ALT |-> "alt"]
Lock == [CAPS |-> "caps", NUM |-> "num", SCROLL |-> "scroll"]
Navigation == {"UP", "DOWN", "LEFT", "RIGHT", "HOME", "END", "DELETE", "PGUP", "PGDN"}

\* scancode_to_ascii, for a letter, a digit key, Enter and the keypad digits.
scancode_to_ascii(key) ==
  IF key = "C" THEN IF mods.ctrl = 1 THEN "^C" ELSE IF mods.shift # mods.caps THEN "C" ELSE "c"
  ELSE IF key = "1" THEN IF mods.shift = 1 THEN "!" ELSE "1"
  ELSE IF key = "ENTER" THEN "NL"
  ELSE IF key = "UP" THEN "8"
  ELSE NONE

\* What a pressed key puts into the rings.
KeyEntries(key) ==
  IF e0_prefix = 1
  THEN IF key = "ENTER" THEN [ascii |-> "NL", kc |-> NONE, event |-> "NL"]
       ELSE [ascii |-> NONE, kc |-> NONE, event |-> IF key \in Navigation THEN key ELSE NONE]
  ELSE IF (mods.num = 0 /\ key \in Navigation) \/ key \in {"F1", "F2"}
  THEN [ascii |-> NONE, kc |-> NONE, event |-> key]
  ELSE LET a == scancode_to_ascii(key) IN [ascii |-> a, kc |-> a, event |-> a]

PushIf(r, x) == IF x = NONE THEN r ELSE Push(r, x, KB_BUFFER_SIZE)

\* Every interrupt ends a hlt of the reading task.
Wake == pc' = IF pc = "halted" THEN "poll_rx" ELSE pc

ModifierSet(code) == [mods EXCEPT ![Modifier[code[1]]] = 1 - code[2]]

keyboard_handler(code) ==
  LET key == code[1]
      released == code[2] = 1
      e == KeyEntries(key)
  IN /\ e0_prefix' = IF key = "E0" THEN 1 ELSE 0
     /\ mods' = IF key \in DOMAIN Modifier THEN ModifierSet(code)
                ELSE IF key \in DOMAIN Lock /\ ~released
                THEN [mods EXCEPT ![Lock[key]] = 1 - mods[Lock[key]]]
                ELSE mods
     /\ IF released \/ key \in {"E0"} \cup DOMAIN Modifier \cup DOMAIN Lock
        THEN UNCHANGED <<ring, kc>>
        ELSE /\ ring' = [r \in DOMAIN ring |-> PushIf(ring[r], e[r])]
             /\ kc' = PushIf(kc, e.kc)
     /\ Wake
     /\ UNCHANGED <<srx, fifo, ansi_state, ansi_param, fn, todo, ret, nxt, idx>>

-----------------------------------------------------------------------------
(***************************************************************************)
(* The UART, IRQ4 and serial_pop_rx_char.                                  *)
(***************************************************************************)
uart_receive(c) ==
  /\ Len(fifo) < FIFO_DEPTH
  /\ fifo' = Append(fifo, c)
  /\ UNCHANGED <<ring, srx, kbVars, taskVars>>

\* The loop of serial_poll_rx and of serial_irq_handler.
Drained ==
  LET n == Len(fifo)
      f[i \in 0..n] == IF i = 0 THEN srx ELSE Push(f[i - 1], fifo[i], SERIAL_RX_RING_SIZE)
  IN f[n]

Drain == srx' = Drained /\ fifo' = <<>>

serial_irq_handler ==
  /\ fifo # <<>>
  /\ Drain
  /\ Wake
  /\ UNCHANGED <<ring, kbVars, ansi_state, ansi_param, fn, todo, ret, nxt, idx>>

\* IRQ0: for this component only the end of a hlt.
MutNoTick ==
  /\ pc = "halted" /\ fifo # <<>>
  /\ Wake
  /\ UNCHANGED <<ring, srx, fifo, kbVars, ansi_state, ansi_param, fn, todo, ret, nxt, idx>>
timer_handler ==
  /\ pc = "halted"
  /\ Wake
  /\ UNCHANGED <<ring, srx, fifo, kbVars, ansi_state, ansi_param, fn, todo, ret, nxt, idx>>

-----------------------------------------------------------------------------
(***************************************************************************)
(* The reading task.                                                       *)
(***************************************************************************)
call(f) ==
  /\ pc = "idle"
  /\ pc' = "poll_rx" /\ fn' = f
  /\ UNCHANGED <<ring, srx, fifo, kbVars, ansi_state, ansi_param, todo, ret, nxt, idx>>

serial_poll_rx ==
  /\ pc = "poll_rx"
  /\ Drain
  /\ pc' = "pop"
  /\ UNCHANGED <<ring, kbVars, ansi_state, ansi_param, fn, todo, ret, nxt, idx>>

\* pump_serial_events: carriage return and DEL are rewritten, VT100 sequences
\* become navigation keys.
Cooked(c) == CASE c = "CR" -> "NL" [] c = "DEL" -> "BS" [] OTHER -> c
Digit == {"0", "1", "2", "3", "4", "5", "6", "7", "8", "9"}
TildeKey(d) == CASE d \in {"1", "7"} -> "HOME" [] d = "3" -> "DELETE" [] d \in {"4", "8"} -> "END"
                 [] d = "5" -> "PGUP" [] d = "6" -> "PGDN" [] OTHER -> NONE
FinalKey == [A |-> "UP", B |-> "DOWN", C |-> "RIGHT", D |-> "LEFT", H |-> "HOME", F |-> "END"]

Plain(c) == <<<<"ascii", Cooked(c)>>, <<"event", Cooked(c)>>>>

MutKeepsParsing(c) ==
  IF ansi_state = 2 /\ c \in Digit THEN 2 ELSE IF c = "ESC" THEN 1 ELSE IF c \in {"[", "O"} THEN 2 ELSE 0
NextState(c) ==
  CASE ansi_state = 0 -> IF c = "ESC" THEN 1 ELSE 0
    [] ansi_state = 1 -> IF c \in {"[", "O"} THEN 2 ELSE 0
    [] ansi_state = 2 -> IF c \in Digit THEN 2 ELSE 0

Output(c) ==
  CASE ansi_state = 0 -> IF c = "ESC" THEN <<>> ELSE Plain(c)
    [] ansi_state = 1 -> IF c \in {"[", "O"} THEN <<>> ELSE <<<<"event", "ESC">>>> \o Plain(c)
    [] ansi_state = 2 -> IF c = "~" /\ TildeKey(ansi_param) # NONE THEN <<<<"event", TildeKey(ansi_param)>>>>
                         ELSE IF c \in DOMAIN FinalKey THEN <<<<"event", FinalKey[c]>>>>
                         ELSE <<>>

\* serial_pop_rx_char returned a byte, or nothing.
serial_pop_rx_char ==
  /\ pc = "pop" /\ ~IsEmpty(srx)
  /\ LET c == Front(srx)
     IN /\ ansi_state' = NextState(c)
        /\ ansi_param' = IF ansi_state = 1 /\ c \in {"[", "O"} THEN NONE
                         ELSE IF ansi_state = 2 /\ c \in Digit THEN c ELSE ansi_param
        /\ todo' = Output(c)
  /\ srx' = Pop(srx, SERIAL_RX_RING_SIZE)
  /\ ret' = "poll_rx"
  /\ pc' = IF todo' = <<>> THEN "poll_rx" ELSE "push_next"
  /\ UNCHANGED <<ring, fifo, kbVars, fn, nxt, idx>>

pump_done ==
  /\ pc = "pop" /\ IsEmpty(srx)
  /\ pc' = IF fn \in {"input_poll_event", "input_wait_event"} THEN "bare_esc" ELSE "take"
  /\ UNCHANGED <<ring, srx, fifo, kbVars, ansi_state, ansi_param, fn, todo, ret, nxt, idx>>

\* event_push and buffer_push, interrupts enabled.
Pushing == ring[todo[1][1]]
ToPush == todo[1][2]

push_next ==
  /\ pc = "push_next"
  /\ nxt' = After(Pushing.head, KB_BUFFER_SIZE)
  /\ pc' = "push_check"
  /\ UNCHANGED <<ring, srx, fifo, kbVars, ansi_state, ansi_param, fn, todo, ret, idx>>

push_return ==
  /\ todo' = Tail(todo) /\ pc' = IF Len(todo) > 1 THEN "push_next" ELSE ret
  /\ nxt' = 0 /\ idx' = 0

MutNoFullCheck ==
  /\ pc = "push_check"
  /\ pc' = "push_index"
  /\ UNCHANGED <<ring, srx, fifo, kbVars, ansi_state, ansi_param, fn, todo, ret, nxt, idx>>
push_check ==
  /\ pc = "push_check"
  /\ IF nxt # Pushing.tail THEN pc' = "push_index" /\ UNCHANGED <<todo, nxt, idx>> ELSE push_return
  /\ UNCHANGED <<ring, srx, fifo, kbVars, ansi_state, ansi_param, fn, ret>>

push_index ==
  /\ pc = "push_index"
  /\ idx' = Pushing.head
  /\ pc' = "push_store"
  /\ UNCHANGED <<ring, srx, fifo, kbVars, ansi_state, ansi_param, fn, todo, ret, nxt>>

push_store ==
  /\ pc = "push_store"
  /\ ring' = [ring EXCEPT ![todo[1][1]].buf[idx] = ToPush]
  /\ pc' = "push_head"
  /\ UNCHANGED <<srx, fifo, kbVars, ansi_state, ansi_param, fn, todo, ret, nxt, idx>>

push_head ==
  /\ pc = "push_head"
  /\ ring' = [ring EXCEPT ![todo[1][1]].head = nxt]
  /\ push_return
  /\ UNCHANGED <<srx, fifo, kbVars, ansi_state, ansi_param, fn, ret>>

\* An ESC with nothing behind it is the key itself.
bare_esc ==
  /\ pc = "bare_esc"
  /\ IF ansi_state = 1 /\ fifo = <<>>
     THEN /\ ansi_state' = 0
          /\ todo' = <<<<"event", "ESC">>>> /\ ret' = "take" /\ pc' = "push_next"
     ELSE pc' = "take" /\ UNCHANGED <<ansi_state, todo, ret>>
  /\ UNCHANGED <<ring, srx, fifo, kbVars, ansi_param, fn, nxt, idx>>

\* The locked tail of input_poll_event and of the getchar functions.
Wanted == IF fn \in {"input_poll_event", "input_wait_event"} THEN "event" ELSE "ascii"
Waits == fn \in {"input_wait_event", "keyboard_getchar"}

take ==
  /\ pc = "take"
  /\ IF fn = "keyboard_has_key" \/ IsEmpty(ring[Wanted])
     THEN ring' = ring /\ pc' = IF Waits THEN "hlt" ELSE "idle"
     ELSE ring' = [ring EXCEPT ![Wanted] = Pop(@, KB_BUFFER_SIZE)] /\ pc' = "idle"
  /\ fn' = IF pc' = "idle" THEN NONE ELSE fn
  /\ UNCHANGED <<srx, fifo, kbVars, ansi_state, ansi_param, todo, ret, nxt, idx>>

\* The hlt of input_wait_event and keyboard_getchar.
hlt ==
  /\ pc = "hlt"
  /\ pc' = "halted"
  /\ UNCHANGED <<ring, srx, fifo, kbVars, ansi_state, ansi_param, fn, todo, ret, nxt, idx>>

keyboard_get_keycode ==
  /\ pc = "idle" /\ ~IsEmpty(kc)
  /\ kc' = Pop(kc, KB_BUFFER_SIZE)
  /\ UNCHANGED <<ring, srx, fifo, mods, e0_prefix, taskVars>>

-----------------------------------------------------------------------------
TaskStep ==
  \/ \E f \in Calls : call(f)
  \/ serial_poll_rx \/ serial_pop_rx_char \/ pump_done \/ bare_esc \/ take \/ hlt
  \/ push_next \/ push_check \/ push_index \/ push_store \/ push_head

\* Everything but the readers of keycode_buffer.
RingStep ==
  \/ TaskStep
  \/ \E code \in Scancodes : keyboard_handler(code)
  \/ \E c \in Bytes : uart_receive(c)
  \/ serial_irq_handler \/ timer_handler

Next == RingStep \/ keyboard_get_keycode

Spec == Init /\ [][Next]_vars

\* The reading task is scheduled and the timer ticks.
Fairness == WF_vars(TaskStep) /\ WF_vars(timer_handler)

-----------------------------------------------------------------------------
RingOf(n, V) == [buf : [0..(n - 1) -> V], head : 0..(n - 1), tail : 0..(n - 1)]
PushSteps == {"push_check", "push_index", "push_store", "push_head"}

\* Type correctness; in particular no ring index ever leaves its ring.
TypeOK ==
  /\ ring \in [{"ascii", "event"} -> RingOf(KB_BUFFER_SIZE, STRING)]
  /\ kc \in RingOf(KB_BUFFER_SIZE, STRING)
  /\ srx \in RingOf(SERIAL_RX_RING_SIZE, STRING)
  /\ fifo \in Seq(Bytes) /\ Len(fifo) <= FIFO_DEPTH
  /\ mods \in [{"shift", "ctrl", "alt", "caps", "num", "scroll"} -> 0..1] /\ e0_prefix \in 0..1
  /\ ansi_state \in 0..2 /\ ansi_param \in Digit \cup {NONE}
  /\ pc \in {"idle", "poll_rx", "pop", "bare_esc", "take", "hlt", "halted", "push_next"} \cup PushSteps
  /\ fn \in Calls \cup {NONE}
  /\ todo \in Seq({"ascii", "event"} \X STRING) /\ (pc \in PushSteps \cup {"push_next"} => todo # <<>>)
  /\ ret \in {"idle", "poll_rx", "take"}
  /\ nxt \in 0..(KB_BUFFER_SIZE - 1) /\ idx \in 0..(KB_BUFFER_SIZE - 1)

Entries(r) == Contents(ring[r], KB_BUFFER_SIZE)

\* The entries of a ring that were there when the task began its push, if it is
\* pushing to that ring.
Settled(r) ==
  IF pc \in PushSteps /\ todo[1][1] = r
  THEN SubSeq(Entries(r), 1, (nxt - 1 - ring[r].tail) % KB_BUFFER_SIZE)
  ELSE Entries(r)

IsPrefixOf(s, t) == Len(s) <= Len(t) /\ SubSeq(t, 1, Len(s)) = s

\* The unlocked push of the task, however IRQ1 cuts into it, never harms the keys
\* that were in the ring before it began: they stay, in order, until read.
SettledKept ==
  \A r \in {"ascii", "event"} :
    \/ IsPrefixOf(Settled(r), Entries(r)')
    \/ pc = "take" /\ Entries(r) # <<>> /\ Entries(r)' = Tail(Entries(r))

\* A ring keeps its keys: its indices stay in it and settled entries stay in place.
KeysKept == [][TypeOK' /\ SettledKept]_vars

Line == Contents(srx, SERIAL_RX_RING_SIZE) \o fifo


\* An event in the ring ends input_wait_event, also when it comes between the check
\* of the ring and the hlt, unless the line keeps pump_serial_events busy for ever.
WaitReturns ==
  <>[](fifo = <<>>) => (fn = "input_wait_event" /\ Entries("event") # <<>> ~> pc = "idle")
=============================================================================
