------------------------------ MODULE MCInput -------------------------------
(***************************************************************************)
(* Input with the history the properties below need, for TLC: what was     *)
(* typed, what became of it, and which keys are physically down.           *)
(***************************************************************************)
EXTENDS Input

ModifierKeys == {<<"E0", 0>>, <<"LSHIFT", 0>>, <<"LSHIFT", 1>>, <<"RSHIFT", 0>>, <<"RSHIFT", 1>>,
                 <<"CTRL", 0>>, <<"CTRL", 1>>, <<"NUM", 0>>, <<"CAPS", 0>>, <<"CAPS", 1>>,
                 <<"C", 0>>, <<"C", 1>>, <<"UP", 0>>, <<"ENTER", 0>>}

CONSTANT MaxBytes   \* bound: bytes that arrive on the line

VARIABLES
  source,   \* the device in use, "line" or "keyboard", each with its reader
  sent,     \* number of bytes that arrived
  typed,    \* bytes parsed so far; "quiet" marks an ESC found to be alone
  made,     \* events they were turned into
  held      \* modifier keys down

mcVars == <<vars, source, sent, typed, made, held>>

MCInit == Init /\ source \in {"line", "keyboard"} /\ sent = 0 /\ typed = <<>> /\ made = <<>> /\ held = {}

Events(pushes) == SelectSeq(pushes, LAMBDA p : p[1] = "event")
Values(pushes) == [i \in 1..Len(pushes) |-> pushes[i][2]]

TypedStep ==
  IF pc = "pop" /\ srx' # srx /\ ~IsEmpty(srx) /\ pc' # "pop" THEN <<Front(srx)>>
  ELSE IF pc = "bare_esc" /\ pc' = "push_next" THEN <<"quiet">>
  ELSE <<>>

Readers == IF source = "line" THEN {"input_poll_event"} ELSE {"keyboard_getchar", "keyboard_has_key"}

MCTask ==
  /\ TaskStep /\ fn' \in Readers \cup {NONE}
  /\ typed' = typed \o TypedStep
  /\ made' = IF TypedStep # <<>> THEN made \o Values(Events(todo')) ELSE made
  /\ UNCHANGED <<sent, held>>

MCKeyboard ==
  /\ source = "keyboard"
  /\ \E code \in Scancodes :
       /\ code[1] \in DOMAIN Modifier => (code[2] = 1 <=> code[1] \in held)
       /\ keyboard_handler(code)
       /\ held' = IF code[1] \notin DOMAIN Modifier THEN held
                  ELSE IF code[2] = 1 THEN held \ {code[1]} ELSE held \cup {code[1]}
  /\ UNCHANGED <<sent, typed, made>>

MCLine ==
  \/ /\ source = "line" /\ sent < MaxBytes /\ sent' = sent + 1
     /\ \E c \in Bytes : uart_receive(c)
     /\ UNCHANGED <<typed, made, held>>
  \/ /\ serial_irq_handler
     /\ UNCHANGED <<sent, typed, made, held>>

MCOther ==
  /\ keyboard_get_keycode \/ timer_handler
  /\ UNCHANGED <<sent, typed, made, held>>

MCNext == (MCTask \/ MCKeyboard \/ MCLine \/ MCOther) /\ UNCHANGED source

MCSpec == MCInit /\ [][MCNext]_mcVars

-----------------------------------------------------------------------------
\* Only the contents of a ring matter, not where in the buffer they lie; of the
\* task's push, where its copies of the head point relative to the tail.
Rel(i) == IF pc \in PushSteps THEN (i - Pushing.tail) % KB_BUFFER_SIZE ELSE 0
Written == IF pc = "push_head" THEN Pushing.buf[idx] ELSE NONE
InputView ==
  <<Entries("ascii"), Entries("event"), Contents(kc, KB_BUFFER_SIZE), Contents(srx, SERIAL_RX_RING_SIZE),
    Written, Rel(nxt), Rel(idx), fifo, mods, e0_prefix, ansi_state, ansi_param, pc, fn, todo,
    IF todo = <<>> THEN NONE ELSE ret>>
HistoryView == <<InputView, source, sent, typed, made, held>>

\* The grammar of what a terminal sends: characters, ESC [ digits final, a lone ESC.
RECURSIVE Decode(_)
Decode(s) ==
  IF s = <<>> THEN <<>>
  ELSE IF Head(s) # "ESC" THEN <<Cooked(Head(s))>> \o Decode(Tail(s))
  ELSE IF Len(s) = 1 THEN <<>>
  ELSE IF s[2] = "quiet" THEN <<"ESC">> \o Decode(SubSeq(s, 3, Len(s)))
  ELSE IF s[2] \notin {"[", "O"} THEN <<"ESC", Cooked(s[2])>> \o Decode(SubSeq(s, 3, Len(s)))
  ELSE LET finals == {i \in 3..Len(s) : s[i] \notin Digit}
       IN IF finals = {} THEN <<>>
          ELSE LET k == CHOOSE i \in finals : \A j \in finals : i <= j
                   keys == CASE s[k] = "~" -> <<TildeKey(s[k - 1])>>
                             [] s[k] \in DOMAIN FinalKey -> <<FinalKey[s[k]]>>
                             [] OTHER -> <<>>
               IN SelectSeq(keys, LAMBDA e : e # NONE) \o Decode(SubSeq(s, k + 1, Len(s)))

\* pump_serial_events turns every byte stream into the events of that grammar.
DecodesLine == made = Decode(typed)

\* Once every modifier key is up, no modifier is left set.
NoStuckModifier == held = {} => mods.shift = 0 /\ mods.ctrl = 0 /\ mods.alt = 0

=============================================================================
