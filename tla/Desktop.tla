------------------------------- MODULE Desktop -------------------------------
(***************************************************************************)
(* The graphical desktop, cmd_gui of kernel/shell.c: a loop that polls the *)
(* keys, the mouse and its buttons, and draws.  It draws a square where    *)
(* the mouse is, while mouse_update_cursor of kernel/mouse.c, called when  *)
(* the keys are polled, draws the arrow it also draws over the shell and   *)
(* puts back what was there before.                                        *)
(*                                                                         *)
(* A place is as large as a pointer.  The mouse interrupt comes between    *)
(* any two steps of the loop.                                              *)
(***************************************************************************)
EXTENDS Integers

CONSTANTS
  Spots,                          \* places of the mouse
  OnCard,                         \* those on a card, which every redraw draws anew
  ExitButton, PingButton,         \* places
  MaxMoves, MaxPresses            \* bounds

VARIABLES
  spot, button, presses, moves,   \* the mouse, and what was done with it
  arrow_dirty,
  arrow_at, arrow_save,           \* the arrow's position, NOWHERE if not drawn, and saved pixels
  arrow_left,                     \* where it was erased last
  gui_pc, mx, prev_btn, full_redraw, last_m,
  picture,                        \* what each place shows
  clicks                          \* left_click was true

mouseHw == <<spot, button, presses, moves>>
arrow == <<arrow_at, arrow_save, arrow_left>>
desktopVars == <<spot, button, presses, moves, arrow_dirty, arrow, gui_pc, mx, prev_btn, full_redraw, last_m, picture, clicks>>

NOWHERE == "nowhere"

\* The shell's screen is there, with the arrow on it or not.
DesktopInit ==
  /\ button = FALSE /\ presses = 0 /\ moves = 0 /\ arrow_dirty = FALSE
  /\ picture = [p \in Spots |-> "shell"] /\ arrow_save = "shell" /\ arrow_left = NOWHERE
  /\ gui_pc = "poll" /\ mx = spot /\ prev_btn = FALSE /\ full_redraw = TRUE /\ last_m = NOWHERE /\ clicks = 0

-----------------------------------------------------------------------------
\* mouse_handler.
mouse_packet ==
  /\ gui_pc # "shell"
  /\ \/ moves < MaxMoves /\ moves' = moves + 1 /\ (\E p \in Spots \ {spot} : spot' = p) /\ arrow_dirty' = TRUE
        /\ UNCHANGED <<button, presses>>
     \/ ~button /\ presses < MaxPresses /\ presses' = presses + 1 /\ button' = TRUE /\ UNCHANGED <<spot, moves, arrow_dirty>>
     \/ button /\ button' = FALSE /\ UNCHANGED <<spot, moves, presses, arrow_dirty>>
  /\ UNCHANGED <<arrow, gui_pc, mx, prev_btn, full_redraw, last_m, picture, clicks>>

\* mouse_update_cursor erases the arrow and draws it at its new place.
Erased == IF arrow_at = NOWHERE THEN picture ELSE [picture EXCEPT ![arrow_at] = arrow_save]
MovesArrow ==
  IF arrow_dirty /\ arrow_at # spot
  THEN arrow_left' = arrow_at /\ arrow_save' = Erased[spot] /\ arrow_at' = spot /\ picture' = [Erased EXCEPT ![spot] = "arrow"]
  ELSE UNCHANGED <<arrow, picture>>

\* input_poll_event, and what a key does: leave, or ping.
poll ==
  /\ gui_pc = "poll" /\ arrow_dirty' = FALSE /\ MovesArrow
  /\ \/ gui_pc' = "place" /\ full_redraw' \in {full_redraw, TRUE}
     \/ gui_pc' = "leave" /\ UNCHANGED full_redraw
  /\ UNCHANGED <<mouseHw, mx, prev_btn, last_m, clicks>>

read_place ==
  /\ gui_pc = "place" /\ gui_pc' = "buttons" /\ mx' = spot
  /\ UNCHANGED <<mouseHw, arrow_dirty, arrow, prev_btn, full_redraw, last_m, picture, clicks>>

left_click == button /\ ~prev_btn
read_buttons ==
  /\ gui_pc = "buttons" /\ prev_btn' = button
  /\ clicks' = IF left_click THEN clicks + 1 ELSE clicks
  /\ gui_pc' = IF left_click /\ mx = ExitButton THEN "leave" ELSE "draw"
  /\ full_redraw' = (full_redraw \/ (left_click /\ mx = PingButton))
  /\ UNCHANGED <<mouseHw, arrow_dirty, arrow, mx, last_m, picture>>

\* Cards and square are drawn on top of what is there; a movement leaves the old
\* square to the full redraw that it asks for.
Drawn(full) == [p \in Spots |-> IF p = mx THEN "square" ELSE IF full \/ p \in OnCard THEN "desktop" ELSE picture[p]]
MutOldSquareStays ==
  /\ gui_pc = "draw" /\ gui_pc' = "poll"
  /\ \/ picture' = Drawn(full_redraw) /\ last_m' = mx /\ full_redraw' = FALSE
     \/ ~full_redraw /\ mx = last_m /\ UNCHANGED <<picture, last_m, full_redraw>>
  /\ UNCHANGED <<mouseHw, arrow_dirty, arrow, mx, prev_btn, clicks>>
redraw_desktop ==
  /\ gui_pc = "draw" /\ gui_pc' = "poll"
  /\ \/ picture' = Drawn(full_redraw) /\ last_m' = mx /\ full_redraw' = (last_m # mx)
     \/ ~full_redraw /\ mx = last_m /\ UNCHANGED <<picture, last_m, full_redraw>>
  /\ UNCHANGED <<mouseHw, arrow_dirty, arrow, mx, prev_btn, clicks>>

\* shell_clear.
leave ==
  /\ gui_pc = "leave" /\ gui_pc' = "shell" /\ picture' = [p \in Spots |-> "shell"]
  /\ UNCHANGED <<mouseHw, arrow_dirty, arrow, mx, prev_btn, full_redraw, last_m, clicks>>

DesktopNext == mouse_packet \/ poll \/ read_place \/ read_buttons \/ redraw_desktop \/ leave

-----------------------------------------------------------------------------
\* Once the mouse rests and the loop has nothing to redraw, the desktop shows one
\* pointer and no old square.  Only where the arrow was erased last may older pixels
\* stand: when the mouse went to and fro, the arrow follows after the last full redraw.
NoGhosts ==
  gui_pc = "poll" /\ ~full_redraw /\ ~arrow_dirty /\ last_m = spot =>
    /\ picture[spot] \in {"square", "arrow"}
    /\ \A p \in Spots \ {spot, arrow_left} : picture[p] = "desktop"

\* However long the button is held, a press is at most one click.
ClickedOnce == clicks <= presses

\* The desktop settles and counts clicks right.
DesktopSettles == NoGhosts /\ ClickedOnce
=============================================================================
