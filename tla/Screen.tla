------------------------------- MODULE Screen -------------------------------
(***************************************************************************)
(* The framebuffer console: the cells that kernel/shell.c keeps, the       *)
(* pixels that kernel/vbe.c draws of them, the block that marks the        *)
(* cursor, and the mouse pointer that kernel/mouse.c draws over it all and *)
(* takes away by putting back the pixels it saved.                         *)
(*                                                                         *)
(* One task draws.  The mouse interrupt moves the position at any time,    *)
(* also while the pointer is being drawn.  Colours are names.              *)
(***************************************************************************)
EXTENDS Integers

CONSTANTS
  fb_width, fb_height, FONT_WIDTH, FONT_HEIGHT, VBE_TOPBAR_HEIGHT,
  Glyph,                          \* the pixels of a character that are set
  POINTER_WIDTH, POINTER_HEIGHT,  \* MOUSE_CURSOR_WIDTH and HEIGHT
  Pointer,                        \* cursor_bitmap: the pixels of it that are set
  Places,                         \* positions the mouse moves to
  MaxDraws, MaxReports            \* bounds: what the console draws, movements

Pixel == (0..(fb_width - 1)) \X (0..(fb_height - 1))
Cols == fb_width \div FONT_WIDTH
Rows == (fb_height - VBE_TOPBAR_HEIGHT) \div FONT_HEIGHT
TextCell == (0..(Cols - 1)) \X (0..(Rows - 1))
NONE == <<-1, -1>>

VARIABLES
  draws, reports,                 \* how often the console drew and the mouse moved
  scr,                            \* pixels, cells, cursor, and where its block is drawn
  mouse_at, cursor_dirty,         \* mouse_state.x and y
  ptr_pc, ptr_x, ptr_y,           \* mouse_update_cursor and its locals
  cursor_visible, cursor_old, cursor_save

pointer == <<mouse_at, cursor_dirty, ptr_pc, ptr_x, ptr_y, cursor_visible, cursor_old, cursor_save>>
screenVars == <<draws, reports, scr, pointer>>
\* Without what is not read before it is written again.
screenView ==
  <<draws, reports, scr, mouse_at, cursor_dirty, ptr_pc, IF ptr_pc \in {"y", "draw"} THEN ptr_x ELSE 0, IF ptr_pc = "draw" THEN ptr_y ELSE 0,
    IF cursor_visible THEN <<cursor_old, cursor_save>> ELSE NONE>>

\* The pixels under a pointer at position at, clipped at the edges.
Under(at) == {p \in Pixel : p[1] \in at[1]..(at[1] + POINTER_WIDTH - 1) /\ p[2] \in at[2]..(at[2] + POINTER_HEIGHT - 1)}
Covered == IF cursor_visible THEN Under(cursor_old) ELSE {}

-----------------------------------------------------------------------------
(***************************************************************************)
(* Drawing.  What is drawn under the visible pointer will be overwritten   *)
(* by the older pixels it saved: those pixels are noted as stale.          *)
(***************************************************************************)
\* colour is a function of the pixel.
Paint(s, P, colour) ==
  [s EXCEPT !.fb = [p \in Pixel |-> IF p \in P THEN colour[p] ELSE s.fb[p]],
            !.stale = (@ \ P) \cup (P \cap Covered)]

CellOf(p) == <<p[1] \div FONT_WIDTH, (p[2] - VBE_TOPBAR_HEIGHT) \div FONT_HEIGHT>>
InCell(p) == p[2] >= VBE_TOPBAR_HEIGHT /\ CellOf(p) \in TextCell
PixelsOf(c) == {p \in Pixel : p[2] >= VBE_TOPBAR_HEIGHT /\ CellOf(p) = c}
\* vbe_draw_char.
Shade(ch, p, fg, bg) ==
  IF <<p[1] % FONT_WIDTH, (p[2] - VBE_TOPBAR_HEIGHT) % FONT_HEIGHT>> \in Glyph[ch] THEN fg ELSE bg

vbe_render_cell_raw(s, c) == Paint(s, PixelsOf(c), [p \in PixelsOf(c) |-> Shade(s.cells[c], p, "fg", "bg")])

vbe_undraw_cursor(s) == IF s.drawn = NONE THEN s ELSE [vbe_render_cell_raw(s, s.drawn) EXCEPT !.drawn = NONE]

vbe_draw_cursor_at(s, c) ==
  [Paint(s, PixelsOf(c), [p \in PixelsOf(c) |-> Shade(s.cells[c], p, "black", "gold")]) EXCEPT !.drawn = c]

console_put_cell(s, c, ch) ==
  vbe_render_cell_raw([s EXCEPT !.cells[c] = ch, !.drawn = IF @ = c THEN NONE ELSE @], c)

console_set_cursor(s, c, visible) ==
  LET t == vbe_undraw_cursor([s EXCEPT !.cur = c])
  IN IF visible THEN vbe_draw_cursor_at(t, c) ELSE t

console_refresh_topbar(s, clock) ==
  Paint([s EXCEPT !.bar = clock], {p \in Pixel : p[2] < VBE_TOPBAR_HEIGHT}, [p \in Pixel |-> clock])

console_clear_cells(s) ==
  LET blank == [s EXCEPT !.drawn = NONE, !.cells = [c \in TextCell |-> " "]]
      filled == Paint(blank, {p \in Pixel : p[2] >= VBE_TOPBAR_HEIGHT}, [p \in Pixel |-> "bg"])
  IN console_set_cursor(console_refresh_topbar(filled, s.bar), <<0, 0>>, TRUE)

\* vbe_scroll_region moves all pixels of the region, the pointer's too.
TextPixels == {p \in Pixel : p[2] \in VBE_TOPBAR_HEIGHT..(VBE_TOPBAR_HEIGHT + Rows * FONT_HEIGHT - 1)}
Below(p) == <<p[1], p[2] + FONT_HEIGHT>>
ScrolledPixels == {p \in TextPixels : Below(p) \in TextPixels}
vbe_scroll_region(s) ==
  LET moved == [s EXCEPT !.fb = [p \in Pixel |-> IF p \in ScrolledPixels THEN s.fb[Below(p)] ELSE s.fb[p]],
                         !.stale = (@ \ ScrolledPixels) \cup {p \in ScrolledPixels : Below(p) \in s.stale \cup Covered \/ p \in Covered}]
  IN Paint(moved, TextPixels \ ScrolledPixels, [p \in Pixel |-> "bg"])

MutKeepsBlock(s) ==
  vbe_scroll_region([s EXCEPT !.cells = [c \in TextCell |-> IF c[2] = Rows - 1 THEN " " ELSE s.cells[<<c[1], c[2] + 1>>]]])
console_scroll(s) ==
  LET t == vbe_undraw_cursor(s)
  IN vbe_scroll_region([t EXCEPT !.cells = [c \in TextCell |-> IF c[2] = Rows - 1 THEN " " ELSE s.cells[<<c[1], c[2] + 1>>]]])

\* console_write_char_color for a printable character, a newline and a backspace.
console_write_char_color(s, ch) ==
  LET t == vbe_undraw_cursor(s)
      x == s.cur[1]
      y == s.cur[2]
      back == IF x > 0 THEN <<x - 1, y>> ELSE IF y > 0 THEN <<Cols - 1, y - 1>> ELSE <<0, 0>>
      put == IF ch = "NL" THEN t ELSE IF ch = "BS" THEN console_put_cell(t, back, " ") ELSE console_put_cell(t, s.cur, ch)
      next == IF ch = "BS" THEN back ELSE IF ch = "NL" \/ x + 1 >= Cols THEN <<0, y + 1>> ELSE <<x + 1, y>>
  IN IF next[2] >= Rows THEN console_set_cursor(console_scroll(put), <<next[1], next[2] - 1>>, TRUE)
     ELSE console_set_cursor(put, next, TRUE)

\* redraw_input_line of a line of one cell, which scrolls when the line does not fit.
draw_input_line(s, ch, full) ==
  LET t == IF full THEN console_scroll(s) ELSE vbe_undraw_cursor(s)
  IN console_set_cursor(console_put_cell(t, s.cur, ch), s.cur, TRUE)

-----------------------------------------------------------------------------
Start == [fb |-> [p \in Pixel |-> "bg"], stale |-> {}, cells |-> [c \in TextCell |-> " "], cur |-> <<0, 0>>,
          drawn |-> NONE, bar |-> "1"]

ScreenInit ==
  /\ mouse_at = <<0, 0>> /\ cursor_dirty = TRUE /\ ptr_pc = "idle" /\ ptr_x = 0 /\ ptr_y = 0
  /\ cursor_visible = FALSE /\ cursor_old = <<0, 0>> /\ cursor_save = [p \in Under(<<0, 0>>) |-> "bg"]
  /\ draws = 0 /\ reports = 0 /\ scr = console_clear_cells(Start)

\* The shell draws when it is not updating the pointer.
Draws(s) ==
  /\ ptr_pc = "idle" /\ draws < MaxDraws
  /\ draws' = draws + 1 /\ scr' = s /\ UNCHANGED <<reports, pointer>>

\* A backspace writes the blank.
write_char == \E ch \in (DOMAIN Glyph \ {" "}) \cup {"NL", "BS"} : Draws(console_write_char_color(scr, ch))
\* Visible to edit a line or a file, hidden by cmd_top.
set_cursor == \/ \E c \in TextCell : Draws(console_set_cursor(scr, c, TRUE))
              \/ Draws(console_set_cursor(scr, <<0, 0>>, FALSE))
clear == Draws(console_clear_cells(scr))
refresh == \E clock \in {"1", "2"} \ {scr.bar} : Draws(console_refresh_topbar(scr, clock))
redraw == \E full \in BOOLEAN : Draws(draw_input_line(scr, "a", full))

\* mouse_handler.
mouse_reports ==
  /\ reports < MaxReports /\ reports' = reports + 1
  /\ \E at \in Places : at # mouse_at /\ mouse_at' = at
  /\ cursor_dirty' = TRUE
  /\ UNCHANGED <<draws, scr, ptr_pc, ptr_x, ptr_y, cursor_visible, cursor_old, cursor_save>>

-----------------------------------------------------------------------------
(***************************************************************************)
(* mouse_update_cursor.                                                    *)
(***************************************************************************)
mouse_update_cursor ==
  /\ ptr_pc = "idle" /\ cursor_dirty
  /\ cursor_dirty' = FALSE
  /\ ptr_pc' = IF cursor_visible /\ mouse_at = cursor_old THEN "idle" ELSE "erase"
  /\ UNCHANGED <<draws, reports, scr, mouse_at, ptr_x, ptr_y, cursor_visible, cursor_old, cursor_save>>

mouse_erase_cursor ==
  /\ ptr_pc = "erase" /\ ptr_pc' = "x"
  /\ cursor_visible' = FALSE
  /\ scr' = [scr EXCEPT !.fb = [p \in Pixel |-> IF p \in Covered THEN cursor_save[p] ELSE scr.fb[p]]]
  /\ UNCHANGED <<draws, reports, mouse_at, cursor_dirty, ptr_x, ptr_y, cursor_old, cursor_save>>

\* mouse_draw_cursor reads both coordinates anew, one after the other.
read_x ==
  /\ ptr_pc = "x" /\ ptr_pc' = "y" /\ ptr_x' = mouse_at[1]
  /\ UNCHANGED <<draws, reports, scr, mouse_at, cursor_dirty, ptr_y, cursor_visible, cursor_old, cursor_save>>
read_y ==
  /\ ptr_pc = "y" /\ ptr_pc' = "draw" /\ ptr_y' = mouse_at[2]
  /\ UNCHANGED <<draws, reports, scr, mouse_at, cursor_dirty, ptr_x, cursor_visible, cursor_old, cursor_save>>

Image(at) == {p \in Under(at) : <<p[1] - at[1], p[2] - at[2]>> \in Pointer}
MutPlaceReadAgain ==
  LET at == <<ptr_x, ptr_y>>
  IN /\ ptr_pc = "draw" /\ ptr_pc' = "idle"
     /\ cursor_save' = [p \in Under(mouse_at) |-> scr.fb[p]]
     /\ scr' = [scr EXCEPT !.fb = [p \in Pixel |-> IF p \in Image(at) THEN "pointer" ELSE scr.fb[p]]]
     /\ cursor_old' = mouse_at /\ cursor_visible' = TRUE
     /\ UNCHANGED <<draws, reports, mouse_at, cursor_dirty, ptr_x, ptr_y>>
mouse_draw_cursor ==
  LET at == <<ptr_x, ptr_y>>
  IN /\ ptr_pc = "draw" /\ ptr_pc' = "idle"
     /\ cursor_save' = [p \in Under(at) |-> scr.fb[p]]
     /\ scr' = [scr EXCEPT !.fb = [p \in Pixel |-> IF p \in Image(at) THEN "pointer" ELSE scr.fb[p]]]
     /\ cursor_old' = at /\ cursor_visible' = TRUE
     /\ UNCHANGED <<draws, reports, mouse_at, cursor_dirty, ptr_x, ptr_y>>

ScreenNext ==
  \/ write_char \/ set_cursor \/ clear \/ refresh \/ redraw
  \/ mouse_reports \/ mouse_update_cursor \/ mouse_erase_cursor \/ read_x \/ read_y \/ mouse_draw_cursor

-----------------------------------------------------------------------------
Shows(p) ==
  IF ~InCell(p) THEN IF p[2] < VBE_TOPBAR_HEIGHT THEN scr.bar ELSE "bg"
  ELSE LET c == CellOf(p)
       IN IF c = scr.drawn THEN Shade(scr.cells[c], p, "black", "gold") ELSE Shade(scr.cells[c], p, "fg", "bg")

\* Every pixel shows what the console's cells, its cursor block and the status bar
\* say, after any writing and scrolling, except under the pointer and where text was
\* drawn under it: the pointer leaves no other trace.
PixelsShowCells == \A p \in Pixel \ (Covered \cup scr.stale) : scr.fb[p] = Shows(p)

\* Once no movement is pending the pointer stands where the mouse is, although the
\* mouse moved while it was being drawn.
PointerSettles == ptr_pc = "idle" /\ ~cursor_dirty => cursor_visible /\ cursor_old = mouse_at

\* The framebuffer is the console with the pointer over it.
PictureCorrect == PixelsShowCells /\ PointerSettles
=============================================================================
