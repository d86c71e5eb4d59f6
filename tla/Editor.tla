------------------------------- MODULE Editor -------------------------------
(***************************************************************************)
(* The full-screen editor of kernel/editor.c.  An action is a key with the *)
(* redrawing that follows it.                                              *)
(***************************************************************************)
EXTENDS Integers, Sequences

CONSTANTS
  EDITOR_MAX_BUF,
  console_cols, console_rows,
  EdChars,                 \* characters that can be typed, "NL" and " " among them
  FileContents             \* contents the file may have at first

VARIABLES
  ed_open,                 \* editor_open runs
  ed_buf, ed_cursor,       \* len is the length of buf
  row_offset, col_offset,
  dirty, quit_confirm,
  file,                    \* contents of the file, or NoFile
  stored,                  \* what was last read from or written to the file
  warned                   \* the last change was followed by a warning

view == <<row_offset, col_offset>>
edVars == <<ed_open, ed_buf, ed_cursor, view, dirty, quit_confirm, file, stored, warned>>

NoFile == <<"no file">>
body_rows == IF console_rows - 2 < 1 THEN 1 ELSE console_rows - 2
MinNum(a, b) == IF a < b THEN a ELSE b

EdInit ==
  /\ ed_open = FALSE /\ ed_buf = <<>> /\ ed_cursor = 0 /\ row_offset = 0 /\ col_offset = 0
  /\ dirty = FALSE /\ quit_confirm = FALSE
  /\ file \in FileContents \cup {NoFile} /\ stored = <<>> /\ warned = FALSE

-----------------------------------------------------------------------------
(***************************************************************************)
(* Lines and columns.                                                      *)
(***************************************************************************)
Newlines(buf) == {i \in 1..Len(buf) : buf[i] = "NL"}
CountIn(S, hi) == Len(SelectSeq([i \in 1..hi |-> i], LAMBDA i : i \in S))
LineOf(buf, pos) == CountIn(Newlines(buf), pos)
editor_total_lines(buf) == LineOf(buf, Len(buf)) + 1

editor_line_start(buf, line) ==
  IF line <= 0 THEN 0
  ELSE LET starts == {i \in Newlines(buf) : LineOf(buf, i) = line}
       IN IF starts = {} THEN Len(buf) ELSE CHOOSE i \in starts : TRUE

editor_line_end(buf, start) ==
  CHOOSE e \in start..Len(buf) :
    /\ e = Len(buf) \/ buf[e + 1] = "NL"
    /\ \A i \in (start + 1)..e : buf[i] # "NL"

ColOf(buf, pos) == pos - editor_line_start(buf, LineOf(buf, pos))

-----------------------------------------------------------------------------
(***************************************************************************)
(* editor_render scrolls until the cursor is in the window and draws it.   *)
(***************************************************************************)
MutScrollsLate(offset, pos, size) ==
  IF pos < offset THEN pos ELSE IF pos > offset + size THEN pos - size + 1 ELSE offset
Scrolled(offset, pos, size) ==
  IF pos < offset THEN pos ELSE IF pos >= offset + size THEN pos - size + 1 ELSE offset

editor_render(buf, cursor) ==
  /\ ed_buf' = buf /\ ed_cursor' = cursor
  /\ row_offset' = Scrolled(row_offset, LineOf(buf, cursor), body_rows)
  /\ col_offset' = Scrolled(col_offset, ColOf(buf, cursor), console_cols)

\* Where the drawing of row r starts in the buffer: behind the end of the line
\* above it.
RowStart ==
  LET pos[r \in 0..body_rows] ==
        IF r = 0 THEN editor_line_start(ed_buf, row_offset)
        ELSE LET end == editor_line_end(ed_buf, pos[r - 1])
             IN IF end < Len(ed_buf) THEN end + 1 ELSE Len(ed_buf)
  IN pos

Cell(r, c) ==
  LET start == RowStart[r]
  IN IF row_offset + r >= editor_total_lines(ed_buf) THEN IF c = 0 THEN "~" ELSE " "
     ELSE IF col_offset + c < editor_line_end(ed_buf, start) - start THEN ed_buf[start + col_offset + c + 1]
     ELSE " "

-----------------------------------------------------------------------------
(***************************************************************************)
(* Keys.                                                                   *)
(***************************************************************************)
\* The file is read as far as the buffer goes, cannot be read, or is new.
editor_open ==
  /\ ~ed_open
  /\ ed_open' = TRUE /\ dirty' = FALSE /\ quit_confirm' = FALSE /\ warned' = FALSE
  /\ \E text \in {IF file = NoFile THEN <<>> ELSE SubSeq(file, 1, MinNum(Len(file), EDITOR_MAX_BUF - 1)), <<>>} :
       ed_buf' = text /\ stored' = text
  /\ ed_cursor' = 0 /\ row_offset' = 0 /\ col_offset' = 0
  /\ UNCHANGED file

Changed(buf, cursor) ==
  /\ ed_open
  /\ editor_render(buf, cursor)
  /\ dirty' = TRUE /\ quit_confirm' = FALSE /\ warned' = FALSE
  /\ UNCHANGED <<ed_open, file, stored>>

Moved(cursor) ==
  /\ ed_open
  /\ editor_render(ed_buf, cursor)
  /\ UNCHANGED <<ed_open, dirty, quit_confirm, file, stored, warned>>

\* n times the character, as far as there is room.
MutKeepsConfirm(ch, n) ==
  LET m == MinNum(n, EDITOR_MAX_BUF - 1 - Len(ed_buf))
      new == SubSeq(ed_buf, 1, ed_cursor) \o [i \in 1..m |-> ch] \o SubSeq(ed_buf, ed_cursor + 1, Len(ed_buf))
  IN /\ ed_open /\ m > 0 /\ editor_render(new, ed_cursor + m)
     /\ dirty' = TRUE /\ warned' = FALSE
     /\ UNCHANGED <<ed_open, quit_confirm, file, stored>>
editor_insert_char(ch, n) ==
  LET m == MinNum(n, EDITOR_MAX_BUF - 1 - Len(ed_buf))
  IN IF m = 0 THEN Moved(ed_cursor)
     ELSE Changed(SubSeq(ed_buf, 1, ed_cursor) \o [i \in 1..m |-> ch]
                    \o SubSeq(ed_buf, ed_cursor + 1, Len(ed_buf)), ed_cursor + m)

editor_backspace ==
  /\ ed_cursor > 0
  /\ Changed(SubSeq(ed_buf, 1, ed_cursor - 1) \o SubSeq(ed_buf, ed_cursor + 1, Len(ed_buf)), ed_cursor - 1)

editor_delete ==
  /\ ed_cursor < Len(ed_buf)
  /\ Changed(SubSeq(ed_buf, 1, ed_cursor) \o SubSeq(ed_buf, ed_cursor + 2, Len(ed_buf)), ed_cursor)

\* Up and Down, PgUp and PgDn.
editor_move_vertical(delta) ==
  LET total == editor_total_lines(ed_buf)
      target == LineOf(ed_buf, ed_cursor) + delta
      line == IF target < 0 THEN 0 ELSE IF target >= total THEN total - 1 ELSE target
      start == editor_line_start(ed_buf, line)
      len == editor_line_end(ed_buf, start) - start
  IN Moved(start + MinNum(ColOf(ed_buf, ed_cursor), len))

\* Left, Right, Home and End.
move_in_line ==
  \E pos \in {ed_cursor - 1, ed_cursor + 1, ed_cursor - ColOf(ed_buf, ed_cursor),
              editor_line_end(ed_buf, ed_cursor - ColOf(ed_buf, ed_cursor))} :
    pos \in 0..Len(ed_buf) /\ Moved(pos)

save ==
  /\ ed_open
  /\ file' = ed_buf /\ stored' = ed_buf /\ dirty' = FALSE /\ quit_confirm' = FALSE
  /\ editor_render(ed_buf, ed_cursor)
  /\ UNCHANGED <<ed_open, warned>>

save_fails == Moved(ed_cursor)

\* ^Q or Escape.
quit ==
  /\ ed_open
  /\ IF dirty /\ ~quit_confirm
     THEN /\ quit_confirm' = TRUE /\ warned' = TRUE /\ editor_render(ed_buf, ed_cursor)
          /\ UNCHANGED ed_open
     ELSE ed_open' = FALSE /\ UNCHANGED <<quit_confirm, warned, ed_buf, ed_cursor, view>>
  /\ UNCHANGED <<dirty, file, stored>>

EdNext ==
  \/ editor_open \/ save \/ save_fails \/ quit
  \/ \E ch \in EdChars : editor_insert_char(ch, IF ch = " " THEN 4 ELSE 1)
  \/ editor_backspace \/ editor_delete \/ move_in_line
  \/ \E delta \in {-1, 1, 3 - console_rows, console_rows - 3} : editor_move_vertical(delta)

EdSpec == EdInit /\ [][EdNext]_edVars

-----------------------------------------------------------------------------
\* The editor closes over unsaved changes only after it has warned of them: no
\* change since the warning.
WarnsBeforeLoss == ~ed_open /\ ed_buf # stored => warned

\* The buffer keeps room for its terminating zero, and the text that counts as
\* saved is what the file was given or gave.
CleanMeansStored == Len(ed_buf) < EDITOR_MAX_BUF /\ (~dirty => ed_buf = stored)

\* No change is lost without a warning: the dirty flag tells the truth and leaving
\* with changes needs a confirmation given after the last of them.
NoSilentLoss == WarnsBeforeLoss /\ CleanMeansStored

\* The line with number k, without its end.
TextLine(k) ==
  LET last == {i \in Newlines(ed_buf) : LineOf(ed_buf, i) = k}
      next == {i \in Newlines(ed_buf) : LineOf(ed_buf, i) = k + 1}
      from == IF k = 0 THEN 0 ELSE CHOOSE i \in last : TRUE
      to == IF next = {} THEN Len(ed_buf) ELSE (CHOOSE i \in next : TRUE) - 1
  IN SubSeq(ed_buf, from + 1, to)

\* The window shows the right part of the right lines, and the cursor is in it, at
\* the character it stands before, whatever was scrolled, inserted or deleted.
WindowCorrect ==
  ed_open =>
    LET y == LineOf(ed_buf, ed_cursor) - row_offset
        x == ColOf(ed_buf, ed_cursor) - col_offset
    IN /\ y \in 0..(body_rows - 1) /\ x \in 0..(console_cols - 1)
       /\ \A r \in 0..(body_rows - 1), c \in 0..(console_cols - 1) :
            row_offset + r < editor_total_lines(ed_buf) =>
              LET line == TextLine(row_offset + r)
              IN Cell(r, c) = IF col_offset + c < Len(line) THEN line[col_offset + c + 1] ELSE " "

\* What is seen is what is stored or warned about: text, dirty flag and window agree.
EditorCorrect == NoSilentLoss /\ WindowCorrect
=============================================================================
