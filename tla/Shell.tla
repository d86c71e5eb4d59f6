-------------------------------- MODULE Shell -------------------------------
(***************************************************************************)
(* The command line of kernel/shell.c: the console grid, the line editor,  *)
(* the history and the redrawing of the line that is being typed.          *)
(*                                                                         *)
(* Of the commands only what they print matters here.  Colours, the serial *)
(* mirror and the drawn cursor block are left out.                         *)
(***************************************************************************)
EXTENDS Integers, Sequences

CONSTANTS
  con_cols, con_rows,
  CMD_BUF_MAX, HISTORY_MAX,
  Chars,                   \* printable characters
  Prompt,                  \* the characters of the prompt
  Outputs,                 \* what commands may print
  Completion               \* what Tab may add: a set of strings of characters

ASSUME ShellAssumption ==
  /\ con_cols \in Nat /\ con_rows \in Nat
  \* the longest line with the prompt at its worst place fits on the screen
  /\ con_cols + CMD_BUF_MAX <= con_cols * con_rows

VARIABLES
  grid, cur_x, cur_y,      \* shadow_grid and the cursor
  prompt_col, prompt_row,
  cmd_buf, cmd_cursor,     \* cmd_len is the length of cmd_buf
  history, history_nav     \* history_nav is 0 for the -1 of the code

shellVars == <<grid, cur_x, cur_y, prompt_col, prompt_row, cmd_buf, cmd_cursor, history, history_nav>>

Blanks == [c \in 0..(con_cols - 1) |-> " "]
Screen == [grid |-> grid, x |-> cur_x, y |-> cur_y]

-----------------------------------------------------------------------------
(***************************************************************************)
(* The console.                                                            *)
(***************************************************************************)
console_scroll_up(g) == [r \in 0..(con_rows - 1) |-> IF r < con_rows - 1 THEN g[r + 1] ELSE Blanks]

put_cell(g, c, r, ch) == IF c \in 0..(con_cols - 1) /\ r \in 0..(con_rows - 1) THEN [g EXCEPT ![r][c] = ch] ELSE g

console_write_char(s, ch) ==
  LET t == IF ch = "NL" THEN [s EXCEPT !.x = 0, !.y = @ + 1]
           ELSE IF s.x + 1 >= con_cols THEN [grid |-> put_cell(s.grid, s.x, s.y, ch), x |-> 0, y |-> s.y + 1]
           ELSE [grid |-> put_cell(s.grid, s.x, s.y, ch), x |-> s.x + 1, y |-> s.y]
  IN IF t.y >= con_rows THEN [t EXCEPT !.grid = console_scroll_up(t.grid), !.y = @ - 1] ELSE t

shell_print(s, text) ==
  LET f[i \in 0..Len(text)] == IF i = 0 THEN s ELSE console_write_char(f[i - 1], text[i])
  IN f[Len(text)]

shell_clear == [grid |-> [r \in 0..(con_rows - 1) |-> Blanks], x |-> 0, y |-> 0]

-----------------------------------------------------------------------------
(***************************************************************************)
(* redraw_input_line: scroll until line, erased rest and cursor fit, write *)
(* the line, blank what is left of the previous one, place the cursor.     *)
(***************************************************************************)
MutNoCursorCell(col, drawn) == (col + drawn + con_cols - 1) \div con_cols
needed_rows(col, drawn) == (col + drawn + 1 + con_cols - 1) \div con_cols

\* The result for line buf, cursor at cur, prompt ending at column col of row row.
redraw_input_line(g, col, row, buf, cur, prev_len) ==
  LET drawn == IF Len(buf) > prev_len THEN Len(buf) ELSE prev_len
      over == row + needed_rows(col, drawn) - con_rows
      scroll[k \in 0..con_rows] == IF k = 0 THEN g ELSE console_scroll_up(scroll[k - 1])
      up == IF over > 0 THEN over ELSE 0
      draw[i \in 0..drawn] ==
        IF i = 0 THEN scroll[up]
        ELSE put_cell(draw[i - 1], (col + i - 1) % con_cols, row - up + ((col + i - 1) \div con_cols),
                      IF i <= Len(buf) THEN buf[i] ELSE " ")
  IN [grid |-> draw[drawn], row |-> row - up,
      x |-> (col + cur) % con_cols, y |-> row - up + ((col + cur) \div con_cols)]

\* The line is now buf with the cursor at cur; the console is redrawn.
Redraw(g, col, row, buf, cur, prev_len) ==
  LET r == redraw_input_line(g, col, row, buf, cur, prev_len)
  IN /\ grid' = r.grid /\ cur_x' = r.x /\ cur_y' = r.y
     /\ prompt_col' = col /\ prompt_row' = r.row
     /\ cmd_buf' = buf /\ cmd_cursor' = cur

MutForgetsLength(buf, cur) == Redraw(grid, prompt_col, prompt_row, buf, cur, Len(buf))
Edit(buf, cur) == Redraw(grid, prompt_col, prompt_row, buf, cur, Len(cmd_buf))

\* Text is printed after the line, then the prompt; the line is buf from now on.
Reprompt(s, text, buf, cur) ==
  LET t == shell_print(shell_print(s, text), Prompt)
  IN Redraw(t.grid, t.x, t.y, buf, cur, 0)

\* What redraw_input_line(prev_len) with the cursor behind the line leaves.
AtEnd ==
  LET r == redraw_input_line(grid, prompt_col, prompt_row, cmd_buf, Len(cmd_buf), Len(cmd_buf))
  IN [grid |-> r.grid, x |-> r.x, y |-> r.y]

ShellInit ==
  LET t == shell_print(shell_clear, Prompt)
  IN /\ grid = t.grid /\ cur_x = t.x /\ cur_y = t.y /\ prompt_col = t.x /\ prompt_row = t.y
     /\ cmd_buf = <<>> /\ cmd_cursor = 0 /\ history = <<>> /\ history_nav = 0

-----------------------------------------------------------------------------
(***************************************************************************)
(* shell_handle_event.                                                     *)
(***************************************************************************)
Before == SubSeq(cmd_buf, 1, cmd_cursor)
After(k) == SubSeq(cmd_buf, cmd_cursor + k, Len(cmd_buf))

history_push(line) ==
  IF line = <<>> \/ (history # <<>> /\ history[Len(history)] = line) THEN history
  ELSE IF Len(history) < HISTORY_MAX THEN Append(history, line)
  ELSE Append(Tail(history), line)

\* Enter: the command prints something.
enter ==
  /\ \E text \in Outputs : Reprompt(AtEnd, <<"NL">> \o text, <<>>, 0)
  /\ history' = history_push(cmd_buf) /\ history_nav' = 0

ctrl_c ==
  /\ Reprompt(AtEnd, <<"^", "C", "NL">>, <<>>, 0)
  /\ history_nav' = 0 /\ UNCHANGED history

ctrl_l ==
  /\ Reprompt(shell_clear, <<>>, cmd_buf, cmd_cursor)
  /\ UNCHANGED <<history, history_nav>>

backspace ==
  /\ cmd_cursor > 0
  /\ Edit(SubSeq(cmd_buf, 1, cmd_cursor - 1) \o After(1), cmd_cursor - 1)
  /\ UNCHANGED <<history, history_nav>>

delete ==
  /\ cmd_cursor < Len(cmd_buf)
  /\ Edit(Before \o After(2), cmd_cursor)
  /\ UNCHANGED <<history, history_nav>>

\* Left, Right, Home and End.
move ==
  /\ \E cur \in {cmd_cursor - 1, cmd_cursor + 1, 0, Len(cmd_buf)} :
       cur \in 0..Len(cmd_buf) /\ Edit(cmd_buf, cur)
  /\ UNCHANGED <<history, history_nav>>

Older == IF history_nav = 0 THEN Len(history) ELSE IF history_nav > 1 THEN history_nav - 1 ELSE 1

up ==
  /\ history # <<>>
  /\ history_nav' = Older
  /\ Edit(history[history_nav'], Len(history[history_nav']))
  /\ UNCHANGED history

down ==
  /\ history_nav > 0
  /\ IF history_nav < Len(history)
     THEN history_nav' = history_nav + 1 /\ Edit(history[history_nav'], Len(history[history_nav']))
     ELSE history_nav' = 0 /\ Edit(<<>>, 0)
  /\ UNCHANGED history

\* Tab with one match adds to the word, and a space at the end of the line.
tab_one ==
  /\ \E add \in Completion :
       LET space == IF After(1) = <<>> /\ Len(cmd_buf) + Len(add) + 1 < CMD_BUF_MAX THEN <<" ">> ELSE <<>>
       IN /\ Len(cmd_buf) + Len(add) + 2 < CMD_BUF_MAX
          /\ Edit(Before \o add \o space \o After(1), cmd_cursor + Len(add) + Len(space))
  /\ UNCHANGED <<history, history_nav>>

\* Tab with several matches, whose common part it adds, and F1 print below the
\* cursor, wherever in the line that is.
below ==
  /\ \E add \in Completion \cup {<<>>}, text \in Outputs :
       /\ add = <<>> \/ Len(cmd_buf) + Len(add) + 1 < CMD_BUF_MAX
       /\ Reprompt(Screen, <<"NL">> \o text, Before \o add \o After(1), cmd_cursor + Len(add))
  /\ UNCHANGED <<history, history_nav>>

type ==
  /\ Len(cmd_buf) < CMD_BUF_MAX - 1
  /\ \E ch \in Chars : Edit(Append(Before, ch) \o After(1), cmd_cursor + 1)
  /\ UNCHANGED <<history, history_nav>>

ShellNext ==
  enter \/ ctrl_c \/ ctrl_l \/ backspace \/ delete \/ move \/ up \/ down \/ tab_one \/ below \/ type

ShellSpec == ShellInit /\ [][ShellNext]_shellVars

-----------------------------------------------------------------------------
\* The line fits its buffer with the terminating zero, the cursor is in the line,
\* and the position in the history is one of its entries.
LineInBuffer ==
  /\ Len(cmd_buf) < CMD_BUF_MAX /\ cmd_cursor \in 0..Len(cmd_buf)
  /\ history_nav \in 0..Len(history) /\ Len(history) <= HISTORY_MAX

At(i) == grid[prompt_row + ((prompt_col + i) \div con_cols)][(prompt_col + i) % con_cols]

\* After every key the screen shows the line behind the prompt, wrapped at the
\* right edge, and the cursor on the cell of the character it is before, however
\* often the screen scrolled.
LineShown ==
  /\ prompt_row >= 0
  /\ \A i \in 0..(Len(cmd_buf) - 1) : At(i) = cmd_buf[i + 1]
  /\ cur_x = (prompt_col + cmd_cursor) % con_cols
  /\ cur_y = prompt_row + ((prompt_col + cmd_cursor) \div con_cols) /\ cur_y < con_rows

\* Buffer, history and screen agree after every key.
ScreenShowsLine == LineInBuffer /\ LineShown

\* Editing leaves nothing of a longer line behind: if the cell after the line was
\* blank before the key, the one after the new line is blank.
NoLeftovers ==
  At(Len(cmd_buf)) = " " /\ prompt_col' = prompt_col /\ Len(cmd_buf') < Len(cmd_buf) => At(Len(cmd_buf))' = " "

\* The screen shows the line that Enter will execute, all of it and nothing else.
ShowsLine == [][ScreenShowsLine' /\ NoLeftovers]_shellVars
=============================================================================
