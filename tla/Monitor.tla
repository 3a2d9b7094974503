------------------------------ MODULE Monitor ------------------------------
(***************************************************************************)
(* The text screen: src/src/drivers/monitor.c.  terminal_buffer is the     *)
(* memory of the video board, one cell after the other.                    *)
(***************************************************************************)
EXTENDS Integers, Sequences

CONSTANTS
  COLUMNS,      \* 80
  ROWS,         \* 25
  TAB,          \* 8
  LETTERS,      \* characters that are printed, the space among them
  BLANK,        \* the cell of a space
  MAX_SCROLLS   \* bound: rows that leave the screen

ASSUME MonitorAssumption ==
  /\ COLUMNS \in Nat \ {0} /\ ROWS \in Nat \ {0} /\ TAB \in Nat \ {0}
  /\ COLUMNS % TAB = 0 /\ BLANK \in LETTERS /\ MAX_SCROLLS \in Nat

Cells == 0 .. ROWS * COLUMNS - 1
BlankScreen == [i \in Cells |-> BLANK]

VARIABLES
  cursor_x, cursor_y, terminal_buffer,
  board_cursor,     \* the cursor's place that the video board was told
  scrolled_off      \* history: rows that have left the screen

vars == <<cursor_x, cursor_y, terminal_buffer, board_cursor, scrolled_off>>

-----------------------------------------------------------------------------
(* Definitions named Name_Fault are faulty variants of Name: each breaks one *)
(* of the properties at the end of this module.                              *)

At(x, y) == x + COLUMNS * y

Screen == [x |-> cursor_x, y |-> cursor_y, cells |-> terminal_buffer]

(* move_cursor, and the assignments before it. *)
Show(screen) ==
  /\ cursor_x' = screen.x /\ cursor_y' = screen.y /\ terminal_buffer' = screen.cells
  /\ board_cursor' = At(screen.x, screen.y)

(* The end of monitor_put: a full line, then a full screen. *)
Wrapped_Late(screen) ==
  IF screen.x > COLUMNS THEN [screen EXCEPT !.x = 0, !.y = @ + 1] ELSE screen

Wrapped(screen) ==
  IF screen.x >= COLUMNS THEN [screen EXCEPT !.x = 0, !.y = @ + 1] ELSE screen

Scrolled_KeepsLast(screen) ==
  [x |-> screen.x, y |-> ROWS - 1,
   cells |-> [i \in Cells |-> screen.cells[IF i + COLUMNS \in Cells THEN i + COLUMNS ELSE i]]]

Scrolled(screen) ==
  [x |-> screen.x, y |-> ROWS - 1,
   cells |-> [i \in Cells |-> IF i + COLUMNS \in Cells THEN screen.cells[i + COLUMNS] ELSE BLANK]]

Finish(screen) ==
  LET full == Wrapped(screen)
  IN  IF full.y < ROWS THEN Show(full) /\ UNCHANGED scrolled_off
      ELSE /\ Len(scrolled_off) < MAX_SCROLLS
           /\ Show(Scrolled(full))
           /\ scrolled_off' = Append(scrolled_off, [c \in 0 .. COLUMNS - 1 |-> full.cells[c]])

-----------------------------------------------------------------------------
(* init_monitor, which clears the screen. *)
Init ==
  /\ cursor_x = 0 /\ cursor_y = 0 /\ terminal_buffer = BlankScreen
  /\ board_cursor = 0 /\ scrolled_off = << >>

InitMonitor ==
  /\ Show([x |-> 0, y |-> 0, cells |-> BlankScreen])
  /\ UNCHANGED scrolled_off

(* monitor_put, by the kind of character. *)
PutLetter(c) ==
  Finish([Screen EXCEPT !.cells[At(cursor_x, cursor_y)] = c, !.x = @ + 1])

PutTab == Finish([Screen EXCEPT !.x = (@ \div TAB + 1) * TAB])

PutReturn == Finish([Screen EXCEPT !.x = 0])

PutNewline == Finish([Screen EXCEPT !.x = 0, !.y = @ + 1])

PutBackspace ==
  Finish(IF cursor_x = 0 THEN Screen
         ELSE [Screen EXCEPT !.x = @ - 1, !.cells[At(cursor_x - 1, cursor_y)] = BLANK])

(* handle_back_space calls itself over blank cells, as far as the first. *)
Backspace_BoardLags ==
  LET stop[p \in Cells] ==
        IF p = 0 THEN 0
        ELSE IF terminal_buffer[p - 1] = BLANK THEN stop[p - 1] ELSE p - 1
      end == stop[At(cursor_x, cursor_y)]
  IN  /\ At(cursor_x, cursor_y) # 0
      /\ cursor_x' = end % COLUMNS /\ cursor_y' = end \div COLUMNS
      /\ terminal_buffer' = [terminal_buffer EXCEPT ![end] = BLANK]
      /\ UNCHANGED <<board_cursor, scrolled_off>>

Backspace ==
  LET stop[p \in Cells] ==
        IF p = 0 THEN 0
        ELSE IF terminal_buffer[p - 1] = BLANK THEN stop[p - 1] ELSE p - 1
      end == stop[At(cursor_x, cursor_y)]
  IN  /\ At(cursor_x, cursor_y) # 0
      /\ Show([x |-> end % COLUMNS, y |-> end \div COLUMNS,
               cells |-> [terminal_buffer EXCEPT ![end] = BLANK]])
      /\ UNCHANGED scrolled_off

Next ==
  \/ InitMonitor
  \/ \E c \in LETTERS : PutLetter(c)
  \/ PutTab \/ PutReturn \/ PutNewline \/ PutBackspace
  \/ Backspace

Spec == Init /\ [][Next]_vars

-----------------------------------------------------------------------------
(* Between calls the cursor is on the screen: every cell that the next call  *)
(* writes is.                                                                *)
TypeOK ==
  /\ cursor_x \in 0 .. COLUMNS - 1 /\ cursor_y \in 0 .. ROWS - 1
  /\ terminal_buffer \in [Cells -> LETTERS]
  /\ board_cursor \in Nat
  /\ scrolled_off \in Seq([0 .. COLUMNS - 1 -> LETTERS])

RowOnScreen(y) == [c \in 0 .. COLUMNS - 1 |-> terminal_buffer[At(c, y)]]

Sheet ==
  INSTANCE Paper WITH
    rows <- scrolled_off \o [i \in 1 .. ROWS |-> RowOnScreen(i - 1)],
    line <- Len(scrolled_off) + board_cursor \div COLUMNS + 1,
    column <- board_cursor % COLUMNS

(* The screen is the end of the text that was written: copying the cells,    *)
(* wrapping, tabs and the walk back over blanks do to it what they do to a   *)
(* sheet of paper, and the board shows the cursor where the next character   *)
(* goes, after every call and each of the many ways through them.            *)
ShowsPaper == Sheet!Spec
=============================================================================
