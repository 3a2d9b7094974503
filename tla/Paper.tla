------------------------------- MODULE Paper -------------------------------
(***************************************************************************)
(* What the monitor promises: text is typed on a sheet that grows at its   *)
(* end, of which the last ROWS rows can be seen and changed.               *)
(***************************************************************************)
EXTENDS Integers, Sequences, FiniteSetsExt

CONSTANTS COLUMNS, ROWS, TAB, BLANK, LETTERS

VARIABLES
  rows,           \* of the sheet, from its beginning
  line, column    \* where the next character goes

vars == <<rows, line, column>>

BlankRow == [c \in 0 .. COLUMNS - 1 |-> BLANK]
FirstShown == Len(rows) - ROWS + 1

Init ==
  /\ rows = [i \in 1 .. ROWS |-> BlankRow]
  /\ line = 1 /\ column = 0

(* The sheet grows when the line after its last one is needed. *)
NextLine(sheet) ==
  /\ line' = line + 1 /\ column' = 0
  /\ rows' = IF line = Len(rows) THEN Append(sheet, BlankRow) ELSE sheet

MoveTo(new_column, sheet) ==
  IF new_column = COLUMNS THEN NextLine(sheet)
  ELSE column' = new_column /\ rows' = sheet /\ UNCHANGED line

Type == \E letter \in LETTERS : MoveTo(column + 1, [rows EXCEPT ![line][column] = letter])

Tabulate ==
  LET stops == {c \in column + 1 .. COLUMNS : c % TAB = 0} IN MoveTo(Min(stops), rows)

Return == column' = 0 /\ UNCHANGED <<rows, line>>

Erase == column > 0 /\ MoveTo(column - 1, [rows EXCEPT ![line][column - 1] = BLANK])

(* Takes back the last thing seen before the cursor, wherever it is. *)
Delete ==
  LET before == {at \in (FirstShown .. line) \X (0 .. COLUMNS - 1) :
                   (at[1] < line \/ at[2] < column) /\ rows[at[1]][at[2]] # BLANK}
      last   == CHOOSE at \in before :
                  \A b \in before : b[1] < at[1] \/ (b[1] = at[1] /\ b[2] <= at[2])
  IN  \/ /\ before # {}
         /\ line' = last[1] /\ column' = last[2]
         /\ rows' = [rows EXCEPT ![last[1]][last[2]] = BLANK]
      \/ /\ before = {}
         /\ line' = FirstShown /\ column' = 0 /\ UNCHANGED rows

Clear ==
  /\ rows' = [i \in 1 .. Len(rows) |-> IF i < FirstShown THEN rows[i] ELSE BlankRow]
  /\ line' = FirstShown /\ column' = 0

Next == Type \/ Tabulate \/ NextLine(rows) \/ Return \/ Erase \/ Delete \/ Clear

Spec == Init /\ [][Next]_vars
=============================================================================
