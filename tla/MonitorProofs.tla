---------------------------- MODULE MonitorProofs ----------------------------
(***************************************************************************)
(* Proofs about module Monitor, for every size of the screen and every set *)
(* of characters: the screen is typed correctly, and shows the end of the  *)
(* sheet of paper that module Paper describes.                             *)
(***************************************************************************)
EXTENDS Monitor, NaturalFacts, SequenceTheorems, TLAPS

(* Where handle_back_space() stops: its recursion, from every cell.          *)
Stops(cells) ==
  CHOOSE stop : stop = [p \in Cells |-> IF p = 0 THEN 0
                                        ELSE IF cells[p - 1] = BLANK THEN stop[p - 1] ELSE p - 1]

Row == [0 .. COLUMNS - 1 -> LETTERS]

(* The sheet of which off has left the screen and cells are shown.           *)
Rows(off, cells) ==
  off \o [i \in 1 .. ROWS |-> [c \in 0 .. COLUMNS - 1 |-> cells[At(c, i - 1)]]]

(* A character in its cell, and in its place on the sheet.                   *)
Painted(cells, x, y, letter) == [cells EXCEPT ![At(x, y)] = letter]
Typed(sheet, line, column, letter) == [sheet EXCEPT ![line][column] = letter]

BlankRow == [c \in 0 .. COLUMNS - 1 |-> BLANK]

(* A screen with these cells and the cursor in column x of row y.            *)
IsScreen(screen, x, y, cells) ==
  /\ DOMAIN screen = {"x", "y", "cells"}
  /\ screen.x = x /\ screen.y = y /\ screen.cells = cells

(* The sheet and the line of it where the cursor is.                         *)
SheetRows == Rows(scrolled_off, terminal_buffer)
SheetLine == Len(scrolled_off) + cursor_y + 1

IInv == TypeOK /\ board_cursor = At(cursor_x, cursor_y)

(* What is there after a screen of the given cells was shown with the cursor *)
(* in column x of row y, the row below the last one included.                *)
Landed(x, y, cells) ==
  /\ IInv'
  /\ cursor_x' = x /\ SheetLine' = Len(scrolled_off) + y + 1
  /\ SheetRows' = IF y = ROWS THEN Append(Rows(scrolled_off, cells), BlankRow)
                  ELSE Rows(scrolled_off, cells)

(* Delete of the sheet, of three values before it and three after.           *)
Deletes(sheet, line, column, first, new_sheet, new_line, new_column) ==
  LET before == {at \in (first .. line) \X (0 .. COLUMNS - 1) :
                   (at[1] < line \/ at[2] < column) /\ sheet[at[1]][at[2]] # BLANK}
      last   == CHOOSE at \in before :
                  \A b \in before : b[1] < at[1] \/ (b[1] = at[1] /\ b[2] <= at[2])
  IN  \/ /\ before # {}
         /\ new_line = last[1] /\ new_column = last[2]
         /\ new_sheet = [sheet EXCEPT ![last[1]][last[2]] = BLANK]
      \/ /\ before = {}
         /\ new_line = first /\ new_column = 0 /\ new_sheet = sheet

-----------------------------------------------------------------------------
(* The screen has cells, one after the other.                                *)
LEMMA CellsNumbered == \E n \in Nat \ {0} : Cells = 0 .. n - 1
<1>1. COLUMNS * 0 + COLUMNS <= COLUMNS * ROWS
  BY MonitorAssumption, TimesOrder
<1>2. ROWS * COLUMNS \in Nat \ {0}
  BY <1>1, MonitorAssumption
<1> QED
  BY <1>2 DEF Cells

(* A cell's place follows from its row and its column, *)
LEMMA AtCell ==
  ASSUME NEW x \in 0 .. COLUMNS - 1, NEW y \in 0 .. ROWS - 1
  PROVE  /\ At(x, y) \in Cells
         /\ At(x, y) % COLUMNS = x /\ At(x, y) \div COLUMNS = y
<1>1. COLUMNS \in Nat \ {0} /\ ROWS \in Nat \ {0} /\ y \in Int
  BY MonitorAssumption
<1>2. COLUMNS * y + COLUMNS <= COLUMNS * ROWS
  BY <1>1, TimesOrder
<1>3. COLUMNS * y \in Nat /\ COLUMNS * ROWS \in Nat /\ ROWS * COLUMNS = COLUMNS * ROWS
  BY <1>1
<1>4. At(x, y) \in Cells
  BY <1>1, <1>2, <1>3 DEF At, Cells
<1> QED
  BY <1>1, <1>4, DivModUnique DEF At

(* and they from it. *)
LEMMA CellAt ==
  ASSUME NEW p \in Cells
  PROVE  /\ p % COLUMNS \in 0 .. COLUMNS - 1 /\ p \div COLUMNS \in 0 .. ROWS - 1
         /\ At(p % COLUMNS, p \div COLUMNS) = p
<1> DEFINE x == p % COLUMNS
           y == p \div COLUMNS
<1>1. COLUMNS \in Nat \ {0} /\ ROWS \in Nat \ {0} /\ p \in Nat /\ p < COLUMNS * ROWS
  BY MonitorAssumption DEF Cells
<1>2. y \in Int /\ x \in 0 .. COLUMNS - 1 /\ p = x + COLUMNS * y
  BY <1>1, DivMod
<1> HIDE DEF x, y
<1>3. COLUMNS * y \in Int /\ COLUMNS * ROWS \in Int
  BY <1>1, <1>2
<1>4. y < ROWS
  <2> SUFFICES ASSUME ROWS <= y PROVE FALSE
    BY <1>1, <1>2
  <2>1. COLUMNS * (ROWS - 1) + COLUMNS <= COLUMNS * y
    BY <1>1, <1>2, TimesOrder
  <2> QED
    BY <1>1, <1>2, <1>3, <2>1
<1>5. 0 <= y
  <2> SUFFICES ASSUME y < 0 PROVE FALSE
    BY <1>2
  <2>1. COLUMNS * y + COLUMNS <= COLUMNS * 0
    BY <1>1, <1>2, TimesOrder
  <2> QED
    BY <1>1, <1>2, <1>3, <2>1
<1> QED
  BY <1>1, <1>2, <1>4, <1>5 DEF At, x, y

(* Cells follow one another row by row.                                      *)
LEMMA AtOrder ==
  ASSUME NEW x \in 0 .. COLUMNS - 1, NEW y \in 0 .. ROWS - 1,
         NEW u \in 0 .. COLUMNS - 1, NEW v \in 0 .. ROWS - 1
  PROVE  At(x, y) < At(u, v) <=> y < v \/ (y = v /\ x < u)
<1>1. COLUMNS \in Nat \ {0} /\ y \in Int /\ v \in Int
  BY MonitorAssumption
<1>2. COLUMNS * y \in Int /\ COLUMNS * v \in Int
  BY <1>1
<1>3. y < v => COLUMNS * y + COLUMNS <= COLUMNS * v
  BY <1>1, TimesOrder
<1>4. v < y => COLUMNS * v + COLUMNS <= COLUMNS * y
  BY <1>1, TimesOrder
<1> QED
  BY <1>1, <1>2, <1>3, <1>4 DEF At

(* handle_back_space() stops at the last cell before the cursor that is not  *)
(* blank, and at the first cell if there is none.                            *)
LEMMA StopsAt ==
  ASSUME NEW cells \in [Cells -> LETTERS], NEW p \in Cells, p # 0
  PROVE  LET end == Stops(cells)[p]
         IN  /\ end \in Cells /\ end < p
             /\ \A j \in Cells : end < j /\ j < p => cells[j] = BLANK
             /\ end = 0 \/ cells[end] # BLANK
<1> DEFINE Body(stop, q) == IF q = 0 THEN 0
                            ELSE IF cells[q - 1] = BLANK THEN stop[q - 1] ELSE q - 1
           Before(q) == {j \in 0 .. q - 1 : cells[j] # BLANK}
           direct == [q \in Cells |-> IF Before(q) = {} THEN 0 ELSE Max(Before(q))]
           stop == Stops(cells)
<1>0. /\ Cells \subseteq Nat /\ 0 \in Cells
      /\ \A q \in Cells : q # 0 => q - 1 \in Cells
      /\ \A q \in Cells, r \in Nat : r < q => r \in Cells
  BY CellsNumbered
<1>1. direct = [q \in Cells |-> Body(direct, q)]
  <2> SUFFICES ASSUME NEW q \in Cells PROVE direct[q] = Body(direct, q)
    OBVIOUS
  <2>1. CASE q = 0
    <3>1. Before(q) = {}
      BY <2>1
    <3> QED
      BY <2>1, <3>1
  <2>2. CASE q # 0 /\ cells[q - 1] = BLANK
    <3>1. Before(q) = Before(q - 1)
      BY <1>0, <2>2
    <3> QED
      BY <1>0, <2>2, <3>1
  <2>3. CASE q # 0 /\ cells[q - 1] # BLANK
    <3>1. q - 1 \in Before(q) /\ Before(q) \in SUBSET (0 .. q - 1) /\ q - 1 \in Nat
      BY <1>0, <2>3
    <3>2. Max(Before(q)) \in Before(q) /\ q - 1 <= Max(Before(q))
      BY <3>1, MaxGreatest
    <3>3. Max(Before(q)) = q - 1
      BY <1>0, <3>1, <3>2
    <3> QED
      BY <2>3, <3>1, <3>3
  <2> QED
    BY <2>1, <2>2, <2>3
<1>2. stop = [q \in Cells |-> Body(stop, q)]
  BY <1>1 DEF Stops
<1> HIDE DEF direct, stop
<1> DEFINE Good(q) == /\ stop[q] \in 0 .. q - 1
                      /\ \A j \in stop[q] + 1 .. q - 1 : cells[j] = BLANK
                      /\ stop[q] = 0 \/ cells[stop[q]] # BLANK
           Bad == {q \in Cells : q # 0 /\ ~Good(q)}
<1>3. Bad = {}
  <2> SUFFICES ASSUME Bad # {} PROVE FALSE
    OBVIOUS
  <2>1. PICK q \in Bad : \A r \in Bad : q <= r
    BY <1>0, LeastNatural
  <2>2. q \in Cells /\ q # 0 /\ q \in Nat /\ q - 1 \in Cells /\ stop[q] = Body(stop, q)
    BY <1>0, <1>2
  <2>3. q - 1 = 0 \/ Good(q - 1)
    <3>1. q - 1 \notin Bad
      BY <2>1, <2>2
    <3> QED
      BY <2>2, <3>1
  <2>4. stop[0] = 0
    BY <1>0, <1>2
  <2>5. CASE cells[q - 1] # BLANK
    BY <2>2, <2>5
  <2>6. CASE cells[q - 1] = BLANK
    <3>1. stop[q] = stop[q - 1]
      BY <2>2, <2>6
    <3>2. CASE q - 1 = 0
      BY <2>2, <2>4, <2>6, <3>1, <3>2
    <3>3. CASE q - 1 # 0
      <4>1. Good(q - 1)
        BY <2>3, <3>3
      <4>2. \A j \in stop[q] + 1 .. q - 1 : j = q - 1 \/ j \in stop[q - 1] + 1 .. q - 1 - 1
        BY <2>2, <3>1, <4>1
      <4>3. Good(q)
        BY <2>2, <2>6, <3>1, <4>1, <4>2
      <4> QED
        BY <4>3
    <3> QED
      BY <3>2, <3>3
  <2> QED
    BY <2>5, <2>6
<1>4. Good(p)
  BY <1>3
<1>5. stop[p] \in Cells /\ p \in Nat
  BY <1>0, <1>4
<1> QED
  BY <1>0, <1>4, <1>5 DEF stop

-----------------------------------------------------------------------------
(* A function on 1 .. n is a sequence of length n.                           *)
LEMMA FunctionIsSeq ==
  ASSUME NEW S, NEW n \in Nat, NEW f \in [1 .. n -> S]
  PROVE  f \in Seq(S) /\ Len(f) = n
<1>1. f \in Seq(S)
  BY SeqDef
<1>2. Len(f) \in Nat /\ DOMAIN f = 1 .. Len(f)
  BY <1>1, LenProperties
<1>3. 1 .. Len(f) = 1 .. n
  BY <1>2
<1> QED
  BY <1>1, <1>2, <1>3

(* What the rows of a sheet are.                                             *)
LEMMA RowsEntries ==
  ASSUME NEW off \in Seq(Row), NEW cells \in [Cells -> LETTERS]
  PROVE  /\ Rows(off, cells) \in Seq(Row)
         /\ Len(Rows(off, cells)) = Len(off) + ROWS
         /\ \A i \in 1 .. Len(off) : Rows(off, cells)[i] = off[i]
         /\ \A y \in 0 .. ROWS - 1 :
              Rows(off, cells)[Len(off) + y + 1] = [c \in 0 .. COLUMNS - 1 |-> cells[At(c, y)]]
<1> DEFINE shown == [i \in 1 .. ROWS |-> [c \in 0 .. COLUMNS - 1 |-> cells[At(c, i - 1)]]]
<1>1. ROWS \in Nat /\ Len(off) \in Nat
  BY MonitorAssumption
<1>2. \A y \in 0 .. ROWS - 1 : [c \in 0 .. COLUMNS - 1 |-> cells[At(c, y)]] \in Row
  BY AtCell DEF Row
<1>3. shown \in Seq(Row) /\ Len(shown) = ROWS
  <2>1. \A i \in 1 .. ROWS : i - 1 \in 0 .. ROWS - 1
    BY <1>1
  <2>2. shown \in [1 .. ROWS -> Row]
    BY <1>2, <2>1
  <2> QED
    BY <1>1, <2>2, FunctionIsSeq
<1>4. \A y \in 0 .. ROWS - 1 : shown[y + 1] = [c \in 0 .. COLUMNS - 1 |-> cells[At(c, y)]]
  BY <1>1
<1>5. Rows(off, cells) = off \o shown
  BY DEF Rows
<1> HIDE DEF shown
<1>6. /\ off \o shown \in Seq(Row) /\ Len(off \o shown) = Len(off) + ROWS
      /\ \A i \in 1 .. Len(off) : (off \o shown)[i] = off[i]
      /\ \A i \in 1 .. ROWS : (off \o shown)[Len(off) + i] = shown[i]
  BY <1>1, <1>3
<1>7. \A y \in 0 .. ROWS - 1 : (off \o shown)[Len(off) + y + 1] = shown[y + 1]
  BY <1>1, <1>6
<1> QED
  BY <1>4, <1>5, <1>6, <1>7

(* Writing a cell of the screen writes one place of the sheet.               *)
LEMMA RowsWrite ==
  ASSUME NEW off \in Seq(Row), NEW cells \in [Cells -> LETTERS], NEW letter \in LETTERS,
         NEW x \in 0 .. COLUMNS - 1, NEW y \in 0 .. ROWS - 1
  PROVE  /\ Painted(cells, x, y, letter) \in [Cells -> LETTERS]
         /\ Rows(off, Painted(cells, x, y, letter))
              = Typed(Rows(off, cells), Len(off) + y + 1, x, letter)
<1> DEFINE written == [cells EXCEPT ![At(x, y)] = letter]
           old == Rows(off, cells)
           new == Rows(off, written)
           line == Len(off) + y + 1
           typed == [old EXCEPT ![line][x] = letter]
<1>1. written \in [Cells -> LETTERS] /\ \A p \in Cells : written[p] = IF p = At(x, y) THEN letter ELSE cells[p]
  OBVIOUS
<1>2. /\ ROWS \in Nat /\ Len(off) \in Nat /\ line \in 1 .. Len(off) + ROWS
  BY MonitorAssumption
<1> HIDE DEF written
<1>3. /\ old \in Seq(Row) /\ Len(old) = Len(off) + ROWS
      /\ \A i \in 1 .. Len(off) : old[i] = off[i]
      /\ \A v \in 0 .. ROWS - 1 :
              old[Len(off) + v + 1] = [c \in 0 .. COLUMNS - 1 |-> cells[At(c, v)]]
  BY RowsEntries
<1>4. /\ new \in Seq(Row) /\ Len(new) = Len(off) + ROWS
      /\ \A i \in 1 .. Len(off) : new[i] = off[i]
      /\ \A v \in 0 .. ROWS - 1 :
              new[Len(off) + v + 1] = [c \in 0 .. COLUMNS - 1 |-> written[At(c, v)]]
  BY <1>1, RowsEntries
<1> HIDE DEF old, new, line
<1>5. /\ typed \in Seq(Row) /\ Len(typed) = Len(off) + ROWS
      /\ \A i \in 1 .. Len(off) + ROWS : typed[i] = IF i = line THEN [old[i] EXCEPT ![x] = letter]
                                                                  ELSE old[i]
  <2>1. old[line] \in Row
    BY <1>2, <1>3, ElementOfSeq
  <2>2. [old[line] EXCEPT ![x] = letter] \in Row
    BY <2>1 DEF Row
  <2> QED
    <3>1. line \in 1 .. Len(old)
      BY <1>2, <1>3
    <3>2. /\ typed \in Seq(Row) /\ Len(typed) = Len(old)
          /\ \A i \in 1 .. Len(old) : typed[i] = IF i = line THEN [old[line] EXCEPT ![x] = letter]
                                                  ELSE old[i]
      <4> DEFINE row == [old[line] EXCEPT ![x] = letter]
      <4>1. old \in Seq(Row) /\ row \in Row
        BY <1>3, <2>2
      <4> HIDE DEF row
      <4>2. /\ [old EXCEPT ![line] = row] \in Seq(Row)
            /\ Len([old EXCEPT ![line] = row]) = Len(old)
            /\ \A i \in 1 .. Len(old) :
                 [old EXCEPT ![line] = row][i] = IF i = line THEN row ELSE old[i]
        BY <3>1, <4>1, ExceptSeq
      <4> QED
        BY <4>2 DEF row
    <3>3. Len(old) = Len(off) + ROWS
      BY <1>3
    <3> QED
      BY <3>2, <3>3
<1>7. ASSUME NEW i \in 1 .. Len(off) + ROWS
      PROVE  new[i] = typed[i]
  <2>1. CASE i \in 1 .. Len(off)
    <3>1. i # line /\ i \in 1 .. Len(off) + ROWS
      BY <1>2, <2>1 DEF line
    <3> QED
      BY <1>3, <1>4, <1>5, <2>1, <3>1
  <2>2. CASE i \notin 1 .. Len(off)
    <3> DEFINE v == i - Len(off) - 1
    <3>1. v \in 0 .. ROWS - 1 /\ i = Len(off) + v + 1
      BY <1>2, <2>2
    <3> HIDE DEF v
    <3>2. /\ new[i] = [c \in 0 .. COLUMNS - 1 |-> written[At(c, v)]]
          /\ old[i] = [c \in 0 .. COLUMNS - 1 |-> cells[At(c, v)]]
      BY <1>3, <1>4, <3>1
    <3>3. \A c \in 0 .. COLUMNS - 1 : /\ At(c, v) \in Cells
                                      /\ At(c, v) = At(x, y) => c = x /\ v = y
      BY <3>1, AtCell
    <3>4. CASE v = y
      <4>1. i = line
        BY <3>1, <3>4 DEF line
      <4>2. typed[i] = [c \in 0 .. COLUMNS - 1 |-> IF c = x THEN letter ELSE cells[At(c, v)]]
        BY <1>5, <3>2, <4>1
      <4>3. \A c \in 0 .. COLUMNS - 1 : written[At(c, v)] = IF c = x THEN letter ELSE cells[At(c, v)]
        BY <1>1, <3>3, <3>4
      <4> QED
        BY <3>2, <4>2, <4>3
    <3>5. CASE v # y
      <4>1. i # line
        BY <1>2, <3>1, <3>5 DEF line
      <4>2. \A c \in 0 .. COLUMNS - 1 : written[At(c, v)] = cells[At(c, v)]
        BY <1>1, <3>3, <3>5
      <4> QED
        BY <1>5, <3>2, <4>1, <4>2
    <3> QED
      BY <3>4, <3>5
  <2> QED
    BY <2>1, <2>2
<1>8. new = typed
  BY <1>4, <1>5, <1>7, SeqEqual
<1> QED
  BY <1>1, <1>8 DEF Painted, Typed, new, old, line, written

(* Scrolling the screen adds a blank row to the sheet.                       *)
LEMMA RowsScroll ==
  ASSUME NEW off \in Seq(Row), NEW cells \in [Cells -> LETTERS]
  PROVE  LET top    == [c \in 0 .. COLUMNS - 1 |-> cells[c]]
             moved  == [i \in Cells |-> IF i + COLUMNS \in Cells THEN cells[i + COLUMNS] ELSE BLANK]
         IN  /\ top \in Row /\ moved \in [Cells -> LETTERS]
             /\ Rows(Append(off, top), moved)
                  = Append(Rows(off, cells), [c \in 0 .. COLUMNS - 1 |-> BLANK])
<1> DEFINE top == [c \in 0 .. COLUMNS - 1 |-> cells[c]]
           moved == [i \in Cells |-> IF i + COLUMNS \in Cells THEN cells[i + COLUMNS] ELSE BLANK]
           blank == [c \in 0 .. COLUMNS - 1 |-> BLANK]
           old == Rows(off, cells)
           more == Append(off, top)
           new == Rows(more, moved)
           grown == Append(old, blank)
<1>1. /\ ROWS \in Nat \ {0} /\ COLUMNS \in Nat \ {0} /\ Len(off) \in Nat /\ BLANK \in LETTERS
  BY MonitorAssumption
<1>2. \A c \in 0 .. COLUMNS - 1 : At(c, 0) = c /\ c \in Cells
  <2>1. \A c \in 0 .. COLUMNS - 1 : At(c, 0) = c
    BY <1>1 DEF At
  <2>2. 0 \in 0 .. ROWS - 1
    BY <1>1
  <2> QED
    BY <2>1, <2>2, AtCell
<1>3. top \in Row /\ blank \in Row
  BY <1>1, <1>2 DEF Row
<1>4. moved \in [Cells -> LETTERS]
  BY <1>1
<1>5. \A c \in 0 .. COLUMNS - 1, v \in 0 .. ROWS - 1 :
        moved[At(c, v)] = IF v + 1 \in 0 .. ROWS - 1 THEN cells[At(c, v + 1)] ELSE BLANK
  <2> SUFFICES ASSUME NEW c \in 0 .. COLUMNS - 1, NEW v \in 0 .. ROWS - 1
               PROVE  moved[At(c, v)] = IF v + 1 \in 0 .. ROWS - 1 THEN cells[At(c, v + 1)] ELSE BLANK
    OBVIOUS
  <2>1. At(c, v) + COLUMNS = At(c, v + 1)
    BY <1>1 DEF At
  <2>2. v + 1 \in 0 .. ROWS - 1 <=> At(c, v + 1) \in Cells
    <3>1. v + 1 \in 0 .. ROWS - 1 => At(c, v + 1) \in Cells
      BY AtCell
    <3>2. ASSUME At(c, v + 1) \in Cells PROVE v + 1 \in 0 .. ROWS - 1
      <4>1. At(c, v + 1) \div COLUMNS \in 0 .. ROWS - 1
        BY <3>2, CellAt
      <4>2. At(c, v + 1) \div COLUMNS = v + 1
        BY <1>1, DivModUnique DEF At
      <4> QED
        BY <4>1, <4>2
    <3> QED
      BY <3>1, <3>2
  <2>3. At(c, v) \in Cells
    BY AtCell
  <2> QED
    BY <2>1, <2>2, <2>3
<1> HIDE DEF top, moved, blank
<1>6. /\ old \in Seq(Row) /\ Len(old) = Len(off) + ROWS
      /\ \A i \in 1 .. Len(off) : old[i] = off[i]
      /\ \A v \in 0 .. ROWS - 1 :
              old[Len(off) + v + 1] = [c \in 0 .. COLUMNS - 1 |-> cells[At(c, v)]]
  BY RowsEntries
<1>7. /\ more \in Seq(Row) /\ Len(more) = Len(off) + 1
      /\ \A i \in 1 .. Len(off) : more[i] = off[i]
      /\ more[Len(off) + 1] = top
  BY <1>1, <1>3
<1> HIDE DEF old, more
<1>14. Len(off) + 1 \in 1 .. Len(more)
  BY <1>1, <1>7
<1>8. /\ new \in Seq(Row) /\ Len(new) = Len(more) + ROWS
      /\ \A i \in 1 .. Len(more) : new[i] = more[i]
      /\ \A v \in 0 .. ROWS - 1 :
              new[Len(more) + v + 1] = [c \in 0 .. COLUMNS - 1 |-> moved[At(c, v)]]
  BY <1>4, <1>7, RowsEntries
<1>9. /\ grown \in Seq(Row) /\ Len(grown) = Len(off) + ROWS + 1
      /\ \A i \in 1 .. Len(off) + ROWS : grown[i] = old[i]
      /\ grown[Len(off) + ROWS + 1] = blank
  <2>0. old \in Seq(Row) /\ blank \in Row
    BY <1>3, <1>6
  <2>1. /\ grown \in Seq(Row) /\ Len(grown) = Len(old) + 1
        /\ \A i \in 1 .. Len(old) : grown[i] = old[i]
        /\ grown[Len(old) + 1] = blank
    BY <2>0, AppendProperties
  <2> QED
    BY <1>1, <1>6, <2>1
<1> HIDE DEF new, grown
<1>10. ASSUME NEW i \in 1 .. Len(off) + ROWS + 1
       PROVE  new[i] = grown[i]
  <2>1. CASE i \in 1 .. Len(off)
    <3>1. i \in 1 .. Len(more) /\ i \in 1 .. Len(off) + ROWS
      BY <1>1, <1>7, <2>1
    <3> QED
      BY <1>6, <1>7, <1>8, <1>9, <2>1, <3>1
  <2>2. CASE i = Len(off) + 1
    <3>1. new[i] = top
      BY <1>7, <1>8, <1>14, <2>2
    <3>2. grown[i] = [c \in 0 .. COLUMNS - 1 |-> cells[At(c, 0)]]
      <4>1. 0 \in 0 .. ROWS - 1 /\ i = Len(off) + 0 + 1 /\ i \in 1 .. Len(off) + ROWS
        BY <1>1, <2>2
      <4> QED
        BY <1>6, <1>9, <4>1
    <3> QED
      BY <1>2, <3>1, <3>2 DEF top
  <2>3. CASE i > Len(off) + 1
    <3> DEFINE v == i - Len(off) - 2
    <3>1. v \in 0 .. ROWS - 1 /\ i = Len(more) + v + 1 /\ i = Len(off) + (v + 1) + 1
      BY <1>1, <1>7, <2>3
    <3> HIDE DEF v
    <3>2. new[i] = [c \in 0 .. COLUMNS - 1 |-> moved[At(c, v)]]
      BY <1>8, <3>1
    <3>3. CASE v + 1 \in 0 .. ROWS - 1
      <4>1. grown[i] = [c \in 0 .. COLUMNS - 1 |-> cells[At(c, v + 1)]]
        <5>1. i \in 1 .. Len(off) + ROWS
          BY <1>1, <3>1, <3>3
        <5> QED
          BY <1>6, <1>9, <3>1, <3>3, <5>1
      <4> QED
        BY <1>5, <3>1, <3>2, <3>3, <4>1
    <3>4. CASE v + 1 \notin 0 .. ROWS - 1
      <4>1. i = Len(off) + ROWS + 1
        BY <1>1, <3>1, <3>4
      <4>2. grown[i] = [c \in 0 .. COLUMNS - 1 |-> BLANK]
        BY <1>9, <4>1 DEF blank
      <4>3. \A c \in 0 .. COLUMNS - 1 : moved[At(c, v)] = BLANK
        BY <1>5, <3>1, <3>4
      <4> QED
        BY <3>2, <4>2, <4>3
    <3> QED
      BY <3>3, <3>4
  <2> QED
    BY <1>1, <2>1, <2>2, <2>3
<1>11. Len(new) = Len(off) + ROWS + 1
  <2>1. Len(new) = Len(more) + ROWS
    BY <1>8
  <2>2. Len(more) = Len(off) + 1
    BY <1>7
  <2> QED
    BY <1>1, <2>1, <2>2
<1>12. new = grown
  BY <1>8, <1>9, <1>10, <1>11, SeqEqual
<1> QED
  BY <1>3, <1>4, <1>12 DEF top, moved, blank, old, more, new, grown

-----------------------------------------------------------------------------
(* The sheet, the line and the column that the screen stands for.            *)
LEMMA Mapping ==
  ASSUME IInv
  PROVE  /\ scrolled_off \o [i \in 1 .. ROWS |-> RowOnScreen(i - 1)] = SheetRows
         /\ Len(scrolled_off) + board_cursor \div COLUMNS + 1 = SheetLine
         /\ board_cursor % COLUMNS = cursor_x
<1>1. cursor_x \in 0 .. COLUMNS - 1 /\ cursor_y \in 0 .. ROWS - 1
  BY DEF IInv, TypeOK
<1>2. board_cursor % COLUMNS = cursor_x /\ board_cursor \div COLUMNS = cursor_y
  BY <1>1, AtCell DEF IInv
<1> QED
  BY <1>2 DEF SheetRows, Rows, RowOnScreen, SheetLine

(* The same, of the next state.                                              *)
LEMMA MappingNext ==
  ASSUME IInv'
  PROVE  /\ (scrolled_off \o [i \in 1 .. ROWS |-> RowOnScreen(i - 1)])' = SheetRows'
         /\ (Len(scrolled_off) + board_cursor \div COLUMNS + 1)' = SheetLine'
         /\ (board_cursor % COLUMNS)' = cursor_x'
<1>1. cursor_x' \in 0 .. COLUMNS - 1 /\ cursor_y' \in 0 .. ROWS - 1
  BY DEF IInv, TypeOK
<1>2. board_cursor' % COLUMNS = cursor_x' /\ board_cursor' \div COLUMNS = cursor_y'
  BY <1>1, AtCell DEF IInv
<1> QED
  BY <1>2 DEF SheetRows, Rows, RowOnScreen, SheetLine

(* A screen that is shown as it is.                                          *)
LEMMA ShowLands ==
  ASSUME IInv, NEW cells \in [Cells -> LETTERS],
         NEW x \in 0 .. COLUMNS - 1, NEW y \in 0 .. ROWS - 1,
         NEW screen, IsScreen(screen, x, y, cells), Show(screen), UNCHANGED scrolled_off
  PROVE  Landed(x, y, cells)
<1>1. /\ cursor_x' = x /\ cursor_y' = y /\ terminal_buffer' = cells
      /\ board_cursor' = At(x, y)
  BY DEF Show, IsScreen
<1>2. At(x, y) \in Nat
  BY AtCell DEF Cells
<1>3. IInv'
  BY <1>1, <1>2 DEF IInv, TypeOK
<1>4. y # ROWS
  BY MonitorAssumption
<1> QED
  BY <1>1, <1>3, <1>4 DEF Landed, SheetLine, SheetRows

(* The end of monitor_put() wraps a full line and scrolls a full screen, and *)
(* the cursor is where it should be on the sheet.                            *)
LEMMA FinishLands ==
  ASSUME IInv, NEW cells \in [Cells -> LETTERS],
         NEW x \in 0 .. COLUMNS, NEW y \in 0 .. ROWS, x = COLUMNS => y < ROWS,
         NEW screen, IsScreen(screen, x, y, cells), Finish(screen)
  PROVE  IF x = COLUMNS THEN Landed(0, y + 1, cells) ELSE Landed(x, y, cells)
<1> DEFINE u == IF x = COLUMNS THEN 0 ELSE x
           v == IF x = COLUMNS THEN y + 1 ELSE y
           full == Wrapped(screen)
<1>1. ROWS \in Nat \ {0} /\ COLUMNS \in Nat \ {0} /\ BLANK \in LETTERS
  BY MonitorAssumption
<1>2. u \in 0 .. COLUMNS - 1 /\ v \in 0 .. ROWS
  BY <1>1
<1>3. IsScreen(full, u, v, cells)
  BY <1>1 DEF Wrapped, IsScreen
<1>4. \/ v < ROWS /\ Show(full) /\ UNCHANGED scrolled_off
      \/ /\ v = ROWS /\ Show(Scrolled(full))
         /\ scrolled_off' = Append(scrolled_off, [c \in 0 .. COLUMNS - 1 |-> cells[c]])
  BY <1>1, <1>2, <1>3 DEF Finish, IsScreen
<1> HIDE DEF u, v, full
<1>5. Landed(u, v, cells)
  <2>1. CASE v < ROWS /\ Show(full) /\ UNCHANGED scrolled_off
    <3>1. v \in 0 .. ROWS - 1
      BY <1>1, <1>2, <2>1
    <3> QED
      BY <1>2, <1>3, <2>1, <3>1, ShowLands
  <2>2. CASE /\ v = ROWS /\ Show(Scrolled(full))
             /\ scrolled_off' = Append(scrolled_off, [c \in 0 .. COLUMNS - 1 |-> cells[c]])
    <3> DEFINE top == [c \in 0 .. COLUMNS - 1 |-> cells[c]]
               moved == [i \in Cells |-> IF i + COLUMNS \in Cells THEN cells[i + COLUMNS] ELSE BLANK]
    <3>1. scrolled_off \in Seq(Row)
      BY DEF IInv, TypeOK, Row
    <3>2. /\ top \in Row /\ moved \in [Cells -> LETTERS]
          /\ Rows(Append(scrolled_off, top), moved) = Append(Rows(scrolled_off, cells), BlankRow)
      BY <3>1, RowsScroll DEF BlankRow
    <3>3. /\ cursor_x' = u /\ cursor_y' = ROWS - 1 /\ terminal_buffer' = moved
          /\ board_cursor' = At(u, ROWS - 1)
      BY <1>3, <2>2 DEF Show, Scrolled, IsScreen
    <3>4. scrolled_off' = Append(scrolled_off, top)
      BY <2>2
    <3> HIDE DEF top, moved
    <3>5. /\ scrolled_off' \in Seq(Row) /\ Len(scrolled_off') = Len(scrolled_off) + 1
          /\ Len(scrolled_off) \in Nat
      BY <3>1, <3>2, <3>4, AppendProperties
    <3>6. ROWS - 1 \in 0 .. ROWS - 1 /\ At(u, ROWS - 1) \in Nat
      BY <1>1, <1>2, AtCell DEF Cells
    <3>7. IInv'
      BY <1>2, <3>2, <3>3, <3>5, <3>6 DEF IInv, TypeOK, Row
    <3>8. SheetLine' = Len(scrolled_off) + v + 1
      BY <1>1, <2>2, <3>3, <3>5 DEF SheetLine
    <3>9. SheetRows' = Append(Rows(scrolled_off, cells), BlankRow)
      BY <3>2, <3>3, <3>4 DEF SheetRows
    <3> QED
      BY <2>2, <3>3, <3>7, <3>8, <3>9 DEF Landed
  <2> QED
    BY <1>4, <2>1, <2>2
<1> QED
  BY <1>5 DEF u, v

(* Moving to a column of the line the cursor is in, after writing the sheet. *)
LEMMA LandedMoves ==
  ASSUME IInv, NEW cells \in [Cells -> LETTERS], NEW x \in 0 .. COLUMNS,
         IF x = COLUMNS THEN Landed(0, cursor_y + 1, cells) ELSE Landed(x, cursor_y, cells)
  PROVE  Sheet!MoveTo(x, Rows(scrolled_off, cells))
<1>1. /\ ROWS \in Nat \ {0} /\ COLUMNS \in Nat \ {0} /\ Len(scrolled_off) \in Nat
      /\ cursor_y \in 0 .. ROWS - 1 /\ scrolled_off \in Seq(Row)
      /\ terminal_buffer \in [Cells -> LETTERS]
  BY MonitorAssumption DEF IInv, TypeOK, Row
<1>2. IInv'
  BY DEF Landed
<1>3. Len(SheetRows) = Len(scrolled_off) + ROWS
  BY <1>1, RowsEntries DEF SheetRows
<1>4. SheetLine = Len(SheetRows) <=> cursor_y + 1 = ROWS
  BY <1>1, <1>3 DEF SheetLine
<1>5. CASE x = COLUMNS
  <2>1. /\ cursor_x' = 0 /\ SheetLine' = SheetLine + 1
        /\ SheetRows' = IF SheetLine = Len(SheetRows) THEN Append(Rows(scrolled_off, cells), BlankRow)
                        ELSE Rows(scrolled_off, cells)
    BY <1>1, <1>4, <1>5 DEF Landed, SheetLine
  <2>2. Sheet!NextLine(Rows(scrolled_off, cells))
    BY <1>2, <2>1, Mapping, MappingNext DEF Sheet!NextLine, BlankRow, Sheet!BlankRow
  <2> QED
    BY <1>5, <2>2 DEF Sheet!MoveTo
<1>6. CASE x # COLUMNS
  <2>1. cursor_x' = x /\ SheetLine' = SheetLine /\ SheetRows' = Rows(scrolled_off, cells)
    BY <1>1, <1>6 DEF Landed, SheetLine
  <2> QED
    BY <1>2, <1>6, <2>1, Mapping, MappingNext DEF Sheet!MoveTo
<1> QED
  BY <1>5, <1>6

(* A printed character is typed.                                             *)
LEMMA LetterTypes ==
  ASSUME IInv, NEW c \in LETTERS, PutLetter(c)
  PROVE  IInv' /\ Sheet!Type
<1> DEFINE cells == Painted(terminal_buffer, cursor_x, cursor_y, c)
<1>1. /\ cursor_x \in 0 .. COLUMNS - 1 /\ cursor_y \in 0 .. ROWS - 1
      /\ scrolled_off \in Seq(Row) /\ terminal_buffer \in [Cells -> LETTERS]
  BY DEF IInv, TypeOK, Row
<1>2. COLUMNS \in Nat \ {0} /\ ROWS \in Nat \ {0} /\ cells \in [Cells -> LETTERS]
  BY <1>1, MonitorAssumption, RowsWrite
<1>3. PICK screen : IsScreen(screen, cursor_x + 1, cursor_y, cells) /\ Finish(screen)
  BY <1>1 DEF PutLetter, Screen, IsScreen, Painted
<1>4. Rows(scrolled_off, cells) = Typed(SheetRows, SheetLine, cursor_x, c)
  BY <1>1, RowsWrite DEF SheetRows, SheetLine
<1> HIDE DEF cells
<1>5. /\ cursor_x + 1 \in 0 .. COLUMNS /\ cursor_y \in 0 .. ROWS /\ cursor_y < ROWS
  BY <1>1, <1>2
<1>6. IF cursor_x + 1 = COLUMNS THEN Landed(0, cursor_y + 1, cells)
      ELSE Landed(cursor_x + 1, cursor_y, cells)
  BY <1>2, <1>3, <1>5, FinishLands
<1>7. Sheet!MoveTo(cursor_x + 1, Typed(SheetRows, SheetLine, cursor_x, c))
  BY <1>2, <1>4, <1>5, <1>6, LandedMoves
<1> QED
  BY <1>6, <1>7, Mapping DEF Landed, Sheet!Type, Typed

(* A tab goes to the next stop.                                              *)
LEMMA TabTabulates ==
  ASSUME IInv, PutTab
  PROVE  IInv' /\ Sheet!Tabulate
<1> DEFINE q == cursor_x \div TAB
           x == (q + 1) * TAB
           stops == {c \in cursor_x + 1 .. COLUMNS : c % TAB = 0}
<1>1. /\ cursor_x \in 0 .. COLUMNS - 1 /\ cursor_y \in 0 .. ROWS - 1
      /\ terminal_buffer \in [Cells -> LETTERS]
  BY DEF IInv, TypeOK
<1>2. COLUMNS \in Nat \ {0} /\ ROWS \in Nat \ {0} /\ TAB \in Nat \ {0} /\ COLUMNS % TAB = 0
  BY MonitorAssumption
<1>3. /\ q \in Int /\ cursor_x = (cursor_x % TAB) + TAB * q /\ cursor_x % TAB \in 0 .. TAB - 1
  BY <1>1, <1>2, DivMod
<1> HIDE DEF q
<1>4. x = TAB * q + TAB /\ TAB * q \in Int
  BY <1>2, <1>3
<1>5. ASSUME NEW c \in cursor_x + 1 .. COLUMNS, c % TAB = 0
      PROVE  x <= c
  <2>1. c \div TAB \in Int /\ c = TAB * (c \div TAB) /\ c \in Int
    BY <1>1, <1>2, <1>5, DivMod
  <2>2. q < c \div TAB
    <3> SUFFICES ASSUME c \div TAB < q \/ c \div TAB = q PROVE FALSE
      BY <1>3, <2>1
    <3>1. c \div TAB < q => TAB * (c \div TAB) + TAB <= TAB * q
      BY <1>2, <1>3, <2>1, TimesOrder
    <3> QED
      BY <1>1, <1>2, <1>3, <1>4, <2>1, <3>1
  <2>3. TAB * q + TAB <= TAB * (c \div TAB)
    BY <1>2, <1>3, <2>1, <2>2, TimesOrder
  <2> QED
    BY <1>4, <2>1, <2>3
<1>6. COLUMNS \in cursor_x + 1 .. COLUMNS
  BY <1>1, <1>2
<1>7. x \in cursor_x + 1 .. COLUMNS
  <2>1. x <= COLUMNS
    BY <1>2, <1>5, <1>6
  <2>2. cursor_x < x /\ x \in Int
    BY <1>1, <1>2, <1>3, <1>4
  <2> QED
    BY <1>1, <1>2, <2>1, <2>2
<1>8. x % TAB = 0
  <2>1. 0 \in 0 .. TAB - 1 /\ q + 1 \in Int
    BY <1>2, <1>3
  <2>3. (0 + TAB * (q + 1)) % TAB = 0
    BY <1>2, <2>1, DivModUnique
  <2>2. x = 0 + TAB * (q + 1)
    BY <1>2, <1>3
  <2> QED
    BY <2>2, <2>3
<1>9. x \in stops /\ (\A c \in stops : x <= c) /\ x \in Int
  BY <1>2, <1>3, <1>5, <1>7, <1>8
<1>10. stops \in SUBSET Nat
  BY <1>1
<1>11. Min(stops) = x
  <2>1. Min(stops) \in stops /\ Min(stops) <= x
    BY <1>9, <1>10, MinLeast
  <2>2. x <= Min(stops) /\ Min(stops) \in Int
    BY <1>9, <1>10, <2>1
  <2> HIDE DEF x, stops
  <2> QED
    BY <1>9, <2>1, <2>2
<1>12. Sheet!Min(stops) = x
  BY <1>11 DEF Min, Sheet!Min
<1>13. PICK screen : IsScreen(screen, x, cursor_y, terminal_buffer) /\ Finish(screen)
  BY DEF PutTab, Screen, IsScreen, q
<1> HIDE DEF x
<1>14. x \in 0 .. COLUMNS /\ cursor_y \in 0 .. ROWS /\ cursor_y < ROWS
  BY <1>1, <1>2, <1>7
<1>15. IF x = COLUMNS THEN Landed(0, cursor_y + 1, terminal_buffer)
       ELSE Landed(x, cursor_y, terminal_buffer)
  BY <1>1, <1>13, <1>14, FinishLands
<1>16. Sheet!MoveTo(x, SheetRows)
  BY <1>1, <1>14, <1>15, LandedMoves DEF SheetRows
<1> QED
  BY <1>12, <1>15, <1>16, Mapping DEF Landed, Sheet!Tabulate

(* A carriage return goes to the beginning of the line.                      *)
LEMMA ReturnReturns ==
  ASSUME IInv, PutReturn
  PROVE  IInv' /\ Sheet!Return
<1>1. /\ cursor_y \in 0 .. ROWS - 1 /\ terminal_buffer \in [Cells -> LETTERS]
      /\ Len(scrolled_off) \in Nat
  BY DEF IInv, TypeOK
<1>2. COLUMNS \in Nat \ {0} /\ ROWS \in Nat \ {0}
  BY MonitorAssumption
<1>3. PICK screen : IsScreen(screen, 0, cursor_y, terminal_buffer) /\ Finish(screen)
  BY DEF PutReturn, Screen, IsScreen
<1>4. 0 \in 0 .. COLUMNS /\ 0 # COLUMNS /\ cursor_y \in 0 .. ROWS /\ cursor_y # ROWS
  BY <1>1, <1>2
<1>5. Landed(0, cursor_y, terminal_buffer)
  BY <1>1, <1>3, <1>4, FinishLands
<1>6. cursor_x' = 0 /\ SheetLine' = SheetLine /\ SheetRows' = SheetRows
  BY <1>4, <1>5 DEF Landed, SheetLine, SheetRows
<1> QED
  BY <1>5, <1>6, Mapping, MappingNext DEF Landed, Sheet!Return

(* A newline goes to the next line, and the sheet grows if there is none.    *)
LEMMA NewlineGoesOn ==
  ASSUME IInv, PutNewline
  PROVE  IInv' /\ Sheet!NextLine(SheetRows)
<1>1. /\ cursor_y \in 0 .. ROWS - 1 /\ terminal_buffer \in [Cells -> LETTERS]
      /\ Len(scrolled_off) \in Nat /\ scrolled_off \in Seq(Row)
  BY DEF IInv, TypeOK, Row
<1>2. COLUMNS \in Nat \ {0} /\ ROWS \in Nat \ {0}
  BY MonitorAssumption
<1>3. PICK screen : IsScreen(screen, 0, cursor_y + 1, terminal_buffer) /\ Finish(screen)
  BY <1>1 DEF PutNewline, Screen, IsScreen
<1>4. 0 \in 0 .. COLUMNS /\ 0 # COLUMNS /\ cursor_y + 1 \in 0 .. ROWS
  BY <1>1, <1>2
<1>5. Landed(0, cursor_y + 1, terminal_buffer)
  BY <1>1, <1>3, <1>4, FinishLands
<1>6. Len(SheetRows) = Len(scrolled_off) + ROWS
  BY <1>1, RowsEntries DEF SheetRows
<1>7. /\ cursor_x' = 0 /\ SheetLine' = SheetLine + 1
      /\ SheetRows' = IF SheetLine = Len(SheetRows) THEN Append(SheetRows, BlankRow) ELSE SheetRows
  BY <1>1, <1>2, <1>5, <1>6 DEF Landed, SheetLine, SheetRows
<1> QED
  BY <1>5, <1>7, Mapping, MappingNext DEF Landed, Sheet!NextLine, BlankRow, Sheet!BlankRow

(* A backspace that is printed erases within the line, or does nothing.      *)
LEMMA BackspaceErases ==
  ASSUME IInv, PutBackspace
  PROVE  IInv' /\ (Sheet!Erase \/ UNCHANGED <<SheetRows, SheetLine, cursor_x>>)
<1> DEFINE cells == Painted(terminal_buffer, cursor_x - 1, cursor_y, BLANK)
<1>1. /\ cursor_x \in 0 .. COLUMNS - 1 /\ cursor_y \in 0 .. ROWS - 1
      /\ scrolled_off \in Seq(Row) /\ terminal_buffer \in [Cells -> LETTERS]
      /\ Len(scrolled_off) \in Nat
  BY DEF IInv, TypeOK, Row
<1>2. COLUMNS \in Nat \ {0} /\ ROWS \in Nat \ {0} /\ BLANK \in LETTERS
  BY MonitorAssumption
<1>4. CASE cursor_x = 0
  <2>1. PICK screen : IsScreen(screen, 0, cursor_y, terminal_buffer) /\ Finish(screen)
    BY <1>4 DEF PutBackspace, Screen, IsScreen
  <2>2. 0 \in 0 .. COLUMNS /\ 0 # COLUMNS /\ cursor_y \in 0 .. ROWS /\ cursor_y # ROWS
    BY <1>1, <1>2
  <2>3. Landed(0, cursor_y, terminal_buffer)
    BY <1>1, <2>1, <2>2, FinishLands
  <2> QED
    BY <1>4, <2>2, <2>3 DEF Landed, SheetLine, SheetRows
<1>5. CASE cursor_x # 0
  <2>1. PICK screen : IsScreen(screen, cursor_x - 1, cursor_y, cells) /\ Finish(screen)
    BY <1>1, <1>5 DEF PutBackspace, Screen, IsScreen, Painted
  <2>2. /\ cursor_x - 1 \in 0 .. COLUMNS - 1 /\ cursor_x - 1 \in 0 .. COLUMNS
        /\ cursor_y \in 0 .. ROWS /\ cursor_y # ROWS /\ cursor_x - 1 # COLUMNS /\ cursor_x > 0
    BY <1>1, <1>2, <1>5
  <2>3. /\ cells \in [Cells -> LETTERS]
        /\ Rows(scrolled_off, cells) = Typed(SheetRows, SheetLine, cursor_x - 1, BLANK)
    BY <1>1, <1>2, <2>2, RowsWrite DEF SheetRows, SheetLine
  <2> HIDE DEF cells
  <2>4. Landed(cursor_x - 1, cursor_y, cells)
    BY <2>1, <2>2, <2>3, FinishLands
  <2>5. Sheet!MoveTo(cursor_x - 1, Typed(SheetRows, SheetLine, cursor_x - 1, BLANK))
    BY <2>2, <2>3, <2>4, LandedMoves
  <2> QED
    BY <2>2, <2>4, <2>5, Mapping DEF Landed, Sheet!Erase, Typed
<1> QED
  BY <1>4, <1>5

(* The walk back over blanks takes back the last thing that can be seen      *)
(* before the cursor.                                                        *)
LEMMA BackspaceDeletes ==
  ASSUME IInv, Backspace
  PROVE  IInv' /\ Sheet!Delete
<1> DEFINE cells == terminal_buffer
           S == Len(scrolled_off)
           p == At(cursor_x, cursor_y)
           end == Stops(cells)[p]
           ex == end % COLUMNS
           ey == end \div COLUMNS
<1>1. /\ cursor_x \in 0 .. COLUMNS - 1 /\ cursor_y \in 0 .. ROWS - 1
      /\ scrolled_off \in Seq(Row) /\ cells \in [Cells -> LETTERS] /\ S \in Nat
  BY DEF IInv, TypeOK, Row
<1>2. COLUMNS \in Nat \ {0} /\ ROWS \in Nat \ {0} /\ BLANK \in LETTERS
  BY MonitorAssumption
<1>3. /\ p # 0 /\ UNCHANGED scrolled_off
      /\ Show([x |-> ex, y |-> ey, cells |-> [cells EXCEPT ![end] = BLANK]])
  BY DEF Backspace, Stops
<1>4. p \in Cells /\ Cells \subseteq Nat
  BY <1>1, AtCell DEF Cells
<1>5. /\ end \in Cells /\ end < p
      /\ \A j \in Cells : end < j /\ j < p => cells[j] = BLANK
      /\ end = 0 \/ cells[end] # BLANK
  BY <1>1, <1>3, <1>4, StopsAt
<1>6. ex \in 0 .. COLUMNS - 1 /\ ey \in 0 .. ROWS - 1 /\ At(ex, ey) = end
  BY <1>5, CellAt
<1>7. /\ Painted(cells, ex, ey, BLANK) \in [Cells -> LETTERS]
      /\ Rows(scrolled_off, Painted(cells, ex, ey, BLANK))
           = Typed(SheetRows, S + ey + 1, ex, BLANK)
  BY <1>1, <1>2, <1>6, RowsWrite DEF SheetRows
<1>8. /\ IInv' /\ cursor_x' = ex /\ SheetLine' = S + ey + 1
      /\ SheetRows' = Typed(SheetRows, S + ey + 1, ex, BLANK)
  <2> DEFINE painted == Painted(cells, ex, ey, BLANK)
             screen == [x |-> ex, y |-> ey, cells |-> painted]
  <2>1. Show(screen)
    BY <1>3, <1>6 DEF Painted
  <2>2. IsScreen(screen, ex, ey, painted)
    BY DEF IsScreen
  <2>3. ey # ROWS
    BY <1>2, <1>6
  <2> HIDE DEF screen, painted, ex, ey
  <2>4. painted \in [Cells -> LETTERS]
    BY <1>7 DEF painted
  <2>5. Landed(ex, ey, painted)
    BY <1>3, <1>6, <2>1, <2>2, <2>4, ShowLands
  <2> QED
    BY <1>7, <2>3, <2>5 DEF Landed, painted
<1> HIDE DEF ex, ey, end
<1>9. \A y \in 0 .. ROWS - 1, x \in 0 .. COLUMNS - 1 : SheetRows[S + y + 1][x] = cells[At(x, y)]
  <2>1. \A y \in 0 .. ROWS - 1 :
          SheetRows[S + y + 1] = [c \in 0 .. COLUMNS - 1 |-> cells[At(c, y)]]
    BY <1>1, RowsEntries DEF SheetRows
  <2> QED
    BY <2>1
<1>10. Len(SheetRows) = S + ROWS
  BY <1>1, RowsEntries DEF SheetRows
<1> DEFINE Before == {at \in (S + 1 .. SheetLine) \X (0 .. COLUMNS - 1) :
                        /\ at[1] < SheetLine \/ at[2] < cursor_x
                        /\ SheetRows[at[1]][at[2]] # BLANK}
           Last == CHOOSE at \in Before :
                     \A b \in Before : b[1] < at[1] \/ (b[1] = at[1] /\ b[2] <= at[2])
<1>11. ASSUME NEW at \in Before
       PROVE  /\ at[1] \in Int /\ at[2] \in Int /\ at = <<at[1], at[2]>>
              /\ at[1] < S + ey + 1 \/ (at[1] = S + ey + 1 /\ at[2] <= ex)
              /\ cells[end] = BLANK => FALSE
  <2> DEFINE x == at[2]
             y == at[1] - S - 1
  <2>1. /\ at[1] \in S + 1 .. SheetLine /\ x \in 0 .. COLUMNS - 1 /\ at = <<at[1], at[2]>>
        /\ at[1] < SheetLine \/ at[2] < cursor_x
        /\ SheetRows[at[1]][at[2]] # BLANK
    OBVIOUS
  <2>2. y \in 0 .. cursor_y /\ y \in 0 .. ROWS - 1 /\ at[1] = S + y + 1
    <3>1. SheetLine = S + cursor_y + 1 /\ S \in Nat /\ cursor_y \in 0 .. ROWS - 1 /\ ROWS \in Nat
      BY <1>1, <1>2 DEF SheetLine
    <3>2. at[1] \in Int /\ S + 1 <= at[1] /\ at[1] <= S + cursor_y + 1
      BY <2>1, <3>1
    <3> QED
      BY <3>1, <3>2
  <2>3. y < cursor_y \/ (y = cursor_y /\ x < cursor_x)
    BY <1>1, <2>1, <2>2 DEF SheetLine
  <2> HIDE DEF x, y
  <2>4. At(x, y) \in Cells /\ At(x, y) < p
    BY <1>1, <2>1, <2>2, <2>3, AtCell, AtOrder
  <2>5. cells[At(x, y)] # BLANK
    BY <1>9, <2>1, <2>2 DEF x
  <2>6. ~(end < At(x, y))
    BY <1>5, <2>4, <2>5
  <2>7. ~(ey < y \/ (ey = y /\ ex < x))
    BY <1>6, <2>1, <2>2, <2>6, AtOrder
  <2>8. cells[end] = BLANK => FALSE
    <3> SUFFICES ASSUME cells[end] = BLANK PROVE FALSE
      OBVIOUS
    <3>1. end = 0 /\ At(x, y) \in Nat
      BY <1>4, <1>5, <2>4
    <3>2. At(x, y) = end
      BY <2>6, <3>1
    <3> QED
      BY <2>5, <3>2
  <2>9. at[1] \in Int /\ at[2] \in Int /\ x \in Int /\ x = at[2] /\ S \in Nat
    <3>1. COLUMNS \in Nat /\ S \in Nat
      BY <1>1, <1>2
    <3> QED
      BY <2>1, <2>2, <3>1 DEF x
  <2>10. at[1] < S + ey + 1 \/ (at[1] = S + ey + 1 /\ at[2] <= ex)
    <3>1. ey \in Int /\ ex \in Int /\ y \in Int
      BY <1>6, <2>2, <2>9
    <3> QED
      BY <2>2, <2>7, <2>9, <3>1
  <2> QED
    BY <2>1, <2>8, <2>9, <2>10
<1>12. Sheet!FirstShown = S + 1
  BY <1>1, <1>2, <1>10, Mapping DEF Sheet!FirstShown
<1> DEFINE Taken ==
             /\ Before # {}
             /\ SheetLine' = Last[1] /\ cursor_x' = Last[2]
             /\ SheetRows' = [SheetRows EXCEPT ![Last[1]][Last[2]] = BLANK]
           Nothing ==
             /\ Before = {}
             /\ SheetLine' = S + 1 /\ cursor_x' = 0 /\ SheetRows' = SheetRows
<1>15. IInv' /\ (Taken \/ Nothing) => Sheet!Delete
  <2>1. /\ scrolled_off \o [i \in 1 .. ROWS |-> RowOnScreen(i - 1)] = SheetRows
        /\ Len(scrolled_off) + board_cursor \div COLUMNS + 1 = SheetLine
        /\ board_cursor % COLUMNS = cursor_x
    BY Mapping
  <2>2. Sheet!Delete <=>
          Deletes(scrolled_off \o [i \in 1 .. ROWS |-> RowOnScreen(i - 1)],
                  Len(scrolled_off) + board_cursor \div COLUMNS + 1, board_cursor % COLUMNS,
                  Sheet!FirstShown,
                  (scrolled_off \o [i \in 1 .. ROWS |-> RowOnScreen(i - 1)])',
                  (Len(scrolled_off) + board_cursor \div COLUMNS + 1)',
                  (board_cursor % COLUMNS)')
    BY Zenon DEF Sheet!Delete, Deletes
  <2>3. Taken \/ Nothing <=>
          Deletes(SheetRows, SheetLine, cursor_x, S + 1, SheetRows', SheetLine', cursor_x')
    BY Zenon DEF Deletes
  <2> QED
    BY <1>12, <2>1, <2>2, <2>3, MappingNext, Zenon
<1>13. CASE cells[end] # BLANK
  <2> DEFINE here == <<S + ey + 1, ex>>
  <2>1. ey < cursor_y \/ (ey = cursor_y /\ ex < cursor_x)
    BY <1>1, <1>5, <1>6, AtOrder
  <2>2. here \in Before
    <3>1. S + ey + 1 \in S + 1 .. SheetLine
      BY <1>1, <1>6, <2>1 DEF SheetLine
    <3>2. S + ey + 1 < SheetLine \/ ex < cursor_x
      BY <1>1, <1>6, <2>1 DEF SheetLine
    <3>3. SheetRows[S + ey + 1][ex] # BLANK
      BY <1>6, <1>9, <1>13
    <3> QED
      BY <1>6, <3>1, <3>2, <3>3
  <2> HIDE DEF Before
  <2>3. \A b \in Before : b[1] < here[1] \/ (b[1] = here[1] /\ b[2] <= here[2])
    BY <1>11
  <2>4. Last \in Before /\ \A b \in Before : b[1] < Last[1] \/ (b[1] = Last[1] /\ b[2] <= Last[2])
    <3>1. \E at \in Before : \A b \in Before : b[1] < at[1] \/ (b[1] = at[1] /\ b[2] <= at[2])
      BY <2>2, <2>3
    <3> QED
      BY <3>1
  <2>5. Last[1] = S + ey + 1 /\ Last[2] = ex
    <3>1. /\ Last[1] < here[1] \/ (Last[1] = here[1] /\ Last[2] <= here[2])
          /\ here[1] < Last[1] \/ (here[1] = Last[1] /\ here[2] <= Last[2])
      BY <2>2, <2>3, <2>4
    <3>2. Last[1] \in Int /\ Last[2] \in Int /\ here[1] \in Int /\ here[2] \in Int
      BY <1>11, <2>2, <2>4
    <3> HIDE DEF Last
    <3> QED
      BY <3>1, <3>2
  <2>6. Before # {}
    BY <2>2
  <2>7. Taken
    BY <1>8, <2>5, <2>6 DEF Typed
  <2> QED
    BY <1>8, <1>15, <2>7
<1>14. CASE cells[end] = BLANK
  <2>1. Before = {}
    BY <1>11, <1>14
  <2>2. end = 0
    BY <1>5, <1>14
  <2>3. ex = 0 /\ ey = 0
    BY <1>2, <2>2, <1>6, DivModUnique DEF ex, ey
  <2>4. SheetRows' = SheetRows
    <3>1. SheetRows' = Rows(scrolled_off, Painted(cells, ex, ey, BLANK))
      BY <1>7, <1>8
    <3>2. Painted(cells, ex, ey, BLANK) = cells
      BY <1>1, <1>5, <1>6, <1>14 DEF Painted
    <3> QED
      BY <3>1, <3>2 DEF SheetRows
  <2>5. cursor_x' = 0 /\ SheetLine' = S + 1
    BY <1>1, <1>8, <2>3
  <2> HIDE DEF Last
  <2>6. Nothing
    BY <2>1, <2>4, <2>5
  <2> QED
    BY <1>8, <1>15, <2>6
<1> QED
  BY <1>8, <1>13, <1>14

(* Clearing the screen leaves blank rows where it was.                       *)
LEMMA InitMonitorClears ==
  ASSUME IInv, InitMonitor
  PROVE  IInv' /\ Sheet!Clear
<1> DEFINE S == Len(scrolled_off)
           cleared == [i \in 1 .. S + ROWS |-> IF i < S + 1 THEN SheetRows[i] ELSE BlankRow]
           blank == Rows(scrolled_off, BlankScreen)
<1>1. /\ scrolled_off \in Seq(Row) /\ terminal_buffer \in [Cells -> LETTERS] /\ S \in Nat
  BY DEF IInv, TypeOK, Row
<1>2. COLUMNS \in Nat \ {0} /\ ROWS \in Nat \ {0} /\ BLANK \in LETTERS
  BY MonitorAssumption
<1>3. BlankScreen \in [Cells -> LETTERS]
  BY <1>2 DEF BlankScreen
<1>4. Landed(0, 0, BlankScreen)
  <2> DEFINE screen == [x |-> 0, y |-> 0, cells |-> BlankScreen]
  <2>1. IsScreen(screen, 0, 0, BlankScreen) /\ Show(screen) /\ UNCHANGED scrolled_off
    BY DEF IsScreen, InitMonitor
  <2>2. 0 \in 0 .. COLUMNS - 1 /\ 0 \in 0 .. ROWS - 1
    BY <1>2
  <2> HIDE DEF screen
  <2> QED
    BY <1>3, <2>1, <2>2, ShowLands
<1>5. cursor_x' = 0 /\ SheetLine' = S + 1 /\ SheetRows' = blank /\ IInv'
  BY <1>1, <1>2, <1>4 DEF Landed
<1>6. /\ Len(SheetRows) = S + ROWS /\ \A i \in 1 .. S : SheetRows[i] = scrolled_off[i]
  BY <1>1, RowsEntries DEF SheetRows
<1>7. /\ blank \in Seq(Row) /\ Len(blank) = S + ROWS
      /\ \A i \in 1 .. S : blank[i] = scrolled_off[i]
      /\ \A y \in 0 .. ROWS - 1 :
           blank[S + y + 1] = [c \in 0 .. COLUMNS - 1 |-> BlankScreen[At(c, y)]]
  BY <1>1, <1>3, RowsEntries
<1> HIDE DEF blank
<1>8. \A y \in 0 .. ROWS - 1 : blank[S + y + 1] = BlankRow
  <2> SUFFICES ASSUME NEW y \in 0 .. ROWS - 1
               PROVE  [c \in 0 .. COLUMNS - 1 |-> BlankScreen[At(c, y)]] = BlankRow
    BY <1>7
  <2>1. \A c \in 0 .. COLUMNS - 1 : BlankScreen[At(c, y)] = BLANK
    BY AtCell DEF BlankScreen
  <2> QED
    BY <2>1 DEF BlankRow
<1>9. ASSUME NEW i \in 1 .. S + ROWS
      PROVE  blank[i] = IF i < S + 1 THEN SheetRows[i] ELSE BlankRow
  <2>1. CASE i < S + 1
    <3>1. i \in 1 .. S
      BY <1>1, <2>1
    <3> QED
      BY <1>6, <1>7, <2>1, <3>1
  <2>2. CASE ~(i < S + 1)
    <3>1. i - S - 1 \in 0 .. ROWS - 1 /\ i = S + (i - S - 1) + 1
      BY <1>1, <1>2, <2>2
    <3> QED
      BY <1>8, <2>2, <3>1
  <2> QED
    BY <2>1, <2>2
<1>10. blank = cleared
  <2>1. DOMAIN blank = 1 .. S + ROWS /\ blank = [i \in DOMAIN blank |-> blank[i]]
    BY <1>7, LenProperties
  <2> QED
    BY <1>9, <2>1
<1>11. Sheet!FirstShown = S + 1
  BY <1>1, <1>2, <1>6, Mapping DEF Sheet!FirstShown
<1> QED
  BY <1>5, <1>6, <1>10, <1>11, Mapping, MappingNext DEF Sheet!Clear, BlankRow, Sheet!BlankRow

-----------------------------------------------------------------------------
(* A blank screen with the cursor at its beginning is a blank sheet.         *)
LEMMA InitShowsPaper == Init => IInv /\ Sheet!Init
<1> SUFFICES ASSUME Init PROVE IInv /\ Sheet!Init
  OBVIOUS
<1>1. COLUMNS \in Nat \ {0} /\ ROWS \in Nat \ {0} /\ BLANK \in LETTERS
  BY MonitorAssumption
<1>2. At(0, 0) = 0
  BY <1>1 DEF At
<1>3. << >> \in Seq(Row) /\ Len(<< >>) = 0
  BY EmptySeq
<1>4. BlankScreen \in [Cells -> LETTERS]
  BY <1>1 DEF BlankScreen
<1>5. IInv
  BY <1>1, <1>2, <1>3, <1>4 DEF Init, IInv, TypeOK, Row
<1>6. SheetRows = [i \in 1 .. ROWS |-> BlankRow]
  <2> DEFINE blank == [i \in 1 .. ROWS |-> BlankRow]
  <2>1. /\ SheetRows \in Seq(Row) /\ Len(SheetRows) = ROWS
        /\ \A y \in 0 .. ROWS - 1 :
             SheetRows[y + 1] = [c \in 0 .. COLUMNS - 1 |-> BlankScreen[At(c, y)]]
    <3>1. SheetRows = Rows(<< >>, BlankScreen)
      BY DEF Init, SheetRows
    <3>2. /\ SheetRows \in Seq(Row) /\ Len(SheetRows) = Len(<< >>) + ROWS
          /\ \A y \in 0 .. ROWS - 1 :
               SheetRows[Len(<< >>) + y + 1] = [c \in 0 .. COLUMNS - 1 |-> BlankScreen[At(c, y)]]
      BY <1>3, <1>4, <3>1, RowsEntries
    <3>3. \A y \in 0 .. ROWS - 1 : Len(<< >>) + y + 1 = y + 1
      BY <1>1, <1>3
    <3>4. Len(SheetRows) = ROWS
      <4>1. Len(SheetRows) = Len(<< >>) + ROWS
        BY <3>2
      <4>2. 0 + ROWS = ROWS
        BY <1>1
      <4> QED
        BY <1>3, <4>1, <4>2, Zenon
    <3> QED
      BY <3>2, <3>3, <3>4
  <2>2. blank \in [1 .. ROWS -> Row]
    BY <1>1 DEF BlankRow, Row
  <2>3. blank \in Seq(Row) /\ Len(blank) = ROWS
    BY <1>1, <2>2, FunctionIsSeq
  <2>4. ASSUME NEW i \in 1 .. ROWS PROVE SheetRows[i] = blank[i]
    <3>1. i - 1 \in 0 .. ROWS - 1 /\ i = (i - 1) + 1
      BY <1>1
    <3>2. \A c \in 0 .. COLUMNS - 1 : BlankScreen[At(c, i - 1)] = BLANK
      BY <3>1, AtCell DEF BlankScreen
    <3>3. SheetRows[i] = BlankRow
      BY <2>1, <3>1, <3>2 DEF BlankRow
    <3> QED
      BY <3>3
  <2> HIDE DEF blank
  <2>5. SheetRows = blank
    BY <2>1, <2>3, <2>4, SeqEqual
  <2> QED
    BY <2>5 DEF blank
<1>7. SheetLine = 1 /\ cursor_x = 0
  BY <1>3 DEF Init, SheetLine
<1> QED
  BY <1>5, <1>6, <1>7, Mapping DEF Sheet!Init, BlankRow, Sheet!BlankRow

(* Every call is a step on the sheet, or changes nothing of it.              *)
LEMMA StepShowsPaper == IInv /\ [Next]_vars => IInv' /\ [Sheet!Next]_(Sheet!vars)
<1> SUFFICES ASSUME IInv, [Next]_vars PROVE IInv' /\ [Sheet!Next]_(Sheet!vars)
  OBVIOUS
<1>1. CASE InitMonitor
  BY <1>1, InitMonitorClears DEF Sheet!Next
<1>2. CASE \E c \in LETTERS : PutLetter(c)
  BY <1>2, LetterTypes DEF Sheet!Next
<1>3. CASE PutTab
  BY <1>3, TabTabulates DEF Sheet!Next
<1>4. CASE PutReturn
  BY <1>4, ReturnReturns DEF Sheet!Next
<1>5. CASE PutNewline
  BY <1>5, NewlineGoesOn, Mapping DEF Sheet!Next
<1>6. CASE PutBackspace
  BY <1>6, BackspaceErases, Mapping, MappingNext DEF Sheet!Next, Sheet!vars
<1>7. CASE Backspace
  BY <1>7, BackspaceDeletes DEF Sheet!Next
<1>8. CASE UNCHANGED vars
  BY <1>8 DEF vars, IInv, TypeOK, Sheet!vars, RowOnScreen
<1> QED
  BY <1>1, <1>2, <1>3, <1>4, <1>5, <1>6, <1>7, <1>8 DEF Next

(* Every state of a behaviour satisfies the inductive invariant.             *)
LEMMA Invariance == Spec => []IInv
<1>1. Init => IInv
  BY InitShowsPaper
<1>2. IInv /\ [Next]_vars => IInv'
  BY StepShowsPaper
<1> QED
  BY <1>1, <1>2, PTL DEF Spec

(* Between calls the cursor is on the screen, whatever was printed or taken  *)
(* back: every cell that the next call writes is in the video memory.        *)
THEOREM CursorOnScreen == Spec => []TypeOK
<1>1. IInv => TypeOK
  BY DEF IInv
<1> QED
  BY <1>1, Invariance, PTL

(* monitor_put() and the walk of handle_back_space() do to the screen what   *)
(* they would do to a sheet of paper of which the screen is the end, and the *)
(* board shows the cursor where the next character goes.                     *)
THEOREM MonitorShowsPaper == Spec => ShowsPaper
<1>1. Init => Sheet!Init
  BY InitShowsPaper
<1>2. IInv /\ [Next]_vars => [Sheet!Next]_(Sheet!vars)
  BY StepShowsPaper
<1> QED
  BY <1>1, <1>2, Invariance, PTL DEF Spec, ShowsPaper, Sheet!Spec
=============================================================================
