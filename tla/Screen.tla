------------------------------- MODULE Screen -------------------------------
(***************************************************************************)
(* The 5250 display: ScreenBuffer (tn5250/screen.py) and ScreenField       *)
(* (tn5250/field.py), shared by the operator's edits (module Editing) and  *)
(* the host's writes (module HostWrite).                                   *)
(*                                                                         *)
(* A cell is its address row * Cols + col, a field the address of its      *)
(* first cell with what the code asks of its format words.  attrs and      *)
(* modified_positions, which nothing reads, are left out.                  *)
(***************************************************************************)
EXTENDS Integers, Sequences

CONSTANTS
    Rows, Cols,   \* the size of the display
    Chars,        \* what a cell may show
    Blank,        \* the space
    Upper         \* str.upper() on Chars

ASSUME DisplayShape == Rows \in Nat \ {0} /\ Cols \in Nat \ {0}
ASSUME BlankIsChar  == Blank \in Chars
ASSUME UpperType    == Upper \in [Chars -> Chars]

VARIABLES
    buffer,     \* the character of every cell
    fields,     \* the format table, in the order the host defined it
    row, col,   \* the cursor
    dirty       \* history: cells the operator changed and the host has not seen

screen == <<buffer, fields, row, col, dirty>>

Size  == Rows * Cols
Cells == 0..(Size - 1)

\* One entry of the format table.  modified is the attribute of that name, mdt
\* the bit of the format word that the response is built from.
Fields == [start : Nat, length : Nat, input : BOOLEAN, mono : BOOLEAN,
           mdt : BOOLEAN, modified : BOOLEAN]

Least(a, b) == IF a < b THEN a ELSE b
Most(a, b)  == IF a < b THEN b ELSE a

CharAt(p) == IF p \in Cells THEN buffer[p] ELSE Blank
CursorPos == row * Cols + col
CellsOf(f) == {p \in Cells : f.start <= p /\ p < f.start + f.length}

\* A mistake TypeOK must catch: the cursor is not clamped.
SetCursorUnclamped(r, c) == row' = r /\ col' = c

\* set_cursor() clamps each coordinate; callers divide an address into two.
OnRow(r) == Most(0, Least(r, Rows - 1))
OnCol(c) == Most(0, Least(c, Cols - 1))
SetCursor(r, c) == row' = OnRow(r) /\ col' = OnCol(c)
SetCursorAt(p)  == SetCursor(p \div Cols, p % Cols)

\* The cell that SetCursorAt(p) leaves the cursor on.
Clamped(p) == OnRow(p \div Cols) * Cols + OnCol(p % Cols)

\* get_field_at_cursor(): the first field that holds the cursor, 0 for none.
Holding == {i \in 1..Len(fields) :
               fields[i].start <= CursorPos /\ CursorPos < fields[i].start + fields[i].length}
FieldAtCursor ==
    IF Holding = {} THEN 0 ELSE CHOOSE i \in Holding : \A j \in Holding : i <= j

\* get_input_fields(): the fields that take input, in format table order.
InputField(i) == i \in 1..Len(fields) /\ fields[i].input
FirstInput == CHOOSE i \in 1..Len(fields) :
                 fields[i].input /\ \A j \in 1..(i - 1) : ~fields[j].input
LastInput  == CHOOSE i \in 1..Len(fields) :
                 fields[i].input /\ \A j \in (i + 1)..Len(fields) : ~fields[j].input
HasInput   == \E i \in 1..Len(fields) : fields[i].input

\* A mistake EditsReachHost must catch: the bit of the format word is not set.
SetFlagOnly(i) == fields' = [fields EXCEPT ![i].modified = TRUE]

\* ScreenField.set_modified()
SetModified(i) ==
    fields' = [fields EXCEPT ![i].modified = TRUE, ![i].mdt = TRUE]

\* ScreenBuffer.clear()
ClearScreen ==
    /\ buffer' = [p \in Cells |-> Blank]
    /\ fields' = <<>>
    /\ row' = 0 /\ col' = 0
    /\ dirty' = {}

ScreenInit ==
    /\ buffer = [p \in Cells |-> Blank]
    /\ fields = <<>>
    /\ row = 0 /\ col = 0
    /\ dirty = {}

ScreenTypeOK ==
    /\ buffer \in [Cells -> Chars]
    /\ fields \in Seq(Fields)
    /\ row \in 0..(Rows - 1) /\ col \in 0..(Cols - 1)
    /\ dirty \subseteq Cells
=============================================================================
