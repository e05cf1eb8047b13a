------------------------------- MODULE Editing -------------------------------
(***************************************************************************)
(* What the operator does to the screen between two keys sent to the host: *)
(* Tn5250Session's local editing keys, type_keys() and move_cursor(), and  *)
(* the server's Tab and Backtab.                                           *)
(***************************************************************************)
EXTENDS Screen

CONSTANT Texts   \* the strings send_keys() is called with
ASSUME TextsType == Texts \subseteq Seq(Chars)

VARIABLE stray   \* history: cells typed outside the input field at the cursor

edit == <<screen, stray>>

FieldEnd(f) == f.start + f.length

\* Mistakes the edit properties must catch: the shift takes in the cell behind the
\* field, or the last cell keeps its character.
ShiftLeftTooFar(from, end) ==
    buffer' = [p \in Cells |-> IF from <= p /\ p < end THEN CharAt(p + 1)
                               ELSE IF p = end THEN Blank ELSE buffer[p]]
ShiftLeftUnblanked(from, end) ==
    buffer' = [p \in Cells |-> IF from <= p /\ p < end - 1 THEN CharAt(p + 1) ELSE buffer[p]]

\* The characters of [from, end) move one to the left, a blank comes in last;
\* cells beyond the display read as blank and are not written.
ShiftLeft(from, end) ==
    buffer' = [p \in Cells |-> IF from <= p /\ p < end - 1 THEN CharAt(p + 1)
                               ELSE IF p = end - 1 THEN Blank ELSE buffer[p]]

Changed == {p \in Cells : buffer'[p] # buffer[p]}

\* type_keys(): the text goes to the cells from the cursor on, to the end of the
\* display; the field at the cursor is marked, and its monocase governs all.
TypeKeys(text) ==
    LET cursor == CursorPos
        i      == FieldAtCursor
        mono   == i # 0 /\ fields[i].mono
        typed  == {p \in Cells : cursor <= p /\ p < cursor + Len(text)}
        Char(p) == IF mono THEN Upper[text[p - cursor + 1]] ELSE text[p - cursor + 1]
    IN  /\ buffer' = [p \in Cells |-> IF p \in typed THEN Char(p) ELSE buffer[p]]
        /\ IF i = 0 THEN UNCHANGED fields ELSE SetModified(i)
        /\ SetCursorAt(cursor + Len(text))
        /\ dirty' = dirty \cup Changed
        /\ stray' = stray \cup (typed \ (IF i = 0 THEN {} ELSE CellsOf(fields[i])))

\* move_cursor(), as server.set_cursor() validates it.
MoveCursor(r, c) ==
    /\ r \in 1..Rows /\ c \in 1..Cols
    /\ SetCursor(r - 1, c - 1)
    /\ UNCHANGED <<buffer, fields, dirty, stray>>

Backspace ==
    /\ FieldAtCursor # 0
    /\ LET f == fields[FieldAtCursor]
       IN  /\ CursorPos > f.start
           /\ ShiftLeft(CursorPos - 1, FieldEnd(f))
    /\ SetCursorAt(CursorPos - 1)
    /\ SetModified(FieldAtCursor)
    /\ dirty' = dirty \cup Changed
    /\ UNCHANGED stray

Delete ==
    /\ FieldAtCursor # 0
    /\ ShiftLeft(CursorPos, FieldEnd(fields[FieldAtCursor]))
    /\ SetModified(FieldAtCursor)
    /\ dirty' = dirty \cup Changed
    /\ UNCHANGED <<row, col, stray>>

\* The input field after the one at i's place in the format table, wrapping.
NextInput(i) ==
    IF \E j \in 1..Len(fields) : j > i /\ fields[j].input
    THEN CHOOSE j \in 1..Len(fields) :
            j > i /\ fields[j].input /\ \A k \in (i + 1)..(j - 1) : ~fields[k].input
    ELSE FirstInput

\* field_exit(): the cursor moves only from a place where an input field starts.
FieldExit ==
    /\ FieldAtCursor # 0
    /\ LET f      == fields[FieldAtCursor]
           places == {i \in 1..Len(fields) : fields[i].input /\ fields[i].start = f.start}
       IN  /\ buffer' = [p \in Cells |-> IF CursorPos <= p /\ p < FieldEnd(f)
                                         THEN Blank ELSE buffer[p]]
           /\ IF places = {} THEN UNCHANGED <<row, col>>
              ELSE LET i == CHOOSE i \in places : \A j \in places : i <= j
                   IN  SetCursorAt(fields[NextInput(i)].start)
    /\ SetModified(FieldAtCursor)
    /\ dirty' = dirty \cup Changed
    /\ UNCHANGED stray

Home ==
    /\ HasInput
    /\ SetCursorAt(fields[FirstInput].start)
    /\ UNCHANGED <<buffer, fields, dirty, stray>>

\* end(): after the last non-blank of the field, on it when the field is full.
EndTarget(f) ==
    LET shown == {p \in CellsOf(f) : buffer[p] # Blank}
        last  == CHOOSE p \in shown : \A q \in shown : q <= p
    IN  IF shown = {} THEN f.start
        ELSE IF last >= FieldEnd(f) - 1 THEN FieldEnd(f) - 1 ELSE last + 1

End ==
    /\ FieldAtCursor # 0
    /\ SetCursorAt(EndTarget(fields[FieldAtCursor]))
    /\ UNCHANGED <<buffer, fields, dirty, stray>>

-----------------------------------------------------------------------------
\* server._move_to_next_field(): the format table is searched in its own order.

\* A mistake TabRing must catch: the field at the cursor is not passed over.
TabTargetAt(p) ==
    LET after == {i \in 1..Len(fields) : fields[i].input /\ fields[i].start >= p}
    IN  fields[IF after = {} THEN FirstInput
               ELSE CHOOSE i \in after : \A j \in after : i <= j].start

TabTarget(p) ==
    LET after == {i \in 1..Len(fields) : fields[i].input /\ fields[i].start > p}
    IN  fields[IF after = {} THEN FirstInput
               ELSE CHOOSE i \in after : \A j \in after : i <= j].start

BacktabTarget(p) ==
    LET before == {i \in 1..Len(fields) : fields[i].input /\ fields[i].start < p}
    IN  fields[IF before = {} THEN LastInput
               ELSE CHOOSE i \in before : \A j \in before : j <= i].start

\* Where the next search starts from: Tab and Backtab set the cursor, clamped.
AfterTab(p)     == Clamped(TabTarget(p))
AfterBacktab(p) == Clamped(BacktabTarget(p))

Tab ==
    /\ HasInput
    /\ SetCursorAt(TabTarget(CursorPos))
    /\ UNCHANGED <<buffer, fields, dirty, stray>>

Backtab ==
    /\ HasInput
    /\ SetCursorAt(BacktabTarget(CursorPos))
    /\ UNCHANGED <<buffer, fields, dirty, stray>>

EditingNext ==
    \/ \E text \in Texts : TypeKeys(text)
    \/ \E r \in 1..Rows, c \in 1..Cols : MoveCursor(r, c)
    \/ Backspace \/ Delete \/ FieldExit \/ Home \/ End \/ Tab \/ Backtab
=============================================================================
