------------------------------- MODULE Terminal -------------------------------
(***************************************************************************)
(* The emulated 5250 terminal: the operator edits (Editing), the host      *)
(* writes (HostWrite), and a key that goes to the host carries the fields  *)
(* with their MDT bit set (build_response() in tn5250/commands.py).        *)
(***************************************************************************)
EXTENDS Editing, HostWrite

vars == <<edit, parser>>

Init == ScreenInit /\ ParserInit /\ stray = {}

\* build_response(): the fields it reports, and what the host learns by it.
Reported == {i \in 1..Len(fields) : fields[i].mdt}
Covered  == UNION {CellsOf(fields[i]) : i \in Reported}

Respond ==
    /\ ~writing
    /\ dirty' = dirty \ Covered
    /\ stray' = stray \ Covered
    /\ UNCHANGED <<buffer, fields, row, col, parser>>

Next ==
    \/ ~writing /\ EditingNext /\ UNCHANGED parser
    \/ HostNext /\ stray' = stray \cap dirty'
    \/ Respond

Spec == Init /\ [][Next]_vars

-----------------------------------------------------------------------------
\* Properties

\* The type of every variable; in particular the cursor is on the display.
TypeOK == ScreenTypeOK /\ ParserTypeOK /\ stray \subseteq Cells

\* Between writes every field of the format table has a cell of its own: the
\* lengths the data stream left open were all settled (_finalize_field).
FieldsSettled ==
    ~writing => \A i \in 1..Len(fields) : fields[i].length >= 1

\* What the operator changed is in the response to the host, whatever the order
\* of typing, deleting, field exits, host writes and earlier responses: a
\* changed cell the host has not seen is in a field with its MDT bit set, unless
\* it was typed beside the field at the cursor.
EditsReachHost == dirty \subseteq Covered \cup stray

\* Backspace, Delete, Field Exit and End keep to the field they work on: no cell
\* outside of it changes, and but for Field Exit the cursor stays in it.
AtField == ~writing /\ ~writing' /\ FieldAtCursor # 0
OnDisplay(f) == FieldEnd(f) <= Size
EditsStayInField ==
    [][ AtField =>
          LET f == fields[FieldAtCursor]
          IN  /\ Backspace \/ Delete \/ FieldExit => Changed \subseteq CellsOf(f)
              /\ OnDisplay(f) /\ (Backspace \/ Delete \/ End) => CursorPos' \in CellsOf(f)
      ]_vars

\* Backspace and Delete take out one character: the field's text is the old text
\* without that character and with a blank behind it.
FieldText(f, b) == [k \in 1..f.length |-> b[f.start + k - 1]]
Without(s, k) == [j \in 1..Len(s) |-> IF j < k THEN s[j]
                                      ELSE IF j < Len(s) THEN s[j + 1] ELSE Blank]
EditsAreExact ==
    [][ AtField =>
          LET f == fields[FieldAtCursor]
              k == CursorPos - f.start
          IN  OnDisplay(f) =>
                /\ Backspace => FieldText(f, buffer') = Without(FieldText(f, buffer), k)
                /\ Delete => FieldText(f, buffer') = Without(FieldText(f, buffer), k + 1)
      ]_vars

\* On a screen whose input fields all start on the display and were defined from
\* top to bottom, Tab pressed again and again moves the cursor to every one of
\* them from wherever it is, and Backtab takes a Tab between them back
\* (_move_to_next_field(), set_cursor()).  A field that starts behind the last
\* cell is never got past: the clamped cursor stays before it.
InputStarts == {fields[i].start : i \in {j \in 1..Len(fields) : fields[j].input}}
TopToBottom ==
    \A i, j \in 1..Len(fields) :
        i < j /\ fields[i].input /\ fields[j].input => fields[i].start < fields[j].start
TabRing ==
    ~writing /\ HasInput /\ InputStarts \subseteq Cells /\ TopToBottom =>
        LET visited[n \in 0..Len(fields)] ==
              IF n = 0 THEN CursorPos ELSE AfterTab(visited[n - 1])
        IN  /\ InputStarts \subseteq {visited[n] : n \in 1..Len(fields)}
            /\ \A s \in InputStarts : AfterBacktab(AfterTab(s)) = s

-----------------------------------------------------------------------------
\* What the code does not do.

\* test_sf_parsing.py: "No fields modified - response is just cursor (1-based) +
\* AID."
UnmodifiedNotReported ==
    ~writing /\ (\A i \in 1..Len(fields) : ~fields[i].modified) => Reported = {}
=============================================================================
