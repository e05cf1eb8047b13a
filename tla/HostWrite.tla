------------------------------ MODULE HostWrite ------------------------------
(***************************************************************************)
(* What the host does to the screen: tn5250/commands.py, the parser of     *)
(* Write To Display with one action per order, and the other commands      *)
(* _parse_commands() knows.  The parser runs without an await, so nothing  *)
(* else moves while it is writing.                                         *)
(*                                                                         *)
(* A data stream that ends inside an order ends the write: EndWrite may    *)
(* come after any order.  Start Of Header and Write Extended Attribute are *)
(* skipped by the code and change nothing here, and so is a Write To       *)
(* Display Structured Field whose second byte is not 0.                    *)
(***************************************************************************)
EXTENDS Screen

CONSTANTS
    Formats,        \* what a Start of Field order may say; length 0 for none
    MaxOrders,      \* bound: orders in one write
    MaxFields       \* bound: fields in the format table

ASSUME FormatsType ==
    Formats \subseteq [length : Nat, input : BOOLEAN, mono : BOOLEAN, mdt : BOOLEAN]
ASSUME BoundsType == MaxOrders \in Nat /\ MaxFields \in Nat

VARIABLES
    writing,   \* parse_write_to_display() is running
    addr,      \* current_addr
    pending,   \* the field whose length the next attribute may settle, 0 for none
    ic,        \* ic_set
    looping,   \* the parser is at an order that it never gets past
    orders     \* orders parsed so far

parser == <<writing, addr, pending, ic, looping, orders>>

ParserInit ==
    /\ writing = FALSE /\ addr = 0 /\ pending = 0 /\ ic = FALSE /\ orders = 0
    /\ looping = FALSE

ParserTypeOK ==
    /\ writing \in BOOLEAN /\ ic \in BOOLEAN /\ looping \in BOOLEAN
    /\ addr \in Nat /\ pending \in Nat /\ orders \in Nat

\* The control character: the reset bit clears the modified flags, the clear bit
\* the display.
BeginWrite(reset, clear) ==
    /\ ~writing /\ UNCHANGED looping
    /\ writing' = TRUE /\ addr' = 0 /\ pending' = 0 /\ ic' = FALSE /\ orders' = 0
    /\ IF clear THEN ClearScreen
       ELSE /\ fields' = IF reset
                         THEN [i \in DOMAIN fields |-> [fields[i] EXCEPT !.modified = FALSE]]
                         ELSE fields
            /\ UNCHANGED <<buffer, row, col, dirty>>

Order ==
    /\ writing /\ ~looping /\ orders < MaxOrders
    /\ orders' = orders + 1
    /\ UNCHANGED <<writing, looping>>

\* Cells from a to b - 1 show ch: the operator's changes there are gone.
Fill(a, b, ch) ==
    /\ buffer' = [p \in Cells |-> IF a <= p /\ p < b THEN ch ELSE buffer[p]]
    /\ dirty' = dirty \ (a..(b - 1))

\* A mistake FieldsSettled must catch: no least length of 1.
FinalizedAsFound ==
    IF pending # 0 /\ fields[pending].length = 0
    THEN [fields EXCEPT ![pending].length = addr - fields[pending].start]
    ELSE fields

\* _finalize_field(): a pending field without a length ends here.
Finalized ==
    IF pending # 0 /\ fields[pending].length = 0
    THEN [fields EXCEPT ![pending].length = Most(1, addr - fields[pending].start)]
    ELSE fields

SetBufferAddress(a) ==
    /\ Order
    /\ addr' = a
    /\ UNCHANGED <<screen, pending, ic>>

InsertCursor ==
    /\ Order
    /\ SetCursorAt(addr)
    /\ ic' = TRUE
    /\ UNCHANGED <<buffer, fields, dirty, addr, pending>>

\* The two data bytes are not validated: the cursor is clamped.
MoveCursorOrder(r, c) ==
    /\ Order
    /\ SetCursor(r - 1, c - 1)
    /\ ic' = TRUE
    /\ UNCHANGED <<buffer, fields, dirty, addr, pending>>

\* Repeat to Address, and Erase to Address with a blank.
RepeatToAddress(target, ch) ==
    /\ Order
    /\ Fill(addr, Least(target, Size), ch)
    /\ addr' = Most(addr, Least(target, Size))
    /\ UNCHANGED <<fields, row, col, pending, ic>>

\* The field starts after its attribute, which takes a cell.
StartOfField(format) ==
    /\ Order /\ Len(fields) < MaxFields
    /\ Fill(addr, addr + 1, Blank)
    /\ addr' = addr + 1
    /\ fields' = Append(Finalized,
          [start |-> addr + 1, length |-> format.length, input |-> format.input,
           mono |-> format.mono, mdt |-> format.mdt, modified |-> FALSE])
    /\ pending' = Len(fields) + 1
    /\ UNCHANGED <<row, col, ic>>

\* An attribute byte ends the pending field and takes a cell.
Attribute ==
    /\ Order
    /\ fields' = Finalized /\ pending' = 0
    /\ Fill(addr, addr + 1, Blank)
    /\ addr' = addr + 1
    /\ UNCHANGED <<row, col, ic>>

\* A character, or a null shown as a blank, also off the display.
Character(ch) ==
    /\ Order
    /\ Fill(addr, addr + 1, ch)
    /\ addr' = addr + 1
    /\ UNCHANGED <<fields, row, col, pending, ic>>

\* Transparent data stops at the end of the display.
TransparentData(ch) ==
    /\ Order
    /\ Fill(addr, addr + 1, ch)
    /\ addr' = IF addr < Size THEN addr + 1 ELSE addr
    /\ UNCHANGED <<fields, row, col, pending, ic>>

\* Write To Display Structured Field: the parser moves on by the byte behind the
\* order, which is the high byte of a length.  When it is 0 the same order is read
\* again, for ever and without an await.
StructuredField ==
    /\ writing /\ orders < MaxOrders
    /\ looping' = TRUE
    /\ UNCHANGED <<screen, writing, addr, pending, ic, orders>>

\* The end of the data, or ESC: the last field is settled, and without an
\* Insert Cursor the cursor goes to the first input field.
EndWrite ==
    /\ writing /\ ~looping /\ UNCHANGED looping
    /\ writing' = FALSE /\ addr' = 0 /\ pending' = 0 /\ ic' = FALSE /\ orders' = 0
    /\ fields' = Finalized
    /\ IF ic \/ ~HasInput THEN UNCHANGED <<row, col>>
       ELSE SetCursorAt(fields[FirstInput].start)
    /\ UNCHANGED <<buffer, dirty>>

-----------------------------------------------------------------------------
\* The other commands.

ClearUnit ==
    /\ ~writing
    /\ ClearScreen
    /\ UNCHANGED parser

\* The host gives up its fields; nothing typed into them is owed to it.
ClearFormatTable ==
    /\ ~writing
    /\ fields' = <<>> /\ dirty' = {}
    /\ UNCHANGED <<buffer, row, col, parser>>

\* Rolling up by lines moves rows top + 1 .. bottom, one line at a time, and
\* blanks the bottom row; rolling down does nothing.
Roll(lines, top, bottom) ==
    /\ ~writing /\ lines > 0
    /\ LET Source(p) == p + lines * Cols
           inside(p) == top * Cols <= p /\ p < (bottom + 1) * Cols
           isBottom(p) == bottom * Cols <= p /\ p < (bottom + 1) * Cols
       IN  buffer' = [p \in Cells |->
              IF inside(p) /\ ~isBottom(p)
              THEN IF inside(Source(p)) THEN buffer[Source(p)] ELSE Blank
              ELSE IF isBottom(p) THEN Blank ELSE buffer[p]]
    /\ dirty' = {p \in dirty : p < Least(top, bottom) * Cols \/ p >= (bottom + 1) * Cols}
    /\ UNCHANGED <<fields, row, col, parser>>

HostNext ==
    \/ \E reset, clear \in BOOLEAN : BeginWrite(reset, clear)
    \/ \E a \in Cells : SetBufferAddress(a)
    \/ InsertCursor
    \/ \E r \in 0..(Rows + 1), c \in 0..(Cols + 1) : MoveCursorOrder(r, c)
    \/ \E a \in Cells, ch \in Chars : RepeatToAddress(a, ch)
    \/ \E format \in Formats : StartOfField(format)
    \/ Attribute
    \/ \E ch \in Chars : Character(ch) \/ TransparentData(ch)
    \/ StructuredField
    \/ EndWrite
    \/ ClearUnit \/ ClearFormatTable
    \/ \E lines \in 1..Rows, top, bottom \in 0..(Rows - 1) : Roll(lines, top, bottom)
=============================================================================
