---------------------------- MODULE TerminalProofs ----------------------------
(***************************************************************************)
(* Theorems about Terminal, for a display of any size, any characters,     *)
(* texts and formats, and any bounds.                                      *)
(***************************************************************************)
EXTENDS Terminal, DataFacts

-----------------------------------------------------------------------------
\* Addresses and the cursor.

\* An address is a row and a column.
LEMMA AddressParts ==
    ASSUME NEW p \in Cells
    PROVE  /\ p \div Cols \in 0..(Rows - 1) /\ p % Cols \in 0..(Cols - 1)
           /\ (p \div Cols) * Cols + (p % Cols) = p
  <1>1. p \in Nat /\ p < Rows * Cols
    BY DisplayShape DEF Cells, Size
  <1>2. p \div Cols \in 0..(Rows - 1)
    BY <1>1, DisplayShape, QuotientBound
  <1>3. p % Cols \in 0..(Cols - 1) /\ (p \div Cols) * Cols + (p % Cols) = p
    BY <1>1, DisplayShape, QuotientType, QuotientParts
  <1>4. QED BY <1>2, <1>3

\* set_cursor() leaves the cursor on the display.
LEMMA CursorOnDisplay ==
    ASSUME NEW r \in Int, NEW c \in Int, SetCursor(r, c)
    PROVE  row' \in 0..(Rows - 1) /\ col' \in 0..(Cols - 1)
  BY DisplayShape DEF SetCursor, OnRow, OnCol, Least, Most

LEMMA CursorAtOnDisplay ==
    ASSUME NEW p \in Int, SetCursorAt(p)
    PROVE  row' \in 0..(Rows - 1) /\ col' \in 0..(Cols - 1)
  <1>1. p \div Cols \in Int /\ p % Cols \in Int
    BY DisplayShape, QuotientType
  <1>2. QED BY <1>1, CursorOnDisplay DEF SetCursorAt

\* Set to a cell, it is at that cell.
LEMMA CursorAtCell ==
    ASSUME NEW p \in Cells, SetCursorAt(p)
    PROVE  CursorPos' = p
  <1> DEFINE q == p \div Cols
             c == p % Cols
  <1>1. q \in 0..(Rows - 1) /\ c \in 0..(Cols - 1) /\ q * Cols + c = p /\ SetCursor(q, c)
    BY AddressParts DEF SetCursorAt
  <1> HIDE DEF q, c
  <1>2. row' = q /\ col' = c
    BY <1>1, DisplayShape DEF SetCursor, OnRow, OnCol, Least, Most
  <1>3. QED BY <1>1, <1>2 DEF CursorPos

\* A cell is where the cursor stays when it is set to it.
LEMMA ClampedCell ==
    ASSUME NEW p \in Cells
    PROVE  Clamped(p) = p
  <1> DEFINE q == p \div Cols
             c == p % Cols
  <1>1. q \in 0..(Rows - 1) /\ c \in 0..(Cols - 1) /\ q * Cols + c = p
    BY AddressParts
  <1>2. Clamped(p) = OnRow(q) * Cols + OnCol(c)
    BY DEF Clamped
  <1> HIDE DEF q, c
  <1>3. OnRow(q) = q /\ OnCol(c) = c
    BY <1>1, DisplayShape DEF OnRow, OnCol, Least, Most
  <1>4. QED BY <1>1, <1>2, <1>3

\* The cursor is at a cell.
LEMMA CursorCell ==
    ASSUME ScreenTypeOK
    PROVE  CursorPos \in Cells
  BY DisplayShape, PlaceBound DEF ScreenTypeOK, CursorPos, Cells, Size

-----------------------------------------------------------------------------
\* The format table.

\* One of the fields that have a property comes first, another last.
LEMMA FirstOf ==
    ASSUME NEW n \in Nat, NEW S, S \subseteq 1..n, S # {}
    PROVE  /\ \E i \in S : \A j \in S : i <= j
           /\ \E i \in S : \A j \in S : j <= i
  <1>1. S \subseteq Nat /\ S \subseteq 0..n
    OBVIOUS
  <1>2. QED BY <1>1, LeastNatural, GreatestNatural

\* The parts of an entry of the format table.
LEMMA FieldShape ==
    ASSUME NEW f \in Fields
    PROVE  /\ f.start \in Nat /\ f.length \in Nat /\ f.input \in BOOLEAN /\ f.mono \in BOOLEAN
           /\ f.mdt \in BOOLEAN /\ f.modified \in BOOLEAN
  BY DEF Fields

LEMMA FieldParts ==
    ASSUME ScreenTypeOK, NEW i \in 1..Len(fields)
    PROVE  /\ fields[i] \in Fields /\ fields[i].start \in Nat /\ fields[i].length \in Nat
           /\ fields[i].input \in BOOLEAN
  BY FieldShape DEF ScreenTypeOK

\* get_field_at_cursor(): what it finds holds the cursor.
LEMMA FieldAtCursorHolds ==
    ASSUME ScreenTypeOK, FieldAtCursor # 0
    PROVE  /\ FieldAtCursor \in 1..Len(fields) /\ fields[FieldAtCursor] \in Fields
           /\ fields[FieldAtCursor].start <= CursorPos
           /\ CursorPos < fields[FieldAtCursor].start + fields[FieldAtCursor].length
  <1>1. Len(fields) \in Nat /\ Holding \subseteq 1..Len(fields) /\ Holding # {}
    BY DEF ScreenTypeOK, Holding, FieldAtCursor
  <1>2. \E i \in Holding : \A j \in Holding : i <= j
    BY <1>1, FirstOf
  <1>3. FieldAtCursor \in Holding
    BY <1>1, <1>2 DEF FieldAtCursor
  <1>4. QED BY <1>3 DEF Holding, ScreenTypeOK

\* The input fields: the first, the last.
LEMMA InputEnds ==
    ASSUME ScreenTypeOK, HasInput
    PROVE  /\ FirstInput \in 1..Len(fields) /\ fields[FirstInput].input
           /\ \A j \in 1..Len(fields) : fields[j].input => FirstInput <= j
           /\ LastInput \in 1..Len(fields) /\ fields[LastInput].input
           /\ \A j \in 1..Len(fields) : fields[j].input => j <= LastInput
  <1> DEFINE S == {i \in 1..Len(fields) : fields[i].input}
  <1>1. Len(fields) \in Nat /\ S \subseteq 1..Len(fields) /\ S # {}
    BY DEF ScreenTypeOK, HasInput
  <1>2. PICK i \in S : \A j \in S : i <= j
    BY <1>1, FirstOf
  <1>3. PICK k \in S : \A j \in S : j <= k
    BY <1>1, FirstOf
  <1>4. i \in 1..Len(fields) /\ fields[i].input /\ \A j \in 1..(i - 1) : ~fields[j].input
    BY <1>1, <1>2
  <1>5. k \in 1..Len(fields) /\ fields[k].input /\ \A j \in (k + 1)..Len(fields) : ~fields[j].input
    BY <1>1, <1>3
  <1>6. /\ FirstInput \in 1..Len(fields) /\ fields[FirstInput].input
        /\ \A j \in 1..(FirstInput - 1) : ~fields[j].input
    BY <1>4 DEF FirstInput
  <1>7. /\ LastInput \in 1..Len(fields) /\ fields[LastInput].input
        /\ \A j \in (LastInput + 1)..Len(fields) : ~fields[j].input
    BY <1>5 DEF LastInput
  <1>8. QED BY <1>1, <1>6, <1>7

\* ScreenField.set_modified() sets the two flags of one field and no more.
LEMMA ModifiedFields ==
    ASSUME ScreenTypeOK, NEW i \in 1..Len(fields), SetModified(i)
    PROVE  /\ fields' \in Seq(Fields) /\ Len(fields') = Len(fields)
           /\ fields'[i].mdt
           /\ \A j \in 1..Len(fields) :
                 /\ fields'[j].start = fields[j].start /\ fields'[j].length = fields[j].length
                 /\ fields[j].mdt => fields'[j].mdt
  <1> DEFINE g == [fields[i] EXCEPT !.modified = TRUE, !.mdt = TRUE]
  <1>1. fields \in Seq(Fields) /\ fields[i] \in Fields
    BY DEF ScreenTypeOK
  <1>2. g \in Fields /\ g.start = fields[i].start /\ g.length = fields[i].length /\ g.mdt
    BY <1>1 DEF Fields
  <1>3. fields' = [fields EXCEPT ![i] = g]
    BY <1>1 DEF SetModified
  <1> HIDE DEF g
  <1>4. QED BY <1>1, <1>2, <1>3

\* The reset bit of a write clears the modified flags.
LEMMA ResetFields ==
    ASSUME ScreenTypeOK,
           fields' = [i \in DOMAIN fields |-> [fields[i] EXCEPT !.modified = FALSE]]
    PROVE  /\ fields' \in Seq(Fields) /\ Len(fields') = Len(fields)
           /\ \A j \in 1..Len(fields) :
                 /\ fields'[j].start = fields[j].start /\ fields'[j].length = fields[j].length
                 /\ fields'[j].mdt = fields[j].mdt
  <1> DEFINE reset == [f \in Fields |-> [f EXCEPT !.modified = FALSE]]
  <1>1. \A f \in Fields : /\ reset[f] \in Fields /\ reset[f].start = f.start
                          /\ reset[f].length = f.length /\ reset[f].mdt = f.mdt
    BY DEF Fields
  <1>2. fields \in Seq(Fields) /\ \A j \in DOMAIN fields : fields[j] \in Fields
    BY DEF ScreenTypeOK
  <1>3. \A j \in DOMAIN fields : fields'[j] = reset[fields[j]]
    BY <1>2
  <1>4. DOMAIN fields' = DOMAIN fields
    OBVIOUS
  <1> HIDE DEF reset
  <1>5. DOMAIN fields = 1..Len(fields) /\ Len(fields) \in Nat
    BY <1>2
  <1>6. fields' \in Seq(Fields) /\ Len(fields') = Len(fields)
    <2>1. fields' = [j \in 1..Len(fields) |-> reset[fields[j]]]
      BY <1>3, <1>4, <1>5
    <2>2. \A j \in 1..Len(fields) : reset[fields[j]] \in Fields
      BY <1>1, <1>2, <1>5
    <2>3. fields' \in [1..Len(fields) -> Fields]
      BY <2>1, <2>2
    <2>4. QED BY <1>5, <2>3, FunctionIsSequence
  <1>7. QED BY <1>1, <1>2, <1>3, <1>6

\* _finalize_field() settles one length at most.
LEMMA FinalizedFields ==
    ASSUME ScreenTypeOK, addr \in Nat
    PROVE  /\ Finalized \in Seq(Fields) /\ Len(Finalized) = Len(fields)
           /\ \A j \in 1..Len(fields) :
                 /\ Finalized[j].start = fields[j].start /\ Finalized[j].mdt = fields[j].mdt
                 /\ Finalized[j].length >= fields[j].length
                 /\ j = pending => Finalized[j].length >= 1
                 /\ j # pending => Finalized[j].length = fields[j].length
  <1>1. fields \in Seq(Fields) /\ \A j \in 1..Len(fields) : fields[j].length \in Nat
    BY FieldParts DEF ScreenTypeOK
  <1>2. CASE pending \in 1..Len(fields) /\ pending # 0 /\ fields[pending].length = 0
    <2> DEFINE n == Most(1, addr - fields[pending].start)
               g == [fields[pending] EXCEPT !.length = n]
    <2>1. fields[pending] \in Fields
      BY <1>1, <1>2
    <2>2. n \in Nat /\ n >= 1
      BY <2>1 DEF Most, Fields
    <2> HIDE DEF n
    <2>3. g \in Fields /\ g.start = fields[pending].start /\ g.length = n /\ g.mdt = fields[pending].mdt
      BY <2>1, <2>2 DEF Fields
    <2>4. Finalized = [fields EXCEPT ![pending] = g]
      BY <1>1, <1>2 DEF Finalized, n
    <2> HIDE DEF g
    <2>5. QED BY <1>1, <1>2, <2>2, <2>3, <2>4
  <1>3. CASE ~(pending \in 1..Len(fields) /\ pending # 0 /\ fields[pending].length = 0)
    <2>1. Finalized = fields
      BY <1>1, <1>3 DEF Finalized
    <2>2. QED BY <1>1, <1>3, <2>1
  <1>4. QED BY <1>2, <1>3

-----------------------------------------------------------------------------
\* Every variable keeps its type.

\* A screen whose cells, fields and cursor are put in place.
LEMMA FillType ==
    ASSUME ScreenTypeOK, NEW a \in Int, NEW b \in Int, NEW ch \in Chars, Fill(a, b, ch)
    PROVE  buffer' \in [Cells -> Chars] /\ dirty' \subseteq Cells
  BY DEF ScreenTypeOK, Fill

LEMMA ClearType ==
    ASSUME ClearScreen
    PROVE  ScreenTypeOK'
  BY DisplayShape, BlankIsChar DEF ScreenTypeOK, ClearScreen, Fields

\* The host's steps.
LEMMA HostType ==
    ASSUME ScreenTypeOK, ParserTypeOK, HostNext
    PROVE  ScreenTypeOK' /\ ParserTypeOK'
  <1>1. ASSUME NEW reset \in BOOLEAN, NEW clear \in BOOLEAN, BeginWrite(reset, clear)
        PROVE  ScreenTypeOK' /\ ParserTypeOK'
    <2>1. ParserTypeOK'
      BY <1>1 DEF BeginWrite, ParserTypeOK
    <2>2. CASE clear
      BY <1>1, <2>1, <2>2, ClearType DEF BeginWrite
    <2>3. CASE ~clear
      <3>1. fields' \in Seq(Fields) /\ UNCHANGED <<buffer, row, col, dirty>>
        BY <1>1, <2>3, ResetFields DEF BeginWrite, ScreenTypeOK
      <3>2. QED BY <2>1, <3>1 DEF ScreenTypeOK
    <2>4. QED BY <2>2, <2>3
  <1>2. ASSUME NEW a \in Cells, SetBufferAddress(a)
        PROVE  ScreenTypeOK' /\ ParserTypeOK'
    BY <1>2 DEF SetBufferAddress, Order, ScreenTypeOK, ParserTypeOK, screen, Cells
  <1>3. CASE InsertCursor
    <2>1. row' \in 0..(Rows - 1) /\ col' \in 0..(Cols - 1)
      BY <1>3, CursorAtOnDisplay DEF InsertCursor, ParserTypeOK
    <2>2. QED BY <1>3, <2>1 DEF InsertCursor, Order, ScreenTypeOK, ParserTypeOK
  <1>4. ASSUME NEW r \in 0..(Rows + 1), NEW c \in 0..(Cols + 1), MoveCursorOrder(r, c)
        PROVE  ScreenTypeOK' /\ ParserTypeOK'
    <2>1. r - 1 \in Int /\ c - 1 \in Int
      BY DisplayShape
    <2>2. row' \in 0..(Rows - 1) /\ col' \in 0..(Cols - 1)
      BY <1>4, <2>1, CursorOnDisplay DEF MoveCursorOrder
    <2>3. QED BY <1>4, <2>2 DEF MoveCursorOrder, Order, ScreenTypeOK, ParserTypeOK
  <1>5. ASSUME NEW a \in Cells, NEW ch \in Chars, RepeatToAddress(a, ch)
        PROVE  ScreenTypeOK' /\ ParserTypeOK'
    <2>1. Least(a, Size) \in Int /\ addr \in Nat /\ Most(addr, Least(a, Size)) \in Nat
      BY DisplayShape DEF Least, Most, Size, Cells, ParserTypeOK
    <2>2. buffer' \in [Cells -> Chars] /\ dirty' \subseteq Cells
      BY <1>5, <2>1, FillType DEF RepeatToAddress
    <2>3. QED BY <1>5, <2>1, <2>2 DEF RepeatToAddress, Order, ScreenTypeOK, ParserTypeOK
  <1>6. ASSUME NEW format \in Formats, StartOfField(format)
        PROVE  ScreenTypeOK' /\ ParserTypeOK'
    <2>1. addr \in Nat /\ Blank \in Chars
      BY BlankIsChar DEF ParserTypeOK
    <2>2. buffer' \in [Cells -> Chars] /\ dirty' \subseteq Cells
      BY <1>6, <2>1, FillType DEF StartOfField
    <2>3. [start |-> addr + 1, length |-> format.length, input |-> format.input,
           mono |-> format.mono, mdt |-> format.mdt, modified |-> FALSE] \in Fields
      BY <2>1, FormatsType DEF Fields
    <2>4. fields' \in Seq(Fields) /\ Len(fields) \in Nat
      BY <1>6, <2>1, <2>3, FinalizedFields DEF StartOfField, ScreenTypeOK
    <2>5. QED BY <1>6, <2>1, <2>2, <2>4 DEF StartOfField, Order, ScreenTypeOK, ParserTypeOK
  <1>7. CASE Attribute
    <2>1. addr \in Nat /\ Blank \in Chars
      BY BlankIsChar DEF ParserTypeOK
    <2>2. buffer' \in [Cells -> Chars] /\ dirty' \subseteq Cells
      BY <1>7, <2>1, FillType DEF Attribute
    <2>3. QED
      BY <1>7, <2>1, <2>2, FinalizedFields DEF Attribute, Order, ScreenTypeOK, ParserTypeOK
  <1>8. ASSUME NEW ch \in Chars, Character(ch) \/ TransparentData(ch)
        PROVE  ScreenTypeOK' /\ ParserTypeOK'
    <2>1. addr \in Nat
      BY DEF ParserTypeOK
    <2>2. buffer' \in [Cells -> Chars] /\ dirty' \subseteq Cells
      BY <1>8, <2>1, FillType DEF Character, TransparentData
    <2>3. addr' \in Nat
      BY <1>8, <2>1 DEF Character, TransparentData
    <2>4. QED
      BY <1>8, <2>2, <2>3 DEF Character, TransparentData, Order, ScreenTypeOK, ParserTypeOK
  <1>9. CASE EndWrite
    <2>1. fields' \in Seq(Fields)
      BY <1>9, FinalizedFields DEF EndWrite, ParserTypeOK
    <2>2. row' \in 0..(Rows - 1) /\ col' \in 0..(Cols - 1)
      <3>1. CASE ic \/ ~HasInput
        BY <1>9, <3>1 DEF EndWrite, ScreenTypeOK
      <3>2. CASE ~(ic \/ ~HasInput)
        <4>1. fields[FirstInput].start \in Nat
          BY <3>2, InputEnds, FieldParts
        <4>2. QED BY <1>9, <3>2, <4>1, CursorAtOnDisplay DEF EndWrite
      <3>3. QED BY <3>1, <3>2
    <2>3. QED BY <1>9, <2>1, <2>2 DEF EndWrite, ScreenTypeOK, ParserTypeOK
  <1>10. CASE ClearUnit
    BY <1>10, ClearType DEF ClearUnit, parser, ParserTypeOK
  <1>11. CASE ClearFormatTable
    BY <1>11 DEF ClearFormatTable, parser, ScreenTypeOK, ParserTypeOK, Fields
  <1>12. ASSUME NEW lines \in 1..Rows, NEW top \in 0..(Rows - 1), NEW bottom \in 0..(Rows - 1),
                Roll(lines, top, bottom)
         PROVE  ScreenTypeOK' /\ ParserTypeOK'
    <2>1. buffer' \in [Cells -> Chars]
      <3> DEFINE Source(p) == p + lines * Cols
                 inside(p) == top * Cols <= p /\ p < (bottom + 1) * Cols
                 isBottom(p) == bottom * Cols <= p /\ p < (bottom + 1) * Cols
      <3>1. buffer' = [p \in Cells |->
              IF inside(p) /\ ~isBottom(p)
              THEN IF inside(Source(p)) THEN buffer[Source(p)] ELSE Blank
              ELSE IF isBottom(p) THEN Blank ELSE buffer[p]]
        BY <1>12 DEF Roll
      <3>2. \A p \in Cells : inside(Source(p)) => Source(p) \in Cells
        <4> SUFFICES ASSUME NEW p \in Cells, inside(Source(p)) PROVE Source(p) \in Cells
          OBVIOUS
        <4>1. lines * Cols \in Nat /\ (bottom + 1) * Cols <= Rows * Cols /\ Rows * Cols \in Nat
              /\ (bottom + 1) * Cols \in Nat
          BY DisplayShape
        <4> HIDE DEF Source
        <4>2. Source(p) \in Nat /\ Source(p) < (bottom + 1) * Cols
          BY <4>1 DEF Cells, Size, Source
        <4>3. QED BY <4>1, <4>2 DEF Cells, Size
      <3> HIDE DEF Source, inside, isBottom
      <3>3. QED BY <3>1, <3>2, BlankIsChar DEF ScreenTypeOK
    <2>2. dirty' \subseteq Cells
      BY <1>12 DEF Roll, ScreenTypeOK
    <2>3. QED BY <1>12, <2>1, <2>2 DEF Roll, parser, ScreenTypeOK, ParserTypeOK
  <1>13. CASE StructuredField
    BY <1>13 DEF StructuredField, screen, ScreenTypeOK, ParserTypeOK
  <1>14. QED
    BY <1>1, <1>2, <1>3, <1>4, <1>5, <1>6, <1>7, <1>8, <1>9, <1>10, <1>11, <1>12, <1>13 DEF HostNext

\* Where a key may send the cursor: the input field after a place in the format
\* table, the last character of a field, the fields Tab and Backtab find.
LEMMA NextInputType ==
    ASSUME ScreenTypeOK, HasInput, NEW i \in 1..Len(fields)
    PROVE  fields[NextInput(i)].start \in Nat
  <1> DEFINE S == {j \in 1..Len(fields) : j > i /\ fields[j].input}
  <1>1. CASE S = {}
    <2>1. NextInput(i) = FirstInput
      BY <1>1 DEF NextInput
    <2>2. QED BY <2>1, InputEnds, FieldParts
  <1>2. CASE S # {}
    <2>1. Len(fields) \in Nat /\ S \subseteq 1..Len(fields)
      BY DEF ScreenTypeOK
    <2>2. PICK j \in S : \A k \in S : j <= k
      BY <1>2, <2>1, FirstOf
    <2>3. j \in 1..Len(fields) /\ j > i /\ fields[j].input
          /\ \A k \in (i + 1)..(j - 1) : ~fields[k].input
      BY <2>1, <2>2
    <2>4. NextInput(i) \in 1..Len(fields)
      BY <2>3 DEF NextInput
    <2>5. QED BY <2>4, FieldParts
  <1>3. QED BY <1>1, <1>2

\* end() stays on a field that is on the display.
LEMMA EndTargetPlace ==
    ASSUME ScreenTypeOK, NEW f \in Fields, f.length >= 1
    PROVE  /\ EndTarget(f) \in Nat
           /\ f.start <= EndTarget(f) /\ EndTarget(f) < FieldEnd(f)
  <1> DEFINE shown == {p \in CellsOf(f) : buffer[p] # Blank}
             last  == CHOOSE p \in shown : \A q \in shown : q <= p
  <1>1. f.start \in Nat /\ f.length \in Nat /\ Size \in Nat /\ FieldEnd(f) = f.start + f.length
    BY FieldShape, DisplayShape DEF Size, FieldEnd
  <1>2. CASE shown = {}
    BY <1>1, <1>2 DEF EndTarget
  <1>3. CASE shown # {}
    <2>1. shown \subseteq 0..Size /\ \A p \in shown : f.start <= p /\ p < FieldEnd(f)
      BY <1>1 DEF CellsOf, Cells
    <2>2. \E p \in shown : \A q \in shown : q <= p
      BY <1>1, <1>3, <2>1, GreatestNatural
    <2>3. last \in shown
      BY <2>2
    <2>4. EndTarget(f) = IF last >= FieldEnd(f) - 1 THEN FieldEnd(f) - 1 ELSE last + 1
      BY <1>3 DEF EndTarget
    <2> HIDE DEF last, shown
    <2>5. last \in Nat /\ f.start <= last /\ last < FieldEnd(f)
      BY <1>1, <2>1, <2>3
    <2>6. QED BY <1>1, <2>4, <2>5
  <1>4. QED BY <1>2, <1>3

\* Tab: the first input field, in the order of the format table, of those that
\* start after the cursor; the first of all when there is none.
LEMMA TabTargetIs ==
    ASSUME ScreenTypeOK, HasInput, NEW p \in Int
    PROVE  \E i \in 1..Len(fields) :
              /\ fields[i].input /\ TabTarget(p) = fields[i].start
              /\ \/ /\ fields[i].start > p
                    /\ \A j \in 1..Len(fields) : fields[j].input /\ fields[j].start > p => i <= j
                 \/ /\ i = FirstInput
                    /\ \A j \in 1..Len(fields) : fields[j].input => fields[j].start <= p
  <1> DEFINE after == {i \in 1..Len(fields) : fields[i].input /\ fields[i].start > p}
  <1>1. Len(fields) \in Nat /\ after \subseteq 1..Len(fields)
    BY DEF ScreenTypeOK
  <1>2. CASE after = {}
    <2>1. TabTarget(p) = fields[FirstInput].start
      BY <1>2 DEF TabTarget
    <2>2. \A j \in 1..Len(fields) : fields[j].input => fields[j].start <= p
      BY <1>2, FieldParts
    <2>3. QED BY <2>1, <2>2, InputEnds
  <1>3. CASE after # {}
    <2> DEFINE i == CHOOSE i \in after : \A j \in after : i <= j
    <2>1. \E k \in after : \A j \in after : k <= j
      BY <1>1, <1>3, FirstOf
    <2>2. i \in after /\ \A j \in after : i <= j
      BY <2>1
    <2>3. TabTarget(p) = fields[i].start
      BY <1>3 DEF TabTarget
    <2> HIDE DEF i
    <2>4. QED BY <2>2, <2>3
  <1>4. QED BY <1>2, <1>3

\* Backtab: the last one of those that start before the cursor, the last of all
\* when there is none.
LEMMA BacktabTargetIs ==
    ASSUME ScreenTypeOK, HasInput, NEW p \in Int
    PROVE  \E i \in 1..Len(fields) :
              /\ fields[i].input /\ BacktabTarget(p) = fields[i].start
              /\ \/ /\ fields[i].start < p
                    /\ \A j \in 1..Len(fields) : fields[j].input /\ fields[j].start < p => j <= i
                 \/ /\ i = LastInput
                    /\ \A j \in 1..Len(fields) : fields[j].input => fields[j].start >= p
  <1> DEFINE before == {i \in 1..Len(fields) : fields[i].input /\ fields[i].start < p}
  <1>1. Len(fields) \in Nat /\ before \subseteq 1..Len(fields)
    BY DEF ScreenTypeOK
  <1>2. CASE before = {}
    <2>1. BacktabTarget(p) = fields[LastInput].start
      BY <1>2 DEF BacktabTarget
    <2>2. \A j \in 1..Len(fields) : fields[j].input => fields[j].start >= p
      BY <1>2, FieldParts
    <2>3. QED BY <2>1, <2>2, InputEnds
  <1>3. CASE before # {}
    <2> DEFINE i == CHOOSE i \in before : \A j \in before : j <= i
    <2>1. \E k \in before : \A j \in before : j <= k
      BY <1>1, <1>3, FirstOf
    <2>2. i \in before /\ \A j \in before : j <= i
      BY <2>1
    <2>3. BacktabTarget(p) = fields[i].start
      BY <1>3 DEF BacktabTarget
    <2> HIDE DEF i
    <2>4. QED BY <2>2, <2>3
  <1>4. QED BY <1>2, <1>3

\* The shift of a field's characters.
LEMMA ShiftType ==
    ASSUME ScreenTypeOK, NEW from \in Int, NEW end \in Int, ShiftLeft(from, end)
    PROVE  buffer' \in [Cells -> Chars]
  BY BlankIsChar DEF ScreenTypeOK, ShiftLeft, CharAt

\* The operator's steps.
LEMMA EditType ==
    ASSUME ScreenTypeOK, stray \subseteq Cells, EditingNext
    PROVE  ScreenTypeOK' /\ stray' \subseteq Cells
  <1>1. Changed \subseteq Cells /\ CursorPos \in Int /\ CursorPos \in Cells
    BY CursorCell DEF Changed, Cells
  <1>2. FieldAtCursor # 0 => /\ FieldAtCursor \in 1..Len(fields)
                             /\ FieldEnd(fields[FieldAtCursor]) \in Int
    BY FieldAtCursorHolds, FieldShape DEF FieldEnd
  <1>3. ASSUME NEW text \in Texts, TypeKeys(text)
        PROVE  ScreenTypeOK' /\ stray' \subseteq Cells
    <2> DEFINE i == FieldAtCursor
               mono == i # 0 /\ fields[i].mono
               typed == {p \in Cells : CursorPos <= p /\ p < CursorPos + Len(text)}
               Char(p) == IF mono THEN Upper[text[p - CursorPos + 1]] ELSE text[p - CursorPos + 1]
    <2>1. text \in Seq(Chars) /\ Len(text) \in Nat
      BY TextsType
    <2>2. \A p \in typed : Char(p) \in Chars
      <3> SUFFICES ASSUME NEW p \in typed PROVE Char(p) \in Chars
        OBVIOUS
      <3>1. p - CursorPos + 1 \in 1..Len(text)
        BY <1>1, <2>1 DEF Cells
      <3>2. text[p - CursorPos + 1] \in Chars
        BY <2>1, <3>1
      <3>3. QED BY <3>2, UpperType
    <2>3. buffer' = [p \in Cells |-> IF p \in typed THEN Char(p) ELSE buffer[p]]
      BY <1>3 DEF TypeKeys
    <2>4. buffer' \in [Cells -> Chars]
      <3> HIDE DEF Char, typed
      <3> QED BY <2>2, <2>3 DEF ScreenTypeOK
    <2>5. fields' \in Seq(Fields)
      <3>1. CASE i = 0
        BY <1>3, <3>1 DEF TypeKeys, ScreenTypeOK
      <3>2. CASE i # 0
        BY <1>2, <1>3, <3>2, ModifiedFields DEF TypeKeys
      <3>3. QED BY <3>1, <3>2
    <2>6. row' \in 0..(Rows - 1) /\ col' \in 0..(Cols - 1)
      BY <1>1, <1>3, <2>1, CursorAtOnDisplay DEF TypeKeys
    <2>7. dirty' \subseteq Cells /\ stray' \subseteq Cells
      BY <1>1, <1>3 DEF TypeKeys, ScreenTypeOK
    <2>8. QED BY <2>4, <2>5, <2>6, <2>7 DEF ScreenTypeOK
  <1>4. ASSUME NEW r \in 1..Rows, NEW c \in 1..Cols, MoveCursor(r, c)
        PROVE  ScreenTypeOK' /\ stray' \subseteq Cells
    <2>1. row' \in 0..(Rows - 1) /\ col' \in 0..(Cols - 1)
      BY <1>4, DisplayShape, CursorOnDisplay DEF MoveCursor
    <2>2. QED BY <1>4, <2>1 DEF MoveCursor, ScreenTypeOK
  <1>5. CASE Backspace
    <2>1. buffer' \in [Cells -> Chars]
      BY <1>1, <1>2, <1>5, ShiftType DEF Backspace
    <2>2. row' \in 0..(Rows - 1) /\ col' \in 0..(Cols - 1)
      BY <1>1, <1>5, CursorAtOnDisplay DEF Backspace
    <2>3. fields' \in Seq(Fields)
      BY <1>2, <1>5, ModifiedFields DEF Backspace
    <2>4. QED BY <1>1, <1>5, <2>1, <2>2, <2>3 DEF Backspace, ScreenTypeOK
  <1>6. CASE Delete
    <2>1. buffer' \in [Cells -> Chars]
      BY <1>1, <1>2, <1>6, ShiftType DEF Delete
    <2>2. fields' \in Seq(Fields)
      BY <1>2, <1>6, ModifiedFields DEF Delete
    <2>3. QED BY <1>1, <1>6, <2>1, <2>2 DEF Delete, ScreenTypeOK
  <1>7. CASE FieldExit
    <2> DEFINE f == fields[FieldAtCursor]
               places == {i \in 1..Len(fields) : fields[i].input /\ fields[i].start = f.start}
               place == CHOOSE i \in places : \A j \in places : i <= j
    <2>1. buffer' \in [Cells -> Chars]
      BY <1>7, BlankIsChar DEF FieldExit, ScreenTypeOK
    <2>2. row' \in 0..(Rows - 1) /\ col' \in 0..(Cols - 1)
      <3>1. CASE places = {}
        BY <1>7, <3>1 DEF FieldExit, ScreenTypeOK
      <3>2. CASE places # {}
        <4>1. Len(fields) \in Nat /\ places \subseteq 1..Len(fields)
          BY DEF ScreenTypeOK
        <4>2. \E i \in places : \A j \in places : i <= j
          BY <3>2, <4>1, FirstOf
        <4>3. place \in places
          BY <4>2
        <4>4. place \in 1..Len(fields) /\ HasInput
          BY <4>1, <4>3 DEF HasInput
        <4>5. SetCursorAt(fields[NextInput(place)].start)
          BY <1>7, <3>2 DEF FieldExit
        <4> HIDE DEF place
        <4>6. fields[NextInput(place)].start \in Int
          BY <4>4, NextInputType
        <4>7. QED BY <4>5, <4>6, CursorAtOnDisplay
      <3>3. QED BY <3>1, <3>2
    <2>3. fields' \in Seq(Fields)
      BY <1>2, <1>7, ModifiedFields DEF FieldExit
    <2>4. QED BY <1>1, <1>7, <2>1, <2>2, <2>3 DEF FieldExit, ScreenTypeOK
  <1>8. ASSUME NEW p \in Int, SetCursorAt(p), UNCHANGED <<buffer, fields, dirty, stray>>
        PROVE  ScreenTypeOK' /\ stray' \subseteq Cells
    <2>1. row' \in 0..(Rows - 1) /\ col' \in 0..(Cols - 1)
      BY <1>8, CursorAtOnDisplay
    <2>2. QED BY <1>8, <2>1 DEF ScreenTypeOK
  <1>9. CASE Home
    BY <1>8, <1>9, InputEnds, FieldParts DEF Home
  <1>10. CASE End
    <2>1. fields[FieldAtCursor] \in Fields /\ fields[FieldAtCursor].length >= 1
      BY <1>1, <1>10, FieldAtCursorHolds, FieldShape DEF End
    <2>2. EndTarget(fields[FieldAtCursor]) \in Int
      BY <2>1, EndTargetPlace
    <2>3. QED BY <1>8, <1>10, <2>2 DEF End
  <1>11. CASE Tab
    <2>1. \E i \in 1..Len(fields) : TabTarget(CursorPos) = fields[i].start
      BY <1>1, <1>11, TabTargetIs DEF Tab
    <2>2. TabTarget(CursorPos) \in Int
      BY <2>1, FieldParts
    <2>3. QED BY <1>8, <1>11, <2>2 DEF Tab
  <1>12. CASE Backtab
    <2>1. \E i \in 1..Len(fields) : BacktabTarget(CursorPos) = fields[i].start
      BY <1>1, <1>12, BacktabTargetIs DEF Backtab
    <2>2. BacktabTarget(CursorPos) \in Int
      BY <2>1, FieldParts
    <2>3. QED BY <1>8, <1>12, <2>2 DEF Backtab
  <1>13. QED
    BY <1>3, <1>4, <1>5, <1>6, <1>7, <1>9, <1>10, <1>11, <1>12 DEF EditingNext

LEMMA InitType == Init => TypeOK
  <1> SUFFICES ASSUME Init PROVE TypeOK
    OBVIOUS
  <1>1. ScreenTypeOK
    BY DisplayShape, BlankIsChar DEF Init, ScreenInit, ScreenTypeOK
  <1>2. QED BY <1>1 DEF Init, ParserInit, TypeOK, ParserTypeOK

LEMMA TypeStep == TypeOK /\ [Next]_vars => TypeOK'
  <1> SUFFICES ASSUME TypeOK, [Next]_vars PROVE TypeOK'
    OBVIOUS
  <1>1. CASE ~writing /\ EditingNext /\ UNCHANGED parser
    BY <1>1, EditType DEF TypeOK, ParserTypeOK, parser
  <1>2. CASE HostNext /\ stray' = stray \cap dirty'
    BY <1>2, HostType DEF TypeOK
  <1>3. CASE Respond
    BY <1>3 DEF Respond, TypeOK, ScreenTypeOK, ParserTypeOK, parser
  <1>4. CASE UNCHANGED vars
    BY <1>4 DEF vars, edit, screen, parser, TypeOK, ScreenTypeOK, ParserTypeOK
  <1>5. QED BY <1>1, <1>2, <1>3, <1>4 DEF Next

\* Every variable keeps its type; in particular the cursor stays on the display
\* wherever the host's orders, the operator's keys and the fields send it
\* (set_cursor(), _move_to_next_field(), field_exit(), end()).
THEOREM TypeTheorem == Spec => []TypeOK
  BY InitType, TypeStep, PTL DEF Spec

-----------------------------------------------------------------------------
\* Every field has a cell of its own between writes.

\* What the operator does to the format table: flags are set.
LEMMA EditFields ==
    ASSUME ScreenTypeOK, EditingNext
    PROVE  /\ Len(fields') = Len(fields)
           /\ \A j \in 1..Len(fields) :
                 /\ fields'[j].start = fields[j].start /\ fields'[j].length = fields[j].length
                 /\ fields[j].mdt => fields'[j].mdt
  <1>1. ASSUME NEW text \in Texts, TypeKeys(text)
        PROVE  UNCHANGED fields \/ (FieldAtCursor # 0 /\ SetModified(FieldAtCursor))
    BY <1>1 DEF TypeKeys
  <1>2. UNCHANGED fields \/ (FieldAtCursor # 0 /\ SetModified(FieldAtCursor))
    BY <1>1 DEF EditingNext, MoveCursor, Backspace, Delete, FieldExit, Home, End, Tab, Backtab
  <1>3. QED BY <1>2, FieldAtCursorHolds, ModifiedFields

\* Without a write in progress all are settled; during one, all but the pending one.
Settling ==
    \A i \in 1..Len(fields) : fields[i].length >= 1 \/ (writing /\ i = pending)

LEMMA SettlingStep == TypeOK /\ Settling /\ [Next]_vars => Settling'
  <1> SUFFICES ASSUME TypeOK, Settling, [Next]_vars PROVE Settling'
    OBVIOUS
  <1> USE DEF Settling
  <1>1. Len(fields) \in Nat /\ \A i \in 1..Len(fields) : fields[i].length \in Nat
    BY FieldParts DEF TypeOK, ScreenTypeOK
  <1>2. /\ Len(Finalized) = Len(fields) /\ Finalized \in Seq(Fields)
        /\ \A j \in 1..Len(fields) : Finalized[j].length >= 1
    <2>1. \A j \in 1..Len(fields) : /\ j = pending => Finalized[j].length >= 1
                                    /\ j # pending => Finalized[j].length = fields[j].length
      BY FinalizedFields DEF TypeOK, ParserTypeOK
    <2>2. QED BY <2>1, FinalizedFields DEF TypeOK, ParserTypeOK
  <1>3. CASE ~writing /\ EditingNext /\ UNCHANGED parser
    BY <1>3, EditFields DEF TypeOK, parser
  <1>4. CASE HostNext
    <2>1. ASSUME NEW reset \in BOOLEAN, NEW clear \in BOOLEAN, BeginWrite(reset, clear)
          PROVE  Settling'
      <3>1. CASE clear
        BY <2>1, <3>1 DEF BeginWrite, ClearScreen
      <3>2. CASE ~clear /\ reset
        <4>1. Len(fields') = Len(fields)
              /\ \A j \in 1..Len(fields) : fields'[j].length = fields[j].length
          BY <2>1, <3>2, ResetFields DEF BeginWrite, TypeOK
        <4>2. QED BY <2>1, <4>1 DEF BeginWrite
      <3>3. CASE ~clear /\ ~reset
        BY <2>1, <3>3 DEF BeginWrite
      <3>4. QED BY <3>1, <3>2, <3>3
    <2>2. ASSUME UNCHANGED <<fields, writing, pending>>
          PROVE  Settling'
      BY <2>2
    <2>3. ASSUME NEW format \in Formats, StartOfField(format)
          PROVE  Settling'
      <3> DEFINE f == [start |-> addr + 1, length |-> format.length, input |-> format.input,
                       mono |-> format.mono, mdt |-> format.mdt, modified |-> FALSE]
      <3>1. fields' = Append(Finalized, f) /\ pending' = Len(fields) + 1 /\ writing'
        BY <2>3 DEF StartOfField, Order
      <3> HIDE DEF f
      <3>2. Len(fields') = Len(fields) + 1
            /\ \A j \in 1..Len(fields) : fields'[j] = Finalized[j]
        BY <1>1, <1>2, <3>1
      <3>3. QED BY <1>1, <1>2, <3>1, <3>2
    <2>4. CASE Attribute \/ EndWrite
      BY <1>2, <2>4 DEF Attribute, EndWrite
    <2>5. CASE ClearUnit \/ ClearFormatTable
      BY <2>5 DEF ClearUnit, ClearFormatTable, ClearScreen
    <2>6. QED
      BY <1>4, <2>1, <2>2, <2>3, <2>4, <2>5
      DEF HostNext, SetBufferAddress, InsertCursor, MoveCursorOrder, RepeatToAddress, Character,
          TransparentData, StructuredField, Roll, Order, screen, parser
  <1>5. CASE Respond \/ UNCHANGED vars
    BY <1>5 DEF Respond, vars, edit, screen, parser
  <1>6. QED BY <1>3, <1>4, <1>5 DEF Next

\* Between writes every field has a cell of its own, whatever lengths the data
\* stream left open, and in whatever order they came (_finalize_field()).
THEOREM SettledTheorem == Spec => []FieldsSettled
  <1>1. Init => Settling
    BY DEF Init, ScreenInit, Settling
  <1>2. TypeOK /\ Settling => FieldsSettled
    BY DEF Settling, FieldsSettled
  <1>3. QED BY <1>1, <1>2, InitType, TypeStep, SettlingStep, PTL DEF Spec

-----------------------------------------------------------------------------
\* What the operator changed reaches the host.

\* A cell is covered by the response when it is in a reported field.
LEMMA CoveredIs ==
    \A p : p \in Covered <=> \E i \in 1..Len(fields) : fields[i].mdt /\ p \in CellsOf(fields[i])
  BY DEF Covered, Reported

\* When fields only grow and keep their MDT bits, cells stay covered.
LEMMA CoverGrows ==
    ASSUME ScreenTypeOK, ScreenTypeOK', Len(fields) <= Len(fields'),
           \A j \in 1..Len(fields) :
              /\ fields'[j].start = fields[j].start /\ fields'[j].length >= fields[j].length
              /\ fields[j].mdt => fields'[j].mdt
    PROVE  Covered \subseteq Covered'
  <1> SUFFICES ASSUME NEW p \in Covered PROVE p \in Covered'
    OBVIOUS
  <1>1. PICK i \in 1..Len(fields) : fields[i].mdt /\ p \in CellsOf(fields[i])
    BY CoveredIs
  <1>2. Len(fields) \in Nat /\ Len(fields') \in Nat
    BY DEF ScreenTypeOK
  <1>3. i \in 1..Len(fields') /\ fields'[i].mdt
    BY <1>1, <1>2
  <1>4. fields[i].length \in Nat /\ fields[i].start \in Nat
    BY FieldParts
  <1>5. fields'[i].length \in Nat /\ fields'[i].start \in Nat
    BY <1>3, FieldShape DEF ScreenTypeOK
  <1>6. p \in CellsOf(fields'[i])
    BY <1>1, <1>4, <1>5 DEF CellsOf, Cells
  <1>7. (\E k \in 1..Len(fields) : fields[k].mdt /\ p \in CellsOf(fields[k]))'
    BY <1>3, <1>6 DEF CellsOf
  <1>8. QED BY <1>7 DEF Covered, Reported

\* What the host does to the format table: it is dropped, and what was typed is
\* owed no more; or fields are added to it and their lengths settled.
LEMMA HostFields ==
    ASSUME ScreenTypeOK, ParserTypeOK, HostNext
    PROVE  \/ dirty' = {}
           \/ /\ dirty' \subseteq dirty /\ Len(fields) <= Len(fields')
              /\ \A j \in 1..Len(fields) :
                    /\ fields'[j].start = fields[j].start /\ fields'[j].length >= fields[j].length
                    /\ fields'[j].mdt = fields[j].mdt
  <1> DEFINE Grown == /\ Len(fields) <= Len(fields')
                      /\ \A j \in 1..Len(fields) :
                            /\ fields'[j].start = fields[j].start
                            /\ fields'[j].length >= fields[j].length
                            /\ fields'[j].mdt = fields[j].mdt
  <1> SUFFICES dirty' = {} \/ (dirty' \subseteq dirty /\ Grown)
    OBVIOUS
  <1>1. /\ fields \in Seq(Fields) /\ Len(fields) \in Nat
        /\ \A i \in 1..Len(fields) : fields[i].length \in Nat
    BY FieldParts DEF ScreenTypeOK
  <1>2. UNCHANGED fields => Grown
    BY <1>1
  <1>3. /\ Finalized \in Seq(Fields) /\ Len(Finalized) = Len(fields)
        /\ \A j \in 1..Len(fields) :
              /\ Finalized[j].start = fields[j].start /\ Finalized[j].mdt = fields[j].mdt
              /\ Finalized[j].length >= fields[j].length
    BY FinalizedFields DEF ParserTypeOK
  <1>4. fields' = Finalized => Grown
    BY <1>1, <1>3
  <1>5. ASSUME NEW f \in Fields, fields' = Append(Finalized, f)
        PROVE  Grown
    <2>1. Len(fields') = Len(fields) + 1 /\ \A j \in 1..Len(fields) : fields'[j] = Finalized[j]
      BY <1>1, <1>3, <1>5
    <2>2. QED BY <1>1, <1>3, <2>1
  <1>6. ASSUME NEW reset \in BOOLEAN, NEW clear \in BOOLEAN, BeginWrite(reset, clear)
        PROVE  dirty' = {} \/ (dirty' \subseteq dirty /\ Grown)
    <2>1. CASE clear
      BY <1>6, <2>1 DEF BeginWrite, ClearScreen
    <2>2. CASE ~clear /\ reset
      <3>1. Len(fields') = Len(fields)
            /\ \A j \in 1..Len(fields) :
                  /\ fields'[j].start = fields[j].start /\ fields'[j].length = fields[j].length
                  /\ fields'[j].mdt = fields[j].mdt
        BY <1>6, <2>2, ResetFields DEF BeginWrite
      <3>2. Grown
        BY <1>1, <3>1
      <3>3. QED BY <1>6, <2>2, <3>2 DEF BeginWrite
    <2>3. CASE ~clear /\ ~reset
      BY <1>2, <1>6, <2>3 DEF BeginWrite
    <2>4. QED BY <2>1, <2>2, <2>3
  <1>7. ASSUME NEW format \in Formats, StartOfField(format)
        PROVE  dirty' \subseteq dirty /\ Grown
    <2>1. [start |-> addr + 1, length |-> format.length, input |-> format.input,
           mono |-> format.mono, mdt |-> format.mdt, modified |-> FALSE] \in Fields
      BY FormatsType DEF Fields, ParserTypeOK
    <2> HIDE DEF Grown
    <2>2. QED BY <1>5, <1>7, <2>1 DEF StartOfField, Fill
  <1> HIDE DEF Grown
  <1>8. CASE Attribute \/ EndWrite
    BY <1>4, <1>8 DEF Attribute, EndWrite, Fill
  <1>9. CASE ClearUnit \/ ClearFormatTable
    BY <1>9 DEF ClearUnit, ClearFormatTable, ClearScreen
  <1>10. CASE UNCHANGED fields /\ dirty' \subseteq dirty
    BY <1>2, <1>10
  <1>11. ASSUME NEW lines \in 1..Rows, NEW top \in 0..(Rows - 1), NEW bottom \in 0..(Rows - 1),
                Roll(lines, top, bottom)
         PROVE  UNCHANGED fields /\ dirty' \subseteq dirty
    BY <1>11 DEF Roll
  <1>12. QED
    BY <1>6, <1>7, <1>8, <1>9, <1>10, <1>11
    DEF HostNext, SetBufferAddress, InsertCursor, MoveCursorOrder, RepeatToAddress, Character,
        TransparentData, StructuredField, Fill, screen

\* A shift changes cells of its range only.
LEMMA ShiftInside ==
    ASSUME NEW from \in Int, NEW end \in Int, from < end, ShiftLeft(from, end), NEW p \in Changed
    PROVE  p \in Cells /\ from <= p /\ p < end
  <1>1. p \in Cells /\ p \in Int /\ buffer'[p] # buffer[p]
    BY DEF Changed, Cells
  <1>2. buffer'[p] = IF from <= p /\ p < end - 1 THEN CharAt(p + 1)
                     ELSE IF p = end - 1 THEN Blank ELSE buffer[p]
    BY <1>1 DEF ShiftLeft
  <1>3. CASE from <= p /\ p < end - 1
    BY <1>1, <1>3
  <1>4. CASE ~(from <= p /\ p < end - 1)
    <2>1. p = end - 1
      BY <1>1, <1>2, <1>4
    <2>2. QED BY <1>1, <2>1
  <1>5. QED BY <1>3, <1>4

\* Backspace, Delete and Field Exit change no cell outside of the field.
LEMMA EditsInside ==
    ASSUME ScreenTypeOK, FieldAtCursor # 0, Backspace \/ Delete \/ FieldExit
    PROVE  Changed \subseteq CellsOf(fields[FieldAtCursor])
  <1> DEFINE f == fields[FieldAtCursor]
  <1>1. CursorPos \in Nat
    BY CursorCell DEF Cells
  <1>2. /\ f.start \in Nat /\ f.length \in Nat /\ FieldEnd(f) = f.start + f.length
        /\ f.start <= CursorPos /\ CursorPos < FieldEnd(f)
    BY FieldAtCursorHolds, FieldShape DEF FieldEnd
  <1>3. CASE Backspace
    <2>1. CursorPos > f.start /\ ShiftLeft(CursorPos - 1, FieldEnd(f))
      BY <1>3 DEF Backspace
    <2>2. CursorPos - 1 \in Int /\ FieldEnd(f) \in Int /\ CursorPos - 1 < FieldEnd(f) /\ f.start <= CursorPos - 1
      BY <1>1, <1>2, <2>1
    <2>3. \A p \in Changed : p \in Cells /\ CursorPos - 1 <= p /\ p < FieldEnd(f)
      BY <2>1, <2>2, ShiftInside
    <2>4. QED BY <1>1, <1>2, <2>2, <2>3 DEF CellsOf, Cells
  <1>4. CASE Delete
    <2>1. ShiftLeft(CursorPos, FieldEnd(f))
      BY <1>4 DEF Delete
    <2>2. CursorPos \in Int /\ FieldEnd(f) \in Int /\ CursorPos < FieldEnd(f) /\ f.start <= CursorPos
      BY <1>1, <1>2, <2>1
    <2>3. \A p \in Changed : p \in Cells /\ CursorPos <= p /\ p < FieldEnd(f)
      BY <2>1, <2>2, ShiftInside
    <2>4. QED BY <1>1, <1>2, <2>2, <2>3 DEF CellsOf, Cells
  <1>5. CASE FieldExit
    <2>1. buffer' = [p \in Cells |-> IF CursorPos <= p /\ p < FieldEnd(f)
                                     THEN Blank ELSE buffer[p]]
      BY <1>5 DEF FieldExit
    <2>2. QED BY <1>1, <1>2, <2>1 DEF Changed, CellsOf, FieldEnd, Cells
  <1>6. QED BY <1>3, <1>4, <1>5

\* What the operator does: the cells it changes are in the field at the cursor,
\* which it marks, or are history's strays.
LEMMA EditMarks ==
    ASSUME ScreenTypeOK, EditingNext
    PROVE  /\ stray \subseteq stray'
           /\ \/ dirty' \subseteq dirty \cup stray'
              \/ /\ FieldAtCursor # 0 /\ fields'[FieldAtCursor].mdt
                 /\ dirty' \subseteq dirty \cup stray' \cup CellsOf(fields[FieldAtCursor])
  <1> DEFINE i == FieldAtCursor
             Marked == /\ i # 0 /\ fields'[i].mdt
                       /\ dirty' \subseteq dirty \cup stray' \cup CellsOf(fields[i])
  <1> SUFFICES stray \subseteq stray' /\ (dirty' \subseteq dirty \cup stray' \/ Marked)
    OBVIOUS
  <1>1. CursorPos \in Nat
    BY CursorCell DEF Cells
  <1>2. i # 0 => /\ i \in 1..Len(fields) /\ fields[i].start \in Nat /\ fields[i].length \in Nat
                 /\ fields[i].start <= CursorPos /\ CursorPos < fields[i].start + fields[i].length
    BY FieldAtCursorHolds, FieldParts
  <1>3. i # 0 /\ SetModified(i) => fields'[i].mdt
    BY <1>2, ModifiedFields
  <1>4. ASSUME NEW text \in Texts, TypeKeys(text)
        PROVE  stray \subseteq stray' /\ (dirty' \subseteq dirty \cup stray' \/ Marked)
    <2> DEFINE typed == {p \in Cells : CursorPos <= p /\ p < CursorPos + Len(text)}
    <2>1. Changed \subseteq typed
      <3> DEFINE mono == i # 0 /\ fields[i].mono
                 Char(p) == IF mono THEN Upper[text[p - CursorPos + 1]]
                            ELSE text[p - CursorPos + 1]
      <3>1. buffer' = [p \in Cells |-> IF p \in typed THEN Char(p) ELSE buffer[p]]
        BY <1>4 DEF TypeKeys
      <3> HIDE DEF typed, Char
      <3>2. QED BY <3>1 DEF Changed
    <2>2. /\ dirty' = dirty \cup Changed
          /\ stray' = stray \cup (typed \ (IF i = 0 THEN {} ELSE CellsOf(fields[i])))
          /\ IF i = 0 THEN UNCHANGED fields ELSE SetModified(i)
      BY <1>4 DEF TypeKeys
    <2> HIDE DEF typed
    <2>3. CASE i = 0
      BY <2>1, <2>2, <2>3
    <2>4. CASE i # 0
      BY <1>3, <2>1, <2>2, <2>4
    <2>5. QED BY <2>3, <2>4
  <1>5. CASE Backspace \/ Delete \/ FieldExit
    <2>1. i # 0 /\ SetModified(i) /\ dirty' = dirty \cup Changed /\ stray' = stray
      BY <1>5 DEF Backspace, Delete, FieldExit
    <2>2. QED BY <1>3, <1>5, <2>1, EditsInside
  <1>6. (\E r \in 1..Rows, c \in 1..Cols : MoveCursor(r, c)) \/ Home \/ End \/ Tab \/ Backtab
          => stray' = stray /\ dirty' = dirty
    BY DEF MoveCursor, Home, End, Tab, Backtab
  <1> HIDE DEF Marked
  <1>7. QED BY <1>4, <1>5, <1>6 DEF EditingNext

LEMMA ReachStep == TypeOK /\ EditsReachHost /\ [Next]_vars => EditsReachHost'
  <1> SUFFICES ASSUME TypeOK, EditsReachHost, [Next]_vars PROVE EditsReachHost'
    OBVIOUS
  <1> USE DEF EditsReachHost
  <1>1. ScreenTypeOK /\ ParserTypeOK /\ ScreenTypeOK'
    BY TypeStep DEF TypeOK
  <1>2. CASE ~writing /\ EditingNext /\ UNCHANGED parser
    <2>1. Len(fields) <= Len(fields')
          /\ \A j \in 1..Len(fields) :
                /\ fields'[j].start = fields[j].start /\ fields'[j].length >= fields[j].length
                /\ fields[j].mdt => fields'[j].mdt
      <3>1. Len(fields) \in Nat /\ \A j \in 1..Len(fields) : fields[j].length \in Nat
        BY <1>1, FieldParts DEF ScreenTypeOK
      <3>2. QED BY <1>1, <1>2, <3>1, EditFields
    <2>2. Covered \subseteq Covered'
      BY <1>1, <2>1, CoverGrows
    <2>3. FieldAtCursor # 0 /\ fields'[FieldAtCursor].mdt =>
             CellsOf(fields[FieldAtCursor]) \subseteq Covered'
      <3> SUFFICES ASSUME FieldAtCursor # 0, fields'[FieldAtCursor].mdt,
                          NEW p \in CellsOf(fields[FieldAtCursor])
                   PROVE  p \in Covered'
        OBVIOUS
      <3> DEFINE i == FieldAtCursor
      <3>1. i \in 1..Len(fields)
        BY <1>1, FieldAtCursorHolds
      <3> HIDE DEF i
      <3>2. i \in 1..Len(fields') /\ fields'[i].start = fields[i].start
            /\ fields'[i].length = fields[i].length /\ fields'[i].mdt
        BY <1>1, <1>2, <3>1, EditFields DEF i
      <3>3. p \in CellsOf(fields'[i])
        BY <3>2 DEF CellsOf, i
      <3>4. QED BY <3>2, <3>3 DEF Covered, Reported, CellsOf
    <2>4. QED BY <1>1, <1>2, <2>2, <2>3, EditMarks
  <1>3. CASE HostNext /\ stray' = stray \cap dirty'
    <2>1. CASE dirty' = {}
      BY <2>1
    <2>2. CASE dirty' # {}
      <3>1. dirty' \subseteq dirty /\ Covered \subseteq Covered'
        BY <1>1, <1>3, <2>2, HostFields, CoverGrows
      <3>2. QED BY <1>3, <3>1
    <2>3. QED BY <2>1, <2>2
  <1>4. CASE Respond
    BY <1>4 DEF Respond
  <1>5. CASE UNCHANGED vars
    BY <1>5 DEF vars, edit, screen, Covered, Reported, CellsOf
  <1>6. QED BY <1>2, <1>3, <1>4, <1>5 DEF Next

\* What the operator changed is in the response to the host, whatever the order
\* of typing, deleting, field exits, host writes and earlier responses
\* (set_modified(), build_response()).
THEOREM ReachTheorem == Spec => []EditsReachHost
  <1>1. Init => EditsReachHost
    BY DEF Init, ScreenInit, EditsReachHost
  <1>2. QED BY <1>1, InitType, TypeStep, ReachStep, PTL DEF Spec

-----------------------------------------------------------------------------
\* Edits keep to the field they work on, and take out one character.

\* Set to a place of a field on the display, the cursor is in the field.
LEMMA CursorInField ==
    ASSUME NEW f \in Fields, OnDisplay(f), NEW p \in Nat, f.start <= p, p < FieldEnd(f),
           SetCursorAt(p)
    PROVE  CursorPos' \in CellsOf(f)
  <1>1. Size \in Nat /\ FieldEnd(f) <= Size /\ FieldEnd(f) = f.start + f.length
        /\ f.start \in Nat /\ f.length \in Nat
    BY DisplayShape, FieldShape DEF OnDisplay, FieldEnd, Size
  <1>2. p \in Cells
    BY <1>1 DEF Cells
  <1>3. QED BY <1>1, <1>2, CursorAtCell DEF CellsOf

\* Backspace, Delete, Field Exit and End keep to their field, from wherever the
\* host and the operator have put the cursor (session.py: backspace(), delete_char(),
\* field_exit(), end()).
THEOREM StayTheorem == Spec => EditsStayInField
  <1> DEFINE f == fields[FieldAtCursor]
             Stay == AtField =>
               /\ Backspace \/ Delete \/ FieldExit => Changed \subseteq CellsOf(f)
               /\ OnDisplay(f) /\ (Backspace \/ Delete \/ End) => CursorPos' \in CellsOf(f)
  <1>1. TypeOK => Stay
    <2> SUFFICES ASSUME TypeOK, AtField
                 PROVE  /\ Backspace \/ Delete \/ FieldExit => Changed \subseteq CellsOf(f)
                        /\ OnDisplay(f) /\ (Backspace \/ Delete \/ End) => CursorPos' \in CellsOf(f)
      OBVIOUS
    <2>1. ScreenTypeOK /\ FieldAtCursor # 0
      BY DEF TypeOK, AtField
    <2>2. /\ f \in Fields /\ f.start \in Nat /\ f.length \in Nat /\ f.length >= 1
          /\ f.start <= CursorPos /\ CursorPos < FieldEnd(f) /\ CursorPos \in Nat
      <3>1. CursorPos \in Nat
        BY <2>1, CursorCell DEF Cells
      <3>2. QED BY <2>1, <3>1, FieldAtCursorHolds, FieldShape DEF FieldEnd
    <2> HIDE DEF f
    <2>3. Backspace \/ Delete \/ FieldExit => Changed \subseteq CellsOf(f)
      BY <2>1, EditsInside DEF f
    <2>4. OnDisplay(f) /\ Backspace => CursorPos' \in CellsOf(f)
      <3>1. Backspace => CursorPos - 1 \in Nat /\ f.start <= CursorPos - 1
                         /\ CursorPos - 1 < FieldEnd(f) /\ SetCursorAt(CursorPos - 1)
        BY <2>2 DEF Backspace, f, FieldEnd
      <3>2. QED BY <2>2, <3>1, CursorInField
    <2>5. Delete => CursorPos' \in CellsOf(f)
      BY <2>1, <2>2, CursorCell DEF Delete, CursorPos, CellsOf, FieldEnd
    <2>6. OnDisplay(f) /\ End => CursorPos' \in CellsOf(f)
      BY <2>1, <2>2, EndTargetPlace, CursorInField DEF End, f
    <2>7. QED BY <2>3, <2>4, <2>5, <2>6
  <1>2. EditsStayInField <=> [][Stay]_vars
    BY PTL DEF EditsStayInField
  <1>3. QED BY <1>1, <1>2, TypeTheorem, PTL

\* A shift from the k-th character of a field on takes that character out.
LEMMA ShiftExact ==
    ASSUME ScreenTypeOK, NEW f \in Fields, OnDisplay(f), NEW k \in 1..f.length,
           ShiftLeft(f.start + k - 1, FieldEnd(f))
    PROVE  FieldText(f, buffer') = Without(FieldText(f, buffer), k)
  <1>1. Size \in Nat /\ FieldEnd(f) <= Size /\ FieldEnd(f) = f.start + f.length
        /\ f.start \in Nat /\ f.length \in Nat
    BY DisplayShape, FieldShape DEF OnDisplay, FieldEnd, Size
  <1> DEFINE old == FieldText(f, buffer)
  <1>2. Len(old) = f.length
    BY <1>1 DEF FieldText
  <1>3. \A j \in 1..f.length :
           buffer'[f.start + j - 1] = IF j < k THEN old[j]
                                      ELSE IF j < f.length THEN old[j + 1] ELSE Blank
    <2> SUFFICES ASSUME NEW j \in 1..f.length
                 PROVE  buffer'[f.start + j - 1] = IF j < k THEN old[j]
                           ELSE IF j < f.length THEN old[j + 1] ELSE Blank
      OBVIOUS
    <2> DEFINE p == f.start + j - 1
    <2>1. p \in Cells /\ (j < k <=> p < f.start + k - 1) /\ (j < f.length <=> p < FieldEnd(f) - 1)
          /\ p <= FieldEnd(f) - 1
      BY <1>1 DEF Cells
    <2>2. old[j] = buffer[p] /\ (j < f.length => old[j + 1] = buffer[p + 1] /\ p + 1 \in Cells)
      BY <1>1 DEF FieldText, Cells
    <2> HIDE DEF p, old
    <2>3. p \in Int /\ f.start + k - 1 \in Int /\ FieldEnd(f) - 1 \in Int
      BY <1>1, <2>1 DEF Cells
    <2>4. buffer'[p] = IF f.start + k - 1 <= p /\ p < FieldEnd(f) - 1 THEN CharAt(p + 1)
                       ELSE IF p = FieldEnd(f) - 1 THEN Blank ELSE buffer[p]
      BY <2>1 DEF ShiftLeft
    <2>5. j < f.length => CharAt(p + 1) = old[j + 1]
      BY <2>2 DEF CharAt
    <2>6. k \in Int /\ k <= f.length /\ (~(j < k) <=> f.start + k - 1 <= p)
      BY <1>1, <2>1, <2>3
    <2>7. ~(j < f.length) <=> p = FieldEnd(f) - 1
      BY <1>1, <2>1, <2>3
    <2>8. buffer'[p] = IF j < k THEN old[j] ELSE IF j < f.length THEN old[j + 1] ELSE Blank
      <3>1. CASE j < k /\ j < f.length
        BY <2>1, <2>2, <2>3, <2>4, <2>6, <2>7, <3>1
      <3>2. CASE ~(j < k) /\ j < f.length
        BY <2>1, <2>4, <2>5, <2>6, <3>2
      <3>3. CASE ~(j < f.length)
        <4>1. ~(j < k) /\ p = FieldEnd(f) - 1
          BY <1>1, <2>6, <2>7, <3>3
        <4>2. buffer'[p] = Blank
          BY <2>3, <2>4, <2>6, <4>1
        <4>3. QED BY <3>3, <4>1, <4>2
      <3>4. QED BY <3>1, <3>2, <3>3
    <2>9. QED BY <2>8 DEF p
  <1> HIDE DEF old
  <1>4. Without(old, k) = [j \in 1..f.length |-> IF j < k THEN old[j]
                              ELSE IF j < f.length THEN old[j + 1] ELSE Blank]
    BY <1>2 DEF Without
  <1>5. FieldText(f, buffer') = [j \in 1..f.length |-> buffer'[f.start + j - 1]]
    BY DEF FieldText
  <1>6. QED BY <1>3, <1>4, <1>5 DEF old

\* Backspace and Delete take out one character of their field and close the gap
\* (session.py: backspace(), delete_char()).
THEOREM ExactTheorem == Spec => EditsAreExact
  <1> DEFINE f == fields[FieldAtCursor]
             k == CursorPos - f.start
             Exact == AtField => (OnDisplay(f) =>
               /\ Backspace => FieldText(f, buffer') = Without(FieldText(f, buffer), k)
               /\ Delete => FieldText(f, buffer') = Without(FieldText(f, buffer), k + 1))
  <1>1. TypeOK => Exact
    <2> SUFFICES ASSUME TypeOK, AtField, OnDisplay(f)
                 PROVE  /\ Backspace => FieldText(f, buffer') = Without(FieldText(f, buffer), k)
                        /\ Delete => FieldText(f, buffer') = Without(FieldText(f, buffer), k + 1)
      OBVIOUS
    <2>1. ScreenTypeOK /\ FieldAtCursor # 0
      BY DEF TypeOK, AtField
    <2>2. /\ f \in Fields /\ f.start \in Nat /\ f.length \in Nat
          /\ f.start <= CursorPos /\ CursorPos < f.start + f.length /\ CursorPos \in Nat
      <3>1. CursorPos \in Nat
        BY <2>1, CursorCell DEF Cells
      <3>2. QED BY <2>1, <3>1, FieldAtCursorHolds, FieldShape
    <2>3. Backspace => CursorPos > f.start /\ ShiftLeft(CursorPos - 1, FieldEnd(f))
      BY DEF Backspace
    <2>4. Delete => ShiftLeft(CursorPos, FieldEnd(f))
      BY DEF Delete
    <2> HIDE DEF f
    <2>5. k \in Nat /\ k + 1 \in 1..f.length
      BY <2>2
    <2>6. f.start + k - 1 = CursorPos - 1 /\ f.start + (k + 1) - 1 = CursorPos
      BY <2>2
    <2>7. Backspace => k \in 1..f.length /\ ShiftLeft(f.start + k - 1, FieldEnd(f))
      BY <2>2, <2>3, <2>5, <2>6
    <2>8. Delete => ShiftLeft(f.start + (k + 1) - 1, FieldEnd(f))
      BY <2>4, <2>6
    <2> HIDE DEF k
    <2>9. QED BY <2>1, <2>2, <2>5, <2>7, <2>8, ShiftExact
  <1>2. EditsAreExact <=> [][Exact]_vars
    BY PTL DEF EditsAreExact
  <1>3. QED BY <1>1, <1>2, TypeTheorem, PTL

-----------------------------------------------------------------------------
\* Tab goes through all input fields.

Input == {i \in 1..Len(fields) : fields[i].input}

\* Where input fields come from top to bottom, Tab goes from one to the next one
\* and from the last to the first.
LEMMA TabNext ==
    ASSUME ScreenTypeOK, HasInput, TopToBottom, NEW i \in Input
    PROVE  \E k \in Input :
              /\ TabTarget(fields[i].start) = fields[k].start
              /\ \/ k > i /\ \A j \in Input : j > i => k <= j
                 \/ k = FirstInput /\ i = LastInput
  <1>1. i \in 1..Len(fields) /\ fields[i].start \in Int
    BY FieldParts DEF Input
  <1>2. PICK k \in 1..Len(fields) :
           /\ fields[k].input /\ TabTarget(fields[i].start) = fields[k].start
           /\ \/ /\ fields[k].start > fields[i].start
                 /\ \A j \in 1..Len(fields) :
                       fields[j].input /\ fields[j].start > fields[i].start => k <= j
              \/ /\ k = FirstInput
                 /\ \A j \in 1..Len(fields) : fields[j].input => fields[j].start <= fields[i].start
    BY <1>1, TabTargetIs
  <1>3. \A j \in Input : /\ fields[j].start \in Nat
                         /\ fields[j].start > fields[i].start <=> j > i
    BY <1>1, FieldParts DEF TopToBottom, Input
  <1>4. CASE fields[k].start > fields[i].start
    BY <1>2, <1>3, <1>4 DEF Input
  <1>5. CASE ~(fields[k].start > fields[i].start)
    <2>1. k = FirstInput /\ \A j \in 1..Len(fields) : fields[j].input => fields[j].start <= fields[i].start
      BY <1>2, <1>5
    <2>2. \A j \in 1..Len(fields) : fields[j].input => j <= i
      BY <1>1, <1>3, <2>1 DEF Input
    <2>3. i = LastInput
      BY <1>1, <2>2, InputEnds DEF Input
    <2>4. QED BY <1>2, <2>1, <2>3 DEF Input
  <1>6. QED BY <1>4, <1>5

\* Backtab goes from one to the one before and from the first to the last.
LEMMA BacktabNext ==
    ASSUME ScreenTypeOK, HasInput, TopToBottom, NEW i \in Input
    PROVE  \E k \in Input :
              /\ BacktabTarget(fields[i].start) = fields[k].start
              /\ \/ k < i /\ \A j \in Input : j < i => j <= k
                 \/ k = LastInput /\ i = FirstInput
  <1>1. i \in 1..Len(fields) /\ fields[i].start \in Int
    BY FieldParts DEF Input
  <1>2. PICK k \in 1..Len(fields) :
           /\ fields[k].input /\ BacktabTarget(fields[i].start) = fields[k].start
           /\ \/ /\ fields[k].start < fields[i].start
                 /\ \A j \in 1..Len(fields) :
                       fields[j].input /\ fields[j].start < fields[i].start => j <= k
              \/ /\ k = LastInput
                 /\ \A j \in 1..Len(fields) : fields[j].input => fields[j].start >= fields[i].start
    BY <1>1, BacktabTargetIs
  <1>3. \A j \in Input : /\ fields[j].start \in Nat
                         /\ fields[j].start < fields[i].start <=> j < i
    BY <1>1, FieldParts DEF TopToBottom, Input
  <1>4. CASE fields[k].start < fields[i].start
    BY <1>2, <1>3, <1>4 DEF Input
  <1>5. CASE ~(fields[k].start < fields[i].start)
    <2>1. k = LastInput /\ \A j \in 1..Len(fields) : fields[j].input => fields[j].start >= fields[i].start
      BY <1>2, <1>5
    <2>2. \A j \in 1..Len(fields) : fields[j].input => i <= j
      BY <1>1, <1>3, <2>1 DEF Input
    <2>3. i = FirstInput
      BY <1>1, <2>2, InputEnds DEF Input
    <2>4. QED BY <1>2, <2>1, <2>3 DEF Input
  <1>6. QED BY <1>4, <1>5

\* So Backtab takes Tab back.
LEMMA BacktabReturns ==
    ASSUME ScreenTypeOK, HasInput, TopToBottom, NEW i \in Input
    PROVE  BacktabTarget(TabTarget(fields[i].start)) = fields[i].start
  <1>1. PICK k \in Input : /\ TabTarget(fields[i].start) = fields[k].start
                           /\ \/ k > i /\ \A j \in Input : j > i => k <= j
                              \/ k = FirstInput /\ i = LastInput
    BY TabNext
  <1>2. PICK m \in Input : /\ BacktabTarget(fields[k].start) = fields[m].start
                           /\ \/ m < k /\ \A j \in Input : j < k => j <= m
                              \/ m = LastInput /\ k = FirstInput
    BY BacktabNext
  <1>3. \A j \in Input : j \in Nat /\ FirstInput <= j /\ j <= LastInput
    BY InputEnds DEF Input
  <1>4. FirstInput \in Nat /\ LastInput \in Nat
    BY InputEnds
  <1>5. m = i
    BY <1>1, <1>2, <1>3, <1>4
  <1>6. QED BY <1>1, <1>2, <1>5

\* Pressed again and again from one input field on, Tab comes to each that is
\* further down, in at most as many steps as there are fields between them.
LEMMA TabSweep ==
    ASSUME ScreenTypeOK, HasInput, TopToBottom,
           NEW v, NEW m \in 1..Len(fields), NEW a \in Input, v[m] = fields[a].start,
           \A n \in 1..Len(fields) : v[n] = TabTarget(v[n - 1]),
           NEW i \in Input, a <= i, m + (i - a) <= Len(fields)
    PROVE  \E n \in m..(m + (i - a)) : v[n] = fields[i].start
  <1> DEFINE Missed == {j \in Input : a <= j /\ j <= i
                            /\ ~ \E n \in m..(m + (j - a)) : v[n] = fields[j].start}
  <1>1. Len(fields) \in Nat /\ Input \subseteq Nat /\ Input \subseteq 1..Len(fields)
    BY DEF ScreenTypeOK, Input
  <1>a. i <= i /\ (i \notin Missed => \E n \in m..(m + (i - a)) : v[n] = fields[i].start)
    <2>1. i <= i
      BY <1>1
    <2> HIDE DEF Input
    <2>2. QED BY <2>1, Zenon
  <1> SUFFICES ASSUME Missed # {} PROVE FALSE
    BY <1>a
  <1>2. Missed \subseteq Nat
    BY <1>1
  <1>3. PICK b \in Missed : \A j \in Missed : b <= j
    BY <1>2, LeastNatural
  <1>4. b \in Input /\ a <= b /\ b <= i /\ a # b
    BY <1>1, <1>3
  <1>5. \A j \in Input : a <= j /\ j < b =>
           j \notin Missed /\ \E n \in m..(m + (j - a)) : v[n] = fields[j].start
    BY <1>1, <1>3, <1>4
  <1>6. b \in Missed => ~ \E n \in m..(m + (b - a)) : v[n] = fields[b].start
    OBVIOUS
  <1> HIDE DEF Missed
  <1>7. a \in Nat /\ b \in Nat /\ i \in Nat /\ a < b /\ b <= Len(fields)
    BY <1>1, <1>4
  <1> DEFINE Before == {j \in Input : a <= j /\ j < b}
  <1>8. Before \subseteq 0..Len(fields) /\ Before # {}
    <2>1. a \in Before
      BY <1>7
    <2>2. Before \subseteq 1..Len(fields)
      BY <1>1
    <2>3. QED BY <1>1, <2>1, <2>2
  <1>9. PICK j \in Before : \A k \in Before : k <= j
    BY <1>1, <1>8, GreatestNatural
  <1>10. j \in Input /\ j \in Nat /\ a <= j /\ j < b /\ \A k \in Input : a <= k /\ k < b => k <= j
    BY <1>1, <1>9
  <1> HIDE DEF Before
  <1>11. PICK n \in m..(m + (j - a)) : v[n] = fields[j].start
    BY <1>5, <1>10
  <1>12. PICK k \in Input : /\ TabTarget(fields[j].start) = fields[k].start
                            /\ \/ k > j /\ \A l \in Input : l > j => k <= l
                               \/ k = FirstInput /\ j = LastInput
    BY <1>10, TabNext
  <1>13. j # LastInput
    <2>1. fields[b].input /\ b \in 1..Len(fields)
      BY <1>4 DEF Input
    <2>2. b <= LastInput
      BY <2>1, InputEnds
    <2>3. QED BY <1>7, <1>10, <2>2
  <1>14. k \in Nat /\ k > j /\ k <= b
    BY <1>1, <1>4, <1>7, <1>10, <1>12, <1>13
  <1>15. k = b
    BY <1>7, <1>10, <1>14
  <1>16. n + 1 \in m..(m + (b - a)) /\ n + 1 \in 1..Len(fields) /\ (n + 1) - 1 = n
    BY <1>1, <1>4, <1>7, <1>10
  <1>17. v[n + 1] = fields[b].start
    BY <1>11, <1>12, <1>15, <1>16
  <1>18. QED BY <1>3, <1>6, <1>16, <1>17

\* From any place, Tab comes to every input field in as many steps as there are
\* fields: down to the last one, and from the first one on.
LEMMA TabVisitsAll ==
    ASSUME ScreenTypeOK, HasInput, TopToBottom,
           NEW v, v[0] \in Int, \A n \in 1..Len(fields) : v[n] = TabTarget(v[n - 1]),
           NEW i \in Input
    PROVE  \E n \in 1..Len(fields) : v[n] = fields[i].start
  <1>1. Len(fields) \in Nat /\ Input \subseteq Nat /\ Input \subseteq 1..Len(fields)
    BY DEF ScreenTypeOK, Input
  <1>2. /\ FirstInput \in Input /\ LastInput \in Input
        /\ \A j \in Input : FirstInput <= j /\ j <= LastInput
    BY InputEnds DEF Input
  <1>3. PICK a \in Input : v[1] = fields[a].start
    <2>1. 1 \in 1..Len(fields) /\ 1 - 1 = 0
      BY <1>1
    <2>2. v[1] = TabTarget(v[0])
      BY <2>1
    <2>3. \E k \in 1..Len(fields) : fields[k].input /\ TabTarget(v[0]) = fields[k].start
      BY TabTargetIs
    <2>4. QED BY <2>2, <2>3 DEF Input
  <1>4. CASE a <= i
    <2>1. 1 \in 1..Len(fields) /\ 1 + (i - a) <= Len(fields)
      BY <1>1, <1>4
    <2>2. \E n \in 1..(1 + (i - a)) : v[n] = fields[i].start
      BY <1>3, <1>4, <2>1, TabSweep
    <2>3. QED BY <1>1, <2>1, <2>2
  <1>5. CASE i < a
    <2> DEFINE L == LastInput
               F == FirstInput
    <2>1. F \in Nat /\ L \in Nat /\ F <= i /\ a <= L /\ L <= Len(fields) /\ F \in 1..Len(fields)
      BY <1>1, <1>2
    <2>2. 1 \in 1..Len(fields) /\ 1 + (L - a) <= Len(fields)
      BY <1>1, <2>1
    <2>3. L \in Input /\ F \in Input
      BY <1>2
    <2> HIDE DEF L, F
    <2>4. PICK n \in 1..(1 + (L - a)) : v[n] = fields[L].start
      BY <1>3, <2>1, <2>2, <2>3, TabSweep
    <2>5. n + 1 \in 1..Len(fields) /\ (n + 1) - 1 = n /\ (n + 1) + (i - F) <= Len(fields)
      BY <1>1, <1>5, <2>1
    <2>6. TabTarget(fields[L].start) = fields[F].start
      <3>1. PICK k \in Input : /\ TabTarget(fields[L].start) = fields[k].start
                               /\ \/ k > L /\ \A j \in Input : j > L => k <= j
                                  \/ k = FirstInput /\ L = LastInput
        BY <2>3, TabNext
      <3>2. k <= L
        BY <1>2 DEF L
      <3>3. QED BY <1>1, <2>1, <3>1, <3>2 DEF F
    <2>7. v[n + 1] = fields[F].start
      BY <2>4, <2>5, <2>6
    <2>8. \E l \in (n + 1)..((n + 1) + (i - F)) : v[l] = fields[i].start
      <3> DEFINE m == n + 1
      <3>1. m \in 1..Len(fields) /\ v[m] = fields[F].start /\ m + (i - F) <= Len(fields)
        BY <2>5, <2>7
      <3> HIDE DEF m
      <3>2. \E l \in m..(m + (i - F)) : v[l] = fields[i].start
        BY <2>1, <2>3, <3>1, TabSweep
      <3>3. QED BY <3>2 DEF m
    <2>9. QED BY <1>1, <2>1, <2>5, <2>8
  <1>6. QED BY <1>1, <1>4, <1>5

\* A field that starts on the display is where the cursor comes to.
LEMMA TabReaches ==
    ASSUME ScreenTypeOK, HasInput, InputStarts \subseteq Cells, NEW p \in Int
    PROVE  AfterTab(p) = TabTarget(p) /\ AfterBacktab(p) = BacktabTarget(p)
  <1>1. \E i \in 1..Len(fields) : fields[i].input /\ TabTarget(p) = fields[i].start
    BY TabTargetIs
  <1>2. \E i \in 1..Len(fields) : fields[i].input /\ BacktabTarget(p) = fields[i].start
    BY BacktabTargetIs
  <1>3. TabTarget(p) \in Cells /\ BacktabTarget(p) \in Cells
    BY <1>1, <1>2 DEF InputStarts
  <1>4. QED BY <1>3, ClampedCell DEF AfterTab, AfterBacktab

LEMMA TabInt ==
    ASSUME ScreenTypeOK, HasInput, InputStarts \subseteq Cells
    PROVE  \A p \in Int : AfterTab(p) \in Int
  <1> SUFFICES ASSUME NEW p \in Int PROVE AfterTab(p) \in Int
    OBVIOUS
  <1>1. \E i \in 1..Len(fields) : TabTarget(p) = fields[i].start
    BY TabTargetIs
  <1>2. QED BY <1>1, TabReaches, FieldParts

\* The places Tab comes to make a sequence.
LEMMA TabIterates ==
    ASSUME ScreenTypeOK, HasInput, InputStarts \subseteq Cells
    PROVE  \E v : v = [n \in 0..Len(fields) |-> IF n = 0 THEN CursorPos ELSE AfterTab(v[n - 1])]
  <1> DEFINE T == [p \in Int |-> AfterTab(p)]
  <1>1. Len(fields) \in Nat /\ CursorPos \in Int
    BY CursorCell DEF ScreenTypeOK, Cells
  <1>2. \A p \in Int : AfterTab(p) \in Int
    BY TabInt
  <1>3. T \in [Int -> Int]
    BY <1>2
  <1>4. \A p \in Int : T[p] = AfterTab(p)
    OBVIOUS
  <1> HIDE DEF T
  <1>5. PICK v \in [0..Len(fields) -> Int] :
           v[0] = CursorPos /\ \A n \in 1..Len(fields) : v[n] = T[v[n - 1]]
    BY <1>1, <1>3, Iteration
  <1>6. \A n \in 0..Len(fields) : n # 0 => T[v[n - 1]] = AfterTab(v[n - 1])
    <2>1. \A n \in 0..Len(fields) : n # 0 => n - 1 \in 0..Len(fields)
      BY <1>1
    <2>2. QED BY <1>4, <1>5, <2>1
  <1>7. v = [n \in 0..Len(fields) |-> IF n = 0 THEN CursorPos ELSE AfterTab(v[n - 1])]
    BY <1>1, <1>5, <1>6
  <1>8. QED BY <1>7

\* What AfterTab() and AfterBacktab() say is what the keys do, on any screen, also
\* with fields that start behind the last cell.
THEOREM TabMoves ==
    /\ Tab => CursorPos' = AfterTab(CursorPos)
    /\ Backtab => CursorPos' = AfterBacktab(CursorPos)
  BY DEF Tab, Backtab, SetCursorAt, SetCursor, CursorPos, AfterTab, AfterBacktab, Clamped

\* On a screen whose input fields all start on the display and were defined from
\* top to bottom, Tab moves the cursor to every one of them from wherever it is,
\* and Backtab takes a Tab between them back (server.py: _move_to_next_field(),
\* ScreenBuffer.set_cursor()).
THEOREM TabTheorem == Spec => []TabRing
  <1>1. TypeOK => TabRing
    <2> SUFFICES ASSUME TypeOK, HasInput, InputStarts \subseteq Cells, TopToBottom
                 PROVE  LET visited[n \in 0..Len(fields)] ==
                              IF n = 0 THEN CursorPos ELSE AfterTab(visited[n - 1])
                        IN  /\ InputStarts \subseteq {visited[n] : n \in 1..Len(fields)}
                            /\ \A s \in InputStarts : AfterBacktab(AfterTab(s)) = s
      BY DEF TabRing
    <2> DEFINE visited == CHOOSE v : v = [n \in 0..Len(fields) |->
                              IF n = 0 THEN CursorPos ELSE AfterTab(v[n - 1])]
    <2>1. ScreenTypeOK /\ Len(fields) \in Nat /\ CursorPos \in Int
      BY CursorCell DEF TypeOK, ScreenTypeOK, Cells
    <2>2. visited = [n \in 0..Len(fields) |->
                        IF n = 0 THEN CursorPos ELSE AfterTab(visited[n - 1])]
      BY <2>1, TabIterates
    <2> HIDE DEF visited
    <2>3. visited[0] \in Int /\ \A n \in 1..Len(fields) : visited[n] = AfterTab(visited[n - 1])
      BY <2>1, <2>2
    <2>4. \A n \in 0..Len(fields) : visited[n] \in Int
      <3> DEFINE Outside == {n \in 0..Len(fields) : visited[n] \notin Int}
      <3> SUFFICES ASSUME Outside # {} PROVE FALSE
        OBVIOUS
      <3>1. Outside \subseteq Nat
        BY <2>1
      <3>2. PICK n \in Outside : \A k \in Outside : n <= k
        BY <3>1, LeastNatural
      <3>3. n \in 1..Len(fields) /\ n - 1 \in 0..Len(fields) /\ ~(n <= n - 1)
        BY <2>1, <2>3, <3>2
      <3>4. visited[n - 1] \in Int
        BY <3>2, <3>3
      <3>5. visited[n] \in Int
        BY <2>1, <2>3, <3>3, <3>4, TabInt
      <3>6. QED BY <3>2, <3>5
    <2>5. \A n \in 1..Len(fields) : visited[n] = TabTarget(visited[n - 1])
      <3>1. \A n \in 1..Len(fields) : n - 1 \in 0..Len(fields)
        BY <2>1
      <3>2. QED BY <2>1, <2>3, <2>4, <3>1, TabReaches
    <2>6. \A s \in InputStarts : \E i \in Input : s = fields[i].start
      BY DEF InputStarts, Input
    <2>7. \A s \in InputStarts : \E n \in 1..Len(fields) : visited[n] = s
      BY <2>1, <2>3, <2>5, <2>6, TabVisitsAll
    <2>8. \A s \in InputStarts : AfterBacktab(AfterTab(s)) = s
      <3> SUFFICES ASSUME NEW s \in InputStarts PROVE AfterBacktab(AfterTab(s)) = s
        OBVIOUS
      <3>1. s \in Int /\ TabTarget(s) \in Int
        BY <2>1, TabReaches, TabInt DEF Cells
      <3>2. BacktabTarget(TabTarget(s)) = s
        BY <2>1, <2>6, BacktabReturns
      <3>3. QED BY <2>1, <3>1, <3>2, TabReaches
    <2>9. InputStarts \subseteq {visited[n] : n \in 1..Len(fields)}
      BY <2>7
    <2>10. QED BY <2>8, <2>9 DEF visited
  <1>2. QED BY <1>1, TypeTheorem, PTL
=============================================================================
