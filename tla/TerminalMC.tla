------------------------------ MODULE TerminalMC ------------------------------
(* Terminal for TLC: what the host may define as a field, what the operator   *)
(* may type, and the capitals of the characters.                              *)
EXTENDS Terminal

Format(length, input, mono) ==
    [length |-> length, input |-> input, mono |-> mono, mdt |-> FALSE]

Capital  == [ch \in Chars |-> IF ch = "a" THEN "A" ELSE ch]
AsTyped  == [ch \in Chars |-> ch]
TextsOne == {<<"a">>}
TextsTwo == {<<"a">>, <<"a", "a">>}

\* An input field that the next attribute ends, an output field of two cells.
FormatsReach == {Format(0, TRUE, FALSE), Format(2, FALSE, FALSE)}
\* Input and output fields of one cell.
FormatsTab  == {Format(1, TRUE, FALSE), Format(1, FALSE, FALSE)}
\* One field, of two cells or ended by an attribute, also across two rows.
FormatsEdit == {Format(0, TRUE, FALSE), Format(2, TRUE, TRUE)}
=============================================================================
