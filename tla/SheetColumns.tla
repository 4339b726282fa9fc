----------------------------- MODULE SheetColumns -----------------------------
(***************************************************************************)
(* The columns of the directory sheet (internal/directory): letters to     *)
(* positions, positions to letters, and the range that is asked for.       *)
(*                                                                         *)
(* A column's letters are a sequence of numbers, 1 for A to 26 for Z and 0 *)
(* for anything that is no letter, as they are once the text has been      *)
(* trimmed and put in upper case.                                          *)
(***************************************************************************)
EXTENDS Integers, Sequences, FiniteSets, FiniteSetsExt, Functions

IsColumn(letters) == letters # <<>> /\ \A i \in DOMAIN letters : letters[i] \in 1..26

\* columnIndex, of letters that are a column.
columnIndex(letters) ==
    LET index[n \in 0..Len(letters)] == IF n = 0 THEN 0 ELSE index[n - 1] * 26 + letters[n]
    IN  index[Len(letters)] - 1

columnLetter[index \in Int] ==
    IF index < 0 THEN <<>> ELSE columnLetter[index \div 26 - 1] \o <<(index % 26) + 1>>

\* The same in plain base 26, with a digit for zero.
plainLetter[index \in Nat] ==
    IF index < 26 THEN <<index + 1>> ELSE plainLetter[index \div 26] \o <<(index % 26) + 1>>
LastLetterPlain(columns) == plainLetter[Max(Range(columns))]

\* read asks for everything from column A to the last column it needs.
LastLetter(columns) == columnLetter[Max(Range(columns))]

\* How many columns come back for a range that ends in these letters.
Width(letters) == columnIndex(letters) + 1
==============================================================================
