------------------------------ MODULE ArrayItems ------------------------------
(***************************************************************************)
(* What the scanner and the conversions of package dbarray share: the      *)
(* special characters, and an element as the scanner returns it, nil for   *)
(* an unquoted NULL.  A character is a string; a keyword or a numeral,     *)
(* which the package copies or hands to strconv whole, is one character.   *)
(***************************************************************************)
EXTENDS Integers, Sequences

LeftBrace  == "{"
RightBrace == "}"

Quote     == "\""
Backslash == "\\"

Null    == [null |-> TRUE,  text |-> <<>>]
Item(t) == [null |-> FALSE, text |-> t]
=============================================================================
