----------------------------- MODULE Characters -----------------------------
(***************************************************************************)
(* Characters and their classes (src/macros.rs).  A character is a string, *)
(* a text a sequence of them; those outside ASCII and the control          *)
(* characters have names.  EOF is what is found behind the last one.       *)
(* \r is left out: "\n" stands for the line break that the emitter is set  *)
(* to, which the scanner reads as \n whichever it is.                      *)
(***************************************************************************)
EXTENDS Integers, Sequences

EOF == "EOF"

Digits == {"0", "1", "2", "3", "5", "9"}
HexDigits == Digits \cup {"A", "C", "E", "F"}
Letters == {"x", "k", "e", "a", "A", "C", "E", "F", "G", "L", "M", "T", "Y", "t", "g"}

is_alpha(c) == c \in Letters \cup Digits \cup {"_", "-"}

is_space(c) == c = " "
is_break(c) == c \in {"\n", "NEL", "LS", "PS"}
is_blank(c) == c \in {" ", "\t"}
is_breakz(c) == c = EOF \/ is_break(c)
is_blankz(c) == is_blank(c) \/ is_breakz(c)

is_printable(c) == c \notin {"\t", "NEL", "BEL"}
is_ascii(c) == c \notin {"NEL", "LS", "PS", "eacute"}

\* The bytes of a character in UTF-8.
Width(c) == IF is_ascii(c) THEN 1 ELSE IF c \in {"LS", "PS"} THEN 3 ELSE 2

\* The character behind the i-th of v.
After(v, i) == IF i < Len(v) THEN v[i + 1] ELSE EOF
=============================================================================
