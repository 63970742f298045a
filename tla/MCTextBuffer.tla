--------------------------- MODULE MCTextBuffer ----------------------------
(* TextBuffer with a line break and one other character: five characters   *)
(* make up to six lines, enough for every way locateLine can take.         *)
EXTENDS TextBuffer

CONSTANTS a, nl, none

MCChar == {a, nl}
=============================================================================
