------------------------------ MODULE MCScreen ------------------------------
(* Five rows are the fewest that the front end accepts.  One text is longer  *)
(* than that, so that the screen scrolls; the others are short, and changed  *)
(* more often.                                                               *)
EXTENDS Screen

Start(ls, c, o, w) == [lines |-> ls, cli |-> c, others |-> o, own |-> w]
SomeStarts ==
    { Start(<<0, 0, 0, 0, 0, 0>>, FALSE, 1, 1), Start(<<0, 0>>, FALSE, 2, 1),
      Start(<<1, 1>>, FALSE, 1, 1), Start(<<0, 0>>, TRUE, 2, 0) }
FirstColumn == {1}
=============================================================================
