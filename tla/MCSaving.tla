------------------------------ MODULE MCSaving ------------------------------
(* Two files are alike until one of them is that of the text.              *)
EXTENDS Saving, TLC

CONSTANTS a, b

TwoNames == {a, b}
SameNames == Permutations(TwoNames)
OneEachOrTwo ==
    { [t \in Threads |-> 1], [t \in Threads |-> IF t = "screen" THEN 2 ELSE 0] }
=============================================================================
