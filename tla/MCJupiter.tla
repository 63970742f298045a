----------------------------- MODULE MCJupiter -----------------------------
(* Jupiter on small files and two characters to type.  Ids and the data of *)
(* the operations decide the tie-breaks of xform, so there is no symmetry. *)
EXTENDS Jupiter

CONSTANTS a, b

MCChar == {a, b}
JustA == {a}
EmptyText == <<>>
OneChar == <<a>>
OneEach == [u \in UserId |-> 1]
TwoEach == [u \in UserId |-> 2]
TwoAndOne == [u \in UserId |-> IF u = 1 THEN 2 ELSE 1]
=============================================================================
