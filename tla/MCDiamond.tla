----------------------------- MODULE MCDiamond -----------------------------
(* Diamond on short texts over two characters: the two operations meet at  *)
(* equal, neighbouring and distant offsets, with equal and different data. *)
EXTENDS Diamond

CONSTANTS a, b

MCChar == {a, b}
=============================================================================
