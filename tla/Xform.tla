------------------------------- MODULE Xform -------------------------------
(***************************************************************************)
(* The operational transformation of lib/xform.cpp.  _xform(op, outop)     *)
(* rewrites two operations made on the same text so that each can be       *)
(* performed after the other.  What it does to one of them depends on the  *)
(* other in the same way on both sides, so Shift(op, other) is the new     *)
(* value of either: the call leaves Shift(op, outop) and Shift(outop, op). *)
(***************************************************************************)
EXTENDS Ops

Inserts(op) == op.operation = CH_INSERT
Deletes(op) == op.operation = CH_DELETE

\* Both operations delete the same character, or insert equal characters at
\* the same offset: each has already done the other's work.
SameEffect(op, other) ==
    /\ op.operation = other.operation
    /\ op.char_offset = other.char_offset
    /\ Deletes(op) \/ (Inserts(op) /\ op.data = other.data)

\* Mutant of MovesRight: the tie-break by user id is missing.
MovesRightOnTies(op, other) ==
    Inserts(other) /\ op.char_offset >= other.char_offset

\* Mutant of MovesRight: DEL/INS compares with > instead of >=.
MovesRightButDeletion(op, other) ==
    /\ Inserts(other)
    /\ \/ op.char_offset > other.char_offset
       \/ op.char_offset = other.char_offset /\ Inserts(op) /\ op.id > other.id

\* The operation other puts a character before the place of op ...
MovesRight(op, other) ==
    /\ Inserts(other)
    /\ \/ op.char_offset > other.char_offset
       \/ op.char_offset = other.char_offset /\ Deletes(op)
       \/ op.char_offset = other.char_offset /\ Inserts(op) /\ op.id > other.id

\* Mutant of MovesLeft: INS/DEL compares with >= instead of >.
MovesLeftOnTies(op, other) ==
    Deletes(other) /\ op.char_offset >= other.char_offset

\* ... or takes one away from before it.
MovesLeft(op, other) == Deletes(other) /\ op.char_offset > other.char_offset

Shift(op, other) ==
    IF NOOP \in {op.operation, other.operation} THEN op
    ELSE IF SameEffect(op, other) THEN [op EXCEPT !.operation = NOOP]
    ELSE IF MovesRight(op, other) THEN [op EXCEPT !.char_offset = @ + 1]
    ELSE IF MovesLeft(op, other) THEN [op EXCEPT !.char_offset = @ - 1]
    ELSE op
=============================================================================
