-------------------------------- MODULE Ops --------------------------------
(***************************************************************************)
(* The operation record op_t of include/op.h and what writeLocal           *)
(* (src/data_trans.cpp) does with one: the text a client edits, seen as    *)
(* the sequence of its characters, line breaks included.  The line list    *)
(* and the cursor cache of src/text.cpp are abstracted to that sequence:   *)
(* offset n of the code is index n + 1 here.                               *)
(*                                                                         *)
(* With a server every front end edits with TM_WROPOFF, so the operations  *)
(* that travel are CH_INSERT and CH_DELETE; xform turns them into NOOPs.   *)
(***************************************************************************)
EXTENDS Integers, Sequences, SequencesExt

CONSTANTS Char,      \* the characters a text is made of
          MaxUsers   \* the ids given out, user_id_t being a short

ASSUME MaxUsersAssumption == MaxUsers \in Nat \ {0} /\ MaxUsers < 2^15

UserId == 1..MaxUsers

NOOP == "NOOP"
CH_DELETE == "CH_DELETE"
CH_INSERT == "CH_INSERT"

op_t == [operation : {NOOP, CH_DELETE, CH_INSERT}, data : Char,
         id : UserId, char_offset : Nat]

Text == Seq(Char)
-----------------------------------------------------------------------------
\* deleteCharAt and insertCharAt report an error for any other offset.
InRange(text, op) ==
    \/ op.operation = NOOP
    \/ op.operation = CH_DELETE /\ op.char_offset \in 0..Len(text) - 1
    \/ op.operation = CH_INSERT /\ op.char_offset \in 0..Len(text)

\* The text after writeLocal(op): an operation out of range is reported and
\* changes nothing.
writeLocal(text, op) ==
    CASE op.operation = CH_DELETE /\ InRange(text, op) ->
            RemoveAt(text, op.char_offset + 1)
      [] op.operation = CH_INSERT /\ InRange(text, op) ->
            InsertAt(text, op.char_offset + 1, op.data)
      [] OTHER -> text

\* writeLocal prints nothing on stderr: the operation is in range, and a
\* deletion removes the very character its author saw there.
Silent(text, op) ==
    /\ InRange(text, op)
    /\ op.operation = CH_DELETE => text[op.char_offset + 1] = op.data

\* Versions(text, ops)[n] is the text after the first n of ops, as
\* moniterServer_Thread rebuilds it from the log and as a user who logs in
\* late receives it.
Versions(text, ops) ==
    LET version[n \in 0..Len(ops)] ==
            IF n = 0 THEN text ELSE writeLocal(version[n - 1], ops[n])
    IN  version
=============================================================================
