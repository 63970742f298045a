----------------------------- MODULE FlatText ------------------------------
(***************************************************************************)
(* What the text buffer of a client promises to the rest of the program:   *)
(* it is one sequence of characters, every call that succeeds performs     *)
(* exactly the operation it reports, and every other call leaves the text  *)
(* alone.                                                                  *)
(***************************************************************************)
EXTENDS Ops

CONSTANTS MaxChars, \* bound on the length of a text
          Nothing   \* reported by a call that changes nothing

VARIABLES text,     \* the characters of the file
          reported  \* the operation the last call reports

vars == <<text, reported>>

Operations ==
    [operation : {CH_DELETE, CH_INSERT}, data : Char,
     id : UserId, char_offset : 0..MaxChars]

Init ==
    /\ text \in UNION { [1..n -> Char] : n \in 0..MaxChars }
    /\ reported = Nothing

Change ==
    \E op \in Operations :
        /\ Silent(text, op)
        /\ text' = writeLocal(text, op)
        /\ reported' = op

Keep == reported' = Nothing /\ UNCHANGED text

Next == Change \/ Keep

Spec == Init /\ [][Next]_vars
=============================================================================
