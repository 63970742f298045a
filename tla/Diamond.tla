------------------------------ MODULE Diamond ------------------------------
(***************************************************************************)
(* The promise the Jupiter protocol needs from xform, as a small machine:  *)
(* two sites that hold the same text each perform an operation of their    *)
(* own and then the other's, transformed against it.                       *)
(***************************************************************************)
EXTENDS Xform

CONSTANT MaxLen  \* bound on the length of the common text

ASSUME MaxLenAssumption == MaxLen \in Nat

VARIABLES common,    \* the text both sites start from
          mine,      \* mine[s]: the operation site s makes on it
          text,      \* text[s]: the text at site s
          done       \* done[s]: how many of the two operations s has performed

vars == <<common, mine, text, done>>

Site == 1..2
Other(s) == 3 - s
-----------------------------------------------------------------------------
\* The operations a user can make: they are silent on the text they are made
\* on, since the editor reads the character it deletes from that text.
LocalOps(t) ==
    { op \in [operation : {CH_DELETE, CH_INSERT}, data : Char, id : UserId,
              char_offset : 0..Len(t)] : Silent(t, op) }

Init ==
    /\ common \in UNION { [1..n -> Char] : n \in 0..MaxLen }
    /\ mine \in [Site -> LocalOps(common)]
    /\ mine[1].id # mine[2].id
    /\ text = [s \in Site |-> common]
    /\ done = [s \in Site |-> 0]

Perform(s, op) ==
    /\ text' = [text EXCEPT ![s] = writeLocal(@, op)]
    /\ done' = [done EXCEPT ![s] = @ + 1]
    /\ UNCHANGED <<common, mine>>

\* The operation site s performs second: one call of _xform computes it and
\* the one the other site performs second.
Transformed(s) == Shift(mine[Other(s)], mine[s])

PerformOwn(s) == done[s] = 0 /\ Perform(s, mine[s])

PerformOther(s) == done[s] = 1 /\ Perform(s, Transformed(s))

Next == \E s \in Site : PerformOwn(s) \/ PerformOther(s)

Spec == Init /\ [][Next]_vars
-----------------------------------------------------------------------------
\* Type invariant: texts stay texts and no transformed offset falls below 0,
\* where the code's uint64_t would wrap around.
TypeOK ==
    /\ common \in Text /\ text \in [Site -> Text]
    /\ mine \in [Site -> op_t] /\ done \in [Site -> 0..2]
    /\ \A s \in Site : Transformed(s) \in op_t

\* The two orders of performing two concurrent operations give one text: what
\* one site transforms, the other transforms the same way (_xform).
Confluence == done[1] = 2 /\ done[2] = 2 => text[1] = text[2]

\* A transformed operation is in range at the site that receives it, and if
\* it deletes, it deletes the character its author meant: writeLocal prints
\* neither "out of range" nor "delete: different".
TransformedSilent ==
    \A s \in Site : done[s] = 1 => Silent(text[s], Transformed(s))
=============================================================================
