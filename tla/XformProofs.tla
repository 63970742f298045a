---------------------------- MODULE XformProofs ----------------------------
(***************************************************************************)
(* What writeLocal and xform do to every text and every pair of concurrent *)
(* operations: the two orders of performing them give one text.  The       *)
(* lemmas on recursion and on sequences that come first are those of the   *)
(* other modules, too.                                                     *)
(***************************************************************************)
EXTENDS Xform, SequenceTheorems, WellFoundedInduction, TLAPS

(***************************************************************************)
(* Recursive functions on the natural numbers: induction, that a function  *)
(* defined step by step exists, and that its steps determine it.           *)
(***************************************************************************)

\* Induction over the naturals, for a property given as the set of numbers
\* that have it.
LEMMA SetInduction ==
    ASSUME NEW T, 0 \in T, \A n \in Nat : n \in T => n + 1 \in T
    PROVE  \A n \in Nat : n \in T
<1> DEFINE Bad == Nat \ T
<1>1. SUFFICES ASSUME Bad # {}
               PROVE  FALSE
  OBVIOUS
<1>2. PICK x \in Bad : \A y \in Bad : ~ (<<y, x>> \in OpToRel(<, Nat))
  <2>1. Bad \subseteq Nat
    OBVIOUS
  <2> HIDE DEF Bad
  <2> QED  BY <1>1, <2>1, NatLessThanWellFounded, WFMin, Zenon
<1>3. x \in Nat /\ x # 0 /\ x - 1 \in Nat /\ x - 1 < x
  OBVIOUS
<1>4. x - 1 \notin Bad
  BY <1>2, <1>3 DEF OpToRel
<1>5. x - 1 + 1 \in T
  BY <1>3, <1>4
<1> QED  BY <1>3, <1>5

\* A function defined step by step exists.
Recursive(S, x, N, step) ==
    \E f \in [0..N -> S] :
        f[0] = x /\ \A n \in 1..N : f[n] = step[n][f[n - 1]]

LEMMA Recursion ==
    ASSUME NEW S, NEW x \in S, NEW N \in Nat, NEW step \in [1..N -> [S -> S]]
    PROVE  Recursive(S, x, N, step)
<1> DEFINE Until(f, k) == /\ f \in [0..k -> S] /\ f[0] = x
                          /\ \A n \in 1..k : f[n] = step[n][f[n - 1]]
           T == { k \in Nat : k <= N => \E f \in [0..k -> S] : Until(f, k) }
<1>1. 0 \in T
  <2>1. Until([i \in 0..0 |-> x], 0)
    OBVIOUS
  <2> QED  BY <2>1
<1>2. ASSUME NEW k \in Nat, k \in T, k + 1 <= N
      PROVE  \E f \in [0..k + 1 -> S] : Until(f, k + 1)
  <2>1. PICK f \in [0..k -> S] : Until(f, k)
    BY <1>2
  <2>2. step[k + 1][f[k]] \in S
    <3>1. k + 1 \in 1..N /\ k \in 0..k
      BY <1>2
    <3> QED  BY <2>1, <3>1
  <2> DEFINE g == [i \in 0..k + 1 |-> IF i <= k THEN f[i]
                                      ELSE step[k + 1][f[k]]]
  <2>3. g \in [0..k + 1 -> S]
    BY <2>1, <2>2
  <2>4. g[0] = x
    BY <2>1
  <2>5. ASSUME NEW n \in 1..k + 1
        PROVE  g[n] = step[n][g[n - 1]]
    <3>1. CASE n <= k
      <4>1. n \in 1..k /\ n - 1 \in 0..k
        BY <3>1
      <4> QED  BY <2>1, <4>1
    <3>2. CASE n = k + 1
      BY <3>2
    <3> QED  BY <3>1, <3>2
  <2> HIDE DEF g
  <2> QED  BY <2>3, <2>4, <2>5
<1> HIDE DEF Until
<1>3. \A k \in Nat : k \in T => k + 1 \in T
  BY <1>2
<1> HIDE DEF T
<1>4. N \in T
  BY <1>1, <1>3, SetInduction
<1> QED  BY <1>4 DEF T, Until, Recursive

\* Two functions defined by the same steps agree.
StepAlike(f, g, N) ==
    f[0] = g[0] /\ \A n \in 1..N : f[n - 1] = g[n - 1] => f[n] = g[n]

Alike(f, g, N) == \A n \in 0..N : f[n] = g[n]

LEMMA SameSteps ==
    ASSUME NEW N \in Nat, NEW f, NEW g, StepAlike(f, g, N)
    PROVE  Alike(f, g, N)
<1> USE DEF StepAlike, Alike
<1> DEFINE S == { k \in Nat : k <= N => f[k] = g[k] }
<1>1. 0 \in S
  OBVIOUS
<1>2. ASSUME NEW k \in Nat, k \in S, k + 1 <= N
      PROVE  f[k + 1] = g[k + 1]
  <2>1. k + 1 \in 1..N /\ k + 1 - 1 = k /\ k <= N
    BY <1>2
  <2> QED  BY <1>2, <2>1
<1>3. \A k \in Nat : k \in S => k + 1 \in S
  BY <1>2
<1> HIDE DEF S
<1>4. \A k \in Nat : k \in S
  BY <1>1, <1>3, SetInduction
<1> QED  BY <1>4 DEF S

(***************************************************************************)
(* The two ways writeLocal changes a text, character by character.         *)
(***************************************************************************)

\* The ids given out are naturals.
LEMMA MaxUsersType == MaxUsers \in Nat \ {0} /\ UserId \subseteq Nat
<1>1. MaxUsers \in Nat \ {0}
  BY MaxUsersAssumption
<1> QED  BY <1>1 DEF UserId

\* Inserting e before offset i - 1 moves what follows one to the right.
IsInsertion(S, s, i, e, new) ==
    /\ new \in Seq(S) /\ Len(new) = Len(s) + 1
    /\ \A j \in 1..Len(s) + 1 :
         new[j] = IF j < i THEN s[j] ELSE IF j = i THEN e ELSE s[j - 1]

LEMMA InsertAtProperties ==
    ASSUME NEW S, NEW s \in Seq(S), NEW i \in 1..Len(s) + 1, NEW e \in S
    PROVE  IsInsertion(S, s, i, e, InsertAt(s, i, e))
<1> DEFINE l == SubSeq(s, 1, i - 1)
           r == SubSeq(s, i, Len(s))
<1>1. Len(s) \in Nat /\ \A j \in 1..Len(s) : s[j] \in S
  BY ElementOfSeq
<1>2. /\ l \in Seq(S) /\ Len(l) = i - 1
      /\ \A j \in 1..i - 1 : l[j] = s[j]
  <2>1. \A j \in 1..i - 1 : s[j] \in S
    BY <1>1
  <2> QED  BY <1>1, <2>1, SubSeqProperties
<1>3. /\ r \in Seq(S) /\ Len(r) = Len(s) - i + 1
      /\ \A j \in 1..Len(s) - i + 1 : r[j] = s[i + j - 1]
  <2>1. \A j \in i..Len(s) : s[j] \in S
    BY <1>1
  <2> QED  BY <1>1, <2>1, SubSeqProperties
<1>4. <<e>> \in Seq(S) /\ Len(<<e>>) = 1 /\ <<e>>[1] = e
  OBVIOUS
<1> DEFINE le == l \o <<e>>
<1>5. /\ le \in Seq(S) /\ Len(le) = i
      /\ \A j \in 1..i : le[j] = IF j < i THEN s[j] ELSE e
  <2>1. /\ le \in Seq(S) /\ Len(le) = i - 1 + 1
        /\ \A j \in 1..i - 1 + 1 : le[j] = IF j <= i - 1 THEN l[j]
                                           ELSE <<e>>[j - (i - 1)]
    BY <1>2, <1>4, ConcatProperties
  <2>2. /\ i \in Nat /\ i - 1 + 1 = i
        /\ \A j \in 1..i : j <= i - 1 <=> j < i
        /\ \A j \in 1..i : ~(j < i) => j - (i - 1) = 1
        /\ \A j \in 1..i : j < i => j \in 1..i - 1
    BY <1>1
  <2> HIDE DEF l, le
  <2>3. ASSUME NEW j \in 1..i
        PROVE  le[j] = IF j < i THEN s[j] ELSE e
    <3>1. CASE j < i
      BY <1>2, <2>1, <2>2, <3>1
    <3>2. CASE ~(j < i)
      <4>1. le[j] = <<e>>[j - (i - 1)] /\ j - (i - 1) = 1
        BY <2>1, <2>2, <3>2
      <4> QED  BY <1>4, <3>2, <4>1
    <3> QED  BY <3>1, <3>2
  <2> QED  BY <2>1, <2>2, <2>3
<1>6. /\ le \o r \in Seq(S) /\ Len(le \o r) = Len(s) + 1
      /\ \A j \in 1..Len(s) + 1 : (le \o r)[j] = IF j <= i THEN le[j]
                                                 ELSE r[j - i]
  <2> HIDE DEF le, r
  <2>1. /\ le \o r \in Seq(S) /\ Len(le \o r) = i + (Len(s) - i + 1)
        /\ \A j \in 1..i + (Len(s) - i + 1) :
              (le \o r)[j] = IF j <= i THEN le[j] ELSE r[j - i]
    BY <1>3, <1>5, ConcatProperties
  <2> QED  BY <1>1, <2>1
<1>7. InsertAt(s, i, e) = le \o r
  BY DEF InsertAt
<1> HIDE DEF le, r, l
<1> DEFINE new == le \o r
<1> HIDE DEF new
<1>8. ASSUME NEW j \in 1..Len(s) + 1
      PROVE  new[j] = IF j < i THEN s[j] ELSE IF j = i THEN e ELSE s[j - 1]
  <2>1. new[j] = IF j <= i THEN le[j] ELSE r[j - i]
    BY <1>6 DEF new
  <2>2. CASE j <= i
    <3>1. j \in 1..i
      BY <2>2
    <3> QED  BY <1>5, <2>1, <2>2, <3>1
  <2>3. CASE j > i
    <3>1. j - i \in 1..Len(s) - i + 1 /\ i + (j - i) - 1 = j - 1
      BY <1>1, <2>3
    <3>2. r[j - i] = s[j - 1]
      BY <1>3, <3>1
    <3> QED  BY <2>1, <2>3, <3>2
  <2> QED  BY <1>1, <2>2, <2>3
<1> QED  BY <1>6, <1>7, <1>8 DEF IsInsertion, new

\* Removing the element at i moves what follows one to the left.
LEMMA RemoveAtProperties ==
    ASSUME NEW S, NEW s \in Seq(S), NEW i \in 1..Len(s)
    PROVE  /\ RemoveAt(s, i) \in Seq(S)
           /\ Len(RemoveAt(s, i)) = Len(s) - 1
           /\ \A j \in 1..Len(s) - 1 :
                RemoveAt(s, i)[j] = IF j < i THEN s[j] ELSE s[j + 1]
<1> DEFINE l == SubSeq(s, 1, i - 1)
           r == SubSeq(s, i + 1, Len(s))
<1>1. Len(s) \in Nat /\ \A j \in 1..Len(s) : s[j] \in S
  BY ElementOfSeq
<1>2. /\ l \in Seq(S) /\ Len(l) = i - 1
      /\ \A j \in 1..i - 1 : l[j] = s[j]
  <2>1. \A j \in 1..i - 1 : s[j] \in S
    BY <1>1
  <2> QED  BY <1>1, <2>1, SubSeqProperties
<1>3. /\ r \in Seq(S) /\ Len(r) = Len(s) - i
      /\ \A j \in 1..Len(s) - i : r[j] = s[i + j]
  <2>1. \A j \in i + 1..Len(s) : s[j] \in S
    BY <1>1
  <2> QED  BY <1>1, <2>1, SubSeqProperties
<1>4. /\ l \o r \in Seq(S) /\ Len(l \o r) = Len(s) - 1
      /\ \A j \in 1..Len(s) - 1 : (l \o r)[j] = IF j <= i - 1 THEN l[j]
                                                 ELSE r[j - (i - 1)]
  <2> HIDE DEF l, r
  <2>1. /\ l \o r \in Seq(S) /\ Len(l \o r) = Len(l) + Len(r)
        /\ \A j \in 1..Len(l) + Len(r) :
              (l \o r)[j] = IF j <= Len(l) THEN l[j] ELSE r[j - Len(l)]
    BY <1>2, <1>3, ConcatProperties
  <2>2. Len(l) + Len(r) = Len(s) - 1
    BY <1>1, <1>2, <1>3
  <2> QED  BY <1>2, <2>1, <2>2
<1>5. RemoveAt(s, i) = l \o r
  BY DEF RemoveAt
<1> HIDE DEF l, r
<1> QED  BY <1>1, <1>2, <1>3, <1>4, <1>5
-----------------------------------------------------------------------------
(***************************************************************************)
(* writeLocal on an operation in range.                                    *)
(***************************************************************************)

\* An insertion puts its character at its offset.
LEMMA WriteInsertion ==
    ASSUME NEW t \in Text, NEW op \in op_t, Inserts(op), InRange(t, op)
    PROVE  /\ op.char_offset \in 0..Len(t)
           /\ writeLocal(t, op) \in Text
           /\ Len(writeLocal(t, op)) = Len(t) + 1
           /\ \A j \in 1..Len(t) + 1 :
                writeLocal(t, op)[j] =
                    IF j <= op.char_offset THEN t[j]
                    ELSE IF j = op.char_offset + 1 THEN op.data ELSE t[j - 1]
<1> DEFINE i == op.char_offset + 1
<1>1. op.char_offset \in 0..Len(t) /\ Len(t) \in Nat /\ op.data \in Char
  BY LenProperties DEF InRange, Inserts, Text, op_t, NOOP, CH_INSERT, CH_DELETE
<1>2. writeLocal(t, op) = InsertAt(t, i, op.data)
  BY DEF writeLocal, Inserts, NOOP, CH_INSERT, CH_DELETE
<1>3. i \in 1..Len(t) + 1
  BY <1>1
<1> HIDE DEF i
<1> DEFINE c == op.data
<1> HIDE DEF c
<1>4. /\ InsertAt(t, i, c) \in Seq(Char)
      /\ Len(InsertAt(t, i, c)) = Len(t) + 1
      /\ \A j \in 1..Len(t) + 1 :
            InsertAt(t, i, c)[j] = IF j < i THEN t[j]
                                   ELSE IF j = i THEN c ELSE t[j - 1]
  <2>1. t \in Seq(Char) /\ c \in Char
    BY <1>1 DEF Text, c
  <2>2. IsInsertion(Char, t, i, c, InsertAt(t, i, c))
    BY <1>3, <2>1, InsertAtProperties
  <2> QED  BY <2>2 DEF IsInsertion
<1> QED  BY <1>1, <1>2, <1>4 DEF i, c, Text

\* A deletion takes away the character at its offset.
LEMMA WriteDeletion ==
    ASSUME NEW t \in Text, NEW op \in op_t, Deletes(op), InRange(t, op)
    PROVE  /\ op.char_offset \in 0..Len(t) - 1
           /\ writeLocal(t, op) \in Text
           /\ Len(writeLocal(t, op)) = Len(t) - 1
           /\ \A j \in 1..Len(t) - 1 :
                writeLocal(t, op)[j] =
                    IF j <= op.char_offset THEN t[j] ELSE t[j + 1]
<1> DEFINE i == op.char_offset + 1
<1>1. op.char_offset \in 0..Len(t) - 1 /\ Len(t) \in Nat
  BY LenProperties DEF InRange, Deletes, Text, op_t, NOOP, CH_INSERT, CH_DELETE
<1>2. writeLocal(t, op) = RemoveAt(t, i)
  BY DEF writeLocal, Deletes, NOOP, CH_INSERT, CH_DELETE
<1>3. i \in 1..Len(t)
  BY <1>1
<1> HIDE DEF i
<1>4. /\ RemoveAt(t, i) \in Text
      /\ Len(RemoveAt(t, i)) = Len(t) - 1
      /\ \A j \in 1..Len(t) - 1 :
            RemoveAt(t, i)[j] = IF j < i THEN t[j] ELSE t[j + 1]
  BY <1>1, <1>3, RemoveAtProperties DEF Text
<1> QED  BY <1>1, <1>2, <1>4 DEF i

\* A NOOP changes nothing.
LEMMA WriteNoop ==
    ASSUME NEW t, NEW op, op.operation = NOOP
    PROVE  writeLocal(t, op) = t
BY DEF writeLocal, NOOP, CH_INSERT, CH_DELETE

\* Whatever the operation, a text stays a text.
LEMMA WriteType ==
    ASSUME NEW t \in Text, NEW op \in op_t
    PROVE  writeLocal(t, op) \in Text
<1>1. CASE Inserts(op) /\ InRange(t, op)
  BY <1>1, WriteInsertion
<1>2. CASE Deletes(op) /\ InRange(t, op)
  BY <1>2, WriteDeletion
<1>3. CASE ~((Inserts(op) \/ Deletes(op)) /\ InRange(t, op))
  BY <1>3 DEF writeLocal, Inserts, Deletes
<1> QED  BY <1>1, <1>2, <1>3
-----------------------------------------------------------------------------
(***************************************************************************)
(* Shift, case by case.                                                    *)
(***************************************************************************)

\* No offset wraps around: a transformed operation is an operation, and
\* keeps its character and its author.
LEMMA ShiftType ==
    ASSUME NEW op \in op_t, NEW other \in op_t
    PROVE  /\ Shift(op, other) \in op_t
           /\ Shift(op, other).id = op.id
           /\ Shift(op, other).data = op.data
           /\ Shift(op, other).operation \in {op.operation, NOOP}
BY DEF op_t, Shift, SameEffect, MovesRight, MovesLeft, Inserts, Deletes,
       NOOP, CH_DELETE, CH_INSERT

\* Where an operation lands that is transformed against an insertion ...
LEMMA ShiftOverInsertion ==
    ASSUME NEW op \in op_t, NEW other \in op_t, Inserts(other),
           op.operation # NOOP
    PROVE  LET new == Shift(op, other)
           IN  /\ SameEffect(op, other) => new.operation = NOOP
               /\ ~SameEffect(op, other) =>
                    /\ new.operation = op.operation
                    /\ new.char_offset = IF MovesRight(op, other)
                                         THEN op.char_offset + 1
                                         ELSE op.char_offset
BY DEF op_t, Shift, MovesLeft, Inserts, Deletes, NOOP, CH_DELETE, CH_INSERT

\* ... and against a deletion.
LEMMA ShiftOverDeletion ==
    ASSUME NEW op \in op_t, NEW other \in op_t, Deletes(other),
           op.operation # NOOP
    PROVE  LET new == Shift(op, other)
           IN  /\ SameEffect(op, other) => new.operation = NOOP
               /\ ~SameEffect(op, other) =>
                    /\ new.operation = op.operation
                    /\ new.char_offset = IF op.char_offset > other.char_offset
                                         THEN op.char_offset - 1
                                         ELSE op.char_offset
BY DEF op_t, Shift, MovesRight, MovesLeft, Inserts, Deletes,
       NOOP, CH_DELETE, CH_INSERT
-----------------------------------------------------------------------------
(***************************************************************************)
(* Two concurrent operations.                                              *)
(***************************************************************************)

\* Both are made on t, by different users.
ConcurrentOn(t, op, other) ==
    /\ t \in Text /\ op \in op_t /\ other \in op_t
    /\ op.id # other.id
    /\ Silent(t, op) /\ Silent(t, other)

\* After the other one, the transformed operation is in range and deletes,
\* if it deletes, the character it was made to delete.
THEOREM SilentAfterShift ==
    ASSUME NEW t, NEW op, NEW other, ConcurrentOn(t, op, other)
    PROVE  Silent(writeLocal(t, other), Shift(op, other))
<1> DEFINE new == Shift(op, other)
           after == writeLocal(t, other)
<1> SUFFICES Silent(after, new)
  OBVIOUS
<1>1. /\ t \in Text /\ op \in op_t /\ other \in op_t /\ new \in op_t
      /\ InRange(t, op) /\ InRange(t, other)
      /\ new.data = op.data
      /\ Len(t) \in Nat
  BY ShiftType, LenProperties DEF ConcurrentOn, Silent, Text
<1>2. /\ op.char_offset \in Nat /\ other.char_offset \in Nat
      /\ op.operation \in {NOOP, CH_INSERT, CH_DELETE}
      /\ other.operation \in {NOOP, CH_INSERT, CH_DELETE}
  BY <1>1 DEF op_t
<1>3. Deletes(op) => t[op.char_offset + 1] = op.data
  BY DEF ConcurrentOn, Silent, Deletes
<1>4. CASE op.operation = NOOP \/ other.operation = NOOP
  <2>1. new = op
    BY <1>4 DEF Shift
  <2>2. CASE op.operation = NOOP
    BY <2>1, <2>2 DEF Silent, InRange, NOOP, CH_DELETE
  <2>3. CASE other.operation = NOOP
    BY <2>1, <2>3, WriteNoop DEF ConcurrentOn
  <2> QED  BY <1>4, <2>2, <2>3
<1>5. CASE op.operation # NOOP /\ Inserts(other)
  <2>1. /\ SameEffect(op, other) => new.operation = NOOP
        /\ ~SameEffect(op, other) =>
            /\ new.operation = op.operation
            /\ new.char_offset = IF MovesRight(op, other)
                                 THEN op.char_offset + 1 ELSE op.char_offset
    BY <1>1, <1>5, ShiftOverInsertion
  <2>2. /\ Len(after) = Len(t) + 1
        /\ \A j \in 1..Len(t) + 1 :
            after[j] = IF j <= other.char_offset THEN t[j]
                       ELSE IF j = other.char_offset + 1 THEN other.data
                       ELSE t[j - 1]
    BY <1>1, <1>5, WriteInsertion
  <2> HIDE DEF new, after
  <2>3. CASE SameEffect(op, other)
    BY <2>1, <2>3 DEF Silent, InRange, NOOP, CH_DELETE
  <2>4. CASE ~SameEffect(op, other) /\ Inserts(op)
    BY <1>1, <1>2, <2>1, <2>2, <2>4
       DEF Silent, InRange, Inserts, NOOP, CH_INSERT, CH_DELETE
  <2>5. CASE ~SameEffect(op, other) /\ Deletes(op)
    <3>1. op.char_offset \in 0..Len(t) - 1
      BY <1>1, <2>5 DEF InRange, Deletes, NOOP, CH_INSERT, CH_DELETE
    <3>2. new.char_offset = IF op.char_offset >= other.char_offset
                            THEN op.char_offset + 1 ELSE op.char_offset
      BY <1>2, <1>5, <2>1, <2>5
         DEF MovesRight, Inserts, Deletes, CH_INSERT, CH_DELETE
    <3>3. new.char_offset \in 0..Len(after) - 1
      BY <1>1, <2>2, <3>1, <3>2
    <3>4. after[new.char_offset + 1] = t[op.char_offset + 1]
      BY <1>1, <1>2, <2>2, <3>1, <3>2
    <3>5. t[op.char_offset + 1] = new.data
      BY <1>1, <1>3, <2>5
    <3>6. new.operation = op.operation
      BY <2>1, <2>5
    <3> QED
      BY <2>5, <3>3, <3>4, <3>5, <3>6 DEF Silent, InRange, Deletes
  <2> QED  BY <1>2, <1>5, <2>3, <2>4, <2>5 DEF Inserts, Deletes, new, after
<1>6. CASE op.operation # NOOP /\ Deletes(other)
  <2>1. /\ SameEffect(op, other) => new.operation = NOOP
        /\ ~SameEffect(op, other) =>
            /\ new.operation = op.operation
            /\ new.char_offset = IF op.char_offset > other.char_offset
                                 THEN op.char_offset - 1 ELSE op.char_offset
    BY <1>1, <1>6, ShiftOverDeletion
  <2>2. /\ Len(after) = Len(t) - 1
        /\ \A j \in 1..Len(t) - 1 :
            after[j] = IF j <= other.char_offset THEN t[j] ELSE t[j + 1]
        /\ other.char_offset \in 0..Len(t) - 1
    BY <1>1, <1>6, WriteDeletion
  <2> HIDE DEF new, after
  <2>3. CASE SameEffect(op, other)
    BY <2>1, <2>3 DEF Silent, InRange, NOOP, CH_DELETE
  <2>4. CASE ~SameEffect(op, other) /\ Inserts(op)
    BY <1>1, <1>2, <2>1, <2>2, <2>4
       DEF Silent, InRange, Inserts, NOOP, CH_INSERT, CH_DELETE
  <2>5. CASE ~SameEffect(op, other) /\ Deletes(op)
    <3>1. op.char_offset # other.char_offset
      BY <1>6, <2>5 DEF SameEffect, Deletes
    <3>2. op.char_offset \in 0..Len(t) - 1
      BY <1>1, <2>5 DEF InRange, Deletes, NOOP, CH_INSERT, CH_DELETE
    <3>3. new.char_offset \in 0..Len(after) - 1
      BY <1>1, <1>2, <2>1, <2>2, <2>5, <3>1, <3>2
    <3>4. after[new.char_offset + 1] = t[op.char_offset + 1]
      <4>1. CASE op.char_offset > other.char_offset
        <5>1. new.char_offset = op.char_offset - 1
          BY <2>1, <2>5, <4>1
        <5>2. /\ op.char_offset \in 1..Len(t) - 1
              /\ ~(op.char_offset <= other.char_offset)
          BY <1>1, <1>2, <3>2, <4>1
        <5>3. after[op.char_offset] = t[op.char_offset + 1]
          BY <2>2, <5>2
        <5> QED  BY <1>2, <5>1, <5>3
      <4>2. CASE op.char_offset < other.char_offset
        BY <1>1, <1>2, <2>1, <2>2, <2>5, <3>2, <4>2
      <4> QED  BY <1>2, <3>1, <4>1, <4>2
    <3> QED
      BY <1>1, <1>3, <2>1, <2>5, <3>3, <3>4 DEF Silent, InRange, Deletes
  <2> QED  BY <1>2, <1>6, <2>3, <2>4, <2>5 DEF Inserts, Deletes, new, after
<1> QED  BY <1>2, <1>4, <1>5, <1>6 DEF Inserts, Deletes

\* Two insertions, in the order the tie-break gives them.
LEMMA InsertionsCommute ==
    ASSUME NEW t, NEW op, NEW other, ConcurrentOn(t, op, other),
           Inserts(op), Inserts(other)
    PROVE  writeLocal(writeLocal(t, op), Shift(other, op))
            = writeLocal(writeLocal(t, other), Shift(op, other))
<1> DEFINE op2 == Shift(op, other)
           other2 == Shift(other, op)
           t1 == writeLocal(t, op)
           t2 == writeLocal(t, other)
<1>1. /\ t \in Text /\ op \in op_t /\ other \in op_t
      /\ op2 \in op_t /\ other2 \in op_t
      /\ InRange(t, op) /\ InRange(t, other)
      /\ op2.data = op.data /\ other2.data = other.data
      /\ Len(t) \in Nat
      /\ Silent(t1, other2) /\ Silent(t2, op2)
  <2>1. ConcurrentOn(t, other, op)
    BY DEF ConcurrentOn
  <2>2. Silent(t1, other2) /\ Silent(t2, op2)
    BY <2>1, SilentAfterShift
  <2>3. /\ t \in Text /\ op \in op_t /\ other \in op_t /\ op.id # other.id
        /\ InRange(t, op) /\ InRange(t, other)
    BY DEF ConcurrentOn, Silent
  <2> QED  BY <2>2, <2>3, ShiftType, LenProperties DEF Text
<1>2. /\ op.char_offset \in Nat /\ other.char_offset \in Nat
      /\ op.id \in Nat /\ other.id \in Nat /\ op.id # other.id
      /\ op.operation # NOOP /\ other.operation # NOOP
  <2>1. op.id \in UserId /\ other.id \in UserId /\ op.id # other.id
    BY <1>1 DEF op_t, ConcurrentOn
  <2>2. op.id \in Nat /\ other.id \in Nat
    BY <2>1, MaxUsersType
  <2> QED  BY <1>1, <2>1, <2>2 DEF op_t, Inserts, NOOP, CH_INSERT
<1>3. /\ op.char_offset \in 0..Len(t)
      /\ t1 \in Text /\ Len(t1) = Len(t) + 1
      /\ \A j \in 1..Len(t) + 1 :
            t1[j] = IF j <= op.char_offset THEN t[j]
                    ELSE IF j = op.char_offset + 1 THEN op.data ELSE t[j - 1]
  BY <1>1, WriteInsertion
<1>4. /\ other.char_offset \in 0..Len(t)
      /\ t2 \in Text /\ Len(t2) = Len(t) + 1
      /\ \A j \in 1..Len(t) + 1 :
            t2[j] = IF j <= other.char_offset THEN t[j]
                    ELSE IF j = other.char_offset + 1 THEN other.data
                    ELSE t[j - 1]
  BY <1>1, WriteInsertion
<1>5. /\ SameEffect(op, other) => op2.operation = NOOP
      /\ ~SameEffect(op, other) =>
            /\ op2.operation = op.operation
            /\ op2.char_offset = IF MovesRight(op, other)
                                 THEN op.char_offset + 1 ELSE op.char_offset
  BY <1>1, <1>2, ShiftOverInsertion
<1>6. /\ SameEffect(other, op) => other2.operation = NOOP
      /\ ~SameEffect(other, op) =>
            /\ other2.operation = other.operation
            /\ other2.char_offset = IF MovesRight(other, op)
                                    THEN other.char_offset + 1
                                    ELSE other.char_offset
  BY <1>1, <1>2, ShiftOverInsertion
<1> SUFFICES writeLocal(t1, other2) = writeLocal(t2, op2)
  OBVIOUS
<1> HIDE DEF t1, t2, op2, other2
<1>7. CASE SameEffect(op, other)
  <2>1. SameEffect(other, op) /\ op.char_offset = other.char_offset
        /\ op.data = other.data
    BY <1>7 DEF SameEffect, Inserts, Deletes, CH_INSERT, CH_DELETE
  <2>2. writeLocal(t1, other2) = t1 /\ writeLocal(t2, op2) = t2
    BY <1>5, <1>6, <1>7, <2>1, WriteNoop
  <2>3. \A j \in 1..Len(t1) : t1[j] = t2[j]
    BY <1>3, <1>4, <2>1
  <2>4. t1 = t2
    BY <1>3, <1>4, <2>3, SeqEqual DEF Text
  <2> QED  BY <2>2, <2>4
<1>8. CASE ~SameEffect(op, other)
  <2> DEFINE t12 == writeLocal(t1, other2)
             t21 == writeLocal(t2, op2)
  <2>1. ~SameEffect(other, op)
    BY <1>8 DEF SameEffect, Inserts, Deletes, CH_INSERT, CH_DELETE
  <2>2. /\ other2.char_offset \in 0..Len(t1)
        /\ t12 \in Text /\ Len(t12) = Len(t1) + 1
        /\ \A j \in 1..Len(t1) + 1 :
            t12[j] = IF j <= other2.char_offset THEN t1[j]
                     ELSE IF j = other2.char_offset + 1 THEN other2.data
                     ELSE t1[j - 1]
    <3>1. Inserts(other2) /\ InRange(t1, other2)
      BY <1>1, <1>6, <2>1 DEF Silent, Inserts
    <3> QED  BY <1>1, <1>3, <3>1, WriteInsertion
  <2>3. /\ op2.char_offset \in 0..Len(t2)
        /\ t21 \in Text /\ Len(t21) = Len(t2) + 1
        /\ \A j \in 1..Len(t2) + 1 :
            t21[j] = IF j <= op2.char_offset THEN t2[j]
                     ELSE IF j = op2.char_offset + 1 THEN op2.data
                     ELSE t2[j - 1]
    <3>1. Inserts(op2) /\ InRange(t2, op2)
      BY <1>1, <1>5, <1>8 DEF Silent, Inserts
    <3> QED  BY <1>1, <1>4, <3>1, WriteInsertion
  <2> HIDE DEF t12, t21
  <2>4. \/ /\ op.char_offset > other.char_offset
           /\ op2.char_offset = op.char_offset + 1
           /\ other2.char_offset = other.char_offset
        \/ /\ op.char_offset < other.char_offset
           /\ op2.char_offset = op.char_offset
           /\ other2.char_offset = other.char_offset + 1
        \/ /\ op.char_offset = other.char_offset
           /\ op2.char_offset = op.char_offset + 1
           /\ other2.char_offset = other.char_offset
        \/ /\ op.char_offset = other.char_offset
           /\ op2.char_offset = op.char_offset
           /\ other2.char_offset = other.char_offset + 1
    BY <1>2, <1>5, <1>6, <1>8, <2>1
       DEF MovesRight, Inserts, Deletes, CH_INSERT, CH_DELETE
  <2>5. ASSUME NEW j \in 1..Len(t12)
        PROVE  t12[j] = t21[j]
    <3> DEFINE p == op.char_offset
               q == other.char_offset
               p2 == op2.char_offset
               q2 == other2.char_offset
    <3>1. /\ p \in 0..Len(t) /\ q \in 0..Len(t)
          /\ j \in 1..Len(t) + 2
          /\ \/ p > q /\ p2 = p + 1 /\ q2 = q
             \/ p < q /\ p2 = p /\ q2 = q + 1
             \/ p = q /\ p2 = p + 1 /\ q2 = q
             \/ p = q /\ p2 = p /\ q2 = q + 1
      BY <1>1, <1>3, <1>4, <2>2, <2>4
    <3>2. t12[j] = IF j <= q2 THEN t1[j]
                   ELSE IF j = q2 + 1 THEN other.data ELSE t1[j - 1]
      BY <1>1, <2>2
    <3>3. t21[j] = IF j <= p2 THEN t2[j]
                   ELSE IF j = p2 + 1 THEN op.data ELSE t2[j - 1]
      BY <1>1, <1>3, <1>4, <2>2, <2>3
    <3>4. \A k \in 1..Len(t) + 1 :
            /\ t1[k] = IF k <= p THEN t[k]
                       ELSE IF k = p + 1 THEN op.data ELSE t[k - 1]
            /\ t2[k] = IF k <= q THEN t[k]
                       ELSE IF k = q + 1 THEN other.data ELSE t[k - 1]
      BY <1>3, <1>4
    <3> HIDE DEF p, q, p2, q2
    <3>5. j <= Len(t) + 1 =>
            /\ t1[j] = IF j <= p THEN t[j]
                       ELSE IF j = p + 1 THEN op.data ELSE t[j - 1]
            /\ t2[j] = IF j <= q THEN t[j]
                       ELSE IF j = q + 1 THEN other.data ELSE t[j - 1]
      BY <1>1, <3>1, <3>4
    <3>6. j > 1 =>
            /\ t1[j - 1] = IF j - 1 <= p THEN t[j - 1]
                           ELSE IF j - 1 = p + 1 THEN op.data
                           ELSE t[j - 1 - 1]
            /\ t2[j - 1] = IF j - 1 <= q THEN t[j - 1]
                           ELSE IF j - 1 = q + 1 THEN other.data
                           ELSE t[j - 1 - 1]
      <4>1. j > 1 => j - 1 \in 1..Len(t) + 1
        BY <1>1, <3>1
      <4> QED  BY <3>4, <4>1
    <3>7. CASE p >= q /\ p2 = p + 1 /\ q2 = q
      BY <1>1, <3>1, <3>2, <3>3, <3>5, <3>6, <3>7
    <3>8. CASE p <= q /\ p2 = p /\ q2 = q + 1
      BY <1>1, <3>1, <3>2, <3>3, <3>5, <3>6, <3>8
    <3> QED  BY <3>1, <3>7, <3>8
  <2>6. t12 = t21
    BY <1>1, <1>3, <1>4, <2>2, <2>3, <2>5, SeqEqual DEF Text
  <2> QED  BY <2>6 DEF t12, t21
<1> QED  BY <1>7, <1>8

\* Two deletions, of one character or of two.
LEMMA DeletionsCommute ==
    ASSUME NEW t, NEW op, NEW other, ConcurrentOn(t, op, other),
           Deletes(op), Deletes(other)
    PROVE  writeLocal(writeLocal(t, op), Shift(other, op))
            = writeLocal(writeLocal(t, other), Shift(op, other))
<1> DEFINE op2 == Shift(op, other)
           other2 == Shift(other, op)
           t1 == writeLocal(t, op)
           t2 == writeLocal(t, other)
           p == op.char_offset
           q == other.char_offset
           p2 == op2.char_offset
           q2 == other2.char_offset
<1>1. /\ t \in Text /\ op \in op_t /\ other \in op_t
      /\ op2 \in op_t /\ other2 \in op_t
      /\ InRange(t, op) /\ InRange(t, other)
      /\ Len(t) \in Nat /\ p \in Nat /\ q \in Nat
      /\ Silent(t1, other2) /\ Silent(t2, op2)
      /\ op.operation # NOOP /\ other.operation # NOOP
  <2>1. ConcurrentOn(t, other, op)
    BY DEF ConcurrentOn
  <2>2. /\ t \in Text /\ op \in op_t /\ other \in op_t
        /\ InRange(t, op) /\ InRange(t, other)
        /\ Silent(t1, other2) /\ Silent(t2, op2)
    BY <2>1, SilentAfterShift DEF ConcurrentOn, Silent
  <2>3. op.operation # NOOP /\ other.operation # NOOP
    BY DEF Deletes, NOOP, CH_DELETE
  <2>4. p \in Nat /\ q \in Nat
    BY <2>2 DEF op_t
  <2> QED
    BY <2>2, <2>3, <2>4, ShiftType, LenProperties DEF Text
<1>2. /\ p \in 0..Len(t) - 1
      /\ t1 \in Text /\ Len(t1) = Len(t) - 1
      /\ \A k \in 1..Len(t) - 1 : t1[k] = IF k <= p THEN t[k] ELSE t[k + 1]
  BY <1>1, WriteDeletion
<1>3. /\ q \in 0..Len(t) - 1
      /\ t2 \in Text /\ Len(t2) = Len(t) - 1
      /\ \A k \in 1..Len(t) - 1 : t2[k] = IF k <= q THEN t[k] ELSE t[k + 1]
  BY <1>1, WriteDeletion
<1>4. SameEffect(op, other) <=> p = q
  BY DEF SameEffect, Inserts, Deletes
<1>5. /\ p = q => op2.operation = NOOP
      /\ p # q => /\ op2.operation = op.operation
                  /\ p2 = IF p > q THEN p - 1 ELSE p
  BY <1>1, <1>4, ShiftOverDeletion
<1>6. /\ p = q => other2.operation = NOOP
      /\ p # q => /\ other2.operation = other.operation
                  /\ q2 = IF q > p THEN q - 1 ELSE q
  <2>1. SameEffect(other, op) <=> p = q
    BY DEF SameEffect, Inserts, Deletes
  <2> QED  BY <1>1, <2>1, ShiftOverDeletion
<1> SUFFICES writeLocal(t1, other2) = writeLocal(t2, op2)
  OBVIOUS
<1> HIDE DEF t1, t2, op2, other2
<1>7. CASE p = q
  <2>1. writeLocal(t1, other2) = t1 /\ writeLocal(t2, op2) = t2
    BY <1>5, <1>6, <1>7, WriteNoop
  <2>2. \A j \in 1..Len(t1) : t1[j] = t2[j]
    BY <1>2, <1>3, <1>7
  <2>3. t1 = t2
    BY <1>2, <1>3, <2>2, SeqEqual DEF Text
  <2> QED  BY <2>1, <2>3
<1>8. CASE p # q
  <2> DEFINE t12 == writeLocal(t1, other2)
             t21 == writeLocal(t2, op2)
  <2>1. /\ t12 \in Text /\ Len(t12) = Len(t1) - 1
        /\ \A k \in 1..Len(t1) - 1 :
            t12[k] = IF k <= q2 THEN t1[k] ELSE t1[k + 1]
    <3>1. Deletes(other2) /\ InRange(t1, other2)
      BY <1>1, <1>6, <1>8 DEF Silent, Deletes
    <3> QED  BY <1>1, <1>2, <3>1, WriteDeletion
  <2>2. /\ t21 \in Text /\ Len(t21) = Len(t2) - 1
        /\ \A k \in 1..Len(t2) - 1 :
            t21[k] = IF k <= p2 THEN t2[k] ELSE t2[k + 1]
    <3>1. Deletes(op2) /\ InRange(t2, op2)
      BY <1>1, <1>5, <1>8 DEF Silent, Deletes
    <3> QED  BY <1>1, <1>3, <3>1, WriteDeletion
  <2> HIDE DEF t12, t21
  <2>3. ASSUME NEW j \in 1..Len(t12)
        PROVE  t12[j] = t21[j]
    <3>1. /\ t12[j] = IF j <= q2 THEN t1[j] ELSE t1[j + 1]
          /\ t21[j] = IF j <= p2 THEN t2[j] ELSE t2[j + 1]
          /\ j \in 1..Len(t) - 2
      BY <1>1, <1>2, <1>3, <2>1, <2>2
    <3>2. /\ t1[j] = IF j <= p THEN t[j] ELSE t[j + 1]
          /\ t2[j] = IF j <= q THEN t[j] ELSE t[j + 1]
      BY <1>1, <1>2, <1>3, <3>1
    <3>3. /\ t1[j + 1] = IF j + 1 <= p THEN t[j + 1] ELSE t[j + 1 + 1]
          /\ t2[j + 1] = IF j + 1 <= q THEN t[j + 1] ELSE t[j + 1 + 1]
      <4>1. j + 1 \in 1..Len(t) - 1
        BY <1>1, <3>1
      <4> QED  BY <1>2, <1>3, <4>1
    <3>4. \/ p > q /\ p2 = p - 1 /\ q2 = q
          \/ p < q /\ p2 = p /\ q2 = q - 1
      BY <1>1, <1>5, <1>6, <1>8
    <3> HIDE DEF p, q, p2, q2
    <3>5. CASE p > q /\ p2 = p - 1 /\ q2 = q
      BY <1>1, <3>1, <3>2, <3>3, <3>5
    <3>6. CASE p < q /\ p2 = p /\ q2 = q - 1
      BY <1>1, <3>1, <3>2, <3>3, <3>6
    <3> QED  BY <3>4, <3>5, <3>6
  <2>4. t12 = t21
    BY <1>1, <1>2, <1>3, <2>1, <2>2, <2>3, SeqEqual DEF Text
  <2> QED  BY <2>4 DEF t12, t21
<1> QED  BY <1>7, <1>8

\* An insertion and a deletion.
LEMMA InsertionAndDeletionCommute ==
    ASSUME NEW t, NEW op, NEW other, ConcurrentOn(t, op, other),
           Inserts(op), Deletes(other)
    PROVE  writeLocal(writeLocal(t, op), Shift(other, op))
            = writeLocal(writeLocal(t, other), Shift(op, other))
<1> DEFINE op2 == Shift(op, other)
           other2 == Shift(other, op)
           t1 == writeLocal(t, op)
           t2 == writeLocal(t, other)
           p == op.char_offset
           q == other.char_offset
           p2 == op2.char_offset
           q2 == other2.char_offset
<1>1. /\ t \in Text /\ op \in op_t /\ other \in op_t
      /\ op2 \in op_t /\ other2 \in op_t /\ op2.data = op.data
      /\ InRange(t, op) /\ InRange(t, other)
      /\ Len(t) \in Nat /\ p \in Nat /\ q \in Nat
      /\ Silent(t1, other2) /\ Silent(t2, op2)
      /\ op.operation # NOOP /\ other.operation # NOOP
  <2>1. ConcurrentOn(t, other, op)
    BY DEF ConcurrentOn
  <2>2. /\ t \in Text /\ op \in op_t /\ other \in op_t
        /\ InRange(t, op) /\ InRange(t, other)
        /\ Silent(t1, other2) /\ Silent(t2, op2)
    BY <2>1, SilentAfterShift DEF ConcurrentOn, Silent
  <2>3. op.operation # NOOP /\ other.operation # NOOP
    BY DEF Inserts, Deletes, NOOP, CH_DELETE, CH_INSERT
  <2>4. p \in Nat /\ q \in Nat
    BY <2>2 DEF op_t
  <2> QED
    BY <2>2, <2>3, <2>4, ShiftType, LenProperties DEF Text
<1>2. /\ p \in 0..Len(t)
      /\ t1 \in Text /\ Len(t1) = Len(t) + 1
      /\ \A k \in 1..Len(t) + 1 :
            t1[k] = IF k <= p THEN t[k]
                    ELSE IF k = p + 1 THEN op.data ELSE t[k - 1]
  BY <1>1, WriteInsertion
<1>3. /\ q \in 0..Len(t) - 1
      /\ t2 \in Text /\ Len(t2) = Len(t) - 1
      /\ \A k \in 1..Len(t) - 1 : t2[k] = IF k <= q THEN t[k] ELSE t[k + 1]
  BY <1>1, WriteDeletion
<1>4. ~SameEffect(op, other) /\ ~SameEffect(other, op)
  BY DEF SameEffect, Inserts, Deletes, CH_INSERT, CH_DELETE
<1>5. op2.operation = op.operation /\ p2 = IF p > q THEN p - 1 ELSE p
  BY <1>1, <1>4, ShiftOverDeletion
<1>6. other2.operation = other.operation /\ q2 = IF q >= p THEN q + 1 ELSE q
  <2>1. MovesRight(other, op) <=> q >= p
    BY <1>1 DEF MovesRight, Inserts, Deletes, CH_INSERT, CH_DELETE
  <2> QED  BY <1>1, <1>4, <2>1, ShiftOverInsertion
<1> DEFINE t12 == writeLocal(t1, other2)
           t21 == writeLocal(t2, op2)
<1> SUFFICES t12 = t21
  OBVIOUS
<1> HIDE DEF t1, t2, op2, other2
<1>7. /\ t12 \in Text /\ Len(t12) = Len(t1) - 1
      /\ \A k \in 1..Len(t1) - 1 :
            t12[k] = IF k <= q2 THEN t1[k] ELSE t1[k + 1]
  <2>1. Deletes(other2) /\ InRange(t1, other2)
    BY <1>1, <1>6 DEF Silent, Deletes
  <2> QED  BY <1>1, <1>2, <2>1, WriteDeletion
<1>8. /\ t21 \in Text /\ Len(t21) = Len(t2) + 1
      /\ \A k \in 1..Len(t2) + 1 :
            t21[k] = IF k <= p2 THEN t2[k]
                     ELSE IF k = p2 + 1 THEN op.data ELSE t2[k - 1]
  <2>1. Inserts(op2) /\ InRange(t2, op2)
    BY <1>1, <1>5 DEF Silent, Inserts
  <2> QED  BY <1>1, <1>3, <2>1, WriteInsertion
<1> HIDE DEF t12, t21
<1>9. ASSUME NEW j \in 1..Len(t12)
      PROVE  t12[j] = t21[j]
  <2>1. /\ j \in 1..Len(t)
        /\ t12[j] = IF j <= q2 THEN t1[j] ELSE t1[j + 1]
        /\ t21[j] = IF j <= p2 THEN t2[j]
                    ELSE IF j = p2 + 1 THEN op.data ELSE t2[j - 1]
    BY <1>1, <1>2, <1>3, <1>7, <1>8
  <2>2. t1[j] = IF j <= p THEN t[j]
                ELSE IF j = p + 1 THEN op.data ELSE t[j - 1]
    BY <1>1, <1>2, <2>1
  <2>3. t1[j + 1] = IF j + 1 <= p THEN t[j + 1]
                    ELSE IF j + 1 = p + 1 THEN op.data ELSE t[j + 1 - 1]
    <3>1. j + 1 \in 1..Len(t) + 1
      BY <1>1, <2>1
    <3> QED  BY <1>2, <3>1
  <2>4. j < Len(t) => t2[j] = IF j <= q THEN t[j] ELSE t[j + 1]
    BY <1>1, <1>3, <2>1
  <2>5. j > 1 => t2[j - 1] = IF j - 1 <= q THEN t[j - 1]
                             ELSE t[j - 1 + 1]
    <3>1. j > 1 => j - 1 \in 1..Len(t) - 1
      BY <1>1, <2>1
    <3> QED  BY <1>3, <3>1
  <2>6. p \in 0..Len(t) /\ q \in 0..Len(t) - 1
    BY <1>2, <1>3
  <2>7. /\ p > q => p2 = p - 1 /\ q2 = q
        /\ p <= q => p2 = p /\ q2 = q + 1
    BY <1>1, <1>5, <1>6
  <2>8. j - 1 + 1 = j /\ j + 1 - 1 = j
    BY <2>1
  <2> HIDE DEF p, q, p2, q2
  <2>9. CASE p > q
    <3>1. CASE j <= q
      BY <1>1, <2>1, <2>2, <2>4, <2>6, <2>7, <2>9, <3>1
    <3>2. CASE j > q /\ j < p
      BY <1>1, <2>1, <2>3, <2>4, <2>6, <2>7, <2>9, <3>2
    <3>3. CASE j = p
      BY <1>1, <2>1, <2>3, <2>6, <2>7, <2>9, <3>3
    <3>4. CASE j > p
      BY <1>1, <2>1, <2>3, <2>5, <2>6, <2>7, <2>8, <2>9, <3>4
    <3> QED  BY <1>1, <2>1, <2>6, <3>1, <3>2, <3>3, <3>4
  <2>10. CASE p <= q
    BY <1>1, <2>1, <2>2, <2>3, <2>4, <2>5, <2>6, <2>7, <2>8, <2>10
  <2> QED  BY <2>6, <2>9, <2>10
<1> QED
  BY <1>1, <1>2, <1>3, <1>7, <1>8, <1>9, SeqEqual DEF Text

\* The two orders of performing two concurrent operations give one text.
THEOREM TransformationCommutes ==
    ASSUME NEW t, NEW op, NEW other, ConcurrentOn(t, op, other)
    PROVE  writeLocal(writeLocal(t, op), Shift(other, op))
            = writeLocal(writeLocal(t, other), Shift(op, other))
<1>1. ConcurrentOn(t, other, op)
  BY DEF ConcurrentOn
<1>2. /\ op.operation = NOOP \/ Inserts(op) \/ Deletes(op)
      /\ other.operation = NOOP \/ Inserts(other) \/ Deletes(other)
  BY DEF ConcurrentOn, op_t, Inserts, Deletes
<1>3. CASE op.operation = NOOP
  <2>1. Shift(op, other) = op /\ Shift(other, op) = other
    BY <1>3 DEF Shift
  <2> QED  BY <1>3, <2>1, WriteNoop
<1>4. CASE other.operation = NOOP
  <2>1. Shift(op, other) = op /\ Shift(other, op) = other
    BY <1>4 DEF Shift
  <2> QED  BY <1>4, <2>1, WriteNoop
<1>5. CASE Inserts(op) /\ Inserts(other)
  BY <1>5, InsertionsCommute
<1>6. CASE Deletes(op) /\ Deletes(other)
  BY <1>6, DeletionsCommute
<1>7. CASE Inserts(op) /\ Deletes(other)
  BY <1>7, InsertionAndDeletionCommute
<1>8. CASE Deletes(op) /\ Inserts(other)
  BY <1>1, <1>8, InsertionAndDeletionCommute
<1> QED  BY <1>2, <1>3, <1>4, <1>5, <1>6, <1>7, <1>8
=============================================================================
