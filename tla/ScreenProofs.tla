----------------------------- MODULE ScreenProofs -----------------------------
(***************************************************************************)
(* Screen for every text, every height of the screen, and any number of    *)
(* changes by the three threads: the cursor stays where the user left it,  *)
(* and calPos draws enough.                                                *)
(*                                                                         *)
(* First what an operation does to the offsets of the text and to the      *)
(* cursor, then the invariant ScreenInv.                                   *)
(***************************************************************************)
EXTENDS Screen, SequenceTheorems, TLAPS

\* Recursion and sequences, about which XformProofs has lemmas that are not
\* about xform.
Lemmas == INSTANCE XformProofs WITH Char <- {}, MaxUsers <- 1

Text == Seq(Nat) \ {<<>>}
Position == [lineno : Nat \ {0}, offset : Nat \ {0}]

-----------------------------------------------------------------------------
(***************************************************************************)
(* Offsets.                                                                *)
(***************************************************************************)

\* A text has lines, each with a length.
LEMMA TextType ==
    ASSUME NEW ls \in Text
    PROVE  /\ Len(ls) \in Nat \ {0}
           /\ \A n \in 1..Len(ls) : ls[n] \in Nat
<1>1. ls \in Seq(Nat) /\ ls # <<>>
  BY DEF Text
<1>2. Len(ls) \in Nat /\ \A n \in 1..Len(ls) : ls[n] \in Nat
  BY <1>1, LenProperties, ElementOfSeq
<1>3. Len(ls) # 0
  BY <1>1, EmptySeq
<1> QED  BY <1>2, <1>3

\* Upto adds one line after the other.
UptoSteps(ls) ==
    /\ \A n \in 0..Len(ls) : Upto(ls)[n] \in Nat
    /\ Upto(ls)[0] = 0
    /\ \A n \in 1..Len(ls) : Upto(ls)[n] = Upto(ls)[n - 1] + ls[n] + 1

\* Upto is what its recursion says.
LEMMA UptoByStep ==
    ASSUME NEW ls \in Text
    PROVE  UptoSteps(ls)
<1> DEFINE N == Len(ls)
           Eq(f) == f = [n \in 0..N |-> IF n = 0 THEN 0 ELSE f[n - 1] + ls[n] + 1]
           size == CHOOSE f : Eq(f)
<1>1. N \in Nat /\ \A n \in 1..N : ls[n] \in Nat
  BY TextType
<1>2. PICK f \in [0..N -> Nat] :
        f[0] = 0 /\ \A n \in 1..N : f[n] = f[n - 1] + ls[n] + 1
  <2> DEFINE Add(n, s) == s + ls[n] + 1
             step == [n \in 1..N |-> [s \in Nat |-> Add(n, s)]]
  <2>1. step \in [1..N -> [Nat -> Nat]]
    BY <1>1
  <2>2. \A n \in 1..N : \A s \in Nat : step[n][s] = Add(n, s)
    OBVIOUS
  <2> HIDE DEF step, Add
  <2>3. PICK f \in [0..N -> Nat] :
            f[0] = 0 /\ \A n \in 1..N : f[n] = step[n][f[n - 1]]
    <3>1. Lemmas!Recursive(Nat, 0, N, step)
      <4>1. N \in Nat /\ 0 \in Nat
        BY <1>1
      <4>2. 1 \in Nat \ {0} /\ 1 < 2^15
        OBVIOUS
      <4> HIDE DEF N
      <4> QED  BY <2>1, <4>1, <4>2, Lemmas!Recursion, ZenonT(40)
    <3> QED  BY <3>1 DEF Lemmas!Recursive
  <2>4. \A n \in 1..N : f[n] = Add(n, f[n - 1])
    <3>1. \A n \in 1..N : n - 1 \in 0..N
      BY <1>1
    <3>2. \A n \in 1..N : f[n - 1] \in Nat
      BY <2>3, <3>1
    <3> QED  BY <2>2, <2>3, <3>2
  <2> QED  BY <2>3, <2>4 DEF Add
<1>3. Eq(size)
  <2>1. Eq(f)
    BY <1>1, <1>2
  <2> HIDE DEF Eq
  <2> QED  BY <2>1
<1>4. size = Upto(ls)
  BY DEF Upto
<1>5. /\ size[0] = 0 /\ \A n \in 1..N : size[n] = size[n - 1] + ls[n] + 1
  <2>1. size = [n \in 0..N |-> IF n = 0 THEN 0 ELSE size[n - 1] + ls[n] + 1]
    BY <1>3
  <2> HIDE DEF size, N
  <2>2. size[0] = 0
    BY <1>1, <2>1
  <2>3. ASSUME NEW n \in 1..N
        PROVE  size[n] = size[n - 1] + ls[n] + 1
    <3>1. n \in 0..N /\ n # 0
      BY <1>1
    <3> QED  BY <2>1, <3>1
  <2> QED  BY <2>2, <2>3
<1> HIDE DEF size, Eq
<1>6. \A n \in 0..N : size[n] = f[n]
  <2>1. Lemmas!StepAlike(size, f, N)
    BY <1>2, <1>5 DEF Lemmas!StepAlike
  <2>2. Lemmas!Alike(size, f, N)
    BY <1>1, <2>1, Lemmas!SameSteps
  <2> QED  BY <2>2 DEF Lemmas!Alike
<1> QED  BY <1>2, <1>4, <1>5, <1>6 DEF UptoSteps

\* Induction on the lines of a text.
LEMMA LineInduction ==
    ASSUME NEW N \in Nat, NEW from \in 0..N, NEW T, from \in T,
           \A n \in from..N : n \in T /\ n < N => n + 1 \in T
    PROVE  \A n \in from..N : n \in T
<1> DEFINE S == { k \in Nat : from + k <= N => from + k \in T }
<1>1. 0 \in S
  OBVIOUS
<1>2. ASSUME NEW k \in Nat, k \in S
      PROVE  k + 1 \in S
  <2>1. SUFFICES ASSUME from + (k + 1) <= N
                 PROVE  from + (k + 1) \in T
    OBVIOUS
  <2>2. from + k \in from..N /\ from + k < N /\ from + k + 1 = from + (k + 1)
    BY <2>1
  <2> QED  BY <1>2, <2>2
<1> HIDE DEF S
<1>3. \A k \in Nat : k \in S
  BY <1>1, <1>2, Lemmas!SetInduction
<1>4. ASSUME NEW n \in from..N
      PROVE  n \in T
  <2>1. n - from \in Nat /\ from + (n - from) = n /\ n <= N
    OBVIOUS
  <2> QED  BY <1>3, <2>1 DEF S
<1> QED  BY <1>4

\* Lines further down start later.
LEMMA UptoGrows ==
    ASSUME NEW ls \in Text, NEW m \in 0..Len(ls)
    PROVE  \A n \in m..Len(ls) : Upto(ls)[m] <= Upto(ls)[n]
<1> DEFINE N == Len(ls)
           U == Upto(ls)
           T == { n \in m..N : U[m] <= U[n] }
<1>1. N \in Nat /\ \A n \in 1..N : ls[n] \in Nat
  BY TextType
<1>2. /\ \A n \in 0..N : U[n] \in Nat
      /\ \A n \in 1..N : U[n] = U[n - 1] + ls[n] + 1
  BY UptoByStep DEF UptoSteps
<1> HIDE DEF N, U
<1>3. m \in T
  BY <1>1, <1>2 DEF N
<1>4. ASSUME NEW n \in m..N, n \in T, n < N
      PROVE  n + 1 \in T
  <2>1. n + 1 \in 1..N /\ n + 1 - 1 = n /\ n \in 0..N /\ m \in 0..N /\ n + 1 \in m..N
    BY <1>1, <1>4 DEF N
  <2>2. U[n + 1] = U[n] + ls[n + 1] + 1
    BY <1>2, <2>1
  <2>3. U[m] <= U[n] /\ U[n] \in Nat /\ U[m] \in Nat /\ ls[n + 1] \in Nat
    BY <1>1, <1>2, <1>4, <2>1
  <2> QED  BY <2>1, <2>2, <2>3
<1> HIDE DEF T
<1>5. \A n \in m..N : n \in T
  BY <1>1, <1>3, <1>4, LineInduction DEF N
<1> QED  BY <1>5 DEF T, N, U

\* A character was typed into line n of a: the lines of b.
Longer(a, b, n) ==
    /\ n \in 1..Len(a) /\ Len(b) = Len(a)
    /\ \A m \in 1..Len(a) : b[m] = IF m = n THEN a[n] + 1 ELSE a[m]

\* Line n of a was broken into two.
Broken(a, b, n) ==
    /\ n \in 1..Len(a) /\ Len(b) = Len(a) + 1
    /\ \A m \in 1..n - 1 : b[m] = a[m]
    /\ b[n] + b[n + 1] = a[n]
    /\ \A m \in n + 1..Len(a) : b[m + 1] = a[m]

\* Lines before a change start where they did.
LEMMA UptoBefore ==
    ASSUME NEW a \in Text, NEW b \in Text, NEW k \in Nat,
           k <= Len(a), k <= Len(b), \A m \in 1..k : a[m] = b[m]
    PROVE  \A m \in 0..k : Upto(a)[m] = Upto(b)[m]
<1> DEFINE T == { m \in 0..k : Upto(a)[m] = Upto(b)[m] }
<1>1. Len(a) \in Nat /\ Len(b) \in Nat /\ UptoSteps(a) /\ UptoSteps(b)
  BY TextType, UptoByStep
<1>2. 0 \in T
  BY <1>1 DEF UptoSteps
<1>3. ASSUME NEW m \in 0..k, m \in T, m < k
      PROVE  m + 1 \in T
  <2>1. /\ m + 1 \in 1..Len(a) /\ m + 1 \in 1..Len(b) /\ m + 1 \in 1..k
        /\ m + 1 - 1 = m /\ m + 1 \in 0..k
    BY <1>1, <1>3
  <2>2. Upto(a)[m + 1] = Upto(a)[m] + a[m + 1] + 1
    BY <1>1, <2>1 DEF UptoSteps
  <2>3. Upto(b)[m + 1] = Upto(b)[m] + b[m + 1] + 1
    BY <1>1, <2>1 DEF UptoSteps
  <2> QED  BY <1>3, <2>1, <2>2, <2>3
<1> HIDE DEF T
<1>4. 0 \in 0..k
  OBVIOUS
<1>5. \A m \in 0..k : m \in T
  BY <1>2, <1>3, <1>4, LineInduction
<1> QED  BY <1>5 DEF T

\* A character typed moves the lines below by one.
LEMMA UptoLonger ==
    ASSUME NEW a \in Text, NEW b \in Text, NEW n, Longer(a, b, n)
    PROVE  /\ \A m \in 0..n - 1 : Upto(b)[m] = Upto(a)[m]
           /\ \A m \in n..Len(a) : Upto(b)[m] = Upto(a)[m] + 1
<1> DEFINE T == { m \in n..Len(a) : Upto(b)[m] = Upto(a)[m] + 1 }
<1>1. /\ Len(a) \in Nat /\ Len(b) = Len(a) /\ n \in 1..Len(a)
      /\ UptoSteps(a) /\ UptoSteps(b)
      /\ \A m \in 1..Len(a) : a[m] \in Nat
      /\ b[n] = a[n] + 1
      /\ \A m \in 1..Len(a) : m # n => b[m] = a[m]
  BY TextType, UptoByStep DEF Longer
<1>2. \A m \in 0..n - 1 : Upto(b)[m] = Upto(a)[m]
  <2>1. /\ n - 1 \in Nat /\ n - 1 <= Len(a) /\ n - 1 <= Len(b)
        /\ \A m \in 1..n - 1 : a[m] = b[m]
    BY <1>1
  <2> QED  BY <2>1, UptoBefore
<1>3. n \in T
  <2>1. n - 1 \in 0..n - 1 /\ n - 1 \in 0..Len(a) /\ n \in n..Len(a)
    BY <1>1
  <2>2. /\ Upto(a)[n] = Upto(a)[n - 1] + a[n] + 1
        /\ Upto(b)[n] = Upto(b)[n - 1] + b[n] + 1
        /\ Upto(a)[n - 1] \in Nat
    BY <1>1, <2>1 DEF UptoSteps
  <2> QED  BY <1>1, <1>2, <2>1, <2>2
<1>4. ASSUME NEW m \in n..Len(a), m \in T, m < Len(a)
      PROVE  m + 1 \in T
  <2>1. /\ m + 1 \in 1..Len(a) /\ m + 1 # n /\ m + 1 - 1 = m
        /\ m + 1 \in n..Len(a) /\ m \in 0..Len(a)
    BY <1>1, <1>4
  <2>2. /\ Upto(a)[m + 1] = Upto(a)[m] + a[m + 1] + 1
        /\ Upto(b)[m + 1] = Upto(b)[m] + b[m + 1] + 1
        /\ Upto(a)[m] \in Nat
    BY <1>1, <2>1 DEF UptoSteps
  <2> QED  BY <1>1, <1>4, <2>1, <2>2
<1> HIDE DEF T
<1>5. n \in 0..Len(a)
  BY <1>1
<1>6. \A m \in n..Len(a) : m \in T
  BY <1>1, <1>3, <1>4, <1>5, LineInduction
<1> QED  BY <1>2, <1>6 DEF T

\* So does a line break, which moves them down by one line, too.
LEMMA UptoBroken ==
    ASSUME NEW a \in Text, NEW b \in Text, NEW n, Broken(a, b, n)
    PROVE  /\ \A m \in 0..n - 1 : Upto(b)[m] = Upto(a)[m]
           /\ Upto(b)[n] = Upto(a)[n - 1] + b[n] + 1
           /\ \A m \in n..Len(a) : Upto(b)[m + 1] = Upto(a)[m] + 1
<1> DEFINE T == { m \in n..Len(a) : Upto(b)[m + 1] = Upto(a)[m] + 1 }
<1>1. /\ Len(a) \in Nat /\ Len(b) = Len(a) + 1 /\ n \in 1..Len(a)
      /\ UptoSteps(a) /\ UptoSteps(b)
      /\ \A m \in 1..Len(a) : a[m] \in Nat
      /\ \A m \in 1..Len(a) + 1 : b[m] \in Nat
      /\ \A m \in 1..n - 1 : b[m] = a[m]
      /\ b[n] + b[n + 1] = a[n]
      /\ \A m \in n + 1..Len(a) : b[m + 1] = a[m]
  BY TextType, UptoByStep DEF Broken
<1>2. \A m \in 0..n - 1 : Upto(b)[m] = Upto(a)[m]
  <2>1. /\ n - 1 \in Nat /\ n - 1 <= Len(a) /\ n - 1 <= Len(b)
        /\ \A m \in 1..n - 1 : a[m] = b[m]
    BY <1>1
  <2> QED  BY <2>1, UptoBefore
<1>3. Upto(b)[n] = Upto(a)[n - 1] + b[n] + 1 /\ n \in T
  <2>1. /\ n - 1 \in 0..n - 1 /\ n - 1 \in 0..Len(a) /\ n \in n..Len(a)
        /\ n \in 1..Len(b) /\ n + 1 \in 1..Len(b) /\ n + 1 - 1 = n
        /\ n \in 1..Len(a) + 1 /\ n + 1 \in 1..Len(a) + 1
    BY <1>1
  <2>2. /\ Upto(a)[n] = Upto(a)[n - 1] + a[n] + 1
        /\ Upto(b)[n] = Upto(b)[n - 1] + b[n] + 1
        /\ Upto(a)[n - 1] \in Nat
    BY <1>1, <2>1 DEF UptoSteps
  <2>5. Upto(b)[n + 1] = Upto(b)[n] + b[n + 1] + 1
    <3> DEFINE k == n + 1
    <3>1. k \in 1..Len(b) /\ k - 1 = n
      BY <1>1, <2>1
    <3> HIDE DEF k
    <3>2. Upto(b)[k] = Upto(b)[k - 1] + b[k] + 1
      BY <1>1, <3>1 DEF UptoSteps
    <3>3. Upto(b)[k] = Upto(b)[n] + b[k] + 1
      BY <3>1, <3>2
    <3> QED  BY <3>3 DEF k
  <2>3. b[n] \in Nat /\ b[n + 1] \in Nat /\ a[n] \in Nat
    BY <1>1, <2>1
  <2>4. Upto(b)[n - 1] = Upto(a)[n - 1]
    BY <1>2, <2>1
  <2>6. Upto(b)[n] = Upto(a)[n - 1] + b[n] + 1
    BY <2>2, <2>4
  <2>7. Upto(b)[n + 1] = Upto(a)[n] + 1
    BY <1>1, <2>2, <2>3, <2>5, <2>6
  <2> QED  BY <2>1, <2>6, <2>7
<1>4. ASSUME NEW m \in n..Len(a), m \in T, m < Len(a)
      PROVE  m + 1 \in T
  <2>1. /\ m + 1 \in 1..Len(a) /\ m + 1 \in n + 1..Len(a) /\ m + 1 - 1 = m
        /\ m + 1 \in n..Len(a) /\ m \in 0..Len(a)
        /\ m + 1 + 1 \in 1..Len(b) /\ m + 1 + 1 - 1 = m + 1
    BY <1>1, <1>4
  <2>2. /\ Upto(a)[m + 1] = Upto(a)[m] + a[m + 1] + 1
        /\ Upto(b)[m + 1 + 1] = Upto(b)[m + 1] + b[m + 1 + 1] + 1
        /\ Upto(a)[m] \in Nat
    BY <1>1, <2>1 DEF UptoSteps
  <2>3. b[m + 1 + 1] = a[m + 1] /\ a[m + 1] \in Nat
    BY <1>1, <2>1
  <2> QED  BY <1>4, <2>1, <2>2, <2>3
<1> HIDE DEF T
<1>5. n \in 0..Len(a)
  BY <1>1
<1>6. \A m \in n..Len(a) : m \in T
  BY <1>1, <1>3, <1>4, <1>5, LineInduction
<1> QED  BY <1>2, <1>3, <1>6 DEF T

-----------------------------------------------------------------------------
(***************************************************************************)
(* What an operation does to the text, and to the cursor.                  *)
(***************************************************************************)

\* The positions whose offsets Flat gives are those of the text.
LEMMA PositionsType ==
    ASSUME NEW ls \in Text, NEW pos
    PROVE  pos \in Positions(ls) <=> pos \in Position /\ InText(ls, pos)
<1>1. /\ Len(ls) \in Nat /\ \A n \in 1..Len(ls) : ls[n] \in Nat
  BY TextType
<1>2. ASSUME pos \in Positions(ls)
      PROVE  pos \in Position /\ InText(ls, pos)
  <2>1. PICK n \in 1..Len(ls) : pos \in [lineno : {n}, offset : 1..ls[n] + 1]
    BY <1>2 DEF Positions
  <2>2. pos.lineno = n /\ pos.offset \in 1..ls[n] + 1
    BY <2>1
  <2>3. pos = [lineno |-> pos.lineno, offset |-> pos.offset]
    BY <2>1
  <2> QED  BY <1>1, <2>2, <2>3 DEF Position, InText
<1>3. ASSUME pos \in Position, InText(ls, pos)
      PROVE  pos \in Positions(ls)
  <2>1. /\ pos.lineno \in 1..Len(ls) /\ pos.offset \in 1..ls[pos.lineno] + 1
        /\ pos = [lineno |-> pos.lineno, offset |-> pos.offset]
    BY <1>3 DEF Position, InText
  <2>2. pos \in [lineno : {pos.lineno}, offset : 1..ls[pos.lineno] + 1]
    BY <2>1
  <2> QED  BY <2>1, <2>2 DEF Positions
<1> QED  BY <1>2, <1>3

\* The end of the text is a position in it.
LEMMA EndType ==
    ASSUME NEW ls \in Text
    PROVE  /\ EndOfText(ls) = [lineno |-> Len(ls), offset |-> ls[Len(ls)] + 1]
           /\ EndOfText(ls) \in Position /\ InText(ls, EndOfText(ls))
           /\ EndOfText(ls).lineno = Len(ls)
           /\ EndOfText(ls).offset = ls[Len(ls)] + 1
<1>1. Len(ls) \in Nat \ {0} /\ Len(ls) \in 1..Len(ls) /\ ls[Len(ls)] \in Nat
  BY TextType
<1>2. EndOfText(ls) = [lineno |-> Len(ls), offset |-> ls[Len(ls)] + 1]
  BY DEF EndOfText, Last
<1> QED  BY <1>1, <1>2 DEF Position, InText

Operation == [operation : {INSERT, DELETE}, newline : BOOLEAN, pos : Position]

\* An operation on the text: what is deleted is there, and a line break is
\* deleted where a line ends.
OnText(ls, op) ==
    /\ op \in Operation /\ InText(ls, op.pos)
    /\ op.operation = DELETE =>
        /\ op.newline <=> op.pos.offset = ls[op.pos.lineno] + 1
        /\ op.newline => op.pos.lineno < Len(ls)

\* What another thread may do is an operation on the text.
LEMMA OperationsType ==
    ASSUME NEW ls \in Text, NEW op
    PROVE  op \in Operations(ls) <=> OnText(ls, op)
<1>1. /\ Len(ls) \in Nat /\ \A n \in 1..Len(ls) : ls[n] \in Nat
  BY TextType
<1>2. INSERT # DELETE
  BY DEF INSERT, DELETE
<1> DEFINE Places == Positions(ls)
           end == EndOfText(ls)
           Dels == { o \in [operation : {DELETE}, newline : BOOLEAN,
                            pos : Places \ {end}] :
                      o.newline <=> o.pos.offset = ls[o.pos.lineno] + 1 }
           Ins == [operation : {INSERT}, newline : BOOLEAN, pos : Places]
<1>3. Operations(ls) = Ins \cup Dels
  BY DEF Operations
<1>4. \A pos : pos \in Places <=> pos \in Position /\ InText(ls, pos)
  BY PositionsType
<1>5. end = [lineno |-> Len(ls), offset |-> ls[Len(ls)] + 1]
  BY EndType
<1> HIDE DEF Places, end
<1>6. op \in Ins <=> op \in Operation /\ op.operation = INSERT /\ InText(ls, op.pos)
  BY <1>4 DEF Operation
<1>7. op \in Dels <=> /\ op \in Operation /\ op.operation = DELETE
                      /\ InText(ls, op.pos) /\ op.pos # end
                      /\ op.newline <=> op.pos.offset = ls[op.pos.lineno] + 1
  BY <1>4 DEF Operation
<1>8. ASSUME op \in Operation, InText(ls, op.pos), op.pos.offset = ls[op.pos.lineno] + 1
      PROVE  op.pos # end <=> op.pos.lineno < Len(ls)
  <2>1. /\ op.pos = [lineno |-> op.pos.lineno, offset |-> op.pos.offset]
        /\ op.pos.lineno \in 1..Len(ls)
    BY <1>8 DEF Operation, Position, InText
  <2>2. end.lineno = Len(ls) /\ end.offset = ls[Len(ls)] + 1
    BY <1>5
  <2>3. op.pos = end => op.pos.lineno = Len(ls)
    BY <2>2
  <2>4. op.pos.lineno = Len(ls) => op.pos = end
    BY <1>5, <1>8, <2>1
  <2> QED  BY <1>1, <2>1, <2>3, <2>4
<1>9. ASSUME op \in Operation, InText(ls, op.pos), op.pos.offset # ls[op.pos.lineno] + 1
      PROVE  op.pos # end
  BY <1>5, <1>9
<1> HIDE DEF Ins, Dels
<1>10. op \in Operation => op.operation = INSERT \/ op.operation = DELETE
  BY DEF Operation
<1> QED  BY <1>2, <1>3, <1>6, <1>7, <1>8, <1>9, <1>10 DEF OnText

\* What Changed makes of the lines.
LinesAfter(ls, op, new) ==
    /\ new \in Text
    /\ op.operation = INSERT /\ ~op.newline => Longer(ls, new, op.pos.lineno)
    /\ op.operation = DELETE /\ ~op.newline => Longer(new, ls, op.pos.lineno)
    /\ op.operation = INSERT /\ op.newline =>
        /\ Broken(ls, new, op.pos.lineno)
        /\ new[op.pos.lineno] = op.pos.offset - 1
    /\ op.operation = DELETE /\ op.newline =>
        /\ Broken(new, ls, op.pos.lineno)
        /\ ls[op.pos.lineno] = op.pos.offset - 1

\* Another length for a line.
LEMMA ReplaceAtIs ==
    ASSUME NEW ls \in Text, NEW n \in 1..Len(ls), NEW size \in Nat
    PROVE  /\ ReplaceAt(ls, n, size) \in Text
           /\ Len(ReplaceAt(ls, n, size)) = Len(ls)
           /\ \A m \in 1..Len(ls) :
                ReplaceAt(ls, n, size)[m] = IF m = n THEN size ELSE ls[m]
<1> DEFINE new == [ls EXCEPT ![n] = size]
<1>1. ls \in Seq(Nat) /\ Len(ls) \in Nat \ {0}
  BY TextType DEF Text
<1>2. /\ new \in Seq(Nat) /\ Len(new) = Len(ls)
      /\ \A m \in 1..Len(ls) : new[m] = IF m = n THEN size ELSE ls[m]
  BY <1>1
<1>3. new # <<>>
  BY <1>1, <1>2
<1> QED  BY <1>2, <1>3 DEF ReplaceAt, Text

\* Removing the element at i of a sequence moves what follows it.
LEMMA RemoveAtIs ==
    ASSUME NEW S, NEW s \in Seq(S), NEW i \in 1..Len(s)
    PROVE  /\ RemoveAt(s, i) \in Seq(S)
           /\ Len(RemoveAt(s, i)) = Len(s) - 1
           /\ \A j \in 1..Len(s) - 1 :
                RemoveAt(s, i)[j] = IF j < i THEN s[j] ELSE s[j + 1]
<1> DEFINE before == SubSeq(s, 1, i - 1)
           after  == SubSeq(s, i + 1, Len(s))
<1>1. /\ before \in Seq(S) /\ Len(before) = i - 1
      /\ \A j \in 1..i - 1 : before[j] = s[j]
  OBVIOUS
<1>2. /\ after \in Seq(S) /\ Len(after) = Len(s) - i
      /\ \A j \in 1..Len(s) - i : after[j] = s[i + j]
  OBVIOUS
<1>3. RemoveAt(s, i) = before \o after
  BY DEF RemoveAt
<1> HIDE DEF before, after
<1>4. /\ before \o after \in Seq(S)
      /\ Len(before \o after) = Len(s) - 1
  BY <1>1, <1>2
<1>5. ASSUME NEW j \in 1..Len(s) - 1
      PROVE  (before \o after)[j] = IF j < i THEN s[j] ELSE s[j + 1]
  <2>1. CASE j < i
    <3>1. j \in 1..Len(before)
      BY <1>1, <2>1
    <3>2. (before \o after)[j] = before[j]
      BY <1>1, <1>2, <3>1
    <3> QED  BY <1>1, <2>1, <3>1, <3>2
  <2>2. CASE ~(j < i)
    <3>1. /\ j - (i - 1) \in 1..Len(s) - i
          /\ i + (j - (i - 1)) = j + 1
          /\ j \in Len(before) + 1..Len(before) + Len(after)
          /\ j - Len(before) = j - (i - 1)
      BY <1>1, <1>2, <2>2
    <3>2. (before \o after)[j] = after[j - (i - 1)]
      BY <1>1, <1>2, <3>1
    <3> QED  BY <1>2, <2>2, <3>1, <3>2
  <2> QED  BY <2>1, <2>2
<1> QED  BY <1>3, <1>4, <1>5, Zenon

\* The lines after an operation.
LEMMA ChangedIs ==
    ASSUME NEW ls \in Text, NEW op, OnText(ls, op)
    PROVE  LinesAfter(ls, op, Changed(ls, op))
<1> DEFINE n == op.pos.lineno
           head == op.pos.offset - 1
           new == Changed(ls, op)
<1>1. /\ ls \in Seq(Nat) /\ Len(ls) \in Nat \ {0}
      /\ \A m \in 1..Len(ls) : ls[m] \in Nat
  BY TextType DEF Text
<1>2. /\ op.operation \in {INSERT, DELETE} /\ op.newline \in BOOLEAN
      /\ n \in 1..Len(ls) /\ head \in 0..ls[n]
      /\ ls[n] \in Nat /\ ls[n] - head \in Nat /\ head \in Nat
      /\ n \in Nat /\ op.pos.offset = head + 1
  BY <1>1 DEF OnText, Operation, Position, InText
<1>3. INSERT # DELETE
  BY DEF INSERT, DELETE
<1>4. op.operation = DELETE => /\ op.newline <=> head = ls[n]
                               /\ op.newline => n < Len(ls)
  <2>1. op.operation = DELETE => /\ op.newline <=> op.pos.offset = ls[n] + 1
                                 /\ op.newline => n < Len(ls)
    BY DEF OnText
  <2>2. op.pos.offset = ls[n] + 1 <=> head = ls[n]
    BY <1>2
  <2> QED  BY <2>1, <2>2
<1>5. new = IF op.newline
            THEN IF op.operation = INSERT
                 THEN InsertAt(ReplaceAt(ls, n, ls[n] - head), n, head)
                 ELSE RemoveAt(ReplaceAt(ls, n, ls[n] + ls[n + 1]), n + 1)
            ELSE ReplaceAt(ls, n, IF op.operation = INSERT THEN ls[n] + 1
                                  ELSE ls[n] - 1)
  BY DEF Changed
<1> HIDE DEF n, head, new
<1>6. CASE op.operation = INSERT /\ ~op.newline
  <2>1. new = ReplaceAt(ls, n, ls[n] + 1) /\ ls[n] + 1 \in Nat
    BY <1>2, <1>5, <1>6
  <2>2. /\ new \in Text /\ Len(new) = Len(ls)
        /\ \A m \in 1..Len(ls) : new[m] = IF m = n THEN ls[n] + 1 ELSE ls[m]
    BY <1>2, <2>1, ReplaceAtIs
  <2>3. Longer(ls, new, n)
    BY <1>2, <2>2 DEF Longer
  <2> QED  BY <1>3, <1>6, <2>2, <2>3 DEF LinesAfter, n, new
<1>7. CASE op.operation = DELETE /\ ~op.newline
  <2>1. new = ReplaceAt(ls, n, ls[n] - 1) /\ ls[n] - 1 \in Nat
    BY <1>2, <1>3, <1>4, <1>5, <1>7
  <2> DEFINE size == ls[n] - 1
  <2> HIDE DEF size
  <2>2. /\ new \in Text /\ Len(new) = Len(ls)
        /\ \A m \in 1..Len(ls) : new[m] = IF m = n THEN size ELSE ls[m]
    <3>1. size \in Nat /\ new = ReplaceAt(ls, n, size)
      BY <2>1 DEF size
    <3> QED  BY <1>2, <3>1, ReplaceAtIs
  <2>3. Longer(new, ls, n)
    <3>1. new[n] = size
      BY <1>2, <2>2
    <3>2. ls[n] = size + 1
      BY <1>2 DEF size
    <3> QED  BY <1>1, <1>2, <2>2, <3>1, <3>2 DEF Longer
  <2> QED  BY <1>3, <1>7, <2>2, <2>3 DEF LinesAfter, n, new
<1>8. CASE op.operation = INSERT /\ op.newline
  <2> DEFINE rest == ls[n] - head
             cut == ReplaceAt(ls, n, rest)
  <2>0. rest \in Nat
    BY <1>2
  <2>2. new = InsertAt(cut, n, head)
    BY <1>5, <1>8
  <2> HIDE DEF rest
  <2>1. /\ cut \in Text /\ Len(cut) = Len(ls)
        /\ \A m \in 1..Len(ls) : cut[m] = IF m = n THEN rest ELSE ls[m]
    BY <1>2, <2>0, ReplaceAtIs
  <2> HIDE DEF cut
  <2>3. n \in 1..Len(cut) + 1 /\ cut \in Seq(Nat)
    BY <1>1, <1>2, <2>1 DEF Text
  <2>4. new = Lemmas!InsertAt(cut, n, head)
    BY <2>2 DEF InsertAt, Lemmas!InsertAt
  <2>5. /\ new \in Seq(Nat) /\ Len(new) = Len(ls) + 1
        /\ \A j \in 1..Len(ls) + 1 :
             new[j] = IF j < n THEN cut[j] ELSE IF j = n THEN head ELSE cut[j - 1]
    <3>1. Lemmas!IsInsertion(Nat, cut, n, head, new)
      BY <1>2, <2>3, <2>4, Lemmas!InsertAtProperties
    <3> QED  BY <2>1, <3>1 DEF Lemmas!IsInsertion
  <2>6. new \in Text
    BY <1>1, <2>5 DEF Text
  <2>7. ASSUME NEW m \in 1..n - 1
        PROVE  new[m] = ls[m]
    <3>1. m \in 1..Len(ls) + 1 /\ m < n /\ m \in 1..Len(ls) /\ m # n
      BY <1>1, <1>2
    <3> QED  BY <2>1, <2>5, <3>1
  <2>8. new[n] = head /\ new[n + 1] = rest
    <3>1. /\ n \in 1..Len(ls) + 1 /\ n + 1 \in 1..Len(ls) + 1 /\ n + 1 - 1 = n
          /\ ~(n < n) /\ ~(n + 1 < n) /\ n + 1 # n
      BY <1>1, <1>2
    <3>2. new[n] = head
      BY <2>5, <3>1
    <3>3. new[n + 1] = cut[n + 1 - 1]
      BY <2>5, <3>1
    <3> QED  BY <1>2, <2>1, <3>1, <3>2, <3>3
  <2>9. ASSUME NEW m \in n + 1..Len(ls)
        PROVE  new[m + 1] = ls[m]
    <3>1. /\ m + 1 \in 1..Len(ls) + 1 /\ m + 1 - 1 = m /\ ~(m + 1 < n)
          /\ m + 1 # n /\ m \in 1..Len(ls) /\ m # n
      BY <1>1, <1>2
    <3>2. new[m + 1] = cut[m + 1 - 1]
      BY <2>5, <3>1
    <3> QED  BY <2>1, <3>1, <3>2
  <2>10. Broken(ls, new, n)
    <3>1. head + rest = ls[n]
      BY <1>2 DEF rest
    <3> QED  BY <1>2, <2>5, <2>7, <2>8, <2>9, <3>1 DEF Broken
  <2> QED  BY <1>3, <1>8, <2>6, <2>8, <2>10 DEF LinesAfter, n, new, head
<1>9. CASE op.operation = DELETE /\ op.newline
  <2> DEFINE sum == ls[n] + ls[n + 1]
             full == ReplaceAt(ls, n, sum)
  <2>1. n < Len(ls) /\ n + 1 \in 1..Len(ls) /\ sum \in Nat
    <3>1. n < Len(ls)
      BY <1>4, <1>9
    <3>2. n + 1 \in 1..Len(ls)
      BY <1>1, <1>2, <3>1
    <3>3. ls[n + 1] \in Nat
      BY <1>1, <3>2
    <3> QED  BY <1>2, <3>1, <3>2, <3>3
  <2> HIDE DEF sum
  <2>2. /\ full \in Text /\ Len(full) = Len(ls)
        /\ \A m \in 1..Len(ls) : full[m] = IF m = n THEN sum ELSE ls[m]
    BY <1>2, <2>1, ReplaceAtIs
  <2>3. new = RemoveAt(full, n + 1)
    BY <1>3, <1>5, <1>9 DEF sum
  <2> HIDE DEF full
  <2>4. n + 1 \in 1..Len(full) /\ full \in Seq(Nat)
    BY <2>1, <2>2 DEF Text
  <2>5. /\ new \in Seq(Nat) /\ Len(new) = Len(ls) - 1
        /\ \A j \in 1..Len(ls) - 1 :
             new[j] = IF j < n + 1 THEN full[j] ELSE full[j + 1]
    BY <2>2, <2>3, <2>4, RemoveAtIs
  <2>6. new \in Text
    BY <1>1, <1>2, <2>1, <2>5 DEF Text
  <2>7. ASSUME NEW m \in 1..n - 1
        PROVE  ls[m] = new[m]
    <3>1. m \in 1..Len(ls) - 1 /\ m < n + 1 /\ m \in 1..Len(ls) /\ m # n
      BY <1>1, <1>2
    <3> QED  BY <2>2, <2>5, <3>1
  <2>8. new[n] = sum
    <3>1. n \in 1..Len(ls) - 1 /\ n < n + 1
      BY <1>1, <1>2, <2>1
    <3> QED  BY <1>2, <2>2, <2>5, <3>1
  <2>9. ASSUME NEW m \in n + 1..Len(new)
        PROVE  ls[m + 1] = new[m]
    <3>1. /\ m \in 1..Len(ls) - 1 /\ ~(m < n + 1)
          /\ m + 1 \in 1..Len(ls) /\ m + 1 # n
      BY <1>1, <1>2, <2>1, <2>5
    <3> QED  BY <2>2, <2>5, <3>1
  <2>10. Broken(new, ls, n)
    <3>1. n \in 1..Len(new) /\ Len(ls) = Len(new) + 1
      BY <1>1, <1>2, <2>1, <2>5
    <3> QED  BY <2>7, <2>8, <2>9, <3>1 DEF Broken, sum
  <2>11. ls[n] = head
    BY <1>4, <1>9
  <2> QED  BY <1>3, <1>9, <2>6, <2>10, <2>11 DEF LinesAfter, n, new, head
<1> QED  BY <1>2, <1>6, <1>7, <1>8, <1>9 DEF new

\* What Transformed makes of the cursor p.
TransformedTo(p, op, q) ==
    LET before == op.pos.lineno = p.lineno /\ op.pos.offset <= p.offset
        above == op.pos.lineno < p.lineno
        left == before /\ op.pos.offset # p.offset
    IN  /\ q \in Position
        /\ ~op.newline => q.lineno = p.lineno
        /\ op.operation = INSERT /\ ~op.newline =>
             q.offset = IF before THEN p.offset + 1 ELSE p.offset
        /\ op.operation = DELETE /\ ~op.newline =>
             q.offset = IF left THEN p.offset - 1 ELSE p.offset
        /\ op.operation = INSERT /\ op.newline =>
             /\ q.lineno = IF above \/ before THEN p.lineno + 1 ELSE p.lineno
             /\ q.offset = IF before THEN p.offset - (op.pos.offset - 1)
                           ELSE p.offset
        /\ op.operation = DELETE /\ op.newline =>
             /\ q.lineno = IF above THEN p.lineno - 1 ELSE p.lineno
             /\ q.offset = IF above /\ op.pos.lineno = p.lineno - 1
                           THEN p.offset + op.pos.offset - 1
                           ELSE IF left THEN p.offset - 1 ELSE p.offset

\* calPos keeps the cursor a position, whatever the operation.
LEMMA TransformedIs ==
    ASSUME NEW p \in Position, NEW op \in Operation
    PROVE  TransformedTo(p, op, Transformed(p, op))
<1> DEFINE q == Transformed(p, op)
           before == op.pos.lineno = p.lineno /\ op.pos.offset <= p.offset
           above == op.pos.lineno < p.lineno
<1>1. /\ p.lineno \in Nat \ {0} /\ p.offset \in Nat \ {0}
      /\ op.pos.lineno \in Nat \ {0} /\ op.pos.offset \in Nat \ {0}
      /\ op.operation \in {INSERT, DELETE} /\ op.newline \in BOOLEAN
      /\ p = [lineno |-> p.lineno, offset |-> p.offset]
      /\ INSERT # DELETE
  BY DEF Operation, Position, INSERT, DELETE
<1>2. CASE op.newline /\ above /\ op.operation = INSERT
  <2>1. q = [p EXCEPT !.lineno = @ + 1]
    BY <1>1, <1>2 DEF Transformed
  <2> QED  BY <1>1, <1>2, <2>1 DEF TransformedTo, Position
<1>3. CASE op.newline /\ above /\ op.operation = DELETE
  <2>1. q = [lineno |-> p.lineno - 1,
             offset |-> IF op.pos.lineno = p.lineno - 1
                        THEN p.offset + op.pos.offset - 1 ELSE p.offset]
    BY <1>1, <1>3 DEF Transformed
  <2>2. p.lineno - 1 \in Nat \ {0} /\ p.offset + op.pos.offset - 1 \in Nat \ {0}
    BY <1>1, <1>3
  <2>3. /\ q \in Position /\ q.lineno = p.lineno - 1
        /\ q.offset = IF op.pos.lineno = p.lineno - 1
                      THEN p.offset + op.pos.offset - 1 ELSE p.offset
    BY <1>1, <2>1, <2>2 DEF Position
  <2> QED  BY <1>1, <1>3, <2>3 DEF TransformedTo
<1>4. CASE before /\ op.operation = INSERT /\ op.newline
  <2>1. q = [lineno |-> p.lineno + 1, offset |-> p.offset - (op.pos.offset - 1)]
    BY <1>1, <1>4 DEF Transformed
  <2> QED  BY <1>1, <1>4, <2>1 DEF TransformedTo, Position
<1>5. CASE before /\ op.operation = INSERT /\ ~op.newline
  <2>1. q = [p EXCEPT !.offset = @ + 1]
    BY <1>1, <1>5 DEF Transformed
  <2> QED  BY <1>1, <1>5, <2>1 DEF TransformedTo, Position
<1>6. CASE before /\ op.operation = DELETE /\ op.pos.offset # p.offset
  <2>1. q = [p EXCEPT !.offset = @ - 1]
    BY <1>1, <1>6 DEF Transformed
  <2> QED  BY <1>1, <1>6, <2>1 DEF TransformedTo, Position
<1>7. CASE /\ ~(op.newline /\ above)
           /\ ~(before /\ op.operation = INSERT)
           /\ ~(before /\ op.operation = DELETE /\ op.pos.offset # p.offset)
  <2>1. q = p
    BY <1>1, <1>7 DEF Transformed
  <2> QED  BY <1>1, <1>7, <2>1 DEF TransformedTo
<1> QED  BY <1>1, <1>2, <1>3, <1>4, <1>5, <1>6, <1>7

\* A change of another line, with no line break above the cursor, leaves the
\* cursor where it is.
LEMMA Elsewhere ==
    ASSUME NEW p \in Position, NEW op \in Operation,
           op.pos.lineno # p.lineno, ~op.newline \/ op.pos.lineno > p.lineno
    PROVE  Transformed(p, op) = p
<1>1. p.lineno \in Nat /\ op.pos.lineno \in Nat
  BY DEF Operation, Position
<1>2. ~(op.newline /\ op.pos.lineno < p.lineno)
  BY <1>1
<1> QED  BY <1>2 DEF Transformed

\* The cursor may follow changes that are apart in any order.
LEMMA ApartCommute ==
    ASSUME NEW p \in Position, NEW a \in Operation, NEW b \in Operation,
           Apart(a, b)
    PROVE  Transformed(Transformed(p, a), b) = Transformed(Transformed(p, b), a)
<1>1. ASSUME NEW x \in Operation, NEW y \in Operation,
             ~x.newline, x.pos.lineno < y.pos.lineno
      PROVE  Transformed(Transformed(p, x), y) = Transformed(Transformed(p, y), x)
  <2> DEFINE px == Transformed(p, x)
             py == Transformed(p, y)
  <2>1. /\ p.lineno \in Nat /\ x.pos.lineno \in Nat /\ y.pos.lineno \in Nat
        /\ y.operation \in {INSERT, DELETE} /\ y.newline \in BOOLEAN
    BY DEF Operation, Position
  <2>2. /\ px \in Position /\ px.lineno = p.lineno
        /\ py \in Position /\ TransformedTo(p, y, py)
    BY <1>1, TransformedIs DEF TransformedTo
  <2> HIDE DEF px, py
  <2>3. CASE p.lineno <= x.pos.lineno
    <3>1. py = p
      BY <1>1, <2>1, <2>3, Elsewhere DEF py
    <3>2. Transformed(px, y) = px
      BY <1>1, <2>1, <2>2, <2>3, Elsewhere
    <3> QED  BY <3>1, <3>2 DEF px, py
  <2>4. CASE p.lineno > x.pos.lineno
    <3>1. px = p
      BY <1>1, <2>1, <2>4, Elsewhere DEF px
    <3>2. py.lineno > x.pos.lineno
      BY <1>1, <2>1, <2>2, <2>4 DEF TransformedTo
    <3>3. Transformed(py, x) = py
      BY <1>1, <2>1, <2>2, <3>2, Elsewhere DEF Position
    <3> QED  BY <3>1, <3>3 DEF px, py
  <2> QED  BY <2>1, <2>3, <2>4
<1>2. CASE ~a.newline /\ a.pos.lineno < b.pos.lineno
  BY <1>1, <1>2
<1>3. CASE ~b.newline /\ b.pos.lineno < a.pos.lineno
  BY <1>1, <1>3
<1> QED  BY <1>2, <1>3 DEF Apart

\* Offsets are in the order of the positions.
LEMMA FlatOrder ==
    ASSUME NEW ls \in Text, NEW p \in Position, InText(ls, p),
           NEW q \in Position, InText(ls, q)
    PROVE  /\ Flat(ls, p) \in Nat
           /\ Flat(ls, q) <= Flat(ls, p) <=>
                q.lineno < p.lineno \/ (q.lineno = p.lineno /\ q.offset <= p.offset)
           /\ Flat(ls, q) < Flat(ls, p) <=>
                q.lineno < p.lineno \/ (q.lineno = p.lineno /\ q.offset < p.offset)
<1> DEFINE U == Upto(ls)
           k == p.lineno
           n == q.lineno
           i == p.offset
           j == q.offset
<1>1. /\ Len(ls) \in Nat /\ \A m \in 1..Len(ls) : ls[m] \in Nat
      /\ k \in 1..Len(ls) /\ n \in 1..Len(ls)
      /\ i \in 1..ls[k] + 1 /\ j \in 1..ls[n] + 1
      /\ \A m \in 0..Len(ls) : U[m] \in Nat
      /\ \A m \in 1..Len(ls) : U[m] = U[m - 1] + ls[m] + 1
  BY TextType, UptoByStep DEF InText, UptoSteps
<1>2. Flat(ls, p) = U[k - 1] + (i - 1) /\ Flat(ls, q) = U[n - 1] + (j - 1)
  BY DEF Flat
<1> HIDE DEF U, k, n, i, j
<1>3. /\ U[k - 1] \in Nat /\ U[n - 1] \in Nat /\ ls[k] \in Nat /\ ls[n] \in Nat
      /\ U[k] = U[k - 1] + ls[k] + 1 /\ U[n] = U[n - 1] + ls[n] + 1
      /\ k \in Nat /\ n \in Nat /\ i \in Nat \ {0} /\ j \in Nat \ {0}
      /\ i <= ls[k] + 1 /\ j <= ls[n] + 1
  <2>1. k - 1 \in 0..Len(ls) /\ n - 1 \in 0..Len(ls) /\ k \in Nat /\ n \in Nat
    BY <1>1
  <2>2. ls[k] \in Nat /\ ls[n] \in Nat
    BY <1>1
  <2>3. U[k - 1] \in Nat /\ U[n - 1] \in Nat
    BY <1>1, <2>1
  <2>4. U[k] = U[k - 1] + ls[k] + 1 /\ U[n] = U[n - 1] + ls[n] + 1
    BY <1>1
  <2>5. i \in Nat \ {0} /\ i <= ls[k] + 1
    BY <1>1, <2>2
  <2>6. j \in Nat \ {0} /\ j <= ls[n] + 1
    BY <1>1, <2>2
  <2> QED  BY <2>1, <2>2, <2>3, <2>4, <2>5, <2>6
<1>4. CASE n = k
  BY <1>2, <1>3, <1>4 DEF U, k, n, i, j
<1>5. CASE n < k
  <2>1. U[n] <= U[k - 1]
    <3>1. n \in 0..Len(ls) /\ k - 1 \in n..Len(ls)
      BY <1>1, <1>5
    <3> QED  BY <3>1, UptoGrows DEF U
  <2>2. U[n - 1] + (j - 1) < U[k - 1] + (i - 1)
    <3> DEFINE a == U[n - 1]
               b == U[k - 1]
               c == ls[n]
    <3>1. a \in Nat /\ b \in Nat /\ c \in Nat /\ a + c + 1 <= b
      BY <1>3, <2>1
    <3> HIDE DEF a, b, c
    <3>2. j <= c + 1
      BY <1>3 DEF c
    <3>3. a + (j - 1) < b + (i - 1)
      BY <1>3, <3>1, <3>2
    <3> QED  BY <3>3 DEF a, b
  <2>3. U[k - 1] + (i - 1) \in Nat /\ U[n - 1] + (j - 1) \in Nat
    BY <1>3
  <2> QED  BY <1>2, <1>3, <1>5, <2>2, <2>3 DEF k, n
<1>6. CASE k < n
  <2>1. U[k] <= U[n - 1]
    <3>1. k \in 0..Len(ls) /\ n - 1 \in k..Len(ls)
      BY <1>1, <1>6
    <3> QED  BY <3>1, UptoGrows DEF U
  <2>2. U[k - 1] + (i - 1) < U[n - 1] + (j - 1)
    <3> DEFINE a == U[k - 1]
               b == U[n - 1]
               c == ls[k]
    <3>1. a \in Nat /\ b \in Nat /\ c \in Nat /\ a + c + 1 <= b
      BY <1>3, <2>1
    <3> HIDE DEF a, b, c
    <3>2. i <= c + 1
      BY <1>3 DEF c
    <3>3. a + (i - 1) < b + (j - 1)
      BY <1>3, <3>1, <3>2
    <3> QED  BY <3>3 DEF a, b
  <2>3. U[k - 1] + (i - 1) \in Nat /\ U[n - 1] + (j - 1) \in Nat
    BY <1>3
  <2> QED  BY <1>2, <1>3, <1>6, <2>2, <2>3 DEF k, n
<1> QED  BY <1>3, <1>4, <1>5, <1>6

\* A cursor in the text that is moved by what has changed the text stays
\* between the same two characters.
Follows(ls, op, p) ==
    LET q == Transformed(p, op)
        new == Changed(ls, op)
    IN  /\ q \in Position /\ InText(new, q)
        /\ Flat(new, q) = Moved(Flat(ls, p), Flat(ls, op.pos), op.operation)

\* calPos moves a cursor that is in the text with the text around it.
LEMMA CursorFollows ==
    ASSUME NEW ls \in Text, NEW op, OnText(ls, op),
           NEW p \in Position, InText(ls, p)
    PROVE  Follows(ls, op, p)
<1> DEFINE q == Transformed(p, op)
           new == Changed(ls, op)
           U == Upto(ls)
           V == Upto(new)
           k == p.lineno
           n == op.pos.lineno
           i == p.offset
           j == op.pos.offset
           N == Len(ls)
           place == U[k - 1] + (i - 1)
           later == IF op.operation = INSERT
                    THEN IF n < k \/ (n = k /\ j <= i) THEN place + 1 ELSE place
                    ELSE IF n < k \/ (n = k /\ j < i) THEN place - 1 ELSE place
           Good == /\ q.lineno \in 1..Len(new)
                   /\ q.offset \in 1..new[q.lineno] + 1
                   /\ V[q.lineno - 1] + (q.offset - 1) = later
<1>1. /\ op \in Operation /\ op.pos \in Position /\ InText(ls, op.pos)
      /\ INSERT # DELETE
  BY DEF OnText, Operation, INSERT, DELETE
<1>2. TransformedTo(p, op, q) /\ LinesAfter(ls, op, new)
  BY <1>1, TransformedIs, ChangedIs
<1>3. /\ N \in Nat /\ k \in 1..N /\ n \in 1..N /\ i \in Nat \ {0} /\ j \in Nat \ {0}
      /\ op.operation \in {INSERT, DELETE} /\ op.newline \in BOOLEAN
      /\ new \in Text /\ Len(new) \in Nat
  <2>1. i \in Nat \ {0} /\ j \in Nat \ {0}
    BY <1>1 DEF Position
  <2> QED  BY <1>1, <1>2, <2>1, TextType DEF InText, Operation, LinesAfter
<1>4. /\ \A m \in 0..N : U[m] \in Nat
      /\ \A m \in 1..N : U[m] = U[m - 1] + ls[m] + 1
      /\ \A m \in 1..N : ls[m] \in Nat
      /\ \A m \in 0..Len(new) : V[m] \in Nat
      /\ \A m \in 1..Len(new) : V[m] = V[m - 1] + new[m] + 1
      /\ \A m \in 1..Len(new) : new[m] \in Nat
  BY <1>3, TextType, UptoByStep DEF UptoSteps
<1>5. /\ U[k - 1] \in Nat /\ ls[k] \in Nat /\ ls[n] \in Nat
      /\ i <= ls[k] + 1 /\ j <= ls[n] + 1
  <2>0. ls[k] \in Nat /\ ls[n] \in Nat
    BY <1>3, <1>4
  <2>1. k - 1 \in 0..N /\ ls[k] \in Nat /\ ls[n] \in Nat
    BY <1>3, <2>0
  <2>2. U[k - 1] \in Nat
    BY <1>4, <2>1
  <2> QED  BY <1>1, <2>1, <2>2 DEF InText
<1>6. SUFFICES Good
  <2>1. q \in Position
    BY <1>2 DEF TransformedTo
  <2>2. Moved(Flat(ls, p), Flat(ls, op.pos), op.operation) = later
    BY <1>1, FlatOrder DEF Moved, Flat
  <2> QED  BY <2>1, <2>2 DEF Follows, InText, Flat
<1>7. CASE op.operation = INSERT /\ ~op.newline
  <2>1. Longer(ls, new, n)
    BY <1>2, <1>7 DEF LinesAfter
  <2>2. /\ \A m \in 0..n - 1 : V[m] = U[m]
        /\ \A m \in n..N : V[m] = U[m] + 1
    BY <1>3, <2>1, UptoLonger
  <2>3. /\ Len(new) = N /\ new[n] = ls[n] + 1
        /\ \A m \in 1..N : m # n => new[m] = ls[m]
    BY <2>1 DEF Longer
  <2>4. /\ q.lineno = k
        /\ q.offset = IF n = k /\ j <= i THEN i + 1 ELSE i
    BY <1>1, <1>2, <1>7 DEF TransformedTo
  <2>5. later = IF n < k \/ (n = k /\ j <= i) THEN place + 1 ELSE place
    BY <1>7
  <2> HIDE DEF q, new, U, V, k, n, i, j, N, later
  <2>6. V[k - 1] = IF n < k THEN U[k - 1] + 1 ELSE U[k - 1]
    <3>1. CASE n < k
      <4>1. k - 1 \in n..N
        BY <1>3, <3>1
      <4> QED  BY <2>2, <3>1, <4>1
    <3>2. CASE ~(n < k)
      <4>1. k - 1 \in 0..n - 1
        BY <1>3, <3>2
      <4> QED  BY <2>2, <3>2, <4>1
    <3> QED  BY <3>1, <3>2
  <2>7. new[k] = IF n = k THEN ls[k] + 1 ELSE ls[k]
    BY <1>3, <2>3
  <2>8. V[k - 1] + (q.offset - 1) = later
    BY <1>3, <1>5, <2>4, <2>5, <2>6
  <2>9. q.offset \in 1..new[k] + 1
    BY <1>3, <1>5, <2>4, <2>7
  <2> QED  BY <1>3, <2>3, <2>4, <2>8, <2>9
<1>8. CASE op.operation = DELETE /\ ~op.newline
  <2>1. Longer(new, ls, n)
    BY <1>2, <1>8 DEF LinesAfter
  <2>3. /\ Len(new) = N /\ ls[n] = new[n] + 1
        /\ \A m \in 1..N : m # n => ls[m] = new[m]
    BY <2>1 DEF Longer
  <2>2. /\ \A m \in 0..n - 1 : U[m] = V[m]
        /\ \A m \in n..N : U[m] = V[m] + 1
    BY <1>3, <2>1, <2>3, UptoLonger
  <2>4. /\ q.lineno = k
        /\ q.offset = IF n = k /\ j < i THEN i - 1 ELSE i
    BY <1>1, <1>2, <1>3, <1>8 DEF TransformedTo
  <2>5. later = IF n < k \/ (n = k /\ j < i) THEN place - 1 ELSE place
    BY <1>1, <1>8
  <2>10. j # ls[n] + 1
    BY <1>8 DEF OnText
  <2> HIDE DEF q, new, U, V, k, n, i, j, N, later
  <2>6. /\ U[k - 1] = IF n < k THEN V[k - 1] + 1 ELSE V[k - 1]
        /\ V[k - 1] \in Nat
    <3>1. CASE n < k
      <4>1. k - 1 \in n..N /\ k - 1 \in 0..Len(new)
        BY <1>3, <2>3, <3>1
      <4> QED  BY <1>4, <2>2, <3>1, <4>1
    <3>2. CASE ~(n < k)
      <4>1. k - 1 \in 0..n - 1 /\ k - 1 \in 0..Len(new)
        BY <1>3, <2>3, <3>2
      <4> QED  BY <1>4, <2>2, <3>2, <4>1
    <3> QED  BY <3>1, <3>2
  <2>7. /\ ls[k] = IF n = k THEN new[k] + 1 ELSE new[k]
        /\ new[k] \in Nat
    BY <1>3, <1>4, <2>3
  <2>8. V[k - 1] + (q.offset - 1) = later
    BY <1>3, <1>5, <2>4, <2>5, <2>6
  <2>9. q.offset \in 1..new[k] + 1
    BY <1>3, <1>5, <2>4, <2>7, <2>10
  <2> QED  BY <1>3, <2>3, <2>4, <2>8, <2>9
<1>9. CASE op.operation = INSERT /\ op.newline
  <2>1. Broken(ls, new, n) /\ new[n] = j - 1
    BY <1>2, <1>9 DEF LinesAfter
  <2>2. /\ \A m \in 0..n - 1 : V[m] = U[m]
        /\ V[n] = U[n - 1] + new[n] + 1
        /\ \A m \in n..N : V[m + 1] = U[m] + 1
    BY <1>3, <2>1, UptoBroken
  <2>3. /\ Len(new) = N + 1 /\ new[n] + new[n + 1] = ls[n]
        /\ \A m \in 1..n - 1 : new[m] = ls[m]
        /\ \A m \in n + 1..N : new[m + 1] = ls[m]
    BY <2>1 DEF Broken
  <2>4. /\ q.lineno = IF n < k \/ (n = k /\ j <= i) THEN k + 1 ELSE k
        /\ q.offset = IF n = k /\ j <= i THEN i - (j - 1) ELSE i
    BY <1>1, <1>2, <1>9 DEF TransformedTo
  <2>5. later = IF n < k \/ (n = k /\ j <= i) THEN place + 1 ELSE place
    BY <1>9
  <2> HIDE DEF q, new, U, V, k, n, i, j, N, later
  <2>6. CASE n < k
    <3>1. q.lineno = k + 1 /\ q.offset = i /\ later = place + 1
      BY <1>3, <2>4, <2>5, <2>6
    <3>2. /\ k \in n + 1..N /\ k - 1 \in n..N /\ k - 1 + 1 = k /\ k + 1 - 1 = k
          /\ k + 1 \in 1..N + 1
      BY <1>3, <2>6
    <3>3. new[k + 1] = ls[k] /\ V[k] = U[k - 1] + 1
      <4>1. V[k - 1 + 1] = U[k - 1] + 1
        BY <2>2, <3>2
      <4> QED  BY <2>3, <3>2, <4>1
    <3>4. V[q.lineno - 1] + (q.offset - 1) = later
      BY <1>3, <1>5, <3>1, <3>2, <3>3
    <3>5. q.offset \in 1..new[q.lineno] + 1
      BY <1>3, <1>5, <3>1, <3>3
    <3>6. q.lineno \in 1..Len(new)
      BY <2>3, <3>1, <3>2
    <3> QED  BY <3>4, <3>5, <3>6
  <2>7. CASE n = k /\ j <= i
    <3>1. q.lineno = k + 1 /\ q.offset = i - (j - 1) /\ later = place + 1
      BY <1>3, <2>4, <2>5, <2>7
    <3>2. k + 1 - 1 = k /\ k + 1 \in 1..N + 1 /\ k + 1 \in 1..Len(new)
      BY <1>3, <2>3
    <3>3. V[k] = U[k - 1] + (j - 1) + 1
      BY <1>3, <2>1, <2>2, <2>7
    <3>4. new[k + 1] \in Nat /\ (j - 1) + new[k + 1] = ls[k]
      BY <1>4, <2>1, <2>3, <2>7, <3>2
    <3>5. V[q.lineno - 1] + (q.offset - 1) = later
      BY <1>3, <1>5, <2>7, <3>1, <3>2, <3>3
    <3>6. q.offset \in 1..new[k + 1] + 1
      <4> DEFINE x == new[k + 1]
                 y == ls[k]
      <4>1. /\ x \in Nat /\ y \in Nat /\ (j - 1) + x = y /\ i <= y + 1
            /\ i \in Nat \ {0} /\ j \in Nat \ {0} /\ j <= i
        BY <1>3, <1>5, <2>7, <3>4
      <4>2. q.offset = i - (j - 1)
        BY <3>1
      <4> HIDE DEF x, y
      <4>3. i - (j - 1) \in 1..x + 1
        BY <4>1
      <4> QED  BY <4>2, <4>3 DEF x
    <3> QED  BY <3>1, <3>2, <3>5, <3>6
  <2>8. CASE k < n \/ (n = k /\ i < j)
    <3>1. q.lineno = k /\ q.offset = i /\ later = place
      BY <1>3, <2>4, <2>5, <2>8
    <3>2. k - 1 \in 0..n - 1 /\ k \in 1..Len(new)
      BY <1>3, <2>3, <2>8
    <3>3. V[k - 1] = U[k - 1]
      BY <2>2, <3>2
    <3>4. new[k] \in Nat /\ i <= new[k] + 1
      <4>1. CASE k < n
        <5>1. k \in 1..n - 1
          BY <1>3, <4>1
        <5> QED  BY <1>5, <2>3, <5>1
      <4>2. CASE n = k /\ i < j
        BY <1>3, <2>1, <4>2
      <4> QED  BY <2>8, <4>1, <4>2
    <3>5. V[q.lineno - 1] + (q.offset - 1) = later
      BY <3>1, <3>3
    <3>6. q.offset \in 1..new[k] + 1
      BY <1>3, <3>1, <3>4
    <3> QED  BY <3>1, <3>2, <3>5, <3>6
  <2> QED  BY <1>3, <2>6, <2>7, <2>8
<1>10. CASE op.operation = DELETE /\ op.newline
  <2>1. Broken(new, ls, n) /\ ls[n] = j - 1
    BY <1>2, <1>10 DEF LinesAfter
  <2>3. /\ N = Len(new) + 1 /\ ls[n] + ls[n + 1] = new[n]
        /\ \A m \in 1..n - 1 : ls[m] = new[m]
        /\ \A m \in n + 1..Len(new) : ls[m + 1] = new[m]
        /\ n \in 1..Len(new)
    BY <2>1 DEF Broken
  <2>2. /\ \A m \in 0..n - 1 : U[m] = V[m]
        /\ U[n] = V[n - 1] + ls[n] + 1
        /\ \A m \in n..Len(new) : U[m + 1] = V[m] + 1
    <3>1. new \in Text /\ Broken(new, ls, n)
      BY <1>3, <2>1
    <3> HIDE DEF new, n
    <3> QED  BY <3>1, UptoBroken
  <2>4. /\ q.lineno = IF n < k THEN k - 1 ELSE k
        /\ q.offset = IF n < k /\ n = k - 1 THEN i + j - 1
                      ELSE IF n = k /\ j < i THEN i - 1 ELSE i
    BY <1>1, <1>2, <1>3, <1>10 DEF TransformedTo
  <2>5. later = IF n < k \/ (n = k /\ j < i) THEN place - 1 ELSE place
    BY <1>1, <1>10
  <2> HIDE DEF q, new, U, V, k, n, i, j, N, later
  <2>6. CASE n = k - 1
    <3>1. q.lineno = n /\ q.offset = i + j - 1 /\ later = place - 1
      BY <1>3, <2>4, <2>5, <2>6
    <3>2. k = n + 1 /\ n - 1 \in 0..Len(new)
      BY <1>3, <2>3, <2>6
    <3>3. U[k - 1] = V[n - 1] + (j - 1) + 1 /\ V[n - 1] \in Nat
      BY <1>4, <2>1, <2>2, <2>6, <3>2
    <3>4. new[n] = (j - 1) + ls[k]
      BY <2>1, <2>3, <3>2
    <3>5. V[n - 1] + (q.offset - 1) = later
      BY <1>3, <3>1, <3>3
    <3>6. i + j - 1 \in 1..new[n] + 1
      BY <1>3, <1>5, <3>4
    <3> QED  BY <2>3, <3>1, <3>5, <3>6
  <2>7. CASE n < k - 1
    <3>1. q.lineno = k - 1 /\ q.offset = i /\ later = place - 1
      BY <1>3, <2>4, <2>5, <2>7
    <3>2. /\ k - 1 \in n + 1..Len(new) /\ k - 1 - 1 \in n..Len(new)
          /\ k - 1 + 1 = k /\ k - 1 - 1 + 1 = k - 1 /\ k - 1 \in 1..Len(new)
          /\ k - 1 - 1 \in 0..Len(new)
      BY <1>3, <2>3, <2>7
    <3>3. ls[k] = new[k - 1]
      BY <2>3, <3>2
    <3>4. U[k - 1] = V[k - 1 - 1] + 1 /\ V[k - 1 - 1] \in Nat
      BY <1>4, <2>2, <3>2
    <3>5. V[k - 1 - 1] + (i - 1) = later
      BY <1>3, <3>1, <3>4
    <3>6. i \in 1..new[k - 1] + 1
      BY <1>3, <1>5, <3>3
    <3> QED  BY <3>1, <3>2, <3>5, <3>6
  <2>8. CASE k <= n
    <3>1. q.lineno = k /\ q.offset = i /\ later = place
      <4>1. n = k => i <= j
        BY <1>3, <1>5, <2>1
      <4> QED  BY <1>3, <2>4, <2>5, <2>8, <4>1
    <3>2. k - 1 \in 0..n - 1 /\ k \in 1..Len(new)
      BY <1>3, <2>3, <2>8
    <3>3. V[k - 1] = U[k - 1]
      BY <2>2, <3>2
    <3>4. new[k] \in Nat /\ i <= new[k] + 1
      <4>1. CASE k < n
        <5>1. k \in 1..n - 1
          BY <1>3, <4>1
        <5> QED  BY <1>5, <2>3, <5>1
      <4>2. CASE n = k
        <5>1. n + 1 \in 1..N /\ ls[n + 1] \in Nat
          BY <1>3, <1>4, <2>3
        <5> DEFINE x == new[k]
                   y == ls[n + 1]
                   z == ls[n]
        <5>2. /\ x = z + y /\ y \in Nat /\ z \in Nat /\ i <= z + 1 /\ i \in Nat
          BY <1>3, <1>5, <2>3, <4>2, <5>1
        <5> HIDE DEF x, y, z
        <5>3. x \in Nat /\ i <= x + 1
          BY <5>2
        <5> QED  BY <5>3 DEF x
      <4> QED  BY <1>3, <2>8, <4>1, <4>2
    <3>5. V[k - 1] + (i - 1) = later
      BY <3>1, <3>3
    <3>6. i \in 1..new[k] + 1
      BY <1>3, <3>4
    <3> QED  BY <3>1, <3>2, <3>5, <3>6
  <2> QED  BY <1>3, <2>6, <2>7, <2>8
<1> QED  BY <1>3, <1>7, <1>8, <1>9, <1>10

\* The length of the text, with its line breaks but the last.
Total(ls) == Flat(ls, EndOfText(ls))

\* A line is no longer than the text.
LEMMA LineFits ==
    ASSUME NEW ls \in Text, NEW n \in 1..Len(ls)
    PROVE  /\ ls[n] \in Nat /\ Total(ls) \in Nat
           /\ Upto(ls)[n - 1] \in Nat
           /\ Upto(ls)[n - 1] + ls[n] <= Total(ls)
           /\ ls[n] <= Total(ls)
<1> DEFINE p == [lineno |-> n, offset |-> ls[n] + 1]
           e == EndOfText(ls)
<1>1. Len(ls) \in Nat \ {0} /\ ls[n] \in Nat
  BY TextType
<1>2. p \in Position /\ InText(ls, p)
  BY <1>1 DEF Position, InText
<1>3. /\ e \in Position /\ InText(ls, e) /\ e.lineno = Len(ls)
      /\ e.offset = ls[Len(ls)] + 1
  BY EndType
<1>4. p.lineno = n /\ p.offset = ls[n] + 1
  OBVIOUS
<1> HIDE DEF p, e
<1>5. Flat(ls, p) = Upto(ls)[n - 1] + ((ls[n] + 1) - 1)
  BY <1>4 DEF Flat
<1>6. p.lineno < e.lineno \/ (p.lineno = e.lineno /\ p.offset <= e.offset)
  <2>1. CASE n = Len(ls)
    BY <1>1, <1>3, <1>4, <2>1
  <2>2. CASE n # Len(ls)
    BY <1>1, <1>3, <1>4, <2>2
  <2> QED  BY <2>1, <2>2
<1>7. Flat(ls, p) <= Flat(ls, e) /\ Flat(ls, e) \in Nat
  BY <1>2, <1>3, <1>6, FlatOrder
<1>8. Upto(ls)[n - 1] \in Nat
  <2>1. n - 1 \in 0..Len(ls)
    BY <1>1
  <2> QED  BY <2>1, UptoByStep DEF UptoSteps
<1> QED  BY <1>1, <1>5, <1>7, <1>8 DEF Total, e

\* An operation makes the text longer by one at the most.
LEMMA TotalGrows ==
    ASSUME NEW ls \in Text, NEW op, OnText(ls, op)
    PROVE  /\ Total(ls) \in Nat /\ Total(Changed(ls, op)) \in Nat
           /\ Total(Changed(ls, op)) <= Total(ls) + 1
<1> DEFINE new == Changed(ls, op)
           N == Len(ls)
           M == Len(new)
           n == op.pos.lineno
<1>1. LinesAfter(ls, op, new)
  BY ChangedIs
<1>2. new \in Text
  BY <1>1 DEF LinesAfter
<1>3. N \in Nat \ {0} /\ M \in Nat \ {0} /\ N \in 1..N /\ M \in 1..M
  BY <1>2, TextType
<1>4. /\ Total(ls) = Upto(ls)[N - 1] + ls[N] /\ Upto(ls)[N - 1] \in Nat
      /\ Upto(ls)[N] = Upto(ls)[N - 1] + ls[N] + 1 /\ ls[N] \in Nat
      /\ Total(ls) \in Nat
  <2>1. /\ Total(ls) = Upto(ls)[N - 1] + (ls[N] + 1 - 1)
        /\ ls[N] \in Nat /\ Upto(ls)[N - 1] \in Nat
    BY <1>3, EndType, LineFits DEF Total, Flat
  <2>2. Upto(ls)[N] = Upto(ls)[N - 1] + ls[N] + 1
    BY <1>3, UptoByStep DEF UptoSteps
  <2> QED  BY <2>1, <2>2
<1>5. /\ Total(new) = Upto(new)[M - 1] + new[M] /\ Upto(new)[M - 1] \in Nat
      /\ Upto(new)[M] = Upto(new)[M - 1] + new[M] + 1 /\ new[M] \in Nat
      /\ Total(new) \in Nat
  <2> HIDE DEF new
  <2>1. /\ Total(new) = Upto(new)[M - 1] + (new[M] + 1 - 1)
        /\ new[M] \in Nat /\ Upto(new)[M - 1] \in Nat
    BY <1>2, <1>3, EndType, LineFits DEF Total, Flat
  <2>2. Upto(new)[M] = Upto(new)[M - 1] + new[M] + 1
    BY <1>2, <1>3, UptoByStep DEF UptoSteps
  <2> QED  BY <2>1, <2>2
<1>6. Upto(new)[M] <= Upto(ls)[N] + 1
  <2> HIDE DEF new
  <2>1. Upto(ls)[N] \in Nat /\ Upto(new)[M] \in Nat
    <3>1. N \in 0..N /\ M \in 0..M
      BY <1>3
    <3> HIDE DEF N, M
    <3>2. Upto(ls)[N] \in Nat
      BY <3>1, UptoByStep DEF UptoSteps, N
    <3>3. Upto(new)[M] \in Nat
      BY <1>2, <3>1, UptoByStep DEF UptoSteps, M
    <3> QED  BY <3>2, <3>3
  <2>2. CASE Longer(ls, new, n)
    <3>1. M = N /\ N \in n..N
      BY <1>3, <2>2 DEF Longer
    <3> QED  BY <1>2, <2>1, <2>2, <3>1, UptoLonger
  <2>3. CASE Longer(new, ls, n)
    <3>1. M = N /\ M \in n..M
      BY <1>3, <2>3 DEF Longer
    <3>2. Upto(ls)[M] = Upto(new)[M] + 1
      BY <1>2, <2>3, <3>1, UptoLonger
    <3> QED  BY <2>1, <3>1, <3>2
  <2>4. CASE Broken(ls, new, n)
    <3>1. M = N + 1 /\ N \in n..N
      BY <1>3, <2>4 DEF Broken
    <3>2. Upto(new)[N + 1] = Upto(ls)[N] + 1
      BY <1>2, <2>4, <3>1, UptoBroken
    <3> QED  BY <2>1, <3>1, <3>2
  <2>5. CASE Broken(new, ls, n)
    <3>1. N = M + 1 /\ M \in n..M
      BY <1>3, <2>5 DEF Broken
    <3>2. Upto(ls)[M + 1] = Upto(new)[M] + 1
      BY <1>2, <2>5, <3>1, UptoBroken
    <3> QED  BY <2>1, <3>1, <3>2
  <2>6. op.operation \in {INSERT, DELETE} /\ op.newline \in BOOLEAN
    BY DEF OnText, Operation
  <2> QED  BY <1>1, <2>2, <2>3, <2>4, <2>5, <2>6 DEF LinesAfter
<1> DEFINE a == Upto(ls)[N - 1]
           b == ls[N]
           c == Upto(new)[M - 1]
           d == new[M]
<1>7. /\ a \in Nat /\ b \in Nat /\ c \in Nat /\ d \in Nat
      /\ Total(ls) = a + b /\ Total(new) = c + d
      /\ c + d + 1 <= a + b + 1 + 1
  BY <1>4, <1>5, <1>6
<1> HIDE DEF a, b, c, d, new
<1>8. c + d <= a + b + 1
  BY <1>7
<1> QED  BY <1>4, <1>5, <1>7, <1>8 DEF new

\* The cursor that is kept inside its line.
LEMMA ClampedIs ==
    ASSUME NEW ls \in Text, NEW p \in Position, p.lineno <= Len(ls)
    PROVE  /\ Clamped(ls, p) \in Position
           /\ InText(ls, Clamped(ls, p))
           /\ Clamped(ls, p).lineno = p.lineno
           /\ Clamped(ls, p).offset = Min2(p.offset, ls[p.lineno] + 1)
           /\ InText(ls, p) => Clamped(ls, p) = p
           /\ Clamped(ls, Clamped(ls, p)) = Clamped(ls, p)
<1>1. /\ p.lineno \in 1..Len(ls) /\ p.lineno \in Nat \ {0}
      /\ p.offset \in Nat \ {0} /\ ls[p.lineno] \in Nat
      /\ p = [lineno |-> p.lineno, offset |-> p.offset]
  <2>1. Len(ls) \in Nat
    BY TextType
  <2>2. p.lineno \in 1..Len(ls)
    BY <2>1 DEF Position
  <2> QED  BY <2>2, TextType DEF Position
<1> DEFINE m == Min2(p.offset, ls[p.lineno] + 1)
           c == Clamped(ls, p)
<1>2. c = [p EXCEPT !.offset = m]
  BY DEF Clamped
<1>3. /\ m \in Nat \ {0} /\ m <= ls[p.lineno] + 1
      /\ p.offset <= ls[p.lineno] + 1 => m = p.offset
  BY <1>1 DEF Min2
<1>4. Min2(m, ls[p.lineno] + 1) = m
  BY <1>1, <1>3 DEF Min2
<1> HIDE DEF m
<1>5. c \in Position /\ c.lineno = p.lineno /\ c.offset = m
  BY <1>1, <1>2, <1>3 DEF Position
<1>6. InText(ls, c)
  BY <1>1, <1>3, <1>5 DEF InText
<1>7. InText(ls, p) => c = p
  <2>1. InText(ls, p) => m = p.offset
    BY <1>1, <1>3 DEF InText
  <2> QED  BY <1>1, <1>2, <2>1
<1>8. Clamped(ls, c) = c
  <2> HIDE DEF c
  <2>1. Clamped(ls, c) = [c EXCEPT !.offset = Min2(c.offset, ls[c.lineno] + 1)]
    BY DEF Clamped
  <2>2. c = [lineno |-> c.lineno, offset |-> c.offset]
    BY <1>5 DEF Position
  <2> QED  BY <1>4, <1>5, <2>1, <2>2
<1> QED  BY <1>5, <1>6, <1>7, <1>8 DEF m

\* The cursor that a queue moves, step by step.
IsPath(p, ops, f) ==
    f[0] = p /\ \A n \in 1..Len(ops) : f[n] = Transformed(f[n - 1], ops[n])

\* The queue moves the cursor position by position.
LEMMA FollowedPath ==
    ASSUME NEW p \in Position, NEW ops \in Seq(Operation)
    PROVE  \E f \in [0..Len(ops) -> Position] :
              IsPath(p, ops, f) /\ Followed(p, ops) = f[Len(ops)]
<1> DEFINE N == Len(ops)
           Eq(f) == f = [n \in 0..N |-> IF n = 0 THEN p
                                        ELSE Transformed(f[n - 1], ops[n])]
           pos == CHOOSE f : Eq(f)
<1>1. N \in Nat /\ \A n \in 1..N : ops[n] \in Operation
  BY ElementOfSeq
<1>2. \A q \in Position, op \in Operation : Transformed(q, op) \in Position
  BY TransformedIs DEF TransformedTo
<1>3. PICK f \in [0..N -> Position] : IsPath(p, ops, f)
  <2> DEFINE Go(n, q) == Transformed(q, ops[n])
             step == [n \in 1..N |-> [q \in Position |-> Go(n, q)]]
  <2>1. step \in [1..N -> [Position -> Position]]
    BY <1>1, <1>2
  <2>2. \A n \in 1..N : \A q \in Position : step[n][q] = Go(n, q)
    OBVIOUS
  <2> HIDE DEF step, Go
  <2>3. PICK f \in [0..N -> Position] :
            f[0] = p /\ \A n \in 1..N : f[n] = step[n][f[n - 1]]
    <3>1. Lemmas!Recursive(Position, p, N, step)
      <4>2. 1 \in Nat \ {0} /\ 1 < 2^15
        OBVIOUS
      <4> HIDE DEF N
      <4> QED  BY <1>1, <2>1, <4>2, Lemmas!Recursion, ZenonT(40)
    <3> QED  BY <3>1 DEF Lemmas!Recursive
  <2>4. \A n \in 1..N : f[n] = Go(n, f[n - 1])
    <3>1. \A n \in 1..N : f[n - 1] \in Position
      BY <1>1, <2>3
    <3> QED  BY <2>2, <2>3, <3>1
  <2> QED  BY <2>3, <2>4 DEF Go, IsPath
<1>4. Eq(pos)
  <2>1. Eq(f)
    BY <1>1, <1>3 DEF IsPath
  <2> HIDE DEF Eq
  <2> QED  BY <2>1
<1>5. Followed(p, ops) = pos[N]
  BY DEF Followed
<1>6. pos \in [0..N -> Position] /\ IsPath(p, ops, pos)
  <2>1. pos = [n \in 0..N |-> IF n = 0 THEN p ELSE Transformed(pos[n - 1], ops[n])]
    BY <1>4
  <2> HIDE DEF pos
  <2>2. pos[0] = p
    BY <1>1, <2>1
  <2>3. ASSUME NEW n \in 1..N
        PROVE  pos[n] = Transformed(pos[n - 1], ops[n])
    <3>1. n \in 0..N /\ n # 0
      BY <1>1
    <3> QED  BY <2>1, <3>1
  <2> DEFINE T == { n \in 0..N : pos[n] \in Position }
  <2>4. 0 \in T /\ 0 \in 0..N
    BY <1>1, <2>2
  <2>5. ASSUME NEW n \in 0..N, n \in T, n < N
        PROVE  n + 1 \in T
    <3>1. n + 1 \in 1..N /\ n + 1 \in 0..N /\ n + 1 - 1 = n
      BY <1>1, <2>5
    <3>2. pos[n + 1] = Transformed(pos[n + 1 - 1], ops[n + 1]) /\ ops[n + 1] \in Operation
      BY <1>1, <2>3, <3>1
    <3>3. pos[n] \in Position
      BY <2>5
    <3> QED  BY <1>2, <3>1, <3>2, <3>3
  <2>6. \A n \in 0..N : n \in T
    <3> HIDE DEF T, N
    <3> QED  BY <1>1, <2>4, <2>5, LineInduction
  <2>7. pos \in [0..N -> Position]
    BY <2>1, <2>6
  <2> QED  BY <2>2, <2>3, <2>7 DEF IsPath
<1> HIDE DEF pos
<1> QED  BY <1>5, <1>6

\* There is one such path.
LEMMA FollowedBy ==
    ASSUME NEW p \in Position, NEW ops \in Seq(Operation),
           NEW f, IsPath(p, ops, f)
    PROVE  Followed(p, ops) = f[Len(ops)]
<1> DEFINE N == Len(ops)
<1>1. N \in Nat
  BY LenProperties
<1>2. PICK g \in [0..N -> Position] : IsPath(p, ops, g) /\ Followed(p, ops) = g[N]
  BY FollowedPath
<1>3. /\ f[0] = g[0]
      /\ \A n \in 1..N : f[n] = Transformed(f[n - 1], ops[n])
      /\ \A n \in 1..N : g[n] = Transformed(g[n - 1], ops[n])
  BY <1>2 DEF IsPath
<1> DEFINE T == { n \in 0..N : f[n] = g[n] }
<1> HIDE DEF N
<1>4. 0 \in T /\ 0 \in 0..N
  BY <1>1, <1>3
<1>5. ASSUME NEW n \in 0..N, n \in T, n < N
      PROVE  n + 1 \in T
  <2>1. n + 1 \in 1..N /\ n + 1 \in 0..N /\ n + 1 - 1 = n
    BY <1>1, <1>5
  <2>2. /\ f[n + 1] = Transformed(f[n + 1 - 1], ops[n + 1])
        /\ g[n + 1] = Transformed(g[n + 1 - 1], ops[n + 1])
    BY <1>3, <2>1
  <2> QED  BY <1>5, <2>1, <2>2
<1>6. \A n \in 0..N : n \in T
  <2> HIDE DEF T
  <2> QED  BY <1>1, <1>4, <1>5, LineInduction
<1>7. N \in 0..N
  BY <1>1
<1> QED  BY <1>2, <1>6, <1>7 DEF N

\* The queue is gone through from its head, and grows at its end.
LEMMA FollowedEmpty ==
    ASSUME NEW p \in Position
    PROVE  Followed(p, <<>>) = p
<1> DEFINE f == [n \in {0} |-> p]
<1>1. IsPath(p, <<>>, f) /\ Len(<<>>) = 0 /\ <<>> \in Seq(Operation) /\ f[0] = p
  BY DEF IsPath
<1> HIDE DEF f
<1>2. Followed(p, <<>>) = f[Len(<<>>)]
  BY <1>1, FollowedBy
<1> QED  BY <1>1, <1>2

\* It may be taken from the front, as calPos does,
LEMMA FollowedNext ==
    ASSUME NEW p \in Position, NEW ops \in Seq(Operation), ops # <<>>
    PROVE  Followed(p, ops) = Followed(Transformed(p, Head(ops)), Tail(ops))
<1> DEFINE N == Len(ops)
           q == Transformed(p, Head(ops))
<1>1. N \in Nat \ {0} /\ Head(ops) \in Operation /\ Head(ops) = ops[1]
      /\ Tail(ops) \in Seq(Operation) /\ Len(Tail(ops)) = N - 1
      /\ \A n \in 1..N - 1 : Tail(ops)[n] = ops[n + 1]
  OBVIOUS
<1>2. q \in Position
  BY <1>1, TransformedIs DEF TransformedTo
<1>3. PICK f \in [0..N -> Position] : IsPath(p, ops, f) /\ Followed(p, ops) = f[N]
  BY FollowedPath
<1>4. f[0] = p /\ \A n \in 1..N : f[n] = Transformed(f[n - 1], ops[n])
  BY <1>3 DEF IsPath
<1> DEFINE g == [n \in 0..N - 1 |-> f[n + 1]]
<1> HIDE DEF N
<1>5. IsPath(q, Tail(ops), g)
  <2>1. g[0] = q
    <3>1. 0 \in 0..N - 1 /\ 1 \in 1..N /\ 0 + 1 = 1 /\ 1 - 1 = 0
      BY <1>1
    <3>2. g[0] = f[1]
      BY <3>1
    <3>3. f[1] = Transformed(f[1 - 1], ops[1])
      BY <1>4, <3>1
    <3> QED  BY <1>1, <1>4, <3>1, <3>2, <3>3
  <2>2. ASSUME NEW n \in 1..N - 1
        PROVE  g[n] = Transformed(g[n - 1], Tail(ops)[n])
    <3>1. /\ n \in 0..N - 1 /\ n - 1 \in 0..N - 1 /\ n + 1 \in 1..N
          /\ n + 1 - 1 = n /\ n - 1 + 1 = n
      BY <1>1
    <3>2. g[n] = f[n + 1] /\ g[n - 1] = f[n - 1 + 1]
      BY <3>1
    <3>3. f[n + 1] = Transformed(f[n + 1 - 1], ops[n + 1]) /\ Tail(ops)[n] = ops[n + 1]
      BY <1>1, <1>4, <3>1
    <3> QED  BY <3>1, <3>2, <3>3
  <2> QED  BY <1>1, <2>1, <2>2 DEF IsPath
<1>6. g[N - 1] = f[N]
  <2>1. N - 1 \in 0..N - 1 /\ N - 1 + 1 = N
    BY <1>1
  <2> QED  BY <2>1
<1> HIDE DEF g, q
<1>7. Followed(q, Tail(ops)) = g[Len(Tail(ops))]
  BY <1>1, <1>2, <1>5, FollowedBy
<1> QED  BY <1>1, <1>3, <1>6, <1>7 DEF q

\* ... and grows at the end with each change.
LEMMA FollowedAppend ==
    ASSUME NEW p \in Position, NEW ops \in Seq(Operation), NEW op \in Operation
    PROVE  /\ Followed(p, ops) \in Position
           /\ Followed(p, Append(ops, op)) = Transformed(Followed(p, ops), op)
<1> DEFINE N == Len(ops)
           new == Append(ops, op)
<1>1. /\ N \in Nat /\ new \in Seq(Operation) /\ Len(new) = N + 1
      /\ \A n \in 1..N : new[n] = ops[n]
      /\ new[N + 1] = op
  OBVIOUS
<1>2. PICK f \in [0..Len(new) -> Position] :
         IsPath(p, new, f) /\ Followed(p, new) = f[Len(new)]
  BY <1>1, FollowedPath
<1> HIDE DEF N, new
<1>3. f[0] = p /\ \A n \in 1..N + 1 : f[n] = Transformed(f[n - 1], new[n])
  BY <1>1, <1>2 DEF IsPath
<1>4. IsPath(p, ops, f)
  <2>1. ASSUME NEW n \in 1..N
        PROVE  f[n] = Transformed(f[n - 1], ops[n])
    <3>1. n \in 1..N + 1
      BY <1>1
    <3> QED  BY <1>1, <1>3, <3>1
  <2> QED  BY <1>3, <2>1 DEF IsPath, N
<1>5. Followed(p, ops) = f[N]
  BY <1>4, FollowedBy DEF N
<1>6. N \in 0..N + 1 /\ N + 1 \in 1..N + 1 /\ N + 1 - 1 = N
  BY <1>1
<1>7. f[N + 1] = Transformed(f[N + 1 - 1], new[N + 1]) /\ f[N] \in Position
  BY <1>1, <1>2, <1>3, <1>6
<1> QED  BY <1>1, <1>2, <1>5, <1>6, <1>7 DEF new

-----------------------------------------------------------------------------
(***************************************************************************)
(* What scrolls the screen.                                                *)
(***************************************************************************)

\* The screen has five rows, and half of them are two, at least.
LEMMA HalfHeight ==
    /\ CONTENT_LINES \in Nat /\ CONTENT_LINES >= 5
    /\ HALF_HEIGHT \in Nat /\ HALF_HEIGHT >= 2
    /\ 2 * HALF_HEIGHT <= CONTENT_LINES /\ CONTENT_LINES <= 2 * HALF_HEIGHT + 1
<1>1. CONTENT_LINES \in Nat /\ CONTENT_LINES >= 5
  BY ContentLinesAssumption
<1> QED  BY <1>1 DEF HALF_HEIGHT

\* Rounded up to half screens.
LEMMA HalvesIs ==
    ASSUME NEW d \in Nat
    PROVE  /\ HALF_HEIGHT * Halves(d) \in Nat
           /\ HALF_HEIGHT * Halves(d) >= d
           /\ HALF_HEIGHT * Halves(d) < d + HALF_HEIGHT
           /\ d = 0 => HALF_HEIGHT * Halves(d) = 0
<1> DEFINE h == HALF_HEIGHT
           x == d + h - 1
           k == x \div h
<1>1. h \in Nat /\ h >= 2
  BY HalfHeight
<1> HIDE DEF h
<1>2. x \in Nat
  BY <1>1
<1>3. k \in Nat /\ h * k <= x /\ x < h * k + h
  <2> HIDE DEF x
  <2> QED  BY <1>1, <1>2
<1>4. Halves(d) = k
  BY DEF Halves, h
<1>5. h * k \in Nat
  BY <1>1, <1>3
<1>6. d = 0 => k = 0
  BY <1>1
<1>7. k = 0 => h * k = 0
  BY <1>1
<1> DEFINE y == h * k
<1> HIDE DEF k, y
<1>8. y \in Nat /\ y <= x /\ x < y + h
  BY <1>3, <1>5 DEF y
<1>9. y >= d /\ y < d + h
  BY <1>1, <1>8
<1> QED  BY <1>4, <1>5, <1>6, <1>7, <1>9 DEF h, y

\* The line of the cursor is on the screen that has been scrolled to it, and
\* a screen that shows it is not scrolled, unless it starts below the text.
LEMMA ScrolledIs ==
    ASSUME NEW n \in Nat \ {0}, NEW start \in Nat \ {0}, NEW total \in Nat \ {0}
    PROVE  LET new == Scrolled(n, start, total)
           IN  /\ new \in Nat \ {0}
               /\ Min2(n, total) - new \in Rows
               /\ n - start \in Rows /\ start <= total => new = start
               /\ n - start \in Rows /\ start > total =>
                    /\ new < start /\ new <= total
                    /\ total <= new + HALF_HEIGHT
<1> DEFINE C == CONTENT_LINES
           H == HALF_HEIGHT
           new == Scrolled(n, start, total)
           far == Max2(0, n - start - C + 1)
           dn == H * Halves(far)
           down == start + dn
           inside == IF down > total THEN total - H ELSE down
           above == Max2(0, inside - n)
           back == H * Halves(above)
           up == inside - back
<1>1. /\ C \in Nat /\ C >= 5 /\ H \in Nat /\ H >= 2 /\ 2 * H <= C /\ C <= 2 * H + 1
  BY HalfHeight
<1>2. new = Max2(up, 1)
  BY DEF Scrolled
<1>3. far \in Nat /\ (far = 0 \/ far = n - start - C + 1) /\ far >= n - start - C + 1
  BY <1>1 DEF Max2
<1> HIDE DEF C, H, far
<1>4. dn \in Nat /\ dn >= far /\ dn < far + H /\ (far = 0 => dn = 0)
  BY <1>3, HalvesIs DEF H
<1> HIDE DEF dn
<1>5. inside \in Int
  BY <1>1, <1>4
<1>6. above \in Nat /\ (above = 0 \/ above = inside - n) /\ above >= inside - n
  <2> HIDE DEF inside
  <2> QED  BY <1>5 DEF Max2
<1> HIDE DEF above
<1>7. back \in Nat /\ back >= above /\ back < above + H /\ (above = 0 => back = 0)
  BY <1>6, HalvesIs DEF H
<1> HIDE DEF back, new
<1>8. Rows = 0..C - 1
  BY DEF Rows, C
<1>9. /\ new \in Nat \ {0} /\ new >= 1 /\ (new = up \/ new = 1) /\ new >= up
  BY <1>1, <1>2, <1>5, <1>7 DEF Max2
<1>10. /\ Min2(n, total) <= n /\ Min2(n, total) <= total
       /\ Min2(n, total) = n \/ Min2(n, total) = total
  BY DEF Min2
<1> DEFINE m == Min2(n, total)
<1> HIDE DEF m
<1>11. m - new \in Rows
  <2>1. CASE down <= total
    <3>1. inside = down
      BY <1>4, <2>1
    <3>2. CASE down <= n
      BY <1>1, <1>3, <1>4, <1>6, <1>7, <1>8, <1>9, <1>10, <2>1, <3>1, <3>2 DEF m
    <3>3. CASE down > n
      BY <1>1, <1>3, <1>4, <1>6, <1>7, <1>8, <1>9, <1>10, <2>1, <3>1, <3>3 DEF m
    <3> QED  BY <1>4, <3>2, <3>3
  <2>2. CASE down > total
    <3>1. inside = total - H
      BY <1>4, <2>2
    <3>2. CASE inside <= n
      BY <1>1, <1>3, <1>4, <1>6, <1>7, <1>8, <1>9, <1>10, <2>2, <3>1, <3>2 DEF m
    <3>3. CASE inside > n
      BY <1>1, <1>3, <1>4, <1>6, <1>7, <1>8, <1>9, <1>10, <2>2, <3>1, <3>3 DEF m
    <3> QED  BY <1>5, <3>2, <3>3
  <2> QED  BY <1>4, <2>1, <2>2
<1>12. ASSUME n - start \in Rows, start <= total
       PROVE  new = start
  <2>1. far = 0 /\ down = start /\ inside = start
    BY <1>1, <1>3, <1>4, <1>8, <1>12
  <2>2. above = 0
    BY <1>6, <1>8, <1>12, <2>1
  <2> QED  BY <1>2, <1>7, <2>1, <2>2 DEF Max2
<1>13. ASSUME n - start \in Rows, start > total
       PROVE  new < start /\ new <= total /\ total <= new + H
  <2>1. far = 0 /\ down = start /\ inside = total - H
    BY <1>1, <1>3, <1>4, <1>8, <1>13
  <2>2. above = 0
    BY <1>1, <1>6, <1>8, <1>13, <2>1
  <2> QED  BY <1>1, <1>7, <1>9, <1>13, <2>1, <2>2
<1> QED  BY <1>9, <1>11, <1>12, <1>13 DEF m, new, H

-----------------------------------------------------------------------------
(***************************************************************************)
(* The invariant.                                                          *)
(***************************************************************************)

Change_t == [by : {"remote", "cli"}, op : Operation]

Types ==
    /\ TypeOK
    /\ cur_pos \in Position /\ cur_line_size \in Nat
    /\ screen_start_line \in Nat \ {0} /\ screen_line \in Int /\ anchor \in Int
    /\ queue \in Seq(Operation) /\ untold \in Seq(Change_t)
    /\ others \in Nat /\ own \in Nat
    /\ buf_changed \in BOOLEAN /\ astray \in BOOLEAN
    /\ torn \in BOOLEAN /\ refused \in BOOLEAN

\* What the loop has still to hear of, in any order.
Pending == { Backlog[n] : n \in 1..Len(Backlog) }

Row == cur_pos.lineno - screen_start_line
OnScreen == Row \in Rows

\* calPos will draw everything, wherever the cursor is.
Loud(op) == op.newline /\ op.pos.lineno <= screen_start_line + CONTENT_LINES
LoudIn == \E op \in Pending : Loud(op)

\* calPos will draw nothing for it, or the line of the cursor at the most.
Calm(op) ==
    \/ op.pos.lineno > screen_start_line + CONTENT_LINES
    \/ ~op.newline /\ op.pos.lineno < screen_start_line
Tame(op) == Calm(op) \/ (~op.newline /\ op.pos.lineno = cur_pos.lineno)
AllCalm == \A op \in Pending : Calm(op)
AllTame == \A op \in Pending : Tame(op)

\* A thread changes the text when it has told of its last change.
OneEach ==
    /\ \A m, n \in 1..Len(untold) : untold[m].by = untold[n].by => m = n
    /\ reading = "line" <=> \A n \in 1..Len(untold) : untold[n].by # "cli"

Asked ==
    /\ pc \in {"getch", "key", "join"} => need = {}
    /\ Drawing => need # {}
    /\ pc = "draw first" => Redraw \in need

InView ==
    /\ Redraw \notin need => OnScreen
    /\ pc = "redraw" => OnScreen

\* The row of the cursor is known, or calPos will draw everything, and scroll
\* no further than the row that is known.
RowKnown ==
    Redraw \notin need =>
        \/ screen_line = Row
        \/ /\ screen_line >= 0 /\ LoudIn
           /\ \/ Row <= HALF_HEIGHT
              \/ Row <= screen_line /\ screen_line < CONTENT_LINES

\* The line of the cursor is there, or a line break above it has gone.
LineThere ==
    Redraw \notin need =>
        \/ cur_pos.lineno <= Len(lines)
        \/ \E op \in Pending : op.newline /\ op.pos.lineno <= Len(lines)

LineKnown ==
    need = {} /\ AllCalm =>
        InText(lines, cur_pos) /\ cur_line_size = lines[cur_pos.lineno]

\* What is not asked for is drawn.
Fresh ==
    ~torn /\ Redraw \notin need /\ AllTame =>
        /\ stale \subseteq {Row}
        /\ need = {} /\ AllCalm => stale = {}

\* Where redrawContent will draw the line it takes, the cursor was.
ToDraw ==
    pc \in {"draw", "draw first"} /\ Redraw \in need =>
        \/ OnScreen
        \/ Row < 0 /\ (screen_line = 0 \/ (screen_line >= 0 /\ LoudIn))
        \/ Row >= CONTENT_LINES /\ screen_line = CONTENT_LINES - 1

\* In step with the text, the line that is to be drawn is there.
CanDraw ==
    Backlog = <<>> =>
        /\ Drawing =>
            /\ cur_pos.lineno <= Len(lines)
            /\ Redraw \in need /\ ~OnScreen => Nearest <= Len(lines)
        /\ pc = "draw first" => OnScreen
        /\ pc \in {"draw first", "join"} => cur_pos.lineno < Len(lines)
        /\ pc = "draw" => ~refused

\* keyEnd finds the end of every line.
Fits == Total(lines) + others + own < INT_MAX

\* CursorKept, and what calPos will move the cursor to is in the text.
Kept ==
    ~astray =>
        LET pos == Followed(cur_pos, Backlog)
        IN  /\ pos.lineno \in 1..Len(lines)
            /\ Backlog # <<>> => InText(lines, pos)
            /\ Flat(lines, Clamped(lines, pos)) = anchor
            /\ ~refused

\* Of the text and its changes; of the picture.
Telling == OneEach /\ Fits
Picture ==
    /\ Asked /\ InView /\ RowKnown /\ LineThere /\ LineKnown
    /\ Fresh /\ ToDraw /\ CanDraw

ScreenInv ==
    /\ Types /\ Kept
    /\ IF pc = "undefined" THEN Backlog # <<>> ELSE Telling /\ Picture

-----------------------------------------------------------------------------
(***************************************************************************)
(* The changes that the loop has still to hear of.                         *)
(***************************************************************************)

Told(u) == [n \in 1..Len(u) |-> u[n].op]
Among(s) == { s[n] : n \in 1..Len(s) }

\* What the threads have not told of are operations.
LEMMA ToldType ==
    ASSUME NEW u \in Seq(Change_t)
    PROVE  /\ Told(u) \in Seq(Operation) /\ Len(Told(u)) = Len(u)
           /\ \A n \in 1..Len(u) : Told(u)[n] = u[n].op /\ u[n].op \in Operation
<1>1. Len(u) \in Nat /\ \A n \in 1..Len(u) : u[n] \in Change_t
  BY ElementOfSeq
<1>2. \A n \in 1..Len(u) : u[n].op \in Operation
  BY <1>1 DEF Change_t
<1> QED  BY <1>1, <1>2 DEF Told

\* One sequence after the other.
LEMMA ConcatIs ==
    ASSUME NEW S, NEW s \in Seq(S), NEW t \in Seq(S)
    PROVE  /\ s \o t \in Seq(S) /\ Len(s \o t) = Len(s) + Len(t)
           /\ \A m \in 1..Len(s) : (s \o t)[m] = s[m]
           /\ \A m \in Len(s) + 1..Len(s) + Len(t) : (s \o t)[m] = t[m - Len(s)]
OBVIOUS

\* What the loop has to hear of are operations.
LEMMA BacklogType ==
    ASSUME Types
    PROVE  /\ Backlog = queue \o Told(untold) /\ Backlog \in Seq(Operation)
           /\ Len(Backlog) = Len(queue) + Len(untold)
           /\ Len(Backlog) \in Nat
           /\ \A op \in Pending : op \in Operation
           /\ Backlog = <<>> <=> Pending = {}
<1>1. queue \in Seq(Operation) /\ untold \in Seq(Change_t)
  BY DEF Types
<1>2. Backlog = queue \o Told(untold)
  BY DEF Backlog, Told
<1>3. Told(untold) \in Seq(Operation) /\ Len(Told(untold)) = Len(untold)
  BY <1>1, ToldType
<1>4. Backlog \in Seq(Operation) /\ Len(Backlog) = Len(queue) + Len(untold)
  <2> DEFINE t == Told(untold)
  <2>1. queue \in Seq(Operation) /\ t \in Seq(Operation)
    BY <1>1, <1>3
  <2> HIDE DEF t
  <2>2. queue \o t \in Seq(Operation) /\ Len(queue \o t) = Len(queue) + Len(t)
    BY <2>1, ConcatIs, Zenon
  <2> QED  BY <1>2, <1>3, <2>2 DEF t
<1>5. Len(Backlog) \in Nat /\ \A n \in 1..Len(Backlog) : Backlog[n] \in Operation
  BY <1>4, ElementOfSeq
<1>6. ASSUME Backlog # <<>>
      PROVE  Pending # {}
  <2>1. Len(Backlog) # 0
    BY <1>4, <1>6, EmptySeq
  <2>2. 1 \in 1..Len(Backlog)
    BY <1>5, <2>1
  <2> QED  BY <2>2 DEF Pending
<1>7. Backlog = <<>> => Pending = {}
  BY DEF Pending
<1> QED  BY <1>2, <1>4, <1>5, <1>6, <1>7 DEF Pending

\* A change joins them at the end.
LEMMA BacklogGrows ==
    ASSUME Types, NEW by \in {"remote", "cli"}, NEW op \in Operation,
           untold' = Append(untold, [by |-> by, op |-> op]), queue' = queue
    PROVE  /\ Backlog' = Append(Backlog, op)
           /\ Pending' = Pending \cup {op}
           /\ Backlog' # <<>>
           /\ untold' \in Seq(Change_t)
<1> DEFINE e == [by |-> by, op |-> op]
           N == Len(Backlog)
<1>1. /\ queue \in Seq(Operation) /\ untold \in Seq(Change_t)
      /\ e \in Change_t /\ e.op = op
  BY DEF Types, Change_t
<1> HIDE DEF e
<1>2. untold' \in Seq(Change_t) /\ Told(untold') = Append(Told(untold), op)
  <2>1. /\ untold' \in Seq(Change_t) /\ Len(untold') = Len(untold) + 1
        /\ Len(untold) \in Nat
        /\ \A n \in 1..Len(untold) : untold'[n] = untold[n]
        /\ untold'[Len(untold) + 1] = e
    BY <1>1 DEF e
  <2>2. /\ Told(untold') \in Seq(Operation) /\ Len(Told(untold')) = Len(untold')
        /\ \A n \in 1..Len(untold') : Told(untold')[n] = untold'[n].op
    BY <2>1, ToldType
  <2>3. /\ Told(untold) \in Seq(Operation) /\ Len(Told(untold)) = Len(untold)
        /\ \A n \in 1..Len(untold) : Told(untold)[n] = untold[n].op
    BY <1>1, ToldType
  <2> DEFINE a == Told(untold')
             b == Append(Told(untold), op)
             L == Len(untold)
  <2>4. /\ b \in Seq(Operation) /\ Len(b) = L + 1
        /\ \A n \in 1..L : b[n] = Told(untold)[n]
        /\ b[L + 1] = op
    BY <2>3
  <2>5. \A n \in 1..L + 1 : a[n] = b[n]
    <3>1. ASSUME NEW n \in 1..L + 1
          PROVE  a[n] = b[n]
      <4>1. CASE n \in 1..L
        <5>0. L \in Nat /\ Len(untold') = L + 1 /\ Len(untold) = L
          BY <2>1
        <5>1. n \in 1..Len(untold')
          BY <2>1, <4>1
        <5>2. a[n] = untold'[n].op
          BY <2>2, <5>1
        <5>3. b[n] = untold[n].op
          BY <2>3, <2>4, <4>1
        <5>4. untold'[n] = untold[n]
          BY <2>1, <4>1
        <5> QED  BY <5>2, <5>3, <5>4
      <4>2. CASE n = L + 1
        <5>1. n \in 1..Len(untold')
          BY <2>1, <4>2
        <5>2. a[n] = untold'[n].op
          BY <2>2, <5>1
        <5>3. untold'[n] = e
          BY <2>1, <4>2
        <5>4. b[n] = op
          BY <2>4, <4>2
        <5> HIDE DEF a, b
        <5> QED  BY <1>1, <5>2, <5>3, <5>4
      <4>3. n \in 1..L \/ n = L + 1
        <5>1. L \in Nat
          BY <2>1
        <5> HIDE DEF L
        <5> QED  BY <5>1
      <4> HIDE DEF a, b, L
      <4> QED  BY <4>1, <4>2, <4>3
    <3> QED  BY <3>1
  <2> HIDE DEF a, b, L
  <2>6. Len(a) = L + 1 /\ a \in Seq(Operation)
    BY <2>1, <2>2 DEF a, L
  <2>7. a = b
    BY <2>4, <2>5, <2>6, SeqEqual
  <2> QED  BY <2>1, <2>7 DEF a, b
<1>3. Told(untold) \in Seq(Operation)
  BY <1>1, ToldType
<1>4. Backlog' = queue \o Append(Told(untold), op)
  <2>1. Backlog' = queue' \o Told(untold')
    BY DEF Backlog, Told
  <2> QED  BY <1>2, <2>1
<1>5. Backlog = queue \o Told(untold) /\ Backlog \in Seq(Operation) /\ N \in Nat
  BY BacklogType
<1>6. Backlog' = Append(Backlog, op)
  <2> DEFINE t == Told(untold)
  <2> HIDE DEF t
  <2>1. t \in Seq(Operation)
    BY <1>3 DEF t
  <2>2. queue \o Append(t, op) = Append(queue \o t, op)
    BY <1>1, <2>1
  <2> QED  BY <1>4, <1>5, <2>2 DEF t
<1>7. Pending' = Among(Backlog')
  BY DEF Pending, Among
<1>8. /\ Len(Append(Backlog, op)) = N + 1
      /\ \A n \in 1..N : Append(Backlog, op)[n] = Backlog[n]
      /\ Append(Backlog, op)[N + 1] = op
  BY <1>5
<1> HIDE DEF N
<1>9. Among(Append(Backlog, op)) = Pending \cup {op}
  <2>1. \A n \in 1..N + 1 : n \in 1..N \/ n = N + 1
    BY <1>5
  <2>2. \A n \in 1..N : n \in 1..N + 1
    BY <1>5
  <2>3. N + 1 \in 1..N + 1
    BY <1>5
  <2>4. Among(Append(Backlog, op)) \subseteq Pending \cup {op}
    BY <1>8, <2>1 DEF Among, Pending, N
  <2>5. Pending \cup {op} \subseteq Among(Append(Backlog, op))
    BY <1>8, <2>2, <2>3 DEF Among, Pending, N
  <2> QED  BY <2>4, <2>5
<1>10. Backlog' # <<>>
  <2>1. Len(Backlog') # 0
    BY <1>5, <1>6, <1>8
  <2> QED  BY <2>1
<1> QED  BY <1>2, <1>6, <1>7, <1>9, <1>10

\* Telling of a change does not change what is pending; of the oldest one,
\* not even the order.
LEMMA BacklogTold ==
    ASSUME Types, NEW n \in 1..Len(untold),
           queue' = Append(queue, untold[n].op), untold' = RemoveAt(untold, n)
    PROVE  /\ Pending' = Pending
           /\ n = 1 => Backlog' = Backlog
           /\ Backlog # <<>> /\ Backlog' # <<>>
           /\ queue' \in Seq(Operation) /\ untold' \in Seq(Change_t)
           /\ Len(untold') = Len(untold) - 1
           /\ \A m \in 1..Len(untold') :
                untold'[m] = IF m < n THEN untold[m] ELSE untold[m + 1]
<1> DEFINE op == untold[n].op
           Q == Len(queue)
           L == Len(untold)
<1>1. /\ queue \in Seq(Operation) /\ untold \in Seq(Change_t)
      /\ Q \in Nat /\ L \in Nat /\ n \in 1..L
  BY LenProperties DEF Types
<1>2. /\ untold' \in Seq(Change_t) /\ Len(untold') = L - 1
      /\ \A m \in 1..L - 1 :
           untold'[m] = IF m < n THEN untold[m] ELSE untold[m + 1]
  BY <1>1, RemoveAtIs
<1>3. op \in Operation
  BY <1>1, ToldType
<1>4. /\ queue' \in Seq(Operation) /\ Len(queue') = Q + 1
      /\ \A m \in 1..Q : queue'[m] = queue[m]
      /\ queue'[Q + 1] = op
  <2> HIDE DEF op
  <2>1. queue' = Append(queue, op)
    BY DEF op
  <2> QED  BY <1>1, <1>3, <2>1
<1> DEFINE t == Told(untold)
           tt == Told(untold')
<1>5. /\ t \in Seq(Operation) /\ Len(t) = L
      /\ \A m \in 1..L : t[m] = untold[m].op
  BY <1>1, ToldType
<1>6. /\ tt \in Seq(Operation) /\ Len(tt) = L - 1
      /\ \A m \in 1..L - 1 : tt[m] = untold'[m].op
  BY <1>2, ToldType
<1>7. Backlog = queue \o t /\ Backlog' = queue' \o tt
  BY DEF Backlog, Told
<1> DEFINE b == Backlog
           bb == Backlog'
<1> HIDE DEF t, tt, Q, L, op
<1>8. /\ b \in Seq(Operation) /\ Len(b) = Q + L
      /\ \A m \in 1..Q : b[m] = queue[m]
      /\ \A m \in Q + 1..Q + L : b[m] = t[m - Q]
  <2>1. /\ queue \o t \in Seq(Operation)
        /\ Len(queue \o t) = Len(queue) + Len(t)
        /\ \A m \in 1..Len(queue) : (queue \o t)[m] = queue[m]
        /\ \A m \in Len(queue) + 1..Len(queue) + Len(t) :
             (queue \o t)[m] = t[m - Len(queue)]
    <3>1. queue \in Seq(Operation) /\ t \in Seq(Operation)
      BY <1>1, <1>5
    <3> QED  BY <3>1, ConcatIs, Zenon
  <2> QED  BY <1>5, <1>7, <2>1 DEF Q
<1>9. /\ bb \in Seq(Operation) /\ Len(bb) = Q + L
      /\ \A m \in 1..Q + 1 : bb[m] = queue'[m]
      /\ \A m \in Q + 2..Q + L : bb[m] = tt[m - (Q + 1)]
  <2>1. /\ queue' \o tt \in Seq(Operation)
        /\ Len(queue' \o tt) = Q + 1 + (L - 1)
        /\ \A m \in 1..Q + 1 : (queue' \o tt)[m] = queue'[m]
        /\ \A m \in Q + 1 + 1..Q + 1 + (L - 1) : (queue' \o tt)[m] = tt[m - (Q + 1)]
    <3> DEFINE s == queue'
    <3> HIDE DEF s
    <3>1. s \in Seq(Operation) /\ Len(s) = Q + 1
      BY <1>4 DEF s
    <3>2. /\ s \o tt \in Seq(Operation)
          /\ Len(s \o tt) = Len(s) + Len(tt)
          /\ \A m \in 1..Len(s) : (s \o tt)[m] = s[m]
          /\ \A m \in Len(s) + 1..Len(s) + Len(tt) :
               (s \o tt)[m] = tt[m - Len(s)]
      BY <1>6, <3>1, ConcatIs
    <3> QED  BY <1>6, <3>1, <3>2 DEF s
  <2>2. Q + 1 + (L - 1) = Q + L /\ Q + 1 + 1 = Q + 2
    BY <1>1
  <2> QED  BY <1>7, <2>1, <2>2
<1> HIDE DEF b, bb
<1>10. /\ \A m \in 1..Q : bb[m] = b[m]
       /\ bb[Q + 1] = op /\ b[Q + n] = op
       /\ \A m \in Q + 2..Q + n : bb[m] = b[m - 1]
       /\ \A m \in Q + n + 1..Q + L : bb[m] = b[m]
  <2>1. ASSUME NEW m \in 1..Q
        PROVE  bb[m] = b[m]
    <3>1. m \in 1..Q + 1
      BY <1>1
    <3> QED  BY <1>4, <1>8, <1>9, <3>1
  <2>2. bb[Q + 1] = op
    <3>1. Q + 1 \in 1..Q + 1
      BY <1>1
    <3> QED  BY <1>4, <1>9, <3>1
  <2>3. b[Q + n] = op
    <3> DEFINE k == Q + n
    <3>2. k \in Q + 1..Q + L /\ k - Q = n
      BY <1>1
    <3> HIDE DEF k
    <3>3. b[k] = t[k - Q]
      BY <1>8, <3>2
    <3> QED  BY <1>1, <1>5, <3>2, <3>3 DEF k, op
  <2>4. ASSUME NEW m \in Q + 2..Q + n
        PROVE  bb[m] = b[m - 1]
    <3> DEFINE k == m - (Q + 1)
    <3>1. /\ m \in Q + 2..Q + L /\ m - 1 \in Q + 1..Q + L /\ m - 1 - Q = k
          /\ k \in 1..L - 1 /\ k < n /\ k \in 1..L
      BY <1>1
    <3>2. bb[m] = tt[k] /\ b[m - 1] = t[m - 1 - Q]
      BY <1>8, <1>9, <3>1
    <3> HIDE DEF k
    <3>3. tt[k] = untold'[k].op /\ t[k] = untold[k].op /\ untold'[k] = untold[k]
      BY <1>2, <1>5, <1>6, <3>1
    <3> QED  BY <3>1, <3>2, <3>3
  <2>5. ASSUME NEW m \in Q + n + 1..Q + L
        PROVE  bb[m] = b[m]
    <3> DEFINE k == m - (Q + 1)
    <3>1. /\ m \in Q + 2..Q + L /\ m \in Q + 1..Q + L /\ m - Q = k + 1
          /\ k \in 1..L - 1 /\ ~(k < n) /\ k + 1 \in 1..L
      BY <1>1
    <3>2. bb[m] = tt[k] /\ b[m] = t[m - Q]
      BY <1>8, <1>9, <3>1
    <3> HIDE DEF k
    <3>3. tt[k] = untold'[k].op /\ untold'[k] = untold[k + 1]
      BY <1>2, <1>6, <3>1
    <3>4. t[k + 1] = untold[k + 1].op
      BY <1>5, <3>1
    <3> QED  BY <3>1, <3>2, <3>3, <3>4
  <2> QED  BY <2>1, <2>2, <2>3, <2>4, <2>5
<1>11. Among(bb) = Among(b)
  <2>1. ASSUME NEW m \in 1..Q + L
        PROVE  bb[m] \in Among(b)
    <3>1. CASE m \in 1..Q \/ m \in Q + n + 1..Q + L
      BY <1>8, <1>10, <3>1 DEF Among
    <3>2. CASE m = Q + 1
      <4>1. Q + n \in 1..Q + L
        BY <1>1
      <4> QED  BY <1>8, <1>10, <3>2, <4>1 DEF Among
    <3>3. CASE m \in Q + 2..Q + n
      <4>1. m - 1 \in 1..Q + L
        BY <1>1, <3>3
      <4> QED  BY <1>8, <1>10, <3>3, <4>1 DEF Among
    <3> QED  BY <1>1, <3>1, <3>2, <3>3
  <2>2. ASSUME NEW m \in 1..Q + L
        PROVE  b[m] \in Among(bb)
    <3>1. CASE m \in 1..Q \/ m \in Q + n + 1..Q + L
      <4>1. bb[m] = b[m]
        BY <1>10, <3>1
      <4> QED  BY <1>9, <4>1 DEF Among
    <3>2. CASE m = Q + n
      <4>1. Q + 1 \in 1..Q + L
        BY <1>1
      <4> QED  BY <1>9, <1>10, <3>2, <4>1 DEF Among
    <3>3. CASE m \in Q + 1..Q + (n - 1)
      <4>1. m + 1 \in Q + 2..Q + n /\ m + 1 \in 1..Q + L /\ m + 1 - 1 = m
        BY <1>1, <3>3
      <4>2. bb[m + 1] = b[m + 1 - 1]
        BY <1>10, <4>1
      <4>3. bb[m + 1] \in Among(bb)
        BY <1>9, <4>1 DEF Among
      <4> QED  BY <4>1, <4>2, <4>3
    <3> QED  BY <1>1, <3>1, <3>2, <3>3
  <2>3. Among(bb) \subseteq Among(b)
    BY <1>9, <2>1 DEF Among
  <2>4. Among(b) \subseteq Among(bb)
    BY <1>8, <2>2 DEF Among
  <2> QED  BY <2>3, <2>4
<1>12. ASSUME n = 1
       PROVE  bb = b
  <2>1. \A m \in 1..Q + L : bb[m] = b[m]
    <3>1. ASSUME NEW m \in 1..Q + L
          PROVE  bb[m] = b[m]
      <4>1. CASE m \in 1..Q
        BY <1>10, <4>1
      <4>2. CASE m = Q + 1
        BY <1>10, <1>12, <4>2
      <4>3. CASE m \in Q + n + 1..Q + L
        BY <1>10, <4>3
      <4> QED  BY <1>1, <1>12, <4>1, <4>2, <4>3
    <3> QED  BY <3>1
  <2> QED  BY <1>8, <1>9, <2>1, SeqEqual
<1>13. b # <<>> /\ bb # <<>>
  <2>1. Q + L # 0
    BY <1>1
  <2> QED  BY <1>8, <1>9, <2>1
<1> QED  BY <1>2, <1>4, <1>11, <1>12, <1>13 DEF b, bb, L, Pending, Among

\* At most one position of each thread is not queued yet.
LEMMA OneOrTwo ==
    ASSUME Types, OneEach, NEW n \in 1..Len(untold), n # 1
    PROVE  n = 2 /\ Len(untold) = 2
<1> DEFINE L == Len(untold)
<1>1. /\ L \in Nat /\ n \in 1..L
      /\ \A m \in 1..L : untold[m].by \in {"remote", "cli"}
  <2>1. untold \in Seq(Change_t)
    BY DEF Types
  <2>2. L \in Nat /\ \A m \in 1..L : untold[m] \in Change_t
    BY <2>1, ElementOfSeq
  <2> QED  BY <2>2 DEF Change_t
<1>2. \A m, k \in 1..L : untold[m].by = untold[k].by => m = k
  BY DEF OneEach
<1> HIDE DEF L
<1>3. ~(L >= 3)
  <2> SUFFICES ASSUME L >= 3 PROVE FALSE
    OBVIOUS
  <2>1. 1 \in 1..L /\ 2 \in 1..L /\ 3 \in 1..L
    BY <1>1
  <2>2. /\ untold[1].by # untold[2].by /\ untold[1].by # untold[3].by
        /\ untold[2].by # untold[3].by
    BY <1>2, <2>1
  <2> QED  BY <1>1, <2>1, <2>2
<1>4. n = 2 /\ L = 2
  BY <1>1, <1>3
<1> QED  BY <1>4 DEF L

\* A position queued before that of an earlier change takes the cursor to the
\* same place if the two changes are apart.
LEMMA Overtaken ==
    ASSUME Types, Len(untold) = 2, Apart(untold[1].op, untold[2].op),
           queue' = Append(queue, untold[2].op), untold' = RemoveAt(untold, 2)
    PROVE  Followed(cur_pos, Backlog') = Followed(cur_pos, Backlog)
<1> DEFINE a == untold[1].op
           b == untold[2].op
           p == Followed(cur_pos, queue)
<1>1. /\ queue \in Seq(Operation) /\ untold \in Seq(Change_t)
      /\ cur_pos \in Position /\ 1 \in 1..Len(untold) /\ 2 \in 1..Len(untold)
  BY DEF Types
<1>2. a \in Operation /\ b \in Operation
  BY <1>1, ToldType
<1>3. untold' \in Seq(Change_t) /\ Len(untold') = 1 /\ untold'[1] = untold[1]
  <2>1. /\ untold' \in Seq(Change_t) /\ Len(untold') = 2 - 1
        /\ \A m \in 1..2 - 1 :
             untold'[m] = IF m < 2 THEN untold[m] ELSE untold[m + 1]
    BY <1>1, RemoveAtIs
  <2>2. 1 \in 1..2 - 1
    OBVIOUS
  <2> QED  BY <2>1, <2>2
<1>4. Backlog = Append(Append(queue, a), b)
  <2>1. Told(untold) = <<a, b>>
    <3>1. /\ Told(untold) \in Seq(Operation) /\ Len(Told(untold)) = 2
          /\ Told(untold)[1] = a /\ Told(untold)[2] = b
      BY <1>1, ToldType
    <3> QED  BY <3>1, <1>2
  <2>2. Backlog = queue \o <<a, b>>
    BY <2>1 DEF Backlog, Told
  <2> HIDE DEF a, b
  <2> QED  BY <1>1, <1>2, <2>2
<1>5. Backlog' = Append(Append(queue, b), a)
  <2>1. Told(untold') = <<a>>
    <3>1. /\ Told(untold') \in Seq(Operation) /\ Len(Told(untold')) = 1
          /\ Told(untold')[1] = a
      BY <1>3, ToldType
    <3> QED  BY <3>1, <1>2
  <2>2. Backlog' = Append(queue, b) \o <<a>>
    BY <2>1 DEF Backlog, Told
  <2> HIDE DEF a, b
  <2> QED  BY <1>1, <1>2, <2>2
<1> HIDE DEF a, b, p
<1>6. /\ Append(queue, a) \in Seq(Operation) /\ Append(queue, b) \in Seq(Operation)
  BY <1>1, <1>2
<1>7. /\ p \in Position
      /\ Followed(cur_pos, Append(queue, a)) = Transformed(p, a)
      /\ Followed(cur_pos, Append(queue, b)) = Transformed(p, b)
  BY <1>1, <1>2, FollowedAppend DEF p
<1>8. /\ Followed(cur_pos, Backlog) = Transformed(Transformed(p, a), b)
      /\ Followed(cur_pos, Backlog') = Transformed(Transformed(p, b), a)
  <2> DEFINE A == Append(queue, a)
             B == Append(queue, b)
  <2> HIDE DEF A, B
  <2>1. A \in Seq(Operation) /\ B \in Seq(Operation)
    BY <1>6 DEF A, B
  <2>2. /\ Followed(cur_pos, Append(A, b)) = Transformed(Followed(cur_pos, A), b)
        /\ Followed(cur_pos, Append(B, a)) = Transformed(Followed(cur_pos, B), a)
    BY <1>1, <1>2, <2>1, FollowedAppend
  <2>3. Backlog = Append(A, b) /\ Backlog' = Append(B, a)
    BY <1>4, <1>5 DEF A, B
  <2>4. Followed(cur_pos, A) = Transformed(p, a) /\ Followed(cur_pos, B) = Transformed(p, b)
    BY <1>7 DEF A, B
  <2> QED  BY <2>2, <2>3, <2>4
<1>9. Apart(a, b)
  BY DEF a, b
<1> QED  BY <1>2, <1>7, <1>8, <1>9, ApartCommute

\* calPos takes the oldest one.
LEMMA BacklogHeard ==
    ASSUME Types, queue # <<>>, queue' = Tail(queue), untold' = untold
    PROVE  /\ Backlog # <<>> /\ Head(queue) = Head(Backlog)
           /\ Backlog' = Tail(Backlog)
           /\ Pending = Pending' \cup {Head(queue)}
           /\ Head(queue) \in Operation /\ queue' \in Seq(Operation)
<1> DEFINE t == Told(untold)
           b == Backlog
           Q == Len(queue)
<1>1. queue \in Seq(Operation) /\ untold \in Seq(Change_t)
  BY DEF Types
<1>2. t \in Seq(Operation)
  BY <1>1, ToldType
<1>3. b = queue \o t /\ Backlog' = queue' \o t
  BY DEF Backlog, Told
<1> HIDE DEF t, b
<1>4. /\ b \in Seq(Operation) /\ b # <<>> /\ Len(b) \in Nat \ {0}
      /\ Head(b) = Head(queue) /\ Tail(b) = Tail(queue) \o t
      /\ Head(queue) \in Operation /\ Tail(queue) \in Seq(Operation)
  <2>1. b \in Seq(Operation) /\ b # <<>> /\ Len(b) \in Nat \ {0}
    BY <1>1, <1>2, <1>3
  <2>2. Head(queue) \in Operation /\ Tail(queue) \in Seq(Operation)
    BY <1>1
  <2>3. Head(b) = Head(queue)
    BY <1>1, <1>2, <1>3
  <2>4. Tail(b) = Tail(queue) \o t
    BY <1>1, <1>2, <1>3
  <2> QED  BY <2>1, <2>2, <2>3, <2>4
<1>5. Backlog' = Tail(b)
  BY <1>3, <1>4
<1>6. Among(b) = Among(Tail(b)) \cup {Head(b)}
  <2>1. /\ Len(Tail(b)) = Len(b) - 1 /\ Head(b) = b[1]
        /\ \A m \in 1..Len(b) - 1 : Tail(b)[m] = b[m + 1]
    BY <1>4
  <2>2. ASSUME NEW m \in 1..Len(b), m # 1
        PROVE  b[m] \in Among(Tail(b))
    <3>1. m - 1 \in 1..Len(b) - 1 /\ m - 1 + 1 = m
      BY <1>4, <2>2
    <3>2. Tail(b)[m - 1] = b[m - 1 + 1] /\ Tail(b)[m - 1] \in Among(Tail(b))
      BY <2>1, <3>1 DEF Among
    <3> QED  BY <3>1, <3>2
  <2>3. ASSUME NEW m \in 1..Len(b) - 1
        PROVE  Tail(b)[m] \in Among(b)
    <3>1. m + 1 \in 1..Len(b)
      BY <1>4
    <3> QED  BY <2>1, <3>1 DEF Among
  <2>4. 1 \in 1..Len(b)
    BY <1>4
  <2>5. Among(b) \subseteq Among(Tail(b)) \cup {Head(b)}
    BY <2>1, <2>2 DEF Among
  <2>6. Among(Tail(b)) \cup {Head(b)} \subseteq Among(b)
    BY <2>1, <2>3, <2>4 DEF Among
  <2> QED  BY <2>5, <2>6
<1> QED  BY <1>4, <1>5, <1>6 DEF b, Pending, Among

\* All the rest leaves them alone.
LEMMA BacklogSame ==
    ASSUME queue' = queue, untold' = untold
    PROVE  Backlog' = Backlog /\ Pending' = Pending
BY DEF Backlog, Pending

-----------------------------------------------------------------------------
(***************************************************************************)
(* The steps of the other threads, and those of the loop that only go on.  *)
(***************************************************************************)

\* What the invariant says of Pending depends on its members, and on the
\* first line on the screen.
LEMMA SameView ==
    ASSUME Pending' = Pending, screen_start_line' = screen_start_line,
           cur_pos'.lineno = cur_pos.lineno
    PROVE  /\ Row' = Row /\ (OnScreen' <=> OnScreen)
           /\ LoudIn' <=> LoudIn
           /\ AllCalm' <=> AllCalm
           /\ AllTame' <=> AllTame
<1>1. Row' = Row
  BY DEF Row
<1>2. LoudIn' <=> LoudIn
  BY DEF LoudIn, Loud
<1>3. AllCalm' <=> AllCalm
  BY DEF AllCalm, Calm
<1>4. AllTame' <=> AllTame
  BY DEF AllTame, Tame, Calm
<1> QED  BY <1>1, <1>2, <1>3, <1>4 DEF OnScreen

\* A change for which calPos draws everything is not one for which it draws
\* a line at the most.
LEMMA LoudNotTame ==
    ASSUME Types, LoudIn
    PROVE  ~AllTame /\ ~AllCalm
<1>1. PICK op \in Pending : Loud(op)
  BY DEF LoudIn
<1>2. /\ op.newline /\ op.pos.lineno <= screen_start_line + CONTENT_LINES
      /\ op.pos.lineno \in Nat /\ screen_start_line \in Nat
      /\ CONTENT_LINES \in Nat
  BY <1>1, BacklogType, HalfHeight DEF Loud, Operation, Position, Types
<1>3. ~(op.pos.lineno > screen_start_line + CONTENT_LINES)
  BY <1>2
<1>4. ~Calm(op) /\ ~Tame(op)
  BY <1>2, <1>3 DEF Calm, Tame
<1> QED  BY <1>1, <1>4 DEF AllTame, AllCalm

\* A step that changes neither the text nor the screen.
Quiet ==
    /\ UNCHANGED <<textVars, queue, untold, need, cursorVars, stale, raceVars>>
    /\ pc' = pc \/ (pc \in {"getch", "key", "join"} /\ pc' \in {"getch", "calPos", "key"})
    /\ reading' = "line" <=> reading = "line"
    /\ reading' \in {"line", "flag", "queue"} /\ buf_changed' \in BOOLEAN

\* Such a step keeps the invariant.
LEMMA QuietKeeps ==
    ASSUME ScreenInv, pc # "undefined", Quiet
    PROVE  ScreenInv'
<1>1. /\ lines' = lines /\ others' = others /\ own' = own
      /\ queue' = queue /\ untold' = untold /\ need' = need
      /\ cur_pos' = cur_pos /\ cur_line_size' = cur_line_size
      /\ screen_start_line' = screen_start_line /\ screen_line' = screen_line
      /\ stale' = stale /\ anchor' = anchor /\ astray' = astray
      /\ torn' = torn /\ refused' = refused
  BY DEF Quiet, textVars, cursorVars, raceVars, meaningVars
<1>2. Types /\ Kept /\ Telling /\ Picture
  BY DEF ScreenInv
<1>3. Backlog' = Backlog /\ Pending' = Pending
  BY <1>1, BacklogSame
<1>4. /\ Row' = Row /\ (OnScreen' <=> OnScreen)
      /\ (LoudIn' <=> LoudIn) /\ (AllCalm' <=> AllCalm) /\ (AllTame' <=> AllTame)
  BY <1>1, <1>3, SameView
<1>5. /\ \/ pc' = pc
         \/ pc \in {"getch", "key", "join"} /\ pc' \in {"getch", "calPos", "key"}
      /\ reading' = "line" <=> reading = "line"
      /\ reading' \in {"line", "flag", "queue"} /\ buf_changed' \in BOOLEAN
  BY DEF Quiet
<1>6. Types'
  BY <1>1, <1>2, <1>5 DEF Types, TypeOK
<1>7. Kept'
  BY <1>1, <1>2, <1>3 DEF Kept
<1>8. Telling'
  BY <1>1, <1>2, <1>5 DEF Telling, OneEach, Fits
<1>9. Picture'
  <2>1. Asked'
    BY <1>1, <1>2, <1>5 DEF Picture, Asked, Drawing
  <2>2. InView'
    BY <1>1, <1>2, <1>4, <1>5 DEF Picture, InView
  <2>3. RowKnown'
    BY <1>1, <1>2, <1>4 DEF Picture, RowKnown
  <2>4. LineThere'
    BY <1>1, <1>2, <1>3 DEF Picture, LineThere
  <2>5. LineKnown'
    BY <1>1, <1>2, <1>4 DEF Picture, LineKnown
  <2>6. Fresh'
    BY <1>1, <1>2, <1>4 DEF Picture, Fresh
  <2>7. ToDraw'
    BY <1>1, <1>2, <1>4, <1>5 DEF Picture, ToDraw
  <2>8. CanDraw'
    BY <1>1, <1>2, <1>3, <1>4, <1>5 DEF Picture, CanDraw, Drawing, Nearest
  <2> QED  BY <2>1, <2>2, <2>3, <2>4, <2>5, <2>6, <2>7, <2>8 DEF Picture
<1>10. pc' # "undefined"
  BY <1>5
<1> QED  BY <1>6, <1>7, <1>8, <1>9, <1>10 DEF ScreenInv

\* These are such steps.
LEMMA QuietSteps ==
    ASSUME ScreenInv, pc # "undefined",
           CliFlag \/ SeeFlag \/ NoKey \/ Again \/ JoinAgain
    PROVE  Quiet
<1>1. reading \in {"line", "flag", "queue"} /\ buf_changed \in BOOLEAN
  BY DEF ScreenInv, Types, TypeOK
<1>2. CASE CliFlag
  BY <1>1, <1>2 DEF CliFlag, Quiet, cursorVars, raceVars, textVars
<1>3. CASE SeeFlag
  BY <1>1, <1>3 DEF SeeFlag, Quiet, cursorVars, raceVars, textVars
<1>4. CASE NoKey \/ Again \/ JoinAgain
  BY <1>1, <1>4
     DEF NoKey, Again, JoinAgain, Quiet, queueVars, cursorVars, raceVars, textVars
<1> QED  BY <1>2, <1>3, <1>4

\* A change leaves the line of the cursor alone, if calPos draws nothing for
\* it, and a row that is not of that line, if it draws no more than that.
LEMMA CalmChange ==
    ASSUME NEW ls \in Text, NEW op, OnText(ls, op), cur_pos \in Position,
           screen_start_line \in Nat \ {0}, OnScreen
    PROVE  /\ Calm(op) => Outdated(op) = {}
           /\ Tame(op) => Outdated(op) \subseteq {Row}
           /\ Calm(op) /\ cur_pos.lineno \in 1..Len(ls) =>
                /\ cur_pos.lineno \in 1..Len(Changed(ls, op))
                /\ Changed(ls, op)[cur_pos.lineno] = ls[cur_pos.lineno]
<1> DEFINE n == op.pos.lineno
           k == cur_pos.lineno
           s == screen_start_line
           new == Changed(ls, op)
<1>1. /\ k \in Nat \ {0} /\ s \in Nat \ {0} /\ Row = k - s /\ Row \in Rows
      /\ Rows = 0..CONTENT_LINES - 1 /\ CONTENT_LINES \in Nat
  BY HalfHeight DEF Position, Row, OnScreen, Rows
<1>2. n \in 1..Len(ls) /\ op.newline \in BOOLEAN /\ op.operation \in {INSERT, DELETE}
      /\ Len(ls) \in Nat
  BY TextType DEF OnText, InText, Operation
<1>3. n \in Nat
  BY <1>2
<1>4. Outdated(op) = { row \in Rows : IF op.newline THEN s + row >= n ELSE s + row = n }
  BY DEF Outdated
<1>5. Calm(op) <=> n > s + CONTENT_LINES \/ (~op.newline /\ n < s)
  BY DEF Calm
<1> HIDE DEF n, k, s
<1>6. Calm(op) => Outdated(op) = {}
  BY <1>1, <1>3, <1>4, <1>5
<1>7. ~op.newline /\ n = k => Outdated(op) \subseteq {Row}
  BY <1>1, <1>3, <1>4
<1>8. ASSUME Calm(op), k \in 1..Len(ls)
      PROVE  k \in 1..Len(new) /\ new[k] = ls[k]
  <2>1. LinesAfter(ls, op, new)
    BY ChangedIs
  <2>2. n > k \/ (~op.newline /\ n # k)
    BY <1>1, <1>3, <1>5, <1>8
  <2> HIDE DEF new
  <2>3. CASE ~op.newline
    <3>1. Longer(ls, new, n) \/ Longer(new, ls, n)
      BY <1>2, <2>1, <2>3 DEF LinesAfter, n
    <3> QED  BY <1>3, <1>8, <2>2, <3>1 DEF Longer
  <2>4. CASE op.newline
    <3>1. CASE Broken(ls, new, n)
      BY <1>2, <1>3, <1>8, <2>2, <2>4, <3>1 DEF Broken
    <3>2. CASE Broken(new, ls, n)
      <4>1. k \in 1..n - 1 /\ n \in 1..Len(new)
        BY <1>3, <1>8, <2>2, <2>4, <3>2 DEF Broken
      <4> QED  BY <1>3, <3>2, <4>1 DEF Broken
    <3> QED  BY <1>2, <2>1, <2>4, <3>1, <3>2 DEF LinesAfter, n
  <2> QED  BY <1>2, <2>3, <2>4
<1> QED  BY <1>6, <1>7, <1>8 DEF Tame, n, k, new

\* A thread changes the text.
LEMMA ChangeKeeps ==
    ASSUME ScreenInv, pc # "undefined", RemoteChange \/ CliChange
    PROVE  ScreenInv'
<1>1. Types /\ Kept /\ Telling /\ Picture
  BY DEF ScreenInv
<1>2. PICK thread \in {"remote", "cli"} :
        /\ Change(thread)
        /\ thread = "cli" => reading = "line" /\ reading' = "flag"
        /\ thread = "remote" => reading' = reading
  <2>1. CASE RemoteChange
    BY <2>1 DEF RemoteChange
  <2>2. CASE CliChange
    BY <2>2 DEF CliChange
  <2> QED  BY <2>1, <2>2
<1>3. /\ own' = own /\ queue' = queue /\ buf_changed' = buf_changed
      /\ pc' = pc /\ need' = need
      /\ cur_pos' = cur_pos /\ cur_line_size' = cur_line_size
      /\ screen_start_line' = screen_start_line /\ screen_line' = screen_line
      /\ torn' = torn /\ refused' = refused
  BY DEF RemoteChange, CliChange, cursorVars
<1>4. PICK op \in Operations(lines) :
        /\ lines' = Changed(lines, op)
        /\ Means(~astray /\ (Backlog = <<>> => InText(lines, cur_pos)),
                 Moved(anchor, Flat(lines, op.pos), op.operation))
        /\ untold' = Append(untold, [by |-> thread, op |-> op])
        /\ stale' = stale \cup Outdated(op)
  BY <1>2 DEF Change
<1>5. others > 0 /\ ~Locked /\ others' = others - 1
  BY <1>2 DEF Change
<1>6. lines \in Text /\ cur_pos \in Position /\ screen_start_line \in Nat \ {0}
  BY <1>1 DEF Types, TypeOK, Text
<1>7. OnText(lines, op) /\ op \in Operation
  BY <1>6, OperationsType DEF OnText
<1>8. LinesAfter(lines, op, lines') /\ lines' \in Text
  BY <1>4, <1>6, <1>7, ChangedIs DEF LinesAfter
<1>9. /\ Backlog' = Append(Backlog, op) /\ Pending' = Pending \cup {op}
      /\ Backlog' # <<>> /\ untold' \in Seq(Change_t)
  BY <1>1, <1>3, <1>4, <1>7, BacklogGrows
<1>10. /\ Row' = Row /\ (OnScreen' <=> OnScreen)
       /\ LoudIn => LoudIn'
       /\ AllCalm' => AllCalm /\ Calm(op)
       /\ AllTame' => AllTame /\ Tame(op)
  BY <1>3, <1>9 DEF Row, OnScreen, LoudIn, Loud, AllCalm, AllTame, Tame, Calm
<1>11. Types'
  <2>1. Outdated(op) \subseteq Rows
    BY DEF Outdated
  <2>2. lines' \in Seq(Nat) \ {<<>>} /\ stale' \subseteq Rows
    BY <1>1, <1>4, <1>8, <2>1 DEF Text, Types, TypeOK
  <2>3. reading' \in {"line", "flag", "queue"}
    BY <1>1, <1>2 DEF Types, TypeOK
  <2>4. TypeOK'
    BY <1>1, <1>3, <2>2, <2>3 DEF Types, TypeOK
  <2>5. others' \in Nat
    BY <1>1, <1>5 DEF Types
  <2>6. astray' \in BOOLEAN /\ anchor' \in Int
    <3>1. op.pos \in Position /\ InText(lines, op.pos)
      BY <1>7 DEF OnText, Operation
    <3>2. Moved(anchor, Flat(lines, op.pos), op.operation) \in Int
      BY <1>1 DEF Moved, Types
    <3> QED  BY <1>4, <3>2 DEF Means
  <2> QED  BY <1>1, <1>3, <1>9, <2>4, <2>5, <2>6 DEF Types
<1>12. Kept'
  <2>1. SUFFICES ASSUME ~astray'
                 PROVE  LET q == Followed(cur_pos, Backlog')
                        IN  /\ q.lineno \in 1..Len(lines')
                            /\ InText(lines', q)
                            /\ Flat(lines', Clamped(lines', q)) = anchor'
                            /\ ~refused
    BY <1>3 DEF Kept
  <2>2. /\ ~astray /\ (Backlog = <<>> => InText(lines, cur_pos))
        /\ anchor' = Moved(anchor, Flat(lines, op.pos), op.operation)
    BY <1>4, <2>1 DEF Means
  <2> DEFINE p == Followed(cur_pos, Backlog)
             q == Followed(cur_pos, Backlog')
  <2>3. p \in Position /\ q = Transformed(p, op)
    BY <1>1, <1>6, <1>7, <1>9, BacklogType, FollowedAppend
  <2>4. /\ p.lineno \in 1..Len(lines) /\ (Backlog # <<>> => InText(lines, p))
        /\ Flat(lines, Clamped(lines, p)) = anchor /\ ~refused
    BY <1>1, <2>2 DEF Kept
  <2>5. Backlog = <<>> => p = cur_pos
    BY <1>6, FollowedEmpty
  <2> HIDE DEF p, q
  <2>6. InText(lines, p)
    BY <2>2, <2>4, <2>5
  <2>7. Flat(lines, p) = anchor
    BY <1>6, <2>3, <2>4, <2>6, ClampedIs DEF InText
  <2>8. /\ q \in Position /\ InText(lines', q)
        /\ Flat(lines', q) = Moved(Flat(lines, p), Flat(lines, op.pos), op.operation)
    BY <1>4, <1>6, <1>7, <2>3, <2>6, CursorFollows DEF Follows
  <2>9. q.lineno \in 1..Len(lines')
    BY <2>8 DEF InText
  <2>10. q.lineno <= Len(lines')
    BY <1>8, <2>9, TextType
  <2>11. Clamped(lines', q) = q
    BY <1>8, <2>8, <2>10, ClampedIs
  <2> QED  BY <2>2, <2>4, <2>7, <2>8, <2>9, <2>11 DEF q
<1>13. Telling'
  <2>1. OneEach'
    <3> DEFINE L == Len(untold)
               e == [by |-> thread, op |-> op]
    <3>1. /\ L \in Nat /\ Len(untold') = L + 1 /\ e.by = thread
          /\ \A m \in 1..L : untold'[m] = untold[m]
          /\ untold'[L + 1] = e
      BY <1>1, <1>4 DEF Types
    <3>2. \A m \in 1..L : untold[m].by # thread
      <4>1. CASE thread = "remote"
        BY <1>5, <4>1 DEF Locked
      <4>2. CASE thread = "cli"
        BY <1>1, <1>2, <4>2 DEF Telling, OneEach
      <4> QED  BY <4>1, <4>2
    <3>3. /\ \A m, n \in 1..L : untold[m].by = untold[n].by => m = n
          /\ reading = "line" <=> \A n \in 1..L : untold[n].by # "cli"
      BY <1>1 DEF Telling, OneEach
    <3> HIDE DEF L, e
    <3>4. \A m \in 1..L + 1 : m \in 1..L \/ m = L + 1
      BY <3>1
    <3>5. /\ \A m \in 1..L : untold'[m].by = untold[m].by /\ m \in 1..L + 1
          /\ untold'[L + 1].by = thread /\ L + 1 \in 1..L + 1
      BY <3>1
    <3>6. \A m, n \in 1..L + 1 : untold'[m].by = untold'[n].by => m = n
      BY <3>2, <3>3, <3>4, <3>5
    <3>7. reading' = "line" <=> \A n \in 1..L + 1 : untold'[n].by # "cli"
      BY <1>2, <3>2, <3>3, <3>4, <3>5
    <3> QED  BY <3>1, <3>6, <3>7 DEF OneEach
  <2>2. Fits'
    <3>1. /\ Total(lines) \in Nat /\ Total(lines') \in Nat
          /\ Total(lines') <= Total(lines) + 1
      BY <1>4, <1>6, <1>7, TotalGrows
    <3>2. Total(lines) + others + own < INT_MAX /\ others \in Nat /\ own \in Nat
      BY <1>1 DEF Telling, Fits, Types
    <3> QED  BY <1>3, <1>5, <3>1, <3>2 DEF Fits, INT_MAX
  <2> QED  BY <2>1, <2>2 DEF Telling
<1>14. Picture'
  <2>1. /\ need = need' /\ pc' = pc /\ (Drawing' <=> Drawing)
    BY <1>3 DEF Drawing
  <2>2. Asked'
    BY <1>1, <2>1 DEF Picture, Asked
  <2>3. InView'
    BY <1>1, <1>10, <2>1 DEF Picture, InView
  <2>4. RowKnown'
    BY <1>1, <1>3, <1>10, <2>1 DEF Picture, RowKnown
  <2>5. LineThere'
    <3>1. SUFFICES ASSUME Redraw \notin need, ~(cur_pos.lineno <= Len(lines'))
                   PROVE  \E o \in Pending' : o.newline /\ o.pos.lineno <= Len(lines')
      BY <1>3 DEF LineThere
    <3>2. \/ cur_pos.lineno <= Len(lines)
          \/ \E o \in Pending : o.newline /\ o.pos.lineno <= Len(lines)
      BY <1>1, <3>1 DEF Picture, LineThere
    <3>3. Len(lines) \in Nat /\ Len(lines') \in Nat /\ cur_pos.lineno \in Nat
      BY <1>6, <1>8, TextType DEF Position
    <3>4. \A o \in Pending : o.pos.lineno \in Nat
      BY <1>1, BacklogType DEF Operation, Position
    <3>5. CASE Len(lines') >= Len(lines)
      <4>1. PICK o \in Pending : o.newline /\ o.pos.lineno <= Len(lines)
        BY <3>1, <3>2, <3>3, <3>5
      <4>2. o.pos.lineno \in Nat /\ o.pos.lineno <= Len(lines)
        BY <3>4, <4>1
      <4>3. o.pos.lineno <= Len(lines')
        BY <3>3, <3>5, <4>2
      <4> QED  BY <1>9, <4>1, <4>3
    <3>6. CASE Len(lines') < Len(lines)
      <4>1. op.operation = DELETE /\ op.newline
        <5>1. op.operation \in {INSERT, DELETE} /\ op.newline \in BOOLEAN
          BY <1>7 DEF Operation
        <5>2. op.operation = INSERT /\ op.newline => Len(lines') = Len(lines) + 1
          BY <1>8 DEF LinesAfter, Broken
        <5>3. ~op.newline => Len(lines') = Len(lines)
          BY <1>8, <5>1 DEF LinesAfter, Longer
        <5> QED  BY <3>3, <3>6, <5>1, <5>2, <5>3
      <4>2. op.pos.lineno \in 1..Len(lines')
        BY <1>8, <4>1 DEF LinesAfter, Broken
      <4>3. op.pos.lineno <= Len(lines')
        BY <3>3, <4>2
      <4> QED  BY <1>9, <4>1, <4>3
    <3> QED  BY <3>3, <3>5, <3>6
  <2>6. LineKnown'
    <3>1. SUFFICES ASSUME need = {}, AllCalm'
                   PROVE  /\ InText(lines', cur_pos)
                          /\ cur_line_size = lines'[cur_pos.lineno]
      BY <1>3 DEF LineKnown
    <3>2. InText(lines, cur_pos) /\ cur_line_size = lines[cur_pos.lineno] /\ OnScreen
      BY <1>1, <1>10, <3>1 DEF Picture, LineKnown, InView
    <3>3. /\ cur_pos.lineno \in 1..Len(lines')
          /\ lines'[cur_pos.lineno] = lines[cur_pos.lineno]
      BY <1>4, <1>6, <1>7, <1>10, <3>1, <3>2, CalmChange DEF InText
    <3> QED  BY <3>2, <3>3 DEF InText
  <2>7. Fresh'
    <3>1. SUFFICES ASSUME ~torn, Redraw \notin need, AllTame'
                   PROVE  /\ stale' \subseteq {Row}
                          /\ need = {} /\ AllCalm' => stale' = {}
      BY <1>3, <1>10 DEF Fresh
    <3>2. stale \subseteq {Row} /\ (need = {} /\ AllCalm => stale = {}) /\ OnScreen
      BY <1>1, <1>10, <3>1 DEF Picture, Fresh, InView
    <3>3. Outdated(op) \subseteq {Row} /\ (Calm(op) => Outdated(op) = {})
      BY <1>6, <1>7, <1>10, <3>1, <3>2, CalmChange
    <3> QED  BY <1>4, <1>10, <3>2, <3>3
  <2>8. ToDraw'
    BY <1>1, <1>3, <1>10, <2>1 DEF Picture, ToDraw
  <2>9. CanDraw'
    BY <1>9 DEF CanDraw
  <2> QED  BY <2>2, <2>3, <2>4, <2>5, <2>6, <2>7, <2>8, <2>9 DEF Picture
<1> QED  BY <1>3, <1>11, <1>12, <1>13, <1>14 DEF ScreenInv

\* A thread tells of its change.
LEMMA QueueKeeps ==
    ASSUME ScreenInv, pc # "undefined", RemoteQueue \/ CliQueue
    PROVE  ScreenInv'
<1>1. Types /\ Kept /\ Telling /\ Picture
  BY DEF ScreenInv
<1>2. PICK thread \in {"remote", "cli"} :
        /\ Queue(thread)
        /\ thread = "cli" => /\ reading = "queue" /\ reading' = "line"
                             /\ buf_changed' = buf_changed
        /\ thread = "remote" => reading' = reading /\ buf_changed' = TRUE
  <2>1. CASE RemoteQueue
    BY <2>1 DEF RemoteQueue
  <2>2. CASE CliQueue
    BY <2>2 DEF CliQueue
  <2> QED  BY <2>1, <2>2
<1>3. /\ lines' = lines /\ others' = others /\ own' = own
      /\ pc' = pc /\ need' = need
      /\ cur_pos' = cur_pos /\ cur_line_size' = cur_line_size
      /\ screen_start_line' = screen_start_line /\ screen_line' = screen_line
      /\ stale' = stale /\ torn' = torn /\ refused' = refused
  BY DEF RemoteQueue, CliQueue, cursorVars, textVars
<1>4. PICK n \in 1..Len(untold) :
        /\ untold[n].by = thread
        /\ queue' = Append(queue, untold[n].op)
        /\ untold' = RemoveAt(untold, n)
        /\ Means(~astray /\ \A m \in 1..n - 1 : Apart(untold[m].op, untold[n].op),
                 anchor)
  BY <1>2 DEF Queue
<1>5. /\ Pending' = Pending /\ (n = 1 => Backlog' = Backlog)
      /\ Backlog # <<>> /\ Backlog' # <<>>
      /\ queue' \in Seq(Operation) /\ untold' \in Seq(Change_t)
      /\ Len(untold') = Len(untold) - 1
      /\ \A m \in 1..Len(untold') :
           untold'[m] = IF m < n THEN untold[m] ELSE untold[m + 1]
  BY <1>1, <1>4, BacklogTold
<1>6. /\ Row' = Row /\ (OnScreen' <=> OnScreen)
      /\ (LoudIn' <=> LoudIn) /\ (AllCalm' <=> AllCalm) /\ (AllTame' <=> AllTame)
  BY <1>3, <1>5, SameView
<1>7. Types'
  <2>1. reading' \in {"line", "flag", "queue"} /\ buf_changed' \in BOOLEAN
    BY <1>1, <1>2 DEF Types, TypeOK
  <2>2. astray' \in BOOLEAN /\ anchor' \in Int
    BY <1>1, <1>4 DEF Means, Types
  <2>3. TypeOK'
    BY <1>1, <1>3, <2>1 DEF Types, TypeOK
  <2> QED  BY <1>1, <1>3, <1>5, <2>1, <2>2, <2>3 DEF Types
<1>8. Kept'
  <2>1. ~astray' => /\ ~astray /\ anchor' = anchor
                    /\ \A m \in 1..n - 1 : Apart(untold[m].op, untold[n].op)
    BY <1>4 DEF Means
  <2>2. CASE n = 1
    BY <1>1, <1>3, <1>5, <2>1, <2>2 DEF Kept
  <2>3. CASE n # 1
    <3>1. n = 2 /\ Len(untold) = 2
      BY <1>1, <2>3, OneOrTwo DEF Telling
    <3>2. ~astray' => Apart(untold[1].op, untold[2].op)
      BY <2>1, <3>1
    <3>3. ~astray' => Followed(cur_pos, Backlog') = Followed(cur_pos, Backlog)
      BY <1>1, <1>4, <3>1, <3>2, Overtaken
    <3> QED  BY <1>1, <1>3, <1>5, <2>1, <3>3 DEF Kept
  <2> QED  BY <2>2, <2>3
<1>9. Telling'
  <2>1. OneEach'
    <3> DEFINE L == Len(untold)
               old(m) == IF m < n THEN m ELSE m + 1
    <3>1. L \in Nat /\ n \in 1..L /\ untold \in Seq(Change_t)
      BY <1>1 DEF Types
    <3>2. /\ \A m, k \in 1..L : untold[m].by = untold[k].by => m = k
          /\ reading = "line" <=> \A m \in 1..L : untold[m].by # "cli"
      BY <1>1 DEF Telling, OneEach
    <3>3. \A m \in 1..L - 1 : untold'[m] = untold[old(m)]
      BY <1>5
    <3> HIDE DEF L
    <3>4. \A m \in 1..L - 1 : old(m) \in 1..L /\ old(m) # n
      BY <3>1
    <3>5. \A m, k \in 1..L - 1 : old(m) = old(k) => m = k
      BY <3>1
    <3>6. \A k \in 1..L : k # n => \E m \in 1..L - 1 : old(m) = k
      <4>1. ASSUME NEW k \in 1..L, k < n
            PROVE  k \in 1..L - 1 /\ old(k) = k
        BY <3>1, <4>1
      <4>2. ASSUME NEW k \in 1..L, k > n
            PROVE  k - 1 \in 1..L - 1 /\ old(k - 1) = k
        BY <3>1, <4>2
      <4>3. ASSUME NEW k \in 1..L, k # n
            PROVE  k < n \/ k > n
        BY <3>1, <4>3
      <4> HIDE DEF old
      <4> QED  BY <4>1, <4>2, <4>3
    <3> HIDE DEF old
    <3>7. \A m, k \in 1..L - 1 : untold'[m].by = untold'[k].by => m = k
      BY <3>2, <3>3, <3>4, <3>5
    <3>8. \A m \in 1..L - 1 : untold'[m].by # thread
      BY <1>4, <3>1, <3>2, <3>3, <3>4
    <3>9. reading' = "line" <=> \A m \in 1..L - 1 : untold'[m].by # "cli"
      <4>1. CASE thread = "cli"
        BY <1>2, <3>8, <4>1
      <4>2. CASE thread = "remote"
        <5>1. reading = "line" => \A m \in 1..L - 1 : untold'[m].by # "cli"
          BY <3>2, <3>3, <3>4
        <5>2. ASSUME reading # "line"
              PROVE  \E m \in 1..L - 1 : untold'[m].by = "cli"
          <6>1. PICK k \in 1..L : untold[k].by = "cli"
            BY <3>2, <5>2
          <6>2. k # n
            BY <1>4, <4>2, <6>1
          <6>3. PICK m \in 1..L - 1 : old(m) = k
            BY <3>6, <6>2
          <6> QED  BY <3>3, <6>1, <6>3
        <5> QED  BY <1>2, <4>2, <5>1, <5>2
      <4> QED  BY <4>1, <4>2
    <3> QED  BY <1>5, <3>7, <3>9 DEF OneEach, L
  <2>2. Fits'
    BY <1>1, <1>3 DEF Telling, Fits
  <2> QED  BY <2>1, <2>2 DEF Telling
<1>10. Picture'
  <2>1. Asked'
    BY <1>1, <1>3 DEF Picture, Asked, Drawing
  <2>2. InView'
    BY <1>1, <1>3, <1>6 DEF Picture, InView
  <2>3. RowKnown'
    BY <1>1, <1>3, <1>6 DEF Picture, RowKnown
  <2>4. LineThere'
    BY <1>1, <1>3, <1>5 DEF Picture, LineThere
  <2>5. LineKnown'
    BY <1>1, <1>3, <1>6 DEF Picture, LineKnown
  <2>6. Fresh'
    BY <1>1, <1>3, <1>6 DEF Picture, Fresh
  <2>7. ToDraw'
    BY <1>1, <1>3, <1>6 DEF Picture, ToDraw
  <2>8. CanDraw'
    BY <1>5 DEF CanDraw
  <2> QED  BY <2>1, <2>2, <2>3, <2>4, <2>5, <2>6, <2>7, <2>8 DEF Picture
<1> QED  BY <1>3, <1>7, <1>8, <1>9, <1>10 DEF ScreenInv

-----------------------------------------------------------------------------
(***************************************************************************)
(* calPos and the drawing.                                                 *)
(***************************************************************************)

\* What calPos asks for after op, which moved the cursor p to q.
LEMMA NeedAfterIs ==
    ASSUME NEW op \in Operation, cur_pos \in Position,
           screen_start_line \in Nat \ {0},
           NEW q, q = Transformed(cur_pos, op), NEW want, want = NeedAfter(op, q),
           Redraw \notin need => OnScreen, need \subseteq {Redraw, RedrawLine}
    PROVE  /\ want \subseteq {Redraw, RedrawLine}
           /\ Redraw \notin want =>
                /\ Redraw \notin need /\ ~Loud(op) /\ Tame(op)
                /\ q.lineno = cur_pos.lineno
                /\ op.newline => cur_pos.lineno < op.pos.lineno
           /\ want = {} => need = {} /\ Calm(op) /\ q = cur_pos
<1> DEFINE n == op.pos.lineno
           k == cur_pos.lineno
           s == screen_start_line
           C == CONTENT_LINES
<1>1. /\ n \in Nat \ {0} /\ op.newline \in BOOLEAN
      /\ op.operation \in {INSERT, DELETE} /\ INSERT # DELETE
      /\ k \in Nat \ {0} /\ s \in Nat \ {0} /\ C \in Nat
      /\ Redraw # RedrawLine
  BY HalfHeight DEF Operation, Position, INSERT, DELETE, Redraw, RedrawLine
<1>2. Redraw \notin need => k < s + C /\ k >= s
  <2>1. OnScreen => k - s \in 0..C - 1
    BY DEF OnScreen, Row, Rows
  <2> QED  BY <1>1, <2>1
<1>3. k < n => q = cur_pos
  BY <1>1 DEF Transformed
<1>4. n # k /\ ~op.newline => q = cur_pos
  BY <1>1 DEF Transformed
<1>5. ~op.newline => q.lineno = k
  BY TransformedIs DEF TransformedTo
<1>6. /\ Calm(op) <=> n > s + C \/ (~op.newline /\ n < s)
      /\ Tame(op) <=> Calm(op) \/ (~op.newline /\ n = k)
      /\ Loud(op) <=> op.newline /\ n <= s + C
  BY DEF Calm, Tame, Loud
<1>7. want = CASE op.newline /\ ~(n > s + C) -> {Redraw}
               [] ~op.newline /\ ~(n > s + C) /\ n >= s /\ n = q.lineno ->
                    need \cup {RedrawLine}
               [] ~op.newline /\ ~(n > s + C) /\ n >= s /\ n # q.lineno ->
                    {Redraw}
               [] OTHER -> need
  BY DEF NeedAfter
<1> HIDE DEF n, k, s, C
<1>8. CASE n > s + C
  <2>1. want = need
    BY <1>7, <1>8
  <2>2. Calm(op) /\ Tame(op) /\ ~Loud(op)
    BY <1>1, <1>6, <1>8
  <2>3. Redraw \notin need => q = cur_pos /\ k < n
    BY <1>1, <1>2, <1>3, <1>8
  <2>4. want = {} => Redraw \notin need
    BY <2>1
  <2> QED  BY <2>1, <2>2, <2>3, <2>4 DEF n, k
<1>9. CASE n <= s + C /\ op.newline
  <2>1. want = {Redraw}
    BY <1>1, <1>7, <1>9
  <2> QED  BY <2>1
<1>10. CASE n <= s + C /\ ~op.newline /\ n >= s /\ n = k
  <2>1. want = need \cup {RedrawLine}
    BY <1>1, <1>5, <1>7, <1>10
  <2> QED  BY <1>5, <1>6, <1>10, <2>1 DEF k
<1>11. CASE n <= s + C /\ ~op.newline /\ n >= s /\ n # k
  <2>1. want = {Redraw}
    BY <1>1, <1>5, <1>7, <1>11
  <2> QED  BY <2>1
<1>12. CASE n <= s + C /\ ~op.newline /\ n < s
  <2>1. want = need
    BY <1>1, <1>5, <1>7, <1>12
  <2>2. Calm(op) /\ Tame(op) /\ ~Loud(op)
    BY <1>6, <1>12
  <2>3. Redraw \notin need => n # k
    BY <1>1, <1>2, <1>12
  <2>4. want = {} => Redraw \notin need
    BY <2>1
  <2> QED  BY <1>4, <1>5, <1>12, <2>1, <2>2, <2>3, <2>4 DEF k
<1> QED  BY <1>1, <1>8, <1>9, <1>10, <1>11, <1>12

\* calPos takes a position from the queue.
LEMMA TransformKeeps ==
    ASSUME ScreenInv, pc # "undefined", TransformPos
    PROVE  ScreenInv'
<1>1. Types /\ Kept /\ Telling /\ Picture
  BY DEF ScreenInv
<1> DEFINE op == Head(queue)
<1>2. /\ pc = "calPos" /\ pc' = pc /\ queue # <<>> /\ queue' = Tail(queue)
      /\ cur_pos' = Transformed(cur_pos, op) /\ need' = NeedAfter(op, cur_pos')
      /\ lines' = lines /\ others' = others /\ own' = own
      /\ untold' = untold /\ reading' = reading /\ buf_changed' = buf_changed
      /\ cur_line_size' = cur_line_size
      /\ screen_start_line' = screen_start_line /\ screen_line' = screen_line
      /\ stale' = stale /\ anchor' = anchor /\ astray' = astray
      /\ torn' = torn /\ refused' = refused
  BY DEF TransformPos, textVars, raceVars, meaningVars
<1>3. /\ Backlog # <<>> /\ op = Head(Backlog) /\ Backlog' = Tail(Backlog)
      /\ Pending = Pending' \cup {op}
      /\ op \in Operation /\ queue' \in Seq(Operation)
  BY <1>1, <1>2, BacklogHeard
<1>4. /\ cur_pos \in Position /\ screen_start_line \in Nat \ {0}
      /\ need \subseteq {Redraw, RedrawLine} /\ lines \in Text
  BY <1>1 DEF Types, TypeOK, Text
<1>5. Redraw \notin need => OnScreen
  BY <1>1 DEF Picture, InView
<1> HIDE DEF op
<1>6. /\ need' \subseteq {Redraw, RedrawLine}
      /\ Redraw \notin need' =>
           /\ Redraw \notin need /\ ~Loud(op) /\ Tame(op)
           /\ cur_pos'.lineno = cur_pos.lineno
           /\ op.newline => cur_pos.lineno < op.pos.lineno
      /\ need' = {} => need = {} /\ Calm(op) /\ cur_pos' = cur_pos
  <2> DEFINE q == cur_pos'
             want == need'
  <2>1. q = Transformed(cur_pos, op) /\ want = NeedAfter(op, q)
    BY <1>2
  <2> HIDE DEF q, want
  <2>2. /\ want \subseteq {Redraw, RedrawLine}
        /\ Redraw \notin want =>
             /\ Redraw \notin need /\ ~Loud(op) /\ Tame(op)
             /\ q.lineno = cur_pos.lineno
             /\ op.newline => cur_pos.lineno < op.pos.lineno
        /\ want = {} => need = {} /\ Calm(op) /\ q = cur_pos
    BY <1>3, <1>4, <1>5, <2>1, NeedAfterIs
  <2> QED  BY <2>2 DEF q, want
<1>7. cur_pos' \in Position
  BY <1>2, <1>3, <1>4, TransformedIs DEF TransformedTo
<1>8. Types'
  <2>1. cur_pos'.lineno >= 1 /\ cur_pos'.offset >= 1
    BY <1>7 DEF Position
  <2>2. TypeOK'
    BY <1>1, <1>2, <1>6, <2>1 DEF Types, TypeOK
  <2> QED  BY <1>1, <1>2, <1>3, <1>7, <2>2 DEF Types
<1>9. Kept'
  <2>1. Followed(cur_pos, Backlog) = Followed(cur_pos', Backlog')
    <3>1. Backlog \in Seq(Operation)
      BY <1>1, BacklogType
    <3> QED  BY <1>2, <1>3, <1>4, <3>1, FollowedNext
  <2> QED  BY <1>1, <1>2, <1>3, <2>1 DEF Kept
<1>10. Telling'
  BY <1>1, <1>2 DEF Telling, OneEach, Fits
<1>11. Picture'
  <2>1. Asked' /\ ToDraw' /\ CanDraw'
    BY <1>2 DEF Asked, ToDraw, CanDraw, Drawing
  <2>2. Redraw \notin need' => Row' = Row /\ (OnScreen' <=> OnScreen)
    BY <1>2, <1>6 DEF Row, OnScreen
  <2>3. Redraw \notin need' /\ LoudIn => LoudIn'
    <3>1. SUFFICES ASSUME Redraw \notin need', NEW o \in Pending, Loud(o)
                   PROVE  LoudIn'
      BY DEF LoudIn
    <3>2. o \in Pending'
      BY <1>3, <1>6, <3>1
    <3> QED  BY <1>2, <3>1, <3>2 DEF LoudIn, Loud
  <2>4. InView'
    BY <1>2, <1>5, <1>6, <2>2 DEF InView
  <2>5. RowKnown'
    BY <1>1, <1>2, <1>6, <2>2, <2>3 DEF Picture, RowKnown
  <2>6. LineThere'
    <3>1. SUFFICES ASSUME Redraw \notin need', ~(cur_pos'.lineno <= Len(lines))
                   PROVE  \E o \in Pending' : o.newline /\ o.pos.lineno <= Len(lines)
      BY <1>2 DEF LineThere
    <3>2. ~(cur_pos.lineno <= Len(lines))
      BY <1>6, <3>1
    <3>3. PICK o \in Pending : o.newline /\ o.pos.lineno <= Len(lines)
      BY <1>1, <1>6, <3>1, <3>2 DEF Picture, LineThere
    <3>4. o # op
      <4>1. Len(lines) \in Nat /\ cur_pos.lineno \in Nat /\ op.pos.lineno \in Nat
        BY <1>3, <1>4, TextType DEF Position, Operation
      <4>2. ~(op.newline /\ op.pos.lineno <= Len(lines))
        BY <1>6, <3>1, <3>2, <4>1
      <4> QED  BY <3>3, <4>2
    <3> QED  BY <1>3, <3>3, <3>4
  <2>7. LineKnown'
    <3>1. need' = {} /\ AllCalm' => need = {} /\ AllCalm /\ cur_pos' = cur_pos
      BY <1>2, <1>3, <1>6 DEF AllCalm, Calm
    <3> QED  BY <1>1, <1>2, <3>1 DEF Picture, LineKnown
  <2>8. Fresh'
    <3>1. Redraw \notin need' /\ AllTame' => AllTame
      BY <1>2, <1>3, <1>6 DEF AllTame, Tame, Calm
    <3>2. need' = {} /\ AllCalm' => need = {} /\ AllCalm
      BY <1>2, <1>3, <1>6 DEF AllCalm, Calm
    <3> QED  BY <1>1, <1>2, <1>6, <2>2, <3>1, <3>2 DEF Picture, Fresh
  <2> QED  BY <2>1, <2>4, <2>5, <2>6, <2>7, <2>8 DEF Picture
<1> QED  BY <1>2, <1>8, <1>9, <1>10, <1>11 DEF ScreenInv

\* calPos ends: it scrolls to the cursor, and keeps it in the text.
LEMMA EndTransformKeeps ==
    ASSUME ScreenInv, pc # "undefined", EndTransform
    PROVE  ScreenInv'
<1>1. Types /\ Kept /\ Telling /\ Picture
  BY DEF ScreenInv
<1> DEFINE k == cur_pos.lineno
           s == screen_start_line
           N == Len(lines)
           start == Scrolled(k, s, N)
           kk == Min2(k, N)
           C == CONTENT_LINES
           H == HALF_HEIGHT
<1>2. /\ pc = "calPos" /\ queue = <<>>
      /\ screen_start_line' = start
      /\ stale' = IF start = s THEN stale ELSE Rows
      /\ cur_pos' = [cur_pos EXCEPT !.lineno = kk]
      /\ pc' = IF need = {} THEN "key" ELSE "redraw"
      /\ lines' = lines /\ others' = others /\ own' = own
      /\ queue' = queue /\ untold' = untold /\ reading' = reading
      /\ buf_changed' = buf_changed /\ need' = need
      /\ cur_line_size' = cur_line_size /\ screen_line' = screen_line
      /\ torn' = torn /\ refused' = refused
  BY DEF EndTransform, textVars, queueVars
<1>3. /\ astray' = ~(~astray /\ (Backlog # <<>> => cur_pos' = cur_pos))
      /\ anchor' = IF ~astray /\ (Backlog # <<>> => cur_pos' = cur_pos)
                   THEN anchor ELSE 0
  BY DEF EndTransform, KeepMeaning, Means
<1>4. /\ cur_pos \in Position /\ cur_pos = [lineno |-> k, offset |-> cur_pos.offset]
      /\ k \in Nat \ {0} /\ s \in Nat \ {0} /\ lines \in Text /\ N \in Nat \ {0}
      /\ cur_pos.offset \in Nat \ {0}
  BY <1>1, TextType DEF Types, TypeOK, Text, Position
<1>5. /\ C \in Nat /\ C >= 5 /\ H \in Nat /\ H >= 2 /\ 2 * H <= C /\ Rows = 0..C - 1
  BY HalfHeight DEF Rows
<1>6. /\ start \in Nat \ {0}
      /\ kk - start \in Rows
      /\ k - s \in Rows /\ s <= N => start = s
      /\ k - s \in Rows /\ s > N => start < s /\ start <= N /\ N <= start + H
  BY <1>4, ScrolledIs
<1>7. kk \in Nat \ {0} /\ kk <= N /\ kk <= k /\ (kk = k \/ kk = N) /\ (k <= N => kk = k)
  BY <1>4 DEF Min2
<1>8. Backlog' = Backlog /\ Pending' = Pending
  BY <1>2, BacklogSame
<1>9. /\ Row = k - s /\ Row' = kk - start /\ OnScreen' /\ cur_pos'.lineno = kk
      /\ cur_pos' \in Position
  BY <1>2, <1>4, <1>6, <1>7 DEF Row, OnScreen, Position
<1>10. k <= N => cur_pos' = cur_pos
  BY <1>2, <1>4, <1>7
<1> HIDE DEF start, kk, C, H, k, s, N
<1>11. Types'
  <2>1. cur_pos'.lineno >= 1 /\ cur_pos'.offset >= 1 /\ screen_start_line' >= 1
    BY <1>2, <1>6, <1>9 DEF Position
  <2>2. stale' \subseteq Rows
    BY <1>1, <1>2 DEF Types, TypeOK
  <2>3. TypeOK'
    BY <1>1, <1>2, <2>1, <2>2 DEF Types, TypeOK
  <2>4. anchor' \in Int /\ astray' \in BOOLEAN
    BY <1>1, <1>3 DEF Types
  <2> QED  BY <1>1, <1>2, <1>6, <1>9, <2>3, <2>4 DEF Types
<1>12. ~astray' => ~astray /\ cur_pos' = cur_pos /\ anchor' = anchor
  <2>1. SUFFICES ASSUME ~astray', Backlog = <<>>
                 PROVE  cur_pos' = cur_pos
    BY <1>3
  <2>2. Followed(cur_pos, Backlog) = cur_pos
    BY <1>4, <2>1, FollowedEmpty
  <2>3. k \in 1..N
    BY <1>1, <1>3, <2>1, <2>2 DEF Kept, k, N
  <2> QED  BY <1>4, <1>10, <2>3
<1>13. Kept'
  BY <1>1, <1>2, <1>8, <1>12 DEF Kept
<1>14. Telling'
  BY <1>1, <1>2 DEF Telling, OneEach, Fits
<1>15. ASSUME Redraw \notin need, ~(start = s /\ k <= N)
       PROVE  /\ Row <= C - 1 /\ screen_line >= 0
              /\ \E op \in Pending : op.newline /\ op.pos.lineno <= N /\ op.pos.lineno < k
              /\ LoudIn' /\ ~AllCalm' /\ ~AllTame'
  <2>1. OnScreen /\ k - s \in 0..C - 1
    BY <1>1, <1>5, <1>9, <1>15 DEF Picture, InView, OnScreen
  <2>2. ~(k <= N)
    BY <1>4, <1>5, <1>6, <1>15, <2>1
  <2>3. PICK op \in Pending : op.newline /\ op.pos.lineno <= N
    BY <1>1, <1>15, <2>2 DEF Picture, LineThere, k, N
  <2>4. op.pos.lineno \in Nat
    BY <1>1, BacklogType DEF Operation, Position
  <2>5. op.pos.lineno <= start + C
    <3>1. N <= start + C
      <4>1. CASE s <= N
        <5>1. start = s
          BY <1>5, <1>6, <2>1, <4>1
        <5> QED  BY <1>4, <1>5, <2>1, <2>2, <5>1
      <4>2. CASE s > N
        <5>1. N <= start + H
          BY <1>5, <1>6, <2>1, <4>2
        <5> QED  BY <1>4, <1>5, <1>6, <5>1
      <4> QED  BY <1>4, <4>1, <4>2
    <3>2. op.pos.lineno <= N /\ N \in Nat /\ start \in Nat /\ C \in Nat
      BY <1>4, <1>5, <1>6, <2>3
    <3> QED  BY <2>4, <3>1, <3>2
  <2>6. ~(op.pos.lineno > start + C)
    BY <1>5, <1>6, <2>4, <2>5
  <2>7. Loud(op)' /\ ~Calm(op)' /\ ~Tame(op)'
    BY <1>2, <2>3, <2>5, <2>6 DEF Loud, Tame, Calm, C
  <2>8. LoudIn' /\ ~AllCalm' /\ ~AllTame'
    BY <1>8, <2>3, <2>7 DEF LoudIn, AllCalm, AllTame
  <2>9. screen_line >= 0
    <3>1. screen_line = Row \/ screen_line >= 0
      BY <1>1, <1>15 DEF Picture, RowKnown
    <3> QED  BY <1>5, <1>9, <2>1, <3>1
  <2>10. op.pos.lineno < k
    BY <1>4, <2>2, <2>3, <2>4
  <2> QED  BY <1>5, <1>9, <2>1, <2>3, <2>8, <2>9, <2>10
<1>16. start = s /\ k <= N =>
         /\ cur_pos' = cur_pos /\ screen_start_line' = screen_start_line
         /\ Row' = Row /\ stale' = stale
         /\ (LoudIn' <=> LoudIn) /\ (AllCalm' <=> AllCalm) /\ (AllTame' <=> AllTame)
  BY <1>2, <1>8, <1>10, SameView DEF s
<1>17. Picture'
  <2>1. Asked' /\ ToDraw'
    BY <1>2 DEF Asked, ToDraw, Drawing
  <2>2. InView'
    BY <1>9 DEF InView
  <2>3. RowKnown'
    <3>1. CASE start = s /\ k <= N
      BY <1>1, <1>2, <1>16, <3>1 DEF Picture, RowKnown
    <3>2. CASE ~(start = s /\ k <= N)
      <4>1. SUFFICES ASSUME Redraw \notin need
                     PROVE  Row' <= H \/ (Row' <= screen_line /\ screen_line < C)
        BY <1>2, <1>15, <3>2 DEF RowKnown, H, C
      <4>2. OnScreen /\ k - s \in 0..C - 1
        BY <1>1, <1>5, <1>9, <4>1 DEF Picture, InView, OnScreen
      <4>3. CASE s > N
        <5>1. N <= start + H
          BY <1>5, <1>6, <4>2, <4>3
        <5>2. kk <= start + H
          BY <1>4, <1>5, <1>6, <1>7, <5>1
        <5>3. kk - start <= H
          BY <1>5, <1>6, <1>7, <5>2
        <5> QED  BY <1>9, <5>3
      <4>4. CASE s <= N
        <5>1. start = s
          BY <1>5, <1>6, <4>2, <4>4
        <5>2. Row' <= Row
          BY <1>4, <1>6, <1>7, <1>9, <5>1
        <5>3. screen_line = Row \/ Row <= H \/ (Row <= screen_line /\ screen_line < C)
          BY <1>1, <4>1 DEF Picture, RowKnown, H, C
        <5>4. Row \in 0..C - 1 /\ Row' \in Int /\ screen_line \in Int
          BY <1>1, <1>4, <1>6, <1>7, <1>9, <4>2 DEF Types
        <5> QED  BY <1>5, <5>2, <5>3, <5>4
      <4> QED  BY <1>4, <4>3, <4>4
    <3> QED  BY <3>1, <3>2
  <2>4. LineThere'
    BY <1>2, <1>7, <1>9 DEF LineThere, N
  <2>5. LineKnown'
    <3>1. SUFFICES ASSUME need = {}, AllCalm'
                   PROVE  /\ InText(lines, cur_pos')
                          /\ cur_line_size = lines[cur_pos'.lineno]
      BY <1>2 DEF LineKnown
    <3>2. start = s /\ k <= N
      BY <1>15, <3>1
    <3> QED  BY <1>1, <1>16, <3>1, <3>2 DEF Picture, LineKnown
  <2>6. Fresh'
    <3>1. SUFFICES ASSUME ~torn, Redraw \notin need, AllTame'
                   PROVE  /\ stale' \subseteq {Row'}
                          /\ need = {} /\ AllCalm' => stale' = {}
      BY <1>2 DEF Fresh
    <3>2. start = s /\ k <= N
      BY <1>15, <3>1
    <3> QED  BY <1>1, <1>16, <3>1, <3>2 DEF Picture, Fresh
  <2>7. CanDraw'
    BY <1>2, <1>7, <1>9 DEF CanDraw, N
  <2> QED  BY <2>1, <2>2, <2>3, <2>4, <2>5, <2>6, <2>7 DEF Picture
<1> QED  BY <1>2, <1>11, <1>13, <1>14, <1>17 DEF ScreenInv

\* A line that calCurLine can draw is in the text, and so is the cursor then.
LEMMA DrawnLine ==
    ASSUME Types, NEW n \in Nat \ {0}, n <= Len(lines), DrawCurLine(n)
    PROVE  /\ cur_pos' \in Position /\ InText(lines, cur_pos')
           /\ cur_pos'.lineno = n
           /\ cur_line_size' = lines[n] /\ cur_line_size' \in Nat
           /\ need' = {} /\ pc' = AfterDrawing
           /\ n = cur_pos.lineno => cur_pos' = Clamped(lines, cur_pos)
<1> DEFINE p == [cur_pos EXCEPT !.lineno = n]
<1>1. lines \in Text /\ cur_pos \in Position
  BY DEF Types, TypeOK, Text
<1>2. p \in Position /\ p.lineno = n /\ (n = cur_pos.lineno => p = cur_pos)
  BY <1>1 DEF Position
<1>3. /\ cur_line_size' = lines[n] /\ cur_pos' = Clamped(lines, p)
      /\ need' = {} /\ pc' = AfterDrawing
  BY DEF DrawCurLine
<1> HIDE DEF p
<1>4. cur_pos' \in Position /\ InText(lines, cur_pos') /\ cur_pos'.lineno = n
  BY <1>1, <1>2, <1>3, ClampedIs
<1>5. n \in 1..Len(lines)
  BY <1>1, TextType
<1>6. lines[n] \in Nat
  BY <1>1, <1>5, TextType
<1> QED  BY <1>2, <1>3, <1>4, <1>6

\* What remains to be shown when a line has been drawn.
Drawn(n) ==
    /\ Drawing /\ n \in Nat \ {0} /\ n <= Len(lines) /\ DrawCurLine(n)
    /\ UNCHANGED <<textVars, queueVars, screen_start_line, refused>>
    /\ stale' \subseteq Rows /\ screen_line' \in Int /\ torn' \in BOOLEAN
    /\ astray' \in BOOLEAN /\ anchor' \in Int
    /\ OnScreen' /\ RowKnown'
    /\ torn \/ AllTame' => torn' \/ stale' = {}
    /\ Backlog = <<>> /\ pc = "draw first" => n < Len(lines)

\* After the drawing of line n the screen is as the picture says.
LEMMA DrawnKeeps ==
    ASSUME ScreenInv, pc # "undefined", NEW n, Drawn(n), Kept'
    PROVE  ScreenInv'
<1>1. Types /\ Telling /\ Picture
  BY DEF ScreenInv
<1>2. /\ Drawing /\ n \in Nat \ {0} /\ n <= Len(lines) /\ DrawCurLine(n)
      /\ lines' = lines /\ others' = others /\ own' = own
      /\ queue' = queue /\ untold' = untold /\ reading' = reading
      /\ buf_changed' = buf_changed /\ refused' = refused
      /\ screen_start_line' = screen_start_line
      /\ stale' \subseteq Rows /\ screen_line' \in Int /\ torn' \in BOOLEAN
      /\ astray' \in BOOLEAN /\ anchor' \in Int
      /\ OnScreen' /\ RowKnown'
      /\ torn \/ AllTame' => torn' \/ stale' = {}
      /\ Backlog = <<>> /\ pc = "draw first" => n < Len(lines)
  BY DEF Drawn, textVars, queueVars
<1>3. /\ cur_pos' \in Position /\ InText(lines, cur_pos')
      /\ cur_pos'.lineno = n
      /\ cur_line_size' = lines[n] /\ cur_line_size' \in Nat
      /\ need' = {} /\ pc' = AfterDrawing
  BY <1>1, <1>2, DrawnLine
<1>4. /\ pc' \in {"key", "getch", "join"}
      /\ pc' = "join" => pc = "draw first"
  BY <1>2, <1>3 DEF AfterDrawing, Drawing
<1>5. Backlog' = Backlog /\ Pending' = Pending
  BY <1>2, BacklogSame
<1>6. Types'
  <2>1. cur_pos'.lineno >= 1 /\ cur_pos'.offset >= 1
    BY <1>3 DEF Position
  <2>2. TypeOK'
    BY <1>1, <1>2, <1>3, <1>4, <2>1 DEF Types, TypeOK
  <2> QED  BY <1>1, <1>2, <1>3, <2>2 DEF Types
<1>7. Telling'
  BY <1>1, <1>2 DEF Telling, OneEach, Fits
<1>8. Picture'
  <2>1. Asked' /\ InView' /\ ToDraw'
    BY <1>2, <1>3, <1>4 DEF Asked, InView, ToDraw, Drawing
  <2>2. LineThere'
    BY <1>2, <1>3 DEF LineThere
  <2>3. LineKnown'
    BY <1>2, <1>3 DEF LineKnown
  <2>4. Fresh'
    <3>1. AllTame' /\ ~torn' => stale' = {}
      BY <1>2
    <3> QED  BY <3>1 DEF Fresh
  <2>5. CanDraw'
    BY <1>2, <1>3, <1>4, <1>5 DEF CanDraw, Drawing
  <2> QED  BY <1>2, <2>1, <2>2, <2>3, <2>4, <2>5 DEF Picture
<1> QED  BY <1>4, <1>6, <1>7, <1>8 DEF ScreenInv

\* Kept inside its line the cursor means what it meant, unless it has still
\* to be moved.
LEMMA KeepMeaningKeeps ==
    ASSUME Types, Kept, KeepMeaning, UNCHANGED <<lines, queue, untold, refused>>,
           cur_pos.lineno <= Len(lines), cur_pos' = Clamped(lines, cur_pos)
    PROVE  Kept' /\ astray' \in BOOLEAN /\ anchor' \in Int
<1>1. /\ lines \in Text /\ cur_pos \in Position
      /\ astray \in BOOLEAN /\ anchor \in Int
  BY DEF Types, TypeOK, Text
<1>2. /\ astray' = ~(~astray /\ (Backlog # <<>> => cur_pos' = cur_pos))
      /\ anchor' = IF ~astray /\ (Backlog # <<>> => cur_pos' = cur_pos)
                   THEN anchor ELSE 0
  BY DEF KeepMeaning, Means
<1>3. Backlog' = Backlog /\ lines' = lines /\ refused' = refused
  BY BacklogSame
<1>4. /\ cur_pos' \in Position /\ cur_pos'.lineno = cur_pos.lineno
      /\ Clamped(lines, cur_pos') = cur_pos'
  BY <1>1, ClampedIs
<1>5. Kept'
  <2>1. CASE Backlog # <<>>
    <3>1. ~astray' => ~astray /\ anchor' = anchor /\ cur_pos' = cur_pos
      BY <1>2, <2>1
    <3>2. SUFFICES ASSUME ~astray'
                   PROVE  LET pos == Followed(cur_pos, Backlog)
                          IN  /\ pos.lineno \in 1..Len(lines)
                              /\ Backlog # <<>> => InText(lines, pos)
                              /\ Flat(lines, Clamped(lines, pos)) = anchor
                              /\ ~refused
      BY <1>3, <3>1 DEF Kept
    <3> QED  BY <3>1, <3>2 DEF Kept
  <2>2. CASE Backlog = <<>>
    <3>1. Followed(cur_pos, Backlog) = cur_pos /\ Followed(cur_pos', Backlog) = cur_pos'
      BY <1>1, <1>4, <2>2, FollowedEmpty
    <3>2. ~astray' => ~astray /\ anchor' = anchor
      BY <1>2
    <3>3. ~astray => /\ cur_pos.lineno \in 1..Len(lines)
                     /\ Flat(lines, Clamped(lines, cur_pos)) = anchor
                     /\ ~refused
      BY <3>1 DEF Kept
    <3> QED  BY <1>3, <1>4, <2>2, <3>1, <3>2, <3>3 DEF Kept
  <2> QED  BY <2>1, <2>2
<1> QED  BY <1>1, <1>2, <1>5

\* redrawContent, the line of the cursor on the screen.
LEMMA DrawContentKeeps ==
    ASSUME ScreenInv, pc # "undefined", DrawContent
    PROVE  ScreenInv'
<1>1. Types /\ Kept /\ Telling /\ Picture
  BY DEF ScreenInv
<1>2. /\ Drawing /\ Row \in Rows /\ cur_pos.lineno <= Len(lines)
      /\ screen_line' = Row /\ DrawCurLine(cur_pos.lineno) /\ KeepMeaning
      /\ stale' = {} /\ torn' = (torn /\ Backlog # <<>>)
      /\ UNCHANGED <<textVars, queueVars, screen_start_line, refused>>
  BY DEF DrawContent, Row
<1>3. cur_pos.lineno \in Nat \ {0} /\ screen_start_line \in Nat
  BY <1>1 DEF Types, Position
<1>4. cur_pos'.lineno = cur_pos.lineno /\ cur_pos' = Clamped(lines, cur_pos)
  BY <1>1, <1>2, <1>3, DrawnLine
<1>5. Row' = Row /\ OnScreen' /\ RowKnown'
  BY <1>2, <1>4 DEF Row, OnScreen, RowKnown
<1>6. Kept' /\ astray' \in BOOLEAN /\ anchor' \in Int
  BY <1>1, <1>2, <1>4, KeepMeaningKeeps DEF textVars, queueVars
<1>7. Backlog = <<>> /\ pc = "draw first" => cur_pos.lineno < Len(lines)
  BY <1>1 DEF Picture, CanDraw
<1>8. Row \in Int /\ torn' \in BOOLEAN /\ stale' \subseteq Rows
  BY <1>1, <1>2, <1>3 DEF Types, Row
<1>9. Drawn(cur_pos.lineno)
  BY <1>2, <1>3, <1>5, <1>6, <1>7, <1>8 DEF Drawn
<1> QED  BY <1>6, <1>9, DrawnKeeps

\* redrawCurLine.
LEMMA DrawLineKeeps ==
    ASSUME ScreenInv, pc # "undefined", DrawLine
    PROVE  ScreenInv'
<1>1. Types /\ Kept /\ Telling /\ Picture
  BY DEF ScreenInv
<1>2. /\ Drawing /\ Redraw \notin need /\ cur_pos.lineno <= Len(lines)
      /\ DrawCurLine(cur_pos.lineno) /\ KeepMeaning
      /\ stale' = IF cur_pos.lineno = screen_start_line + screen_line
                  THEN stale \ {screen_line}
                  ELSE stale \cup (Rows \cap {screen_line})
      /\ UNCHANGED <<textVars, queueVars, screen_start_line, screen_line,
                     torn, refused>>
  BY DEF DrawLine
<1>3. cur_pos.lineno \in Nat \ {0} /\ screen_start_line \in Nat /\ screen_line \in Int
  BY <1>1 DEF Types, Position
<1>4. cur_pos'.lineno = cur_pos.lineno /\ cur_pos' = Clamped(lines, cur_pos)
  BY <1>1, <1>2, <1>3, DrawnLine
<1>5. Pending' = Pending
  BY <1>2, BacklogSame DEF textVars, queueVars
<1>6. /\ Row' = Row /\ (OnScreen' <=> OnScreen)
      /\ (LoudIn' <=> LoudIn) /\ (AllTame' <=> AllTame)
  BY <1>2, <1>4, <1>5, SameView
<1>7. OnScreen'
  BY <1>1, <1>2, <1>6 DEF Picture, InView
<1>8. RowKnown'
  BY <1>1, <1>2, <1>6 DEF Picture, RowKnown
<1>9. ASSUME ~torn, AllTame
      PROVE  stale' = {}
  <2>1. stale \subseteq {Row}
    BY <1>1, <1>2, <1>9 DEF Picture, Fresh
  <2>2. ~LoudIn
    BY <1>1, <1>3, <1>9, LoudNotTame
  <2>3. screen_line = Row
    BY <1>1, <1>2, <2>2 DEF Picture, RowKnown
  <2>4. cur_pos.lineno = screen_start_line + screen_line
    BY <1>3, <2>3 DEF Row
  <2> QED  BY <1>2, <2>1, <2>3, <2>4
<1>10. Kept' /\ astray' \in BOOLEAN /\ anchor' \in Int
  BY <1>1, <1>2, <1>4, KeepMeaningKeeps DEF textVars, queueVars
<1>11. Backlog = <<>> /\ pc = "draw first" => cur_pos.lineno < Len(lines)
  BY <1>1 DEF Picture, CanDraw
<1>12. torn' \in BOOLEAN /\ stale' \subseteq Rows /\ screen_line' \in Int
  BY <1>1, <1>2, <1>3 DEF Types, TypeOK
<1>13. torn \/ AllTame' => torn' \/ stale' = {}
  BY <1>2, <1>6, <1>9
<1>14. Drawn(cur_pos.lineno)
  BY <1>2, <1>3, <1>7, <1>8, <1>10, <1>11, <1>12, <1>13 DEF Drawn
<1> QED  BY <1>10, <1>14, DrawnKeeps

\* redrawContent, the line of the cursor not on the screen.
LEMMA DrawNearestKeeps ==
    ASSUME ScreenInv, pc # "undefined", DrawNearest
    PROVE  ScreenInv'
<1>1. Types /\ Kept /\ Telling /\ Picture
  BY DEF ScreenInv
<1> DEFINE s == screen_start_line
           k == cur_pos.lineno
           C == CONTENT_LINES
           N == Len(lines)
           near == Nearest
<1>2. /\ Drawing /\ Redraw \in need
      /\ Row \notin Rows \/ k > N
      /\ near <= N /\ DrawCurLine(near)
      /\ IF pc = "draw" /\ Backlog = <<>>
         THEN Means(TRUE, Flat(lines, cur_pos')) ELSE KeepMeaning
      /\ stale' = IF near = s + screen_line THEN {} ELSE Rows \cap {screen_line}
      /\ torn' = (torn /\ Backlog # <<>>)
      /\ UNCHANGED <<textVars, queueVars, screen_start_line, screen_line, refused>>
  BY DEF DrawNearest, Row
<1>3. /\ k \in Nat \ {0} /\ s \in Nat \ {0} /\ screen_line \in Int
      /\ lines \in Text /\ N \in Nat \ {0} /\ cur_pos \in Position
      /\ torn \in BOOLEAN
  BY <1>1, TextType DEF Types, TypeOK, Text, Position
<1>4. C \in Nat /\ C >= 5 /\ Rows = 0..C - 1 /\ HALF_HEIGHT \in Nat
  BY HalfHeight DEF Rows
<1>5. /\ Row = k - s /\ (OnScreen <=> k - s \in 0..C - 1)
      /\ near = IF k < s THEN s ELSE s + C - 1
  BY <1>4 DEF Row, OnScreen, Nearest
<1> HIDE DEF near, s, k, C, N
<1>6. near \in Nat \ {0}
  BY <1>3, <1>4, <1>5
<1>7. ~OnScreen
  <2>1. SUFFICES ASSUME OnScreen, k > N
                 PROVE  FALSE
    BY <1>2 DEF OnScreen
  <2>2. k <= near
    BY <1>3, <1>4, <1>5, <2>1
  <2> QED  BY <1>2, <1>3, <1>6, <2>1, <2>2
<1>8. pc \in {"draw", "draw first"}
  BY <1>1, <1>2, <1>7 DEF Picture, InView, Drawing
<1>9. /\ cur_pos' \in Position /\ InText(lines, cur_pos')
      /\ cur_pos'.lineno = near
  BY <1>1, <1>2, <1>6, DrawnLine DEF N
<1>10. /\ lines' = lines /\ queue' = queue /\ untold' = untold /\ refused' = refused
       /\ screen_start_line' = screen_start_line /\ screen_line' = screen_line
  BY <1>2 DEF textVars, queueVars
<1>11. Backlog' = Backlog /\ Pending' = Pending
  BY <1>10, BacklogSame
<1>12. LoudIn' <=> LoudIn
  BY <1>10, <1>11 DEF LoudIn, Loud
<1>13. \/ k < s /\ (screen_line = 0 \/ (screen_line >= 0 /\ LoudIn))
       \/ k >= s /\ screen_line = C - 1
  <2>1. \/ Row < 0 /\ (screen_line = 0 \/ (screen_line >= 0 /\ LoudIn))
        \/ Row >= C /\ screen_line = C - 1
    BY <1>1, <1>2, <1>7, <1>8 DEF Picture, ToDraw, C
  <2>2. (Row < 0 => k < s) /\ (Row >= C => k >= s)
    BY <1>3, <1>4, <1>5
  <2> QED  BY <2>1, <2>2
<1>14. Row' = near - s
  BY <1>9, <1>10 DEF Row, s
<1>15. OnScreen'
  <2>1. near - s \in 0..C - 1
    BY <1>3, <1>4, <1>5
  <2> QED  BY <1>4, <1>14, <2>1 DEF OnScreen, Rows
<1>16. near = s + screen_line <=> screen_line = Row'
  BY <1>3, <1>6, <1>14
<1>17. screen_line = Row' \/ (screen_line >= 0 /\ LoudIn' /\ Row' <= HALF_HEIGHT)
  <2>1. k < s => Row' = 0
    BY <1>3, <1>5, <1>14
  <2>2. k >= s => Row' = C - 1
    BY <1>3, <1>4, <1>5, <1>14
  <2> QED  BY <1>4, <1>12, <1>13, <2>1, <2>2
<1>18. RowKnown'
  BY <1>10, <1>17 DEF RowKnown
<1>19. AllTame' => stale' = {}
  <2>1. SUFFICES ASSUME AllTame', screen_line # Row'
                 PROVE  FALSE
    BY <1>2, <1>16
  <2>2. PICK op \in Pending : Loud(op)
    BY <1>12, <1>17, <2>1 DEF LoudIn
  <2>3. /\ op.newline /\ op.pos.lineno <= s + C /\ op.pos.lineno \in Nat
    BY <1>1, <2>2, BacklogType DEF Loud, Operation, Position, s, C
  <2>4. ~(op.pos.lineno > s + C)
    BY <1>3, <1>4, <2>3
  <2>5. ~Tame(op)'
    BY <1>10, <2>3, <2>4 DEF Tame, Calm, s, C
  <2> QED  BY <1>11, <2>1, <2>2, <2>5 DEF AllTame
<1>20. Backlog = <<>> => pc = "draw"
  BY <1>1, <1>7, <1>8 DEF Picture, CanDraw
<1>21. astray' \in BOOLEAN /\ anchor' \in Int
  <2>1. Flat(lines, cur_pos') \in Int
    <3> DEFINE q == cur_pos'
    <3> HIDE DEF q
    <3>1. q \in Position /\ InText(lines, q)
      BY <1>9 DEF q
    <3>2. Flat(lines, q) \in Int
      BY <1>3, <3>1, FlatOrder
    <3> QED  BY <3>2 DEF q
  <2>2. CASE pc = "draw" /\ Backlog = <<>>
    <3>1. astray' = FALSE /\ anchor' = Flat(lines, cur_pos')
      BY <1>2, <2>2 DEF Means
    <3> QED  BY <2>1, <3>1
  <2>3. CASE ~(pc = "draw" /\ Backlog = <<>>)
    <3>1. KeepMeaning
      BY <1>2, <2>3
    <3>2. astray' \in BOOLEAN /\ (anchor' = anchor \/ anchor' = 0)
      BY <3>1 DEF KeepMeaning, Means
    <3> QED  BY <1>1, <3>2 DEF Types
  <2> QED  BY <2>2, <2>3
<1>22. Kept'
  <2>1. CASE Backlog = <<>>
    <3>1. astray' = FALSE /\ anchor' = Flat(lines, cur_pos') /\ ~refused
      BY <1>1, <1>2, <1>20, <2>1 DEF Means, Picture, CanDraw
    <3>2. Followed(cur_pos', <<>>) = cur_pos'
      BY <1>9, FollowedEmpty
    <3>3. Clamped(lines, cur_pos') = cur_pos' /\ cur_pos'.lineno \in 1..Len(lines)
      <4>1. cur_pos'.lineno \in 1..Len(lines) /\ cur_pos'.lineno <= Len(lines)
        BY <1>2, <1>9 DEF InText, N
      <4> QED  BY <1>3, <1>9, <4>1, ClampedIs
    <3> QED  BY <1>10, <1>11, <2>1, <3>1, <3>2, <3>3 DEF Kept
  <2>2. CASE Backlog # <<>>
    <3>1. ~astray' => ~astray /\ cur_pos' = cur_pos
      BY <1>2, <2>2 DEF KeepMeaning, Means
    <3>2. k # near
      BY <1>3, <1>4, <1>5, <1>7
    <3> QED  BY <1>9, <3>1, <3>2 DEF Kept, k
  <2> QED  BY <2>1, <2>2
<1>23. torn' \in BOOLEAN /\ stale' \subseteq Rows
  BY <1>2, <1>3
<1>24. torn \/ AllTame' => torn' \/ stale' = {}
  <2>1. CASE Backlog = <<>>
    <3>1. AllTame'
      BY <1>1, <1>11, <2>1, BacklogType DEF AllTame
    <3> QED  BY <1>19, <3>1
  <2>2. CASE Backlog # <<>>
    BY <1>2, <1>19, <2>2
  <2> QED  BY <2>1, <2>2
<1>25. Drawn(near)
  BY <1>2, <1>3, <1>6, <1>15, <1>18, <1>20, <1>21, <1>23, <1>24 DEF Drawn, N
<1> QED  BY <1>22, <1>25, DrawnKeeps

\* The line to draw is not there: some change has not been heard of.
LEMMA DrawPastEndKeeps ==
    ASSUME ScreenInv, pc # "undefined", DrawPastEnd
    PROVE  ScreenInv'
<1>1. Types /\ Kept /\ Telling /\ Picture
  BY DEF ScreenInv
<1>2. /\ Drawing /\ pc' = "undefined"
      /\ IF Redraw \in need
         THEN (Row \notin Rows \/ cur_pos.lineno > Len(lines)) /\ Nearest > Len(lines)
         ELSE cur_pos.lineno > Len(lines)
      /\ UNCHANGED <<textVars, queueVars, need, cursorVars, stale, raceVars>>
  BY DEF DrawPastEnd, Row
<1>3. /\ lines' = lines /\ queue' = queue /\ untold' = untold /\ refused' = refused
      /\ cur_pos' = cur_pos /\ anchor' = anchor /\ astray' = astray
      /\ others' = others /\ own' = own /\ reading' = reading
      /\ buf_changed' = buf_changed /\ need' = need
      /\ cur_line_size' = cur_line_size
      /\ screen_start_line' = screen_start_line /\ screen_line' = screen_line
      /\ stale' = stale /\ torn' = torn
  BY <1>2 DEF textVars, queueVars, cursorVars, raceVars, meaningVars
<1>4. Backlog' = Backlog /\ Pending' = Pending
  BY <1>3, BacklogSame
<1>5. Types'
  BY <1>1, <1>2, <1>3 DEF Types, TypeOK
<1>6. Kept'
  BY <1>1, <1>3, <1>4 DEF Kept
<1>7. Backlog # <<>>
  <2>1. SUFFICES ASSUME Backlog = <<>>
                 PROVE  FALSE
    OBVIOUS
  <2>2. /\ cur_pos.lineno <= Len(lines)
        /\ Redraw \in need /\ Row \notin Rows => Nearest <= Len(lines)
    BY <1>1, <1>2, <2>1 DEF Picture, CanDraw, OnScreen
  <2>3. /\ cur_pos.lineno \in Nat /\ Len(lines) \in Nat
        /\ screen_start_line \in Nat /\ CONTENT_LINES \in Nat
    BY <1>1, TextType, HalfHeight DEF Types, TypeOK, Text, Position
  <2>4. Nearest \in Int
    BY <2>3 DEF Nearest
  <2> QED  BY <1>2, <2>2, <2>3, <2>4
<1> QED  BY <1>2, <1>4, <1>5, <1>6, <1>7 DEF ScreenInv

-----------------------------------------------------------------------------
(***************************************************************************)
(* The keys that move the cursor.                                          *)
(***************************************************************************)

\* A screen that starts at line s shows line n in one of its rows.
Shows(s, n) == n - s \in Rows

\* Where a key may put the cursor, and what it must ask to draw.
Placed(pos, row, start, draw) ==
    /\ pos \in Position /\ row \in Int /\ start \in Nat \ {0}
    /\ draw \subseteq {Redraw, RedrawLine}
    /\ Redraw \notin draw =>
         /\ pos.lineno = cur_pos.lineno
         /\ row = screen_line /\ start = screen_start_line
    /\ Redraw \in draw =>
         \/ Shows(start, pos.lineno)
         \/ /\ pos.lineno - start < 0
            /\ \/ row = 0
               \/ row >= 0 /\ start >= screen_start_line /\ LoudIn
         \/ pos.lineno - start >= CONTENT_LINES /\ row = CONTENT_LINES - 1

\* In step with the text, what is to be drawn is there.
InStep(pos, start, draw, total) ==
    draw # {} =>
        /\ pos.lineno <= total
        /\ Redraw \in draw /\ ~Shows(start, pos.lineno) =>
             (IF pos.lineno < start THEN start ELSE start + CONTENT_LINES - 1)
                <= total

\* Before a key the screen is as the picture says.
LEMMA BeforeKey ==
    ASSUME ScreenInv, pc \in {"key", "join"}
    PROVE  /\ cur_pos \in Position /\ screen_start_line \in Nat \ {0}
           /\ screen_line \in Int /\ lines \in Text
           /\ need = {} /\ OnScreen
           /\ screen_line >= 0
           /\ \/ screen_line = Row
              \/ /\ LoudIn
                 /\ \/ Row <= HALF_HEIGHT
                    \/ Row <= screen_line /\ screen_line < CONTENT_LINES
           /\ \/ cur_pos.lineno <= Len(lines)
              \/ \E op \in Pending : op.newline /\ op.pos.lineno <= Len(lines)
           /\ AllCalm => /\ InText(lines, cur_pos)
                         /\ cur_line_size = lines[cur_pos.lineno]
           /\ Backlog = <<>> => AllCalm /\ ~LoudIn
<1>1. Types /\ Picture
  BY DEF ScreenInv
<1>2. /\ cur_pos \in Position /\ screen_start_line \in Nat \ {0}
      /\ screen_line \in Int /\ lines \in Text
  BY <1>1 DEF Types, TypeOK, Text
<1>3. need = {} /\ OnScreen
  BY <1>1 DEF Picture, Asked, InView
<1>4. \/ screen_line = Row
      \/ /\ screen_line >= 0 /\ LoudIn
         /\ \/ Row <= HALF_HEIGHT
            \/ Row <= screen_line /\ screen_line < CONTENT_LINES
  BY <1>1, <1>3 DEF Picture, RowKnown
<1>5. \/ cur_pos.lineno <= Len(lines)
      \/ \E op \in Pending : op.newline /\ op.pos.lineno <= Len(lines)
  BY <1>1, <1>3 DEF Picture, LineThere
<1>6. AllCalm => InText(lines, cur_pos) /\ cur_line_size = lines[cur_pos.lineno]
  BY <1>1, <1>3 DEF Picture, LineKnown
<1>7. Backlog = <<>> => AllCalm /\ ~LoudIn
  BY <1>1, BacklogType DEF AllCalm, LoudIn
<1>8. Row >= 0
  BY <1>3, HalfHeight DEF OnScreen, Rows
<1> QED  BY <1>2, <1>3, <1>4, <1>5, <1>6, <1>7, <1>8

\* What a key asks to draw shows the cursor where it is put.
LEMMA PlaceKeeps ==
    ASSUME ScreenInv, pc \in {"key", "join"}, Pending' = Pending,
           NEW pos, NEW row, NEW start, NEW draw,
           Place(pos, row, start, draw), Placed(pos, row, start, draw),
           pc' # "redraw"
    PROVE  InView' /\ RowKnown' /\ ToDraw'
<1>1. /\ cur_pos' = pos /\ screen_line' = row /\ screen_start_line' = start
      /\ need' = draw
  BY DEF Place
<1>2. Types /\ Picture
  BY DEF ScreenInv
<1>3. /\ pos \in Position /\ row \in Int /\ start \in Nat \ {0}
      /\ Redraw \notin draw =>
           /\ pos.lineno = cur_pos.lineno
           /\ row = screen_line /\ start = screen_start_line
  BY DEF Placed
<1>4. screen_start_line \in Nat \ {0} /\ need = {} /\ OnScreen
  BY BeforeKey
<1>5. Redraw \notin draw =>
         Row' = Row /\ (OnScreen' <=> OnScreen) /\ (LoudIn' <=> LoudIn)
  BY <1>1, <1>3, SameView
<1>6. InView'
  BY <1>1, <1>4, <1>5 DEF InView
<1>7. RowKnown'
  BY <1>1, <1>2, <1>3, <1>4, <1>5 DEF Picture, RowKnown
<1>8. ToDraw'
  <2>1. SUFFICES ASSUME Redraw \in draw, ~Shows(start, pos.lineno)
                 PROVE  \/ Row' < 0 /\ (row = 0 \/ (row >= 0 /\ LoudIn'))
                        \/ Row' >= CONTENT_LINES /\ row = CONTENT_LINES - 1
    BY <1>1 DEF ToDraw, OnScreen, Row, Shows
  <2>2. Row' = pos.lineno - start
    BY <1>1 DEF Row
  <2>3. LoudIn /\ start >= screen_start_line => LoudIn'
    <3>1. SUFFICES ASSUME NEW op \in Pending, Loud(op), start >= screen_start_line
                   PROVE  Loud(op)'
      BY DEF LoudIn
    <3>2. /\ op.newline /\ op.pos.lineno <= screen_start_line + CONTENT_LINES
          /\ op.pos.lineno \in Nat /\ CONTENT_LINES \in Nat
      BY <1>2, <3>1, BacklogType, HalfHeight DEF Loud, Operation, Position
    <3>3. op.pos.lineno <= start + CONTENT_LINES
      BY <1>3, <1>4, <3>1, <3>2
    <3> QED  BY <1>1, <3>2, <3>3 DEF Loud
  <2> QED  BY <2>1, <2>2, <2>3 DEF Placed
<1> QED  BY <1>6, <1>7, <1>8

\* A key that moves the cursor keeps the invariant, if it asks for what it must.
LEMMA MoveKeeps ==
    ASSUME ScreenInv, NEW pos, NEW row, NEW start, NEW draw,
           Move(pos, row, start, draw), Placed(pos, row, start, draw),
           draw = {} /\ AllCalm => InText(lines, pos),
           Backlog = <<>> => InStep(pos, start, draw, Len(lines))
    PROVE  ScreenInv'
<1>1. Types /\ Kept
  BY DEF ScreenInv
<1>2. /\ pc = "key"
      /\ cur_pos' = pos /\ screen_line' = row /\ screen_start_line' = start
      /\ need' = draw /\ pc' = IF draw = {} THEN "getch" ELSE "draw"
      /\ stale' = IF start = screen_start_line THEN stale ELSE Rows
      /\ IF Backlog = <<>> /\ pos.lineno <= Len(lines)
         THEN Means(TRUE, Flat(lines, Clamped(lines, pos)))
         ELSE Means(FALSE, 0)
      /\ refused' = FALSE
      /\ lines' = lines /\ others' = others /\ own' = own
      /\ queue' = queue /\ untold' = untold /\ reading' = reading
      /\ buf_changed' = buf_changed
      /\ cur_line_size' = cur_line_size /\ torn' = torn
  BY DEF Move, Place, textVars, queueVars
<1>3. Telling /\ Picture
  BY <1>2 DEF ScreenInv
<1>4. /\ pos \in Position /\ row \in Int /\ start \in Nat \ {0}
      /\ draw \subseteq {Redraw, RedrawLine}
      /\ Redraw \notin draw =>
           /\ pos.lineno = cur_pos.lineno
           /\ row = screen_line /\ start = screen_start_line
  BY DEF Placed
<1>5. Backlog' = Backlog /\ Pending' = Pending
  BY <1>2, BacklogSame
<1>6. /\ cur_pos \in Position /\ screen_start_line \in Nat \ {0}
      /\ lines \in Text /\ need = {} /\ OnScreen
  BY <1>2, BeforeKey
<1>7. Redraw \notin draw =>
         /\ Row' = Row /\ (OnScreen' <=> OnScreen)
         /\ (LoudIn' <=> LoudIn) /\ (AllCalm' <=> AllCalm) /\ (AllTame' <=> AllTame)
  BY <1>2, <1>4, <1>5, SameView
<1>8. Types'
  <2>1. cur_pos'.lineno >= 1 /\ cur_pos'.offset >= 1
    BY <1>2, <1>4 DEF Position
  <2>2. stale' \subseteq Rows
    BY <1>1, <1>2 DEF Types, TypeOK
  <2>3. TypeOK'
    BY <1>1, <1>2, <1>4, <2>1, <2>2 DEF Types, TypeOK
  <2>4. astray' \in BOOLEAN /\ anchor' \in Int
    <3>1. CASE Backlog = <<>> /\ pos.lineno <= Len(lines)
      <4>1. astray' = FALSE /\ anchor' = Flat(lines, Clamped(lines, pos))
        BY <1>2, <3>1 DEF Means
      <4> DEFINE place == Flat(lines, Clamped(lines, pos))
      <4>2. place \in Nat
        BY <1>4, <1>6, <3>1, ClampedIs, FlatOrder
      <4> HIDE DEF place
      <4>3. anchor' = place
        BY <4>1 DEF place
      <4>4. anchor' \in Int
        BY <4>2, <4>3
      <4>5. astray' \in BOOLEAN
        BY <4>1, Zenon
      <4> QED  BY <4>4, <4>5
    <3>2. CASE ~(Backlog = <<>> /\ pos.lineno <= Len(lines))
      <4>1. Means(FALSE, 0)
        BY <1>2, <3>2
      <4>2. astray' = TRUE /\ anchor' = 0
        BY <4>1 DEF Means
      <4> QED  BY <4>2
    <3> QED  BY <3>1, <3>2
  <2> QED  BY <1>1, <1>2, <1>4, <2>3, <2>4 DEF Types
<1>9. Kept'
  <2>1. SUFFICES ASSUME ~astray'
                 PROVE  LET p == Followed(pos, Backlog)
                        IN  /\ p.lineno \in 1..Len(lines)
                            /\ Backlog # <<>> => InText(lines, p)
                            /\ Flat(lines, Clamped(lines, p)) = anchor'
                            /\ ~refused'
    BY <1>2, <1>5 DEF Kept
  <2>2. /\ Backlog = <<>> /\ pos.lineno <= Len(lines)
        /\ anchor' = Flat(lines, Clamped(lines, pos))
    BY <1>2, <2>1 DEF Means
  <2>3. Followed(pos, Backlog) = pos
    BY <1>4, <2>2, FollowedEmpty
  <2>4. pos.lineno \in 1..Len(lines)
    BY <1>4, <1>6, <2>2, TextType DEF Position
  <2> QED  BY <1>2, <2>2, <2>3, <2>4
<1>10. Telling'
  BY <1>2, <1>3 DEF Telling, OneEach, Fits
<1>11. Picture'
  <2>1. Asked'
    BY <1>2 DEF Asked, Drawing
  <2>2. InView' /\ RowKnown' /\ ToDraw'
    <3>1. Place(pos, row, start, draw) /\ pc \in {"key", "join"} /\ pc' # "redraw"
      BY <1>2 DEF Place
    <3> QED  BY <1>5, <3>1, PlaceKeeps
  <2>3. LineThere'
    BY <1>2, <1>3, <1>4, <1>5, <1>6 DEF Picture, LineThere
  <2>4. LineKnown'
    <3>1. SUFFICES ASSUME draw = {}, AllCalm'
                   PROVE  InText(lines, pos) /\ cur_line_size = lines[pos.lineno]
      BY <1>2 DEF LineKnown
    <3>2. AllCalm /\ pos.lineno = cur_pos.lineno
      BY <1>4, <1>7, <3>1
    <3> QED  BY <1>3, <1>6, <3>1, <3>2 DEF Picture, LineKnown
  <2>5. Fresh'
    BY <1>2, <1>3, <1>4, <1>6, <1>7 DEF Picture, Fresh
  <2>6. CanDraw'
    <3>1. SUFFICES ASSUME Backlog = <<>>, draw # {}
                   PROVE  /\ pos.lineno <= Len(lines)
                          /\ Redraw \in draw /\ ~Shows(start, pos.lineno) =>
                               Nearest' <= Len(lines)
      BY <1>2, <1>5 DEF CanDraw, Drawing, OnScreen, Row, Shows
    <3>2. Nearest' = IF pos.lineno < start THEN start ELSE start + CONTENT_LINES - 1
      BY <1>2 DEF Nearest
    <3> QED  BY <3>1, <3>2 DEF InStep
  <2> QED  BY <2>1, <2>2, <2>3, <2>4, <2>5, <2>6 DEF Picture
<1>12. pc' # "undefined"
  BY <1>2
<1> QED  BY <1>8, <1>9, <1>10, <1>11, <1>12 DEF ScreenInv

\* To the line above: the screen scrolls when the cursor was in the first row.
LEMMA StepUp ==
    ASSUME ScreenInv, pc = "key", cur_pos.lineno > 1,
           NEW pos \in Position, pos.lineno = cur_pos.lineno - 1,
           NEW row, NEW start,
           \/ row = screen_line - 1 /\ start = UpStart(screen_line - 1)
           \/ /\ row = IF screen_line <= 0 THEN screen_line - 1 ELSE screen_line
              /\ start = IF screen_line <= 0 THEN UpStart(screen_line - 1)
                         ELSE screen_start_line
    PROVE  /\ Placed(pos, row, start, {Redraw})
           /\ Backlog = <<>> => /\ Shows(start, pos.lineno)
                                /\ cur_pos.lineno <= Len(lines)
                                /\ InText(lines, cur_pos)
<1> DEFINE s == screen_start_line
           k == cur_pos.lineno
           C == CONTENT_LINES
           H == HALF_HEIGHT
           sl == screen_line
           n == pos.lineno
<1>1. /\ C \in Nat /\ C >= 5 /\ H \in Nat /\ H >= 2 /\ 2 * H <= C
      /\ Rows = 0..C - 1
  BY HalfHeight DEF Rows
<1>2. /\ k \in Nat \ {0} /\ s \in Nat \ {0} /\ sl \in Int /\ sl >= 0
      /\ k - s \in 0..C - 1 /\ lines \in Text
      /\ sl = k - s \/ (LoudIn /\ (k - s <= H \/ (k - s <= sl /\ sl < C)))
      /\ Backlog = <<>> => InText(lines, cur_pos) /\ ~LoudIn
  BY <1>1, BeforeKey DEF Position, OnScreen, Row
<1>3. k > 1 /\ n = k - 1
  OBVIOUS
<1>4. \/ sl = 0 /\ row = -1 /\ start = Max2(1, s - H)
      \/ sl > 0 /\ (row = sl - 1 \/ row = sl) /\ start = s
  <2>1. CASE sl = 0
    BY <2>1 DEF UpStart
  <2>2. CASE sl > 0
    <3>1. ~(sl <= 0) /\ ~(sl - 1 < 0)
      BY <2>2, <1>2
    <3> QED  BY <2>2, <3>1 DEF UpStart
  <2> QED  BY <1>2, <2>1, <2>2
<1>5. /\ Max2(1, s - H) >= 1 /\ Max2(1, s - H) \in Nat
      /\ Max2(1, s - H) = 1 \/ Max2(1, s - H) = s - H
      /\ Max2(1, s - H) >= s - H
  BY <1>1, <1>2 DEF Max2
<1> DEFINE top == Max2(1, s - H)
<1> HIDE DEF top, s, k, C, H, sl, n
<1>6. row \in Int /\ start \in Nat \ {0}
  BY <1>2, <1>4, <1>5 DEF top
<1>7. CASE sl = 0 /\ row = -1 /\ start = top
  <2>1. k - s <= H
    BY <1>1, <1>2, <1>7
  <2>2. n - start \in Rows
    BY <1>1, <1>2, <1>3, <1>5, <1>7, <2>1 DEF top
  <2> QED  BY <1>2, <1>6, <2>2, TextType DEF Placed, Shows, n, InText
<1>8. CASE sl > 0 /\ (row = sl - 1 \/ row = sl) /\ start = s
  <2>1. CASE k > s
    <3>1. n - start \in Rows
      BY <1>1, <1>2, <1>3, <1>8, <2>1
    <3> QED  BY <1>2, <1>6, <3>1, TextType DEF Placed, Shows, n, InText
  <2>2. CASE k = s
    <3>1. LoudIn /\ row >= 0 /\ n - start < 0 /\ start >= s
      BY <1>1, <1>2, <1>3, <1>8, <2>2
    <3> QED  BY <1>2, <1>6, <3>1 DEF Placed, n, s
  <2>3. k > s \/ k = s
    BY <1>1, <1>2
  <2> QED  BY <2>1, <2>2, <2>3
<1> QED  BY <1>4, <1>7, <1>8 DEF top, k

\* To the line below: the screen scrolls when the cursor was in the last row.
LEMMA StepDown ==
    ASSUME ScreenInv, pc = "key",
           NEW pos \in Position, pos.lineno = cur_pos.lineno + 1
    PROVE  /\ Placed(pos, screen_line + 1, DownStart(screen_line + 1), {Redraw})
           /\ screen_line < CONTENT_LINES - 1 =>
                /\ Placed(pos, screen_line, screen_start_line, {Redraw})
                /\ Shows(screen_start_line, pos.lineno)
           /\ Backlog = <<>> => Shows(DownStart(screen_line + 1), pos.lineno)
<1> DEFINE s == screen_start_line
           k == cur_pos.lineno
           C == CONTENT_LINES
           H == HALF_HEIGHT
           sl == screen_line
           n == pos.lineno
           row == sl + 1
           start == DownStart(sl + 1)
<1>1. /\ C \in Nat /\ C >= 5 /\ H \in Nat /\ H >= 2 /\ 2 * H <= C
      /\ Rows = 0..C - 1
  BY HalfHeight DEF Rows
<1>2. /\ k \in Nat \ {0} /\ s \in Nat \ {0} /\ sl \in Int /\ sl >= 0
      /\ k - s \in 0..C - 1
      /\ sl = k - s \/ (LoudIn /\ (k - s <= H \/ (k - s <= sl /\ sl < C)))
      /\ Backlog = <<>> => ~LoudIn
  BY <1>1, BeforeKey DEF Position, OnScreen, Row
<1>3. n = k + 1
  OBVIOUS
<1>4. start = IF sl + 1 >= C THEN s + H ELSE s
  BY DEF DownStart
<1> HIDE DEF s, k, C, H, sl, n, start
<1>5. row \in Int /\ start \in Nat \ {0} /\ row >= 0 /\ start >= s
  BY <1>1, <1>2, <1>4
<1>6. n - start \in Rows \/ (LoudIn /\ n - start < 0)
  <2>1. CASE sl + 1 >= C
    <3>1. k + 1 - (s + H) < C
      BY <1>1, <1>2
    <3>2. sl = k - s => k + 1 - (s + H) >= 0
      BY <1>1, <1>2, <2>1
    <3> QED  BY <1>1, <1>2, <1>3, <1>4, <2>1, <3>1, <3>2
  <2>2. CASE sl + 1 < C
    <3>1. k + 1 - s \in 0..C - 1
      BY <1>1, <1>2, <2>2
    <3> QED  BY <1>1, <1>2, <1>3, <1>4, <2>2, <3>1
  <2> QED  BY <1>1, <1>2, <2>1, <2>2
<1>7. Placed(pos, row, start, {Redraw})
  <2> HIDE DEF row
  <2> QED  BY <1>5, <1>6 DEF Placed, Shows, n, s
<1>8. Backlog = <<>> => Shows(start, n)
  BY <1>2, <1>6 DEF Shows
<1>9. ASSUME sl < C - 1
      PROVE  Placed(pos, sl, s, {Redraw}) /\ Shows(s, n)
  <2>1. n - s \in Rows
    BY <1>1, <1>2, <1>3, <1>9
  <2> QED  BY <1>2, <2>1 DEF Placed, Shows, n
<1> QED  BY <1>7, <1>8, <1>9 DEF row, start, s, sl, n, C

\* In a row of the screen the line of a click, or of keyNPage at the end, is
\* shown, unless calPos will draw everything.
LEMMA StepTo ==
    ASSUME ScreenInv, pc = "key", NEW line \in Nat \ {0}, NEW pos \in Position,
           pos.lineno = Min2(line, Len(lines)),
           line - screen_start_line \in Rows
    PROVE  /\ Placed(pos, screen_line, screen_start_line, {Redraw})
           /\ Backlog = <<>> => Shows(screen_start_line, pos.lineno)
<1> DEFINE s == screen_start_line
           k == cur_pos.lineno
           C == CONTENT_LINES
           N == Len(lines)
           n == pos.lineno
<1>1. /\ C \in Nat /\ C >= 5 /\ Rows = 0..C - 1
  BY HalfHeight DEF Rows
<1>2. /\ k \in Nat \ {0} /\ s \in Nat \ {0} /\ screen_line \in Int
      /\ screen_line >= 0 /\ k - s \in 0..C - 1 /\ lines \in Text /\ N \in Nat \ {0}
      /\ k <= N \/ \E op \in Pending : op.newline /\ op.pos.lineno <= N
      /\ Backlog = <<>> => InText(lines, cur_pos)
  BY <1>1, BeforeKey, TextType DEF Position, OnScreen, Row
<1>3. line - s \in 0..C - 1 /\ (n = line \/ n = N) /\ n <= line /\ n <= N
  <2>1. Min2(line, N) \in {line, N} /\ Min2(line, N) <= line /\ Min2(line, N) <= N
    BY <1>2 DEF Min2
  <2> QED  BY <1>1, <2>1
<1>4. \A op \in Pending : op.pos.lineno \in Nat
  BY BacklogType DEF ScreenInv, Operation, Position
<1> HIDE DEF s, k, C, N, n
<1>5. CASE N >= s
  <2>1. n - s \in Rows
    BY <1>1, <1>2, <1>3, <1>5
  <2> QED  BY <1>2, <2>1 DEF Placed, Shows, n, s
<1>6. CASE N < s
  <2>1. PICK op \in Pending : op.newline /\ op.pos.lineno <= N
    BY <1>1, <1>2, <1>6
  <2>2. op.pos.lineno <= s + C
    BY <1>1, <1>2, <1>4, <1>6, <2>1
  <2>3. LoudIn
    BY <2>1, <2>2 DEF LoudIn, Loud, s, C
  <2>4. n - s < 0 /\ s >= s
    BY <1>2, <1>3, <1>6
  <2>5. Placed(pos, screen_line, s, {Redraw})
    BY <1>2, <2>3, <2>4 DEF Placed, n, s
  <2>6. Backlog # <<>>
    BY <2>1, BacklogType DEF ScreenInv
  <2> QED  BY <2>5, <2>6 DEF s
<1> QED  BY <1>2, <1>5, <1>6

\* What asks to draw the content, and shows its line, needs no more.
LEMMA ShownKeeps ==
    ASSUME ScreenInv, NEW pos, NEW row, NEW start,
           Move(pos, row, start, {Redraw}), Placed(pos, row, start, {Redraw}),
           Backlog = <<>> => /\ pos.lineno <= Len(lines)
                             /\ Shows(start, pos.lineno)
    PROVE  ScreenInv'
<1>1. Backlog = <<>> => InStep(pos, start, {Redraw}, Len(lines))
  BY DEF InStep
<1>2. {Redraw} # {}
  OBVIOUS
<1> QED  BY <1>1, <1>2, MoveKeeps

\* What stays in the line asks to draw that line, or nothing.
LEMMA SameLineKeeps ==
    ASSUME ScreenInv, NEW pos \in Position, pos.lineno = cur_pos.lineno,
           NEW draw \in {{}, {RedrawLine}},
           Move(pos, screen_line, screen_start_line, draw),
           draw = {} /\ AllCalm => InText(lines, pos)
    PROVE  ScreenInv'
<1>1. pc = "key"
  BY DEF Move
<1>2. /\ screen_line \in Int /\ screen_start_line \in Nat \ {0}
      /\ Backlog = <<>> => cur_pos.lineno \in 1..Len(lines)
      /\ lines \in Text /\ cur_pos \in Position
  BY <1>1, BeforeKey DEF InText
<1>3. Redraw \notin draw /\ draw \subseteq {Redraw, RedrawLine}
  BY DEF Redraw, RedrawLine
<1>4. Placed(pos, screen_line, screen_start_line, draw)
  BY <1>2, <1>3 DEF Placed
<1>5. Backlog = <<>> => InStep(pos, screen_start_line, draw, Len(lines))
  <2>1. Backlog = <<>> => cur_pos.lineno <= Len(lines)
    BY <1>2, TextType
  <2> QED  BY <1>3, <2>1 DEF InStep
<1> QED  BY <1>4, <1>5, MoveKeeps

\* The column of keyEnd is a number.
LEMMA IntMax == INT_MAX \in Nat \ {0}
BY DEF INT_MAX

\* A line and a column are a position.
LEMMA AtType ==
    ASSUME NEW n \in Nat \ {0}, NEW offset \in Nat \ {0}
    PROVE  /\ At(n, offset) \in Position
           /\ At(n, offset).lineno = n /\ At(n, offset).offset = offset
BY DEF At, Position

\* keyUp and keyDown.
LEMMA UpDownKeeps ==
    ASSUME ScreenInv, KeyUp \/ KeyDown
    PROVE  ScreenInv'
<1>1. pc = "key"
  BY DEF KeyUp, KeyDown, Move
<1>2. /\ cur_pos \in Position /\ cur_pos.lineno \in Nat \ {0}
      /\ cur_pos.offset \in Nat \ {0} /\ lines \in Text /\ Len(lines) \in Nat
      /\ screen_start_line \in Nat \ {0} /\ screen_line \in Int /\ screen_line >= 0
      /\ AllCalm => InText(lines, cur_pos)
  BY <1>1, BeforeKey, TextType DEF Position
<1>3. CASE KeyUp /\ cur_pos.lineno > 1
  <2> DEFINE pos == At(cur_pos.lineno - 1, cur_pos.offset)
             row == screen_line - 1
             start == UpStart(screen_line - 1)
  <2>1. pos \in Position /\ pos.lineno = cur_pos.lineno - 1
    BY <1>2, <1>3, AtType
  <2>2. Move(pos, row, start, {Redraw})
    BY <1>3 DEF KeyUp
  <2>3. row = screen_line - 1 /\ start = UpStart(screen_line - 1)
    OBVIOUS
  <2> HIDE DEF pos, row, start
  <2>4. /\ Placed(pos, row, start, {Redraw})
        /\ Backlog = <<>> => Shows(start, pos.lineno) /\ cur_pos.lineno <= Len(lines)
    BY <1>1, <1>3, <2>1, <2>3, StepUp
  <2>5. Backlog = <<>> => pos.lineno <= Len(lines)
    BY <1>2, <2>1, <2>4
  <2> QED  BY <2>2, <2>4, <2>5, ShownKeeps
<1>4. CASE KeyUp /\ ~(cur_pos.lineno > 1)
  <2>1. Move(cur_pos, screen_line, UpStart(screen_line), {})
    BY <1>4 DEF KeyUp
  <2>2. UpStart(screen_line) = screen_start_line
    BY <1>2 DEF UpStart
  <2> QED  BY <1>2, <2>1, <2>2, SameLineKeeps
<1>5. CASE KeyDown
  <2> DEFINE pos == At(cur_pos.lineno + 1, cur_pos.offset)
             row == screen_line + 1
             start == DownStart(screen_line + 1)
  <2>1. pos \in Position /\ pos.lineno = cur_pos.lineno + 1
    BY <1>2, AtType
  <2>2. Move(pos, row, start, {Redraw}) /\ cur_pos.lineno < Len(lines)
    BY <1>5 DEF KeyDown
  <2>3. Placed(pos, row, start, {Redraw}) /\ (Backlog = <<>> => Shows(start, pos.lineno))
    BY <1>1, <2>1, StepDown
  <2>4. pos.lineno <= Len(lines)
    BY <1>2, <2>1, <2>2
  <2> HIDE DEF pos, row, start
  <2> QED  BY <2>2, <2>3, <2>4, ShownKeeps
<1> QED  BY <1>3, <1>4, <1>5

\* keyLeft, keyRight, keyHome and keyEnd.
LEMMA LeftRightKeeps ==
    ASSUME ScreenInv, KeyLeft \/ KeyRight \/ KeyHomeEnd
    PROVE  ScreenInv'
<1>1. pc = "key"
  BY DEF KeyLeft, KeyRight, KeyHomeEnd, Move
<1>2. /\ cur_pos \in Position /\ cur_pos.lineno \in Nat \ {0}
      /\ cur_pos.offset \in Nat \ {0} /\ lines \in Text /\ Len(lines) \in Nat
      /\ screen_start_line \in Nat \ {0} /\ screen_line \in Int /\ screen_line >= 0
      /\ AllCalm => InText(lines, cur_pos) /\ cur_line_size = lines[cur_pos.lineno]
  BY <1>1, BeforeKey, TextType DEF Position
<1>3. CASE KeyLeft /\ cur_pos.offset > 1
  <2> DEFINE pos == At(cur_pos.lineno, cur_pos.offset - 1)
  <2>1. PICK draw \in {{}, {RedrawLine}} :
           Move(pos, screen_line, screen_start_line, draw)
    BY <1>2, <1>3 DEF KeyLeft
  <2>2. /\ pos \in Position /\ pos.lineno = cur_pos.lineno
        /\ pos.offset = cur_pos.offset - 1
    BY <1>2, <1>3, AtType
  <2>3. AllCalm => InText(lines, pos)
    <3>1. AllCalm => /\ cur_pos.lineno \in 1..Len(lines)
                     /\ cur_pos.offset \in 1..lines[cur_pos.lineno] + 1
                     /\ lines[cur_pos.lineno] \in Nat
      BY <1>2, TextType DEF InText
    <3> HIDE DEF pos
    <3> QED  BY <1>2, <1>3, <2>2, <3>1 DEF InText
  <2> HIDE DEF pos
  <2> QED  BY <2>1, <2>2, <2>3, SameLineKeeps
<1>4. CASE KeyLeft /\ ~(cur_pos.offset > 1)
  <2> DEFINE pos == At(cur_pos.lineno - 1, INT_MAX)
             row == screen_line - 1
             start == UpStart(screen_line - 1)
  <2>1. cur_pos.lineno > 1 /\ Move(pos, row, start, {Redraw})
    BY <1>4 DEF KeyLeft
  <2>2. pos \in Position /\ pos.lineno = cur_pos.lineno - 1
    BY <1>2, <2>1, AtType, IntMax
  <2>3. row = screen_line - 1 /\ start = UpStart(screen_line - 1)
    OBVIOUS
  <2> HIDE DEF pos, row, start
  <2>4. /\ Placed(pos, row, start, {Redraw})
        /\ Backlog = <<>> => Shows(start, pos.lineno) /\ cur_pos.lineno <= Len(lines)
    BY <1>1, <2>1, <2>2, <2>3, StepUp
  <2>5. Backlog = <<>> => pos.lineno <= Len(lines)
    BY <1>2, <2>2, <2>4
  <2> QED  BY <2>1, <2>4, <2>5, ShownKeeps
<1>5. CASE KeyRight /\ cur_pos.offset <= cur_line_size
  <2> DEFINE pos == At(cur_pos.lineno, cur_pos.offset + 1)
  <2>0. cur_line_size \in Nat
    BY DEF ScreenInv, Types
  <2>1. PICK draw \in {{}, {RedrawLine}} :
           Move(pos, screen_line, screen_start_line, draw)
    BY <1>2, <1>5, <2>0 DEF KeyRight
  <2>2. /\ pos \in Position /\ pos.lineno = cur_pos.lineno
        /\ pos.offset = cur_pos.offset + 1
    BY <1>2, AtType
  <2>3. AllCalm => InText(lines, pos)
    <3>1. AllCalm => /\ cur_pos.lineno \in 1..Len(lines)
                     /\ cur_pos.offset <= lines[cur_pos.lineno]
                     /\ lines[cur_pos.lineno] \in Nat
      BY <1>2, <1>5, TextType DEF InText
    <3> HIDE DEF pos
    <3> QED  BY <1>2, <2>2, <3>1 DEF InText
  <2> HIDE DEF pos
  <2> QED  BY <2>1, <2>2, <2>3, SameLineKeeps
<1>6. CASE KeyRight /\ ~(cur_pos.offset <= cur_line_size)
  <2> DEFINE pos == At(cur_pos.lineno + 1, 1)
             row == screen_line + 1
             start == DownStart(screen_line + 1)
  <2>1. cur_pos.lineno < Len(lines) /\ Move(pos, row, start, {Redraw})
    BY <1>6 DEF KeyRight
  <2>2. pos \in Position /\ pos.lineno = cur_pos.lineno + 1
    BY <1>2, AtType
  <2>3. Placed(pos, row, start, {Redraw}) /\ (Backlog = <<>> => Shows(start, pos.lineno))
    BY <1>1, <2>2, StepDown
  <2>4. pos.lineno <= Len(lines)
    BY <1>2, <2>1, <2>2
  <2> HIDE DEF pos, row, start
  <2> QED  BY <2>1, <2>3, <2>4, ShownKeeps
<1>7. CASE KeyHomeEnd
  <2>1. PICK offset \in {1, INT_MAX} :
           Move(At(cur_pos.lineno, offset), screen_line, screen_start_line, {RedrawLine})
    BY <1>7 DEF KeyHomeEnd
  <2> DEFINE pos == At(cur_pos.lineno, offset)
  <2>2. pos \in Position /\ pos.lineno = cur_pos.lineno
    BY <1>2, AtType, IntMax
  <2>3. {RedrawLine} \in {{}, {RedrawLine}} /\ {RedrawLine} # {}
    OBVIOUS
  <2> HIDE DEF pos
  <2>4. Move(pos, screen_line, screen_start_line, {RedrawLine})
    BY <2>1 DEF pos
  <2> QED  BY <2>2, <2>3, <2>4, SameLineKeeps
<1> QED  BY <1>3, <1>4, <1>5, <1>6, <1>7

\* keyPPage and keyNPage.
LEMMA PageKeeps ==
    ASSUME ScreenInv, PrePage \/ NextPage
    PROVE  ScreenInv'
<1> DEFINE s == screen_start_line
           C == CONTENT_LINES
<1>1. pc = "key"
  BY DEF PrePage, NextPage, Move
<1>2. /\ cur_pos.lineno \in Nat /\ screen_line \in Int /\ s \in Nat \ {0}
      /\ cur_pos.lineno - s \in 0..C - 1 /\ Len(lines) \in Nat \ {0}
      /\ Backlog = <<>> => cur_pos.lineno <= Len(lines)
      /\ C \in Nat /\ C >= 5 /\ Rows = 0..C - 1
  <2>1. C \in Nat /\ C >= 5 /\ Rows = 0..C - 1
    BY HalfHeight DEF Rows
  <2>2. /\ cur_pos.lineno \in Nat /\ screen_line \in Int /\ s \in Nat \ {0}
        /\ Row \in Rows /\ Len(lines) \in Nat \ {0}
        /\ Backlog = <<>> => cur_pos.lineno \in 1..Len(lines)
    BY <1>1, BeforeKey, TextType DEF Position, OnScreen, InText
  <2> QED  BY <2>1, <2>2 DEF Row
<1>3. ASSUME NEW start \in Nat \ {0}, Move(At(start, 1), screen_line, start, {Redraw}),
             Backlog = <<>> => start <= Len(lines)
      PROVE  ScreenInv'
  <2> DEFINE pos == At(start, 1)
  <2>1. pos \in Position /\ pos.lineno = start
    BY AtType
  <2>2. Move(pos, screen_line, start, {Redraw})
    BY <1>3
  <2>3. Shows(start, pos.lineno)
    BY <1>2, <2>1 DEF Shows
  <2> HIDE DEF pos
  <2>4. Placed(pos, screen_line, start, {Redraw})
    BY <1>2, <2>1, <2>3 DEF Placed
  <2> QED  BY <1>3, <2>1, <2>2, <2>3, <2>4, ShownKeeps
<1>4. CASE PrePage
  <2> DEFINE start == Max2(1, s - (C - 2))
  <2>1. start \in Nat \ {0} /\ start <= s
    BY <1>2 DEF Max2
  <2>2. Move(At(start, 1), screen_line, start, {Redraw})
    BY <1>4 DEF PrePage
  <2> HIDE DEF start
  <2>3. Backlog = <<>> => start <= Len(lines)
    BY <1>2, <2>1
  <2> QED  BY <1>3, <2>1, <2>2, <2>3
<1>5. CASE NextPage
  <2> DEFINE start == s + C - 2
  <2>1. start \in Nat \ {0} /\ start - s \in Rows
    BY <1>2
  <2>2. \/ start < Len(lines) /\ Move(At(start, 1), screen_line, start, {Redraw})
        \/ /\ ~(start < Len(lines))
           /\ Move(At(Len(lines), 1), screen_line, s, {Redraw})
    BY <1>5 DEF NextPage
  <2> HIDE DEF start
  <2>3. CASE start < Len(lines) /\ Move(At(start, 1), screen_line, start, {Redraw})
    <3>1. start <= Len(lines)
      BY <1>2, <2>1, <2>3
    <3> QED  BY <1>3, <2>1, <2>3, <3>1
  <2>4. CASE /\ ~(start < Len(lines))
             /\ Move(At(Len(lines), 1), screen_line, s, {Redraw})
    <3> DEFINE pos == At(Len(lines), 1)
    <3>1. pos \in Position /\ pos.lineno = Len(lines)
      BY <1>2, AtType
    <3>2. pos.lineno = Min2(start, Len(lines))
      BY <2>4, <3>1 DEF Min2
    <3>3. Move(pos, screen_line, s, {Redraw})
      BY <2>4
    <3> HIDE DEF pos
    <3>4. /\ Placed(pos, screen_line, s, {Redraw})
          /\ Backlog = <<>> => Shows(s, pos.lineno)
      BY <1>1, <2>1, <3>1, <3>2, StepTo
    <3>5. pos.lineno <= Len(lines)
      BY <1>2, <3>1
    <3> QED  BY <3>3, <3>4, <3>5, ShownKeeps
  <2> QED  BY <2>2, <2>3, <2>4
<1> QED  BY <1>4, <1>5

\* A click on the bars, and ^L.
LEMMA ScrollKeeps ==
    ASSUME ScreenInv, PreLine \/ NextLine \/ Refresh
    PROVE  ScreenInv'
<1> DEFINE s == screen_start_line
           k == cur_pos.lineno
           C == CONTENT_LINES
           H == HALF_HEIGHT
           sl == screen_line
           N == Len(lines)
<1>1. pc = "key"
  BY DEF PreLine, NextLine, ScrollTo, Refresh, Move
<1>2. /\ C \in Nat /\ C >= 5 /\ H \in Nat /\ H >= 2 /\ 2 * H <= C
      /\ Rows = 0..C - 1
  BY HalfHeight DEF Rows
<1>3. /\ cur_pos \in Position /\ k \in Nat \ {0} /\ s \in Nat \ {0}
      /\ sl \in Int /\ sl >= 0 /\ k - s \in 0..C - 1
      /\ sl = k - s \/ (LoudIn /\ (k - s <= H \/ (k - s <= sl /\ sl < C)))
      /\ N \in Nat \ {0}
      /\ Backlog = <<>> => k \in 1..N
  BY <1>1, <1>2, BeforeKey, TextType DEF Position, OnScreen, Row, InText
<1>4. /\ {Redraw} # {} /\ Redraw \in {Redraw}
      /\ {Redraw} \subseteq {Redraw, RedrawLine}
  OBVIOUS
<1>5. CASE PreLine
  <2> DEFINE start == s - 1
  <2>1. s > 1 /\ Move(cur_pos, sl, start, {Redraw})
    BY <1>5 DEF PreLine, ScrollTo
  <2>2. start = s - 1 /\ start \in Nat \ {0} /\ start < s
    BY <1>3, <2>1
  <2> HIDE DEF start, s, k, C, H, sl, N
  <2>3. k - start \in Rows \/ (k - start >= C /\ sl = C - 1 /\ k = s + (C - 1))
    BY <1>2, <1>3, <2>2
  <2>4. Placed(cur_pos, sl, start, {Redraw})
    BY <1>3, <1>4, <2>2, <2>3 DEF Placed, Shows, k, C, sl
  <2>5. ~(k < start)
    BY <1>2, <1>3, <2>2
  <2>6. ~Shows(start, k) => start + C - 1 <= k
    BY <1>2, <1>3, <2>2, <2>3 DEF Shows
  <2>7. Backlog = <<>> => k <= N
    BY <1>3
  <2>8. k <= N /\ start + C - 1 <= k => start + C - 1 <= N
    BY <1>2, <1>3, <2>2
  <2>9. Backlog = <<>> => InStep(cur_pos, start, {Redraw}, N)
    BY <2>5, <2>6, <2>7, <2>8 DEF InStep, k, C
  <2> QED  BY <1>4, <2>1, <2>4, <2>9, MoveKeeps DEF sl, N, s
<1>6. CASE NextLine
  <2> DEFINE start == s + 1
  <2>1. s + H < N /\ Move(cur_pos, sl, start, {Redraw})
    BY <1>6 DEF NextLine, ScrollTo
  <2>2. start = s + 1 /\ start \in Nat \ {0} /\ start >= s
    BY <1>3
  <2> HIDE DEF start, s, k, C, H, sl, N
  <2>3. k - start \in Rows \/ (k - start < 0 /\ k = s /\ (sl = 0 \/ LoudIn))
    BY <1>2, <1>3, <2>2
  <2>4. Placed(cur_pos, sl, start, {Redraw})
    BY <1>3, <1>4, <2>2, <2>3 DEF Placed, Shows, k, C, sl, s
  <2>5. ~Shows(start, k) => k < start
    BY <1>2, <1>3, <2>2, <2>3 DEF Shows
  <2>6. start <= N
    BY <1>2, <1>3, <2>1, <2>2
  <2>7. Backlog = <<>> => k <= N
    BY <1>3
  <2>8. Backlog = <<>> => InStep(cur_pos, start, {Redraw}, N)
    BY <2>5, <2>6, <2>7 DEF InStep, k
  <2> QED  BY <1>4, <2>1, <2>4, <2>8, MoveKeeps DEF sl, N, s
<1>7. CASE Refresh
  <2>1. Move(cur_pos, sl, s, {Redraw})
    BY <1>7 DEF Refresh
  <2>2. Shows(s, cur_pos.lineno) /\ (Backlog = <<>> => cur_pos.lineno <= N)
    BY <1>2, <1>3 DEF Shows
  <2>3. Placed(cur_pos, sl, s, {Redraw})
    BY <1>3, <1>4, <2>2 DEF Placed
  <2> QED  BY <2>1, <2>2, <2>3, ShownKeeps
<1> QED  BY <1>5, <1>6, <1>7

\* A click into the text, and ^T.
LEMMA JumpKeeps ==
    ASSUME ScreenInv, Click \/ GoTo
    PROVE  ScreenInv'
<1> DEFINE s == screen_start_line
           C == CONTENT_LINES
           H == HALF_HEIGHT
           N == Len(lines)
<1>1. pc = "key"
  BY DEF Click, GoTo, Move
<1>2. /\ C \in Nat /\ C >= 5 /\ H \in Nat /\ H >= 2 /\ 2 * H <= C
      /\ Rows = 0..C - 1
  BY HalfHeight DEF Rows
<1>3. s \in Nat \ {0} /\ screen_line \in Int /\ N \in Nat \ {0}
  BY <1>1, BeforeKey, TextType
<1>4. CASE Click
  <2>1. PICK row \in Rows, offset \in Columns :
           Move(At(Min2(s + row, N), offset), screen_line, s, {Redraw})
    BY <1>4 DEF Click
  <2>2. offset \in Nat \ {0}
    BY ColumnsAssumption
  <2> DEFINE line == s + row
             pos == At(Min2(line, N), offset)
  <2>3. line \in Nat \ {0} /\ line - s \in Rows
    BY <1>2, <1>3
  <2>4. Min2(line, N) \in Nat \ {0} /\ Min2(line, N) <= N
    BY <1>3, <2>3 DEF Min2
  <2>5. pos \in Position /\ pos.lineno = Min2(line, N)
    BY <2>2, <2>4, AtType
  <2>6. Move(pos, screen_line, s, {Redraw})
    BY <2>1
  <2> HIDE DEF line, pos
  <2>7. /\ Placed(pos, screen_line, s, {Redraw})
        /\ Backlog = <<>> => Shows(s, pos.lineno)
    BY <1>1, <2>3, <2>5, StepTo
  <2>8. pos.lineno <= N
    BY <2>4, <2>5
  <2> QED  BY <2>6, <2>7, <2>8, ShownKeeps
<1>5. CASE GoTo
  <2>1. PICK n \in 1..N, offset \in Columns \cup {INT_MAX} :
           Move(At(n, offset), screen_line, Max2(1, n - H), {Redraw})
    BY <1>5 DEF GoTo
  <2>2. offset \in Nat \ {0}
    BY ColumnsAssumption, IntMax
  <2> DEFINE start == Max2(1, n - H)
             pos == At(n, offset)
  <2>3. n \in Nat \ {0} /\ n <= N
    BY <1>3
  <2>4. start \in Nat \ {0} /\ n - start \in Rows
    BY <1>2, <2>3 DEF Max2
  <2>5. pos \in Position /\ pos.lineno = n
    BY <2>2, <2>3, AtType
  <2>6. Move(pos, screen_line, start, {Redraw})
    BY <2>1
  <2> HIDE DEF start, pos
  <2>7. Shows(start, pos.lineno)
    BY <2>4, <2>5 DEF Shows
  <2>8. Placed(pos, screen_line, start, {Redraw})
    BY <1>3, <2>4, <2>5, <2>7 DEF Placed
  <2> QED  BY <2>3, <2>5, <2>6, <2>7, <2>8, ShownKeeps
<1> QED  BY <1>4, <1>5

-----------------------------------------------------------------------------
(***************************************************************************)
(* The keys that edit.                                                     *)
(***************************************************************************)

\* What the text does not refuse is an operation on it.
LEMMA AppliedIs ==
    ASSUME lines \in Text, NEW op \in Operation, ~Refused(op)
    PROVE  /\ OnText(lines, Applied(op))
           /\ Applied(op).pos = op.pos
           /\ Applied(op).operation = op.operation
           /\ op.operation = INSERT => Applied(op) = op
           /\ op.operation = DELETE =>
                (Applied(op).newline <=> op.pos.offset = lines[op.pos.lineno] + 1)
<1> DEFINE a == Applied(op)
           atEnd == op.pos.offset = lines[op.pos.lineno] + 1
<1>1. /\ op.operation \in {INSERT, DELETE} /\ INSERT # DELETE
      /\ op.pos \in Position /\ op.newline \in BOOLEAN
      /\ op = [operation |-> op.operation, newline |-> op.newline, pos |-> op.pos]
  BY DEF Operation, INSERT, DELETE
<1>2. /\ InText(lines, op.pos)
      /\ op.operation = DELETE => op.pos # EndOfText(lines)
  BY DEF Refused
<1>3. CASE op.operation = INSERT
  <2>1. a = op
    BY <1>3 DEF Applied
  <2> QED  BY <1>1, <1>2, <1>3, <2>1 DEF OnText
<1>4. CASE op.operation = DELETE
  <2>1. a = [op EXCEPT !.newline = atEnd]
    BY <1>1, <1>4 DEF Applied
  <2>2. atEnd \in BOOLEAN
    OBVIOUS
  <2> HIDE DEF atEnd
  <2>3. /\ a \in Operation /\ a.pos = op.pos /\ a.operation = op.operation
        /\ a.newline = atEnd
    BY <1>1, <2>1, <2>2 DEF Operation
  <2>4. atEnd => op.pos.lineno < Len(lines)
    <3>1. SUFFICES ASSUME atEnd, ~(op.pos.lineno < Len(lines))
                   PROVE  FALSE
      OBVIOUS
    <3>2. op.pos.lineno = Len(lines)
      BY <1>2, <3>1, TextType DEF InText
    <3>3. op.pos = [lineno |-> op.pos.lineno, offset |-> op.pos.offset]
      BY <1>1 DEF Position
    <3>4. EndOfText(lines) = [lineno |-> Len(lines), offset |-> lines[Len(lines)] + 1]
      BY EndType
    <3>5. op.pos.offset = lines[Len(lines)] + 1
      BY <3>1, <3>2 DEF atEnd
    <3>6. op.pos = EndOfText(lines)
      BY <3>2, <3>3, <3>4, <3>5, Zenon
    <3> QED  BY <1>2, <1>4, <3>6
  <2> QED  BY <1>1, <1>2, <1>4, <2>3, <2>4 DEF OnText, atEnd
<1> QED  BY <1>1, <1>3, <1>4

\* The text after an edit has the line of the cursor if it had it before.
LEMMA EditedIs ==
    ASSUME lines \in Text, NEW op \in Operation
    PROVE  /\ Edited(op) \in Text
           /\ Total(Edited(op)) \in Nat /\ Total(lines) \in Nat
           /\ Total(Edited(op)) <= Total(lines) + 1
           /\ Refused(op) => Edited(op) = lines
           /\ ~Refused(op) => op.pos.lineno \in 1..Len(Edited(op))
<1>1. CASE Refused(op)
  <2>1. Edited(op) = lines
    BY <1>1 DEF Edited
  <2>2. Len(lines) \in 1..Len(lines)
    BY TextType
  <2>3. Total(lines) \in Nat
    BY <2>2, LineFits
  <2> QED  BY <1>1, <2>1, <2>3
<1>2. CASE ~Refused(op)
  <2> DEFINE a == Applied(op)
             new == Changed(lines, a)
             n == op.pos.lineno
  <2>1. Edited(op) = new
    BY <1>2 DEF Edited
  <2>2. OnText(lines, a) /\ a.pos = op.pos
    BY <1>2, AppliedIs
  <2> HIDE DEF a
  <2>3. /\ new \in Text /\ LinesAfter(lines, a, new)
        /\ Total(new) \in Nat /\ Total(lines) \in Nat
        /\ Total(new) <= Total(lines) + 1
    BY <2>2, ChangedIs, TotalGrows DEF LinesAfter
  <2>4. /\ n \in 1..Len(lines) /\ Len(lines) \in Nat /\ Len(new) \in Nat
        /\ a.operation \in {INSERT, DELETE} /\ a.newline \in BOOLEAN
    BY <2>2, <2>3, TextType DEF OnText, Operation, InText
  <2>5. n \in 1..Len(new)
    BY <2>2, <2>3, <2>4 DEF LinesAfter, Longer, Broken
  <2> QED  BY <1>2, <2>1, <2>3, <2>5
<1> QED  BY <1>1, <1>2

\* An edit keeps the invariant.  In step with the text it is not refused, and
\* the cursor goes where calPos would move it for such a change.
LEMMA EditKeeps ==
    ASSUME ScreenInv, pc \in {"key", "join"},
           NEW op \in Operation, op.pos.lineno = cur_pos.lineno,
           NEW pos, NEW row, NEW start, NEW draw,
           Edit(op, pos, row, start, draw), Placed(pos, row, start, draw),
           draw = {} => ~AllCalm,
           Backlog = <<>> =>
               /\ ~Refused(op)
               /\ pos = Transformed(cur_pos, Applied(op))
               /\ Redraw \in draw => Shows(start, pos.lineno)
               /\ Redraw \notin draw => ~Applied(op).newline
    PROVE  ScreenInv'
<1>1. Types /\ Kept /\ Telling /\ Picture
  BY DEF ScreenInv
<1>2. /\ own > 0 /\ own' = own - 1 /\ others' = others
      /\ lines' = Edited(op) /\ refused' = Refused(op)
      /\ stale' = IF Refused(op) THEN stale ELSE stale \cup Outdated(Applied(op))
      /\ Place(pos, row, start, draw)
      /\ Means(~astray /\ Backlog = <<>>,
               IF Refused(op) THEN anchor
               ELSE Moved(anchor, Flat(lines, op.pos), op.operation))
      /\ torn' = (torn \/ Backlog # <<>>)
      /\ pc' = IF draw = {} THEN "getch" ELSE "draw"
      /\ queue' = queue /\ untold' = untold /\ reading' = reading
      /\ buf_changed' = buf_changed /\ cur_line_size' = cur_line_size
  BY DEF Edit, queueVars
<1>3. /\ cur_pos' = pos /\ screen_line' = row /\ screen_start_line' = start
      /\ need' = draw
  BY <1>2 DEF Place
<1>4. Backlog' = Backlog /\ Pending' = Pending
  BY <1>2, BacklogSame
<1>5. /\ pos \in Position /\ row \in Int /\ start \in Nat \ {0}
      /\ draw \subseteq {Redraw, RedrawLine}
      /\ Redraw \notin draw =>
           /\ pos.lineno = cur_pos.lineno
           /\ row = screen_line /\ start = screen_start_line
  BY DEF Placed
<1>6. /\ cur_pos \in Position /\ screen_start_line \in Nat \ {0}
      /\ lines \in Text /\ need = {} /\ OnScreen
      /\ AllCalm => InText(lines, cur_pos) /\ cur_line_size = lines[cur_pos.lineno]
      /\ Backlog = <<>> => AllCalm
      /\ \/ cur_pos.lineno <= Len(lines)
         \/ \E o \in Pending : o.newline /\ o.pos.lineno <= Len(lines)
  BY BeforeKey
<1>7. Redraw \notin draw =>
         /\ Row' = Row /\ (OnScreen' <=> OnScreen)
         /\ (LoudIn' <=> LoudIn) /\ (AllCalm' <=> AllCalm) /\ (AllTame' <=> AllTame)
  BY <1>3, <1>4, <1>5, SameView
<1>8. /\ lines' \in Text
      /\ Total(lines') \in Nat /\ Total(lines) \in Nat
      /\ Total(lines') <= Total(lines) + 1
      /\ Refused(op) => lines' = lines
      /\ ~Refused(op) => op.pos.lineno \in 1..Len(lines')
  BY <1>2, <1>6, EditedIs
<1>9. Types'
  <2>1. refused' \in BOOLEAN
    BY <1>2, Zenon DEF Refused
  <2>2. stale' \subseteq Rows
    BY <1>1, <1>2 DEF Types, TypeOK, Outdated
  <2>3. own' \in Nat
    BY <1>1, <1>2 DEF Types
  <2>4. torn' \in BOOLEAN
    BY <1>2, Zenon
  <2>5. astray' \in BOOLEAN /\ anchor' \in Int
    <3> DEFINE place == IF Refused(op) THEN anchor
                        ELSE Moved(anchor, Flat(lines, op.pos), op.operation)
    <3>1. place \in Int
      BY <1>1 DEF Types, Moved
    <3>2. Means(~astray /\ Backlog = <<>>, place)
      BY <1>2
    <3> HIDE DEF place
    <3>3. astray' \in BOOLEAN
      BY <3>2, Zenon DEF Means
    <3>4. anchor' \in Int
      BY <3>1, <3>2 DEF Means
    <3> QED  BY <3>3, <3>4
  <2>6. cur_pos'.lineno >= 1 /\ cur_pos'.offset >= 1
    BY <1>3, <1>5 DEF Position
  <2>7. pc' \in {"getch", "draw"}
    BY <1>2
  <2>8. TypeOK'
    <3>1. lines' \in Seq(Nat) \ {<<>>} /\ screen_start_line' >= 1
      BY <1>3, <1>5, <1>8 DEF Text
    <3>2. need' \subseteq {Redraw, RedrawLine}
      BY <1>3, <1>5
    <3>3. reading' \in {"line", "flag", "queue"}
      BY <1>1, <1>2 DEF Types, TypeOK
    <3> QED  BY <2>2, <2>6, <2>7, <3>1, <3>2, <3>3 DEF TypeOK
  <2> QED  BY <1>1, <1>2, <1>3, <1>5, <2>1, <2>3, <2>4, <2>5, <2>8 DEF Types
<1>10. ASSUME Backlog = <<>>
       PROVE  /\ OnText(lines, Applied(op)) /\ Applied(op).pos = op.pos
              /\ Applied(op).operation = op.operation
              /\ lines' = Changed(lines, Applied(op))
              /\ InText(lines, cur_pos) /\ InText(lines', pos)
              /\ Flat(lines', pos) =
                   Moved(Flat(lines, cur_pos), Flat(lines, op.pos), op.operation)
  <2>1. ~Refused(op) /\ pos = Transformed(cur_pos, Applied(op))
    BY <1>10
  <2>2. /\ OnText(lines, Applied(op)) /\ Applied(op).pos = op.pos
        /\ Applied(op).operation = op.operation
    BY <1>6, <2>1, AppliedIs
  <2>3. lines' = Changed(lines, Applied(op))
    BY <1>2, <2>1 DEF Edited
  <2>4. InText(lines, cur_pos)
    BY <1>6, <1>10
  <2>5. Follows(lines, Applied(op), cur_pos)
    BY <1>6, <2>2, <2>4, CursorFollows
  <2> QED  BY <2>1, <2>2, <2>3, <2>4, <2>5 DEF Follows
<1>11. Kept'
  <2>1. SUFFICES ASSUME ~astray'
                 PROVE  LET p == Followed(pos, Backlog)
                        IN  /\ p.lineno \in 1..Len(lines')
                            /\ Backlog # <<>> => InText(lines', p)
                            /\ Flat(lines', Clamped(lines', p)) = anchor'
                            /\ ~refused'
    BY <1>3, <1>4 DEF Kept
  <2>2. ~astray /\ Backlog = <<>>
    BY <1>2, <2>1 DEF Means
  <2>3. ~Refused(op) /\ ~refused'
    BY <1>2, <2>2
  <2>4. anchor' = Moved(anchor, Flat(lines, op.pos), op.operation)
    BY <1>2, <2>2, <2>3 DEF Means
  <2>5. Followed(pos, Backlog) = pos /\ Followed(cur_pos, Backlog) = cur_pos
    BY <1>5, <1>6, <2>2, FollowedEmpty
  <2>6. Flat(lines, Clamped(lines, cur_pos)) = anchor
    BY <1>1, <2>2, <2>5 DEF Kept
  <2>7. InText(lines, cur_pos) /\ InText(lines', pos)
    BY <1>10, <2>2
  <2>8. Clamped(lines, cur_pos) = cur_pos
    BY <1>6, <2>7, TextType, ClampedIs DEF InText
  <2>9. pos.lineno \in 1..Len(lines') /\ pos.lineno <= Len(lines')
    BY <1>8, <2>7, TextType DEF InText
  <2>10. Clamped(lines', pos) = pos
    BY <1>5, <1>8, <2>7, <2>9, ClampedIs
  <2>11. Flat(lines', pos) = anchor'
    BY <1>10, <2>2, <2>4, <2>6, <2>8
  <2> QED  BY <2>2, <2>3, <2>5, <2>9, <2>10, <2>11
<1>12. Telling'
  <2>1. OneEach'
    BY <1>1, <1>2 DEF Telling, OneEach
  <2>2. Fits'
    <3>1. Total(lines) + others + own < INT_MAX /\ own \in Nat /\ others \in Nat
      BY <1>1 DEF Telling, Fits, Types
    <3>2. INT_MAX \in Nat
      BY IntMax
    <3> QED  BY <1>2, <1>8, <3>1, <3>2 DEF Fits
  <2> QED  BY <2>1, <2>2 DEF Telling
<1>13. Picture'
  <2>1. Asked'
    BY <1>2, <1>3 DEF Asked, Drawing
  <2>2. InView' /\ RowKnown' /\ ToDraw'
    <3>1. pc' # "redraw"
      BY <1>2
    <3> QED  BY <1>2, <1>4, <3>1, PlaceKeeps
  <2>3. LineThere'
    <3>1. SUFFICES ASSUME Redraw \notin draw
                   PROVE  \/ pos.lineno <= Len(lines')
                          \/ \E o \in Pending : o.newline /\ o.pos.lineno <= Len(lines')
      BY <1>3, <1>4 DEF LineThere
    <3>2. pos.lineno = cur_pos.lineno
      BY <1>5, <3>1
    <3>3. CASE Refused(op)
      BY <1>6, <1>8, <3>2, <3>3
    <3>4. CASE ~Refused(op)
      <4>1. pos.lineno \in 1..Len(lines') /\ Len(lines') \in Nat
        BY <1>8, <3>2, <3>4, TextType
      <4> QED  BY <4>1
    <3> QED  BY <3>3, <3>4
  <2>4. LineKnown'
    <3>1. draw = {} => ~AllCalm'
      BY <1>7
    <3> QED  BY <1>3, <3>1 DEF LineKnown
  <2>5. Fresh'
    <3>1. SUFFICES ASSUME ~torn', Redraw \notin draw
                   PROVE  stale' \subseteq {Row'} /\ draw # {}
      BY <1>3 DEF Fresh
    <3>2. ~torn /\ Backlog = <<>>
      BY <1>2, <3>1
    <3>3. draw # {} /\ AllCalm /\ AllTame
      BY <1>6, <3>2 DEF AllCalm, AllTame, Tame
    <3>4. stale = {}
      BY <1>1, <1>6, <3>2, <3>3 DEF Picture, Fresh
    <3>5. ~Refused(op) /\ ~Applied(op).newline /\ Applied(op).pos = op.pos
      BY <1>10, <3>1, <3>2
    <3>6. stale' = Outdated(Applied(op))
      BY <1>2, <3>4, <3>5
    <3>7. Outdated(Applied(op)) = { r \in Rows : screen_start_line + r = cur_pos.lineno }
      BY <3>5 DEF Outdated
    <3>8. \A r \in Rows : screen_start_line + r = cur_pos.lineno => r = Row
      BY <1>6, HalfHeight DEF Row, Position, Rows
    <3> QED  BY <1>7, <3>1, <3>3, <3>6, <3>7, <3>8
  <2>6. CanDraw'
    <3>1. SUFFICES ASSUME Backlog = <<>>
                   PROVE  /\ pos.lineno <= Len(lines')
                          /\ Redraw \in draw => OnScreen'
                          /\ ~refused'
      BY <1>2, <1>3, <1>4 DEF CanDraw
    <3>2. ~refused' /\ (Redraw \in draw => Shows(start, pos.lineno))
      BY <1>2, <3>1
    <3>3. pos.lineno <= Len(lines')
      BY <1>8, <1>10, <3>1, TextType DEF InText
    <3> QED  BY <1>3, <3>2, <3>3 DEF OnScreen, Row, Shows
  <2> QED  BY <2>1, <2>2, <2>3, <2>4, <2>5, <2>6 DEF Picture
<1>14. pc' # "undefined"
  BY <1>2
<1> QED  BY <1>9, <1>11, <1>12, <1>13, <1>14 DEF ScreenInv

\* Before an edit the cursor of a loop that is in step is in the text.
LEMMA BeforeEdit ==
    ASSUME ScreenInv, pc \in {"key", "join"}
    PROVE  /\ cur_pos \in Position /\ lines \in Text
           /\ cur_pos = At(cur_pos.lineno, cur_pos.offset)
           /\ cur_pos.lineno \in Nat \ {0} /\ cur_pos.offset \in Nat \ {0}
           /\ screen_line \in Int /\ screen_line >= 0
           /\ screen_start_line \in Nat \ {0}
           /\ Shows(screen_start_line, cur_pos.lineno)
           /\ AllCalm => /\ InText(lines, cur_pos)
                         /\ cur_line_size = lines[cur_pos.lineno]
                         /\ lines[cur_pos.lineno] \in Nat
                         /\ Len(lines) \in Nat
           /\ Backlog = <<>> => AllCalm
           /\ \A draw \in {{Redraw}, {RedrawLine}} :
                /\ draw # {}
                /\ Placed(cur_pos, screen_line, screen_start_line, draw)
<1>1. /\ cur_pos \in Position /\ lines \in Text
      /\ screen_line \in Int /\ screen_line >= 0
      /\ screen_start_line \in Nat \ {0} /\ OnScreen
      /\ AllCalm => /\ InText(lines, cur_pos)
                    /\ cur_line_size = lines[cur_pos.lineno]
      /\ Backlog = <<>> => AllCalm
  BY BeforeKey
<1>2. /\ cur_pos = At(cur_pos.lineno, cur_pos.offset)
      /\ cur_pos.lineno \in Nat \ {0} /\ cur_pos.offset \in Nat \ {0}
  BY <1>1 DEF Position, At
<1>3. Shows(screen_start_line, cur_pos.lineno)
  BY <1>1 DEF Shows, OnScreen, Row
<1>4. AllCalm => lines[cur_pos.lineno] \in Nat /\ Len(lines) \in Nat
  BY <1>1, TextType DEF InText
<1>5. \A draw \in {{Redraw}, {RedrawLine}} :
         /\ draw # {}
         /\ Placed(cur_pos, screen_line, screen_start_line, draw)
  <2>1. SUFFICES ASSUME NEW draw \in {{Redraw}, {RedrawLine}}
                 PROVE  /\ draw # {} /\ draw \subseteq {Redraw, RedrawLine}
                        /\ Placed(cur_pos, screen_line, screen_start_line, draw)
    OBVIOUS
  <2>2. draw # {} /\ draw \subseteq {Redraw, RedrawLine}
    OBVIOUS
  <2> QED  BY <1>1, <1>3, <2>2 DEF Placed
<1> QED  BY <1>1, <1>2, <1>3, <1>4, <1>5

\* calPos moves a cursor by a change at it as a key does.
LEMMA OwnCursor ==
    ASSUME NEW p \in Position, NEW op \in Operation, op.pos.lineno = p.lineno
    PROVE  /\ op.operation = INSERT /\ ~op.newline /\ op.pos = p =>
                Transformed(p, op) = At(p.lineno, p.offset + 1)
           /\ op.operation = INSERT /\ op.newline /\ op.pos = p =>
                Transformed(p, op) = At(p.lineno + 1, 1)
           /\ op.operation = DELETE /\ op.pos = p => Transformed(p, op) = p
           /\ op.operation = DELETE /\ op.pos.offset = p.offset - 1 =>
                Transformed(p, op) = At(p.lineno, p.offset - 1)
<1> DEFINE q == Transformed(p, op)
<1>1. /\ p.lineno \in Nat \ {0} /\ p.offset \in Nat \ {0}
      /\ p = [lineno |-> p.lineno, offset |-> p.offset]
      /\ op.newline \in BOOLEAN /\ INSERT # DELETE
  BY DEF Position, Operation, INSERT, DELETE
<1>2. TransformedTo(p, op, q) /\ q \in Position
  BY TransformedIs DEF TransformedTo
<1>3. q = At(q.lineno, q.offset)
  BY <1>2 DEF Position, At
<1> HIDE DEF q
<1>4. op.operation = INSERT /\ ~op.newline /\ op.pos = p =>
         q.lineno = p.lineno /\ q.offset = p.offset + 1
  BY <1>1, <1>2 DEF TransformedTo
<1>5. op.operation = INSERT /\ op.newline /\ op.pos = p =>
         q.lineno = p.lineno + 1 /\ q.offset = 1
  BY <1>1, <1>2 DEF TransformedTo
<1>6. op.operation = DELETE /\ op.pos = p =>
         q.lineno = p.lineno /\ q.offset = p.offset
  BY <1>1, <1>2 DEF TransformedTo
<1>7. op.operation = DELETE /\ op.pos.offset = p.offset - 1 =>
         q.lineno = p.lineno /\ q.offset = p.offset - 1
  BY <1>1, <1>2 DEF TransformedTo
<1>8. p = At(p.lineno, p.offset)
  BY <1>1 DEF At
<1> QED  BY <1>3, <1>4, <1>5, <1>6, <1>7, <1>8 DEF q

\* A character typed.
LEMMA InsertCharKeeps ==
    ASSUME ScreenInv, InsertChar
    PROVE  ScreenInv'
<1> DEFINE op == [operation |-> INSERT, newline |-> FALSE, pos |-> cur_pos]
           pos == At(cur_pos.lineno, cur_pos.offset + 1)
<1>1. /\ pc \in {"key", "join"}
      /\ Edit(op, pos, screen_line, screen_start_line, {RedrawLine})
  BY DEF InsertChar
<1>2. cur_pos \in Position /\ lines \in Text /\ INSERT # DELETE
  BY <1>1, BeforeEdit DEF INSERT, DELETE
<1>3. /\ op \in Operation /\ op.pos = cur_pos
      /\ op.operation = INSERT /\ ~op.newline
  BY <1>2 DEF Operation
<1>4. pos \in Position /\ pos.lineno = cur_pos.lineno
  BY <1>2, AtType DEF Position
<1> HIDE DEF op, pos
<1>5. Placed(pos, screen_line, screen_start_line, {RedrawLine})
  <2>1. Placed(cur_pos, screen_line, screen_start_line, {RedrawLine})
    BY <1>1, BeforeEdit
  <2>2. Redraw \notin {RedrawLine}
    BY DEF Redraw, RedrawLine
  <2> QED  BY <1>4, <2>1, <2>2 DEF Placed
<1>6. ASSUME Backlog = <<>>
      PROVE  /\ ~Refused(op)
             /\ pos = Transformed(cur_pos, Applied(op))
             /\ Redraw \in {RedrawLine} => Shows(screen_start_line, pos.lineno)
             /\ Redraw \notin {RedrawLine} => ~Applied(op).newline
  <2>1. InText(lines, cur_pos)
    BY <1>1, <1>6, BeforeEdit
  <2>2. ~Refused(op)
    BY <1>2, <1>3, <2>1 DEF Refused
  <2>3. Applied(op) = op
    BY <1>3 DEF Applied
  <2>4. Transformed(cur_pos, op) = pos
    BY <1>2, <1>3, OwnCursor DEF pos
  <2> QED  BY <1>3, <2>2, <2>3, <2>4 DEF Redraw, RedrawLine
<1>7. {RedrawLine} # {}
  OBVIOUS
<1>8. op.pos.lineno = cur_pos.lineno
  BY <1>3
<1> QED  BY <1>1, <1>3, <1>5, <1>6, <1>7, <1>8, EditKeeps

\* A line break typed.
LEMMA InsertNewlineKeeps ==
    ASSUME ScreenInv, InsertNewline
    PROVE  ScreenInv'
<1> DEFINE op == [operation |-> INSERT, newline |-> TRUE, pos |-> cur_pos]
           pos == At(cur_pos.lineno + 1, 1)
<1>1. /\ pc = "key"
      /\ \/ /\ ~(screen_line >= CONTENT_LINES - 1)
            /\ Edit(op, pos, screen_line, screen_start_line, {Redraw})
         \/ /\ cur_pos.lineno < Len(Edited(op))
            /\ Edit(op, pos, screen_line + 1, DownStart(screen_line + 1), {Redraw})
         \/ /\ screen_line >= CONTENT_LINES - 1
            /\ ~(cur_pos.lineno < Len(Edited(op)))
            /\ Edit(op, At(cur_pos.lineno, 1), screen_line, screen_start_line, {})
  BY DEF InsertNewline
<1>2. /\ cur_pos \in Position /\ lines \in Text /\ INSERT # DELETE
      /\ screen_line \in Int
      /\ AllCalm => InText(lines, cur_pos)
      /\ Backlog = <<>> => AllCalm
  BY <1>1, BeforeEdit DEF INSERT, DELETE
<1>3. /\ op \in Operation /\ op.pos = cur_pos
      /\ op.operation = INSERT /\ op.newline
  BY <1>2 DEF Operation
<1>4. pos \in Position /\ pos.lineno = cur_pos.lineno + 1
  BY <1>2, AtType DEF Position
<1> HIDE DEF op
<1>5. ASSUME AllCalm
      PROVE  ~Refused(op) /\ Applied(op) = op /\ Transformed(cur_pos, op) = pos
  <2>1. InText(lines, cur_pos)
    BY <1>2, <1>5
  <2>2. ~Refused(op)
    BY <1>2, <1>3, <2>1 DEF Refused
  <2>3. Applied(op) = op
    BY <1>3 DEF Applied
  <2>4. Transformed(cur_pos, op) = pos
    BY <1>2, <1>3, OwnCursor DEF pos
  <2> QED  BY <2>2, <2>3, <2>4
<1>6. op.pos.lineno = cur_pos.lineno /\ pc \in {"key", "join"} /\ {Redraw} # {}
  BY <1>1, <1>3
<1>7. ASSUME NEW row, NEW start, Edit(op, pos, row, start, {Redraw}),
             Placed(pos, row, start, {Redraw}),
             Backlog = <<>> => Shows(start, pos.lineno)
      PROVE  ScreenInv'
  <2>1. Backlog = <<>> => ~Refused(op) /\ pos = Transformed(cur_pos, Applied(op))
    BY <1>2, <1>5
  <2> HIDE DEF pos
  <2> QED  BY <1>3, <1>6, <1>7, <2>1, EditKeeps
<1>8. CASE /\ ~(screen_line >= CONTENT_LINES - 1)
           /\ Edit(op, pos, screen_line, screen_start_line, {Redraw})
  <2>1. screen_line < CONTENT_LINES - 1
    BY <1>2, <1>8, HalfHeight
  <2> HIDE DEF pos
  <2>2. /\ Placed(pos, screen_line, screen_start_line, {Redraw})
        /\ Shows(screen_start_line, pos.lineno)
    BY <1>1, <1>4, <2>1, StepDown
  <2> QED  BY <1>7, <1>8, <2>2
<1>9. CASE Edit(op, pos, screen_line + 1, DownStart(screen_line + 1), {Redraw})
  <2> DEFINE row == screen_line + 1
             start == DownStart(screen_line + 1)
  <2> HIDE DEF pos
  <2>1. /\ Placed(pos, row, start, {Redraw})
        /\ Backlog = <<>> => Shows(start, pos.lineno)
    BY <1>1, <1>4, StepDown
  <2>2. Edit(op, pos, row, start, {Redraw})
    BY <1>9
  <2> HIDE DEF row, start
  <2> QED  BY <1>7, <2>1, <2>2
<1>10. CASE /\ ~(cur_pos.lineno < Len(Edited(op)))
            /\ Edit(op, At(cur_pos.lineno, 1), screen_line, screen_start_line, {})
  <2> DEFINE here == At(cur_pos.lineno, 1)
  <2>1. ~AllCalm
    <3>1. SUFFICES ASSUME AllCalm PROVE FALSE
      OBVIOUS
    <3>2. ~Refused(op) /\ Applied(op) = op
      BY <1>5, <3>1
    <3>3. OnText(lines, op)
      BY <1>2, <1>3, <3>2, AppliedIs
    <3>4. Edited(op) = Changed(lines, op)
      BY <3>2 DEF Edited
    <3>5. Broken(lines, Changed(lines, op), cur_pos.lineno)
      BY <1>2, <1>3, <3>3, ChangedIs DEF LinesAfter
    <3>6. cur_pos.lineno < Len(Changed(lines, op))
      BY <1>2, <3>5, TextType DEF Broken
    <3> QED  BY <1>10, <3>4, <3>6
  <2>2. here \in Position /\ here.lineno = cur_pos.lineno
    BY <1>2, AtType DEF Position
  <2>3. Edit(op, here, screen_line, screen_start_line, {})
    BY <1>10
  <2> HIDE DEF here
  <2>4. Placed(here, screen_line, screen_start_line, {})
    BY <1>1, <2>2, BeforeEdit DEF Placed
  <2>5. Backlog # <<>>
    BY <1>2, <2>1
  <2> QED  BY <1>3, <1>6, <2>1, <2>3, <2>4, <2>5, EditKeeps
<1> QED  BY <1>1, <1>8, <1>9, <1>10

\* A deletion in the line of the cursor, which stays in its row.
LEMMA DeletionKeeps ==
    ASSUME ScreenInv, pc \in {"key", "join"},
           NEW pos \in Position, pos.lineno = cur_pos.lineno,
           NEW draw \in {{Redraw}, {RedrawLine}},
           Edit([operation |-> DELETE, newline |-> FALSE, pos |-> pos],
                pos, screen_line, screen_start_line, draw),
           Backlog = <<>> =>
               /\ InText(lines, pos) /\ pos # EndOfText(lines)
               /\ pos.offset = cur_pos.offset \/ pos.offset = cur_pos.offset - 1
               /\ Redraw \notin draw => pos.offset # lines[pos.lineno] + 1
    PROVE  ScreenInv'
<1> DEFINE op == [operation |-> DELETE, newline |-> FALSE, pos |-> pos]
<1>1. /\ cur_pos \in Position /\ lines \in Text /\ INSERT # DELETE
      /\ Placed(cur_pos, screen_line, screen_start_line, draw) /\ draw # {}
      /\ Shows(screen_start_line, cur_pos.lineno)
      /\ pos = At(pos.lineno, pos.offset)
      /\ cur_pos = At(cur_pos.lineno, cur_pos.offset)
  BY BeforeEdit DEF INSERT, DELETE, Position, At
<1>2. /\ op \in Operation /\ op.pos = pos
      /\ op.operation = DELETE /\ ~op.newline
  BY DEF Operation
<1>3. Edit(op, pos, screen_line, screen_start_line, draw)
  OBVIOUS
<1> HIDE DEF op
<1>4. Placed(pos, screen_line, screen_start_line, draw)
  BY <1>1 DEF Placed
<1>5. ASSUME Backlog = <<>>
      PROVE  /\ ~Refused(op)
             /\ pos = Transformed(cur_pos, Applied(op))
             /\ Redraw \in draw => Shows(screen_start_line, pos.lineno)
             /\ Redraw \notin draw => ~Applied(op).newline
  <2>1. ~Refused(op)
    BY <1>2, <1>5 DEF Refused
  <2> DEFINE a == Applied(op)
  <2>2. /\ a \in Operation /\ a.pos = pos /\ a.operation = DELETE
        /\ a.newline <=> pos.offset = lines[pos.lineno] + 1
    BY <1>1, <1>2, <2>1, AppliedIs DEF OnText
  <2> HIDE DEF a
  <2>3. pos = Transformed(cur_pos, a)
    <3>1. CASE pos.offset = cur_pos.offset
      <4>1. pos = cur_pos
        BY <1>1, <3>1
      <4> QED  BY <1>1, <2>2, <4>1, OwnCursor
    <3>2. CASE pos.offset = cur_pos.offset - 1
      <4>1. pos = At(cur_pos.lineno, cur_pos.offset - 1)
        BY <1>1, <3>2
      <4>2. a.pos.lineno = cur_pos.lineno /\ a.pos.offset = cur_pos.offset - 1
        BY <2>2, <3>2
      <4>3. Transformed(cur_pos, a) = At(cur_pos.lineno, cur_pos.offset - 1)
        BY <1>1, <2>2, <4>2, OwnCursor
      <4> QED  BY <4>1, <4>3
    <3> QED  BY <1>5, <3>1, <3>2
  <2>4. Redraw \notin draw => ~a.newline
    BY <1>5, <2>2
  <2> QED  BY <1>1, <2>1, <2>3, <2>4 DEF a
<1>6. op.pos.lineno = cur_pos.lineno
  BY <1>2
<1> QED  BY <1>1, <1>2, <1>3, <1>4, <1>5, <1>6, EditKeeps

\* keyBackspace within the line.
LEMMA BackspaceKeeps ==
    ASSUME ScreenInv, Backspace
    PROVE  ScreenInv'
<1> DEFINE before == At(cur_pos.lineno, cur_pos.offset - 1)
<1>1. /\ pc \in {"key", "join"} /\ cur_pos.offset > 1
      /\ Edit([operation |-> DELETE, newline |-> FALSE, pos |-> before],
              before, screen_line, screen_start_line, {RedrawLine})
  BY DEF Backspace
<1>2. /\ cur_pos.lineno \in Nat \ {0} /\ cur_pos.offset \in Nat \ {0}
      /\ lines \in Text
      /\ Backlog = <<>> => InText(lines, cur_pos) /\ lines[cur_pos.lineno] \in Nat
  BY <1>1, BeforeEdit
<1>3. /\ before \in Position /\ before.lineno = cur_pos.lineno
      /\ before.offset = cur_pos.offset - 1
  BY <1>1, <1>2, AtType
<1> HIDE DEF before
<1>4. ASSUME Backlog = <<>>
      PROVE  /\ InText(lines, before) /\ before # EndOfText(lines)
             /\ before.offset # lines[before.lineno] + 1
  <2>1. /\ cur_pos.lineno \in 1..Len(lines) /\ lines[cur_pos.lineno] \in Nat
        /\ cur_pos.offset \in 1..lines[cur_pos.lineno] + 1
    BY <1>2, <1>4 DEF InText
  <2>2. InText(lines, before) /\ before.offset # lines[before.lineno] + 1
    BY <1>1, <1>2, <1>3, <2>1 DEF InText
  <2>3. before # EndOfText(lines)
    BY <1>2, <2>2, EndType
  <2> QED  BY <2>2, <2>3
<1>5. {RedrawLine} \in {{Redraw}, {RedrawLine}}
  OBVIOUS
<1> QED  BY <1>1, <1>3, <1>4, <1>5, DeletionKeeps

\* keyDelete.
LEMMA DeleteKeyKeeps ==
    ASSUME ScreenInv, DeleteKey
    PROVE  ScreenInv'
<1> DEFINE atEnd == cur_pos.offset = cur_line_size + 1
           draw == IF atEnd THEN {Redraw} ELSE {RedrawLine}
<1>1. /\ pc \in {"key", "join"}
      /\ atEnd => cur_pos.lineno # Len(lines)
      /\ Edit([operation |-> DELETE, newline |-> FALSE, pos |-> cur_pos],
              cur_pos, screen_line, screen_start_line, draw)
  BY DEF DeleteKey
<1>2. /\ cur_pos \in Position /\ lines \in Text
      /\ Backlog = <<>> => /\ InText(lines, cur_pos)
                           /\ cur_line_size = lines[cur_pos.lineno]
  BY <1>1, BeforeEdit
<1>3. draw \in {{Redraw}, {RedrawLine}} /\ (Redraw \notin draw => ~atEnd)
  BY DEF Redraw, RedrawLine
<1> HIDE DEF draw
<1>4. ASSUME Backlog = <<>>
      PROVE  /\ cur_pos # EndOfText(lines)
             /\ Redraw \notin draw => cur_pos.offset # lines[cur_pos.lineno] + 1
  <2>1. cur_pos # EndOfText(lines)
    <3>1. SUFFICES ASSUME cur_pos = EndOfText(lines) PROVE FALSE
      OBVIOUS
    <3>2. /\ cur_pos.lineno = Len(lines)
          /\ cur_pos.offset = lines[Len(lines)] + 1
      BY <1>2, <3>1, EndType
    <3>3. atEnd
      BY <1>2, <1>4, <3>2
    <3> QED  BY <1>1, <3>2, <3>3
  <2>2. atEnd <=> cur_pos.offset = lines[cur_pos.lineno] + 1
    BY <1>2, <1>4
  <2> QED  BY <1>3, <2>1, <2>2
<1> QED  BY <1>1, <1>2, <1>3, <1>4, DeletionKeeps

\* keyBackspace on the line above: the line break there is deleted.
LEMMA JoinKeeps ==
    ASSUME ScreenInv, Join
    PROVE  ScreenInv'
<1>1. /\ pc = "join"
      /\ Edit([operation |-> DELETE, newline |-> FALSE, pos |-> cur_pos],
              cur_pos, screen_line, screen_start_line, {Redraw})
  BY DEF Join
<1>2. /\ cur_pos \in Position /\ lines \in Text
      /\ Backlog = <<>> => InText(lines, cur_pos)
  BY <1>1, BeforeEdit
<1>3. Backlog = <<>> => cur_pos # EndOfText(lines)
  <2>1. Backlog = <<>> => cur_pos.lineno < Len(lines)
    BY <1>1 DEF ScreenInv, Picture, CanDraw
  <2>2. EndOfText(lines).lineno = Len(lines) /\ Len(lines) \in Nat
    BY <1>2, EndType, TextType
  <2> QED  BY <2>1, <2>2
<1>4. {Redraw} \in {{Redraw}, {RedrawLine}} /\ Redraw \in {Redraw}
  OBVIOUS
<1> QED  BY <1>1, <1>2, <1>3, <1>4, DeletionKeeps

\* keyBackspace goes to the end of the line above, which is as far from the
\* cursor as the line break that it will delete.
LEMMA BackspaceUpKeeps ==
    ASSUME ScreenInv, BackspaceUp
    PROVE  ScreenInv'
<1> DEFINE pos == At(cur_pos.lineno - 1, INT_MAX)
           row == IF screen_line <= 0 THEN screen_line - 1 ELSE screen_line
           start == IF screen_line <= 0 THEN UpStart(screen_line - 1)
                    ELSE screen_start_line
<1>1. /\ pc = "key" /\ pc' = "draw first"
      /\ cur_pos.offset = 1 /\ cur_pos.lineno > 1
      /\ Place(pos, row, start, {Redraw})
      /\ stale' = IF screen_start_line' = screen_start_line THEN stale ELSE Rows
      /\ Means(~astray /\ Backlog = <<>>, anchor - 1)
      /\ refused' = FALSE
      /\ lines' = lines /\ others' = others /\ own' = own
      /\ queue' = queue /\ untold' = untold /\ reading' = reading
      /\ buf_changed' = buf_changed /\ cur_line_size' = cur_line_size
      /\ torn' = torn
  BY DEF BackspaceUp, textVars, queueVars
<1>2. Types /\ Kept /\ Telling /\ Picture
  BY <1>1 DEF ScreenInv
<1>3. /\ cur_pos \in Position /\ cur_pos.lineno \in Nat \ {0}
      /\ lines \in Text /\ Len(lines) \in Nat \ {0}
      /\ cur_pos.offset = 1 /\ cur_pos.lineno > 1
  BY <1>1, BeforeEdit, TextType
<1>4. /\ pos \in Position /\ pos.lineno = cur_pos.lineno - 1
      /\ pos.offset = INT_MAX
  <2>1. cur_pos.lineno - 1 \in Nat \ {0}
    BY <1>3
  <2> QED  BY <2>1, AtType, IntMax
<1>5. \/ row = screen_line - 1 /\ start = UpStart(screen_line - 1)
      \/ /\ row = IF screen_line <= 0 THEN screen_line - 1 ELSE screen_line
         /\ start = IF screen_line <= 0 THEN UpStart(screen_line - 1)
                    ELSE screen_start_line
  OBVIOUS
<1> HIDE DEF pos, row, start
<1>6. /\ Placed(pos, row, start, {Redraw})
      /\ Backlog = <<>> => /\ Shows(start, pos.lineno)
                           /\ cur_pos.lineno <= Len(lines)
                           /\ InText(lines, cur_pos)
  BY <1>1, <1>4, <1>5, StepUp
<1>7. /\ cur_pos' = pos /\ screen_line' = row /\ screen_start_line' = start
      /\ need' = {Redraw}
  BY <1>1 DEF Place
<1>8. row \in Int /\ start \in Nat \ {0}
  BY <1>6 DEF Placed
<1>9. Backlog' = Backlog /\ Pending' = Pending
  BY <1>1, BacklogSame
<1>10. Types'
  <2>1. cur_pos'.lineno >= 1 /\ cur_pos'.offset >= 1
    BY <1>4, <1>7 DEF Position
  <2>2. stale' \subseteq Rows
    BY <1>1, <1>2 DEF Types, TypeOK
  <2>3. astray' \in BOOLEAN
    BY <1>1, Zenon DEF Means
  <2>4. anchor' \in Int
    <3> DEFINE place == anchor - 1
    <3>1. place \in Int
      BY <1>2 DEF Types
    <3>2. Means(~astray /\ Backlog = <<>>, place)
      BY <1>1
    <3> HIDE DEF place
    <3> QED  BY <3>1, <3>2 DEF Means
  <2>5. refused' \in BOOLEAN
    BY <1>1, Zenon
  <2>6. TypeOK'
    <3>1. lines' \in Seq(Nat) \ {<<>>}
      BY <1>1, <1>2 DEF Types, TypeOK
    <3>2. need' \subseteq {Redraw, RedrawLine} /\ screen_start_line' >= 1
      BY <1>7, <1>8
    <3>3. reading' \in {"line", "flag", "queue"}
      BY <1>1, <1>2 DEF Types, TypeOK
    <3>4. pc' = "draw first"
      BY <1>1
    <3> QED  BY <2>1, <2>2, <3>1, <3>2, <3>3, <3>4 DEF TypeOK
  <2> QED  BY <1>1, <1>2, <1>4, <1>7, <1>8, <2>3, <2>4, <2>5, <2>6 DEF Types
<1>11. Kept'
  <2>1. SUFFICES ASSUME ~astray'
                 PROVE  LET p == Followed(pos, Backlog)
                        IN  /\ p.lineno \in 1..Len(lines)
                            /\ Backlog # <<>> => InText(lines, p)
                            /\ Flat(lines, Clamped(lines, p)) = anchor'
                            /\ ~refused'
    BY <1>1, <1>7, <1>9 DEF Kept
  <2>2. ~astray /\ Backlog = <<>>
    BY <1>1, <2>1 DEF Means
  <2>3. anchor' = anchor - 1 /\ ~refused'
    BY <1>1, <2>2 DEF Means
  <2>4. Followed(pos, Backlog) = pos /\ Followed(cur_pos, Backlog) = cur_pos
    BY <1>3, <1>4, <2>2, FollowedEmpty
  <2>5. Flat(lines, Clamped(lines, cur_pos)) = anchor
    BY <1>2, <2>2, <2>4 DEF Kept
  <2>6. Clamped(lines, cur_pos) = cur_pos
    BY <1>3, <1>6, <2>2, ClampedIs
  <2> DEFINE k == cur_pos.lineno - 1
             a == Upto(lines)[k - 1]
  <2>7. k \in 1..Len(lines) /\ k + 1 = cur_pos.lineno /\ k + 1 - 1 = k
    <3>1. cur_pos.lineno > 1 /\ cur_pos.lineno <= Len(lines)
      BY <1>1, <1>6, <2>2
    <3> QED  BY <1>3, <3>1
  <2>8. /\ pos.lineno = k /\ pos.lineno \in 1..Len(lines)
        /\ pos.lineno <= Len(lines)
    BY <1>3, <1>4, <2>7
  <2> HIDE DEF k
  <2>9. /\ Upto(lines)[k] = a + lines[k] + 1
        /\ a \in Nat /\ lines[k] \in Nat /\ lines[k] <= Total(lines)
        /\ Total(lines) \in Nat
    BY <1>3, <2>7, LineFits, UptoByStep DEF UptoSteps
  <2> DEFINE size == lines[k]
             total == Total(lines)
  <2>10. Total(lines) + others + own < INT_MAX /\ own \in Nat /\ others \in Nat
    BY <1>2 DEF Telling, Fits, Types
  <2>11. Min2(INT_MAX, size + 1) = size + 1
    <3>1. size \in Nat /\ total \in Nat /\ size <= total /\ total + others + own < INT_MAX
      BY <2>9, <2>10
    <3> HIDE DEF size, total
    <3>2. INT_MAX \in Nat
      BY IntMax
    <3>3. ~(INT_MAX < size + 1)
      BY <2>10, <3>1, <3>2
    <3> QED  BY <3>3 DEF Min2
  <2> DEFINE end == Clamped(lines, pos)
  <2>12. end.lineno = k /\ end.offset = size + 1
    BY <1>3, <1>4, <2>8, <2>11, ClampedIs
  <2> HIDE DEF end
  <2>13. Flat(lines, end) = a + ((size + 1) - 1)
    BY <2>12 DEF Flat
  <2>14. anchor = (a + size + 1) + (1 - 1)
    <3>1. anchor = Flat(lines, cur_pos)
      BY <2>5, <2>6
    <3>2. cur_pos.offset = 1 /\ cur_pos.lineno - 1 = k
      BY <1>3, <2>7
    <3>3. Flat(lines, cur_pos) = Upto(lines)[k] + (1 - 1)
      BY <3>2 DEF Flat
    <3> QED  BY <2>9, <3>1, <3>3
  <2> HIDE DEF a, size
  <2>15. a \in Nat /\ size \in Nat
    BY <2>9 DEF a, size
  <2>16. Flat(lines, end) = anchor - 1
    BY <2>13, <2>14, <2>15
  <2> QED  BY <2>2, <2>3, <2>4, <2>8, <2>16 DEF end
<1>12. Telling'
  BY <1>1, <1>2 DEF Telling, OneEach, Fits
<1>13. Picture'
  <2>1. Redraw \in need' /\ need' # {}
    BY <1>7
  <2>2. InView' /\ RowKnown' /\ ToDraw'
    <3>1. pc \in {"key", "join"} /\ pc' # "redraw"
      BY <1>1
    <3> QED  BY <1>1, <1>6, <1>9, <3>1, PlaceKeeps
  <2>3. Asked' /\ LineThere' /\ LineKnown' /\ Fresh'
    BY <1>1, <2>1 DEF Asked, LineThere, LineKnown, Fresh
  <2>4. CanDraw'
    <3>1. SUFFICES ASSUME Backlog = <<>>
                   PROVE  pos.lineno < Len(lines) /\ pos.lineno <= Len(lines) /\ OnScreen'
      BY <1>1, <1>7, <1>9 DEF CanDraw
    <3>2. pos.lineno < Len(lines) /\ pos.lineno <= Len(lines)
      BY <1>3, <1>4, <1>6, <3>1
    <3> QED  BY <1>6, <1>7, <3>1, <3>2 DEF OnScreen, Row, Shows
  <2> QED  BY <2>2, <2>3, <2>4 DEF Picture
<1>14. pc' # "undefined"
  BY <1>1
<1> QED  BY <1>10, <1>11, <1>12, <1>13, <1>14 DEF ScreenInv

-----------------------------------------------------------------------------
(***************************************************************************)
(* Screen.                                                                 *)
(***************************************************************************)

\* The loop starts in step with the file.
LEMMA InitInv == Init => ScreenInv
<1> SUFFICES ASSUME Init PROVE ScreenInv
  OBVIOUS
<1>1. PICK begin \in Starts :
         /\ lines = begin.lines /\ cli = begin.cli
         /\ others = begin.others /\ own = begin.own
  BY DEF Init
<1>2. /\ anchor = 0 /\ untold = <<>> /\ queue = <<>> /\ reading = "line"
      /\ pc = "getch" /\ need = {}
      /\ cur_pos = [lineno |-> 1, offset |-> 1] /\ cur_line_size = lines[1]
      /\ screen_start_line = 1 /\ screen_line = 0 /\ stale = {}
  BY DEF Init
<1>3. /\ ~astray /\ ~torn /\ ~refused /\ ~buf_changed
      /\ astray \in BOOLEAN /\ torn \in BOOLEAN /\ refused \in BOOLEAN
      /\ buf_changed \in BOOLEAN
  BY Zenon DEF Init
<1>4. /\ lines \in Text /\ others \in Nat /\ own \in Nat
      /\ Total(lines) + others + own < INT_MAX
  BY <1>1, StartsAssumption, SizeAssumption DEF Text, Total
<1>5. /\ Len(lines) \in Nat \ {0} /\ lines[1] \in Nat /\ 1 \in 1..Len(lines)
  BY <1>4, TextType
<1>6. /\ cur_pos \in Position /\ cur_pos.lineno = 1 /\ cur_pos.offset = 1
      /\ InText(lines, cur_pos)
  BY <1>2, <1>5 DEF Position, InText
<1>7. Types
  BY <1>2, <1>3, <1>4, <1>5, <1>6 DEF Types, TypeOK, Text
<1>8. Backlog = <<>>
  <2>1. Len(Backlog) = 0 /\ Backlog \in Seq(Operation)
    BY <1>2, <1>7, BacklogType
  <2> QED  BY <2>1, EmptySeq
<1>9. Kept
  <2>1. Followed(cur_pos, Backlog) = cur_pos
    BY <1>6, <1>8, FollowedEmpty
  <2>2. Clamped(lines, cur_pos) = cur_pos
    BY <1>4, <1>5, <1>6, ClampedIs
  <2>3. Flat(lines, cur_pos) = Upto(lines)[1 - 1] + (1 - 1)
    BY <1>6 DEF Flat
  <2>4. Upto(lines)[0] = 0 /\ 1 - 1 = 0
    BY <1>4, UptoByStep DEF UptoSteps
  <2>5. Flat(lines, cur_pos) = anchor
    BY <1>2, <2>3, <2>4
  <2> QED  BY <1>3, <1>5, <1>6, <1>8, <2>1, <2>2, <2>5 DEF Kept
<1>10. Telling
  <2>1. OneEach
    BY <1>2 DEF OneEach
  <2> QED  BY <1>4, <2>1 DEF Telling, Fits
<1>11. Row = 0 /\ OnScreen
  BY <1>2, <1>6, HalfHeight DEF Row, OnScreen, Rows
<1>12. Picture
  <2>1. Asked /\ InView /\ ToDraw
    BY <1>2, <1>11 DEF Asked, InView, ToDraw, Drawing
  <2>2. RowKnown /\ LineKnown
    BY <1>2, <1>6, <1>11 DEF RowKnown, LineKnown
  <2>3. LineThere
    BY <1>5, <1>6 DEF LineThere
  <2>4. Fresh
    BY <1>2 DEF Fresh
  <2>5. CanDraw
    BY <1>2 DEF CanDraw, Drawing
  <2> QED  BY <2>1, <2>2, <2>3, <2>4, <2>5 DEF Picture
<1> QED  BY <1>2, <1>7, <1>9, <1>10, <1>12 DEF ScreenInv

\* Every step keeps the invariant.
LEMMA StepInv == ScreenInv /\ [Next]_vars => ScreenInv'
<1> SUFFICES ASSUME ScreenInv, [Next]_vars PROVE ScreenInv'
  OBVIOUS
<1>1. CASE UNCHANGED vars
  <2>1. /\ UNCHANGED textVars /\ UNCHANGED queueVars /\ UNCHANGED cursorVars
        /\ UNCHANGED raceVars /\ pc' = pc /\ need' = need /\ stale' = stale
    BY <1>1 DEF vars
  <2>2. /\ lines' = lines /\ others' = others /\ own' = own
        /\ queue' = queue /\ untold' = untold /\ reading' = reading
        /\ buf_changed' = buf_changed /\ cur_pos' = cur_pos
        /\ cur_line_size' = cur_line_size
        /\ screen_start_line' = screen_start_line /\ screen_line' = screen_line
        /\ anchor' = anchor /\ astray' = astray /\ torn' = torn
        /\ refused' = refused
    BY <2>1 DEF textVars, queueVars, cursorVars, raceVars, meaningVars
  <2>3. CASE pc = "undefined"
    <3>1. Backlog' = Backlog
      BY <2>2, BacklogSame
    <3>2. Types'
      BY <2>1, <2>2 DEF ScreenInv, Types, TypeOK
    <3>3. Kept'
      BY <2>2, <3>1 DEF ScreenInv, Kept
    <3> QED  BY <2>1, <2>3, <3>1, <3>2, <3>3 DEF ScreenInv
  <2>4. CASE pc # "undefined"
    <3>1. /\ reading' \in {"line", "flag", "queue"} /\ buf_changed' \in BOOLEAN
      BY <2>2 DEF ScreenInv, Types, TypeOK
    <3>2. Quiet
      BY <2>1, <2>2, <3>1 DEF Quiet
    <3> QED  BY <2>4, <3>2, QuietKeeps
  <2> QED  BY <2>3, <2>4
<1>2. CASE pc # "undefined" /\ Others
  <2>1. CASE RemoteChange \/ CliChange
    BY <1>2, <2>1, ChangeKeeps
  <2>2. CASE RemoteQueue \/ CliQueue
    BY <1>2, <2>2, QueueKeeps
  <2>3. CASE CliFlag
    BY <1>2, <2>3, QuietSteps, QuietKeeps
  <2> QED  BY <1>2, <2>1, <2>2, <2>3 DEF Others
<1>3. CASE pc # "undefined" /\ Keys
  <2>1. CASE KeyUp \/ KeyDown
    BY <2>1, UpDownKeeps
  <2>2. CASE KeyLeft \/ KeyRight \/ KeyHomeEnd
    BY <2>2, LeftRightKeeps
  <2>3. CASE PrePage \/ NextPage
    BY <2>3, PageKeeps
  <2>4. CASE PreLine \/ NextLine \/ Refresh
    BY <2>4, ScrollKeeps
  <2>5. CASE Click \/ GoTo
    BY <2>5, JumpKeeps
  <2>6. CASE Again
    BY <1>3, <2>6, QuietSteps, QuietKeeps
  <2>7. CASE InsertChar
    BY <2>7, InsertCharKeeps
  <2>8. CASE InsertNewline
    BY <2>8, InsertNewlineKeeps
  <2>9. CASE Backspace
    BY <2>9, BackspaceKeeps
  <2>10. CASE DeleteKey
    BY <2>10, DeleteKeyKeeps
  <2>11. CASE BackspaceUp
    BY <2>11, BackspaceUpKeeps
  <2> QED  BY <1>3, <2>1, <2>2, <2>3, <2>4, <2>5, <2>6, <2>7, <2>8, <2>9,
              <2>10, <2>11 DEF Keys
<1>4. CASE pc # "undefined" /\ Loop
  <2>1. CASE SeeFlag \/ JoinAgain \/ NoKey
    BY <1>4, <2>1, QuietSteps, QuietKeeps
  <2>2. CASE TransformPos
    BY <1>4, <2>2, TransformKeeps
  <2>3. CASE EndTransform
    BY <1>4, <2>3, EndTransformKeeps
  <2>4. CASE DrawContent
    BY <1>4, <2>4, DrawContentKeeps
  <2>5. CASE DrawNearest
    BY <1>4, <2>5, DrawNearestKeeps
  <2>6. CASE DrawLine
    BY <1>4, <2>6, DrawLineKeeps
  <2>7. CASE DrawPastEnd
    BY <1>4, <2>7, DrawPastEndKeeps
  <2>8. CASE Join
    BY <2>8, JoinKeeps
  <2> QED  BY <1>4, <2>1, <2>2, <2>3, <2>4, <2>5, <2>6, <2>7, <2>8 DEF Loop
<1> QED  BY <1>1, <1>2, <1>3, <1>4 DEF Next

\* The inductive invariant: what the loop has still to hear of explains all
\* that the screen does not show, and all that the cursor is behind.
THEOREM ScreenInvariant == Spec => []ScreenInv
BY InitInv, StepInv, PTL DEF Spec

\* The cursor has a line and a column in every race, and the screen a first
\* line.
THEOREM ScreenTypeOK == Spec => []TypeOK
<1>1. ScreenInv => TypeOK
  BY DEF ScreenInv, Types
<1> QED  BY <1>1, ScreenInvariant, PTL

\* The cursor, moved by what calPos has still to hear of, is where the user
\* left it, and no key is lost: for every text and any number of changes by
\* the other threads, as long as astray is not set.  These may come between
\* any two steps of the loop, and the position of a change may be queued
\* before that of an earlier one if the two are apart.  It says nothing once
\* positions of other changes are queued out of order, the cursor is used, or
\* drawn elsewhere, before it has been moved for all changes, or the text is
\* changed while the cursor stands beyond the end of its line.
THEOREM ScreenCursorKept == Spec => []CursorKept
<1>1. ScreenInv => CursorKept
  BY DEF ScreenInv, Kept, CursorKept
<1> QED  BY <1>1, ScreenInvariant, PTL

\* What calPos and the keys ask to draw is enough: a screen that is in step
\* shows its lines, and the cursor on its own.
THEOREM ScreenShowsText == Spec => []ScreenFresh
<1>1. ScreenInv => ScreenFresh
  <2> SUFFICES ASSUME ScreenInv, pc \in {"getch", "key"}, Backlog = <<>>, ~torn
               PROVE  /\ stale = {} /\ screen_line \in Rows
                      /\ cur_pos.lineno = screen_start_line + screen_line
                      /\ InText(lines, cur_pos)
    BY DEF ScreenFresh
  <2>1. Types /\ Picture
    BY DEF ScreenInv
  <2>2. Redraw \notin need /\ need = {}
    BY <2>1 DEF Picture, Asked
  <2>3. AllCalm /\ AllTame /\ ~LoudIn
    BY <2>1, BacklogType DEF AllCalm, AllTame, LoudIn
  <2>4. stale = {}
    BY <2>1, <2>2, <2>3 DEF Picture, Fresh
  <2>5. screen_line = Row /\ Row \in Rows
    BY <2>1, <2>2, <2>3 DEF Picture, RowKnown, InView, OnScreen
  <2>6. InText(lines, cur_pos)
    BY <2>1, <2>2, <2>3 DEF Picture, LineKnown
  <2>7. cur_pos.lineno \in Nat /\ screen_start_line \in Nat
    BY <2>1 DEF Types, Position
  <2>8. cur_pos.lineno = screen_start_line + screen_line
    BY <2>5, <2>7 DEF Row
  <2> QED  BY <2>4, <2>5, <2>6, <2>8
<1> QED  BY <1>1, ScreenInvariant, PTL

\* The line that is drawn is in the text, unless changes came between calPos
\* and the drawing.
THEOREM ScreenDrawsText == Spec => []DrawsText
<1>1. ScreenInv => DrawsText
  BY DEF ScreenInv, DrawsText
<1> QED  BY <1>1, ScreenInvariant, PTL
=============================================================================
