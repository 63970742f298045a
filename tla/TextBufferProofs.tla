------------------------- MODULE TextBufferProofs -------------------------
(***************************************************************************)
(* TextBuffer for every set of characters and every bound on the text: the *)
(* cached line, number and offset belong together whatever was typed, so   *)
(* translateOffset finds every offset, the calls report the place they     *)
(* changed, and the list of lines implements the flat text of FlatText.    *)
(*                                                                         *)
(* The invariant is BufferInv.  Its main part, Cached, is about one object *)
(* textOp: every call is shown to take an object that is Cached to another *)
(* one, and to change the text by one character or not at all.             *)
(***************************************************************************)
EXTENDS TextBuffer, XformProofs

-----------------------------------------------------------------------------
(***************************************************************************)
(* What the recursive functions Span, Flat and Lines compute.              *)
(***************************************************************************)

\* The bytes of a line with its line break.
Bytes(lines, n) == Len(lines[n]) + 1

\* What a list of lines is made of.
LEMMA LinesType ==
    ASSUME NEW lines \in Seq(Line)
    PROVE  /\ Len(lines) \in Nat
           /\ \A n \in 1..Len(lines) :
                /\ lines[n] \in Line /\ lines[n] \in Text
                /\ Len(lines[n]) \in Nat /\ Bytes(lines, n) \in Nat
<1>1. Len(lines) \in Nat /\ \A n \in 1..Len(lines) : lines[n] \in Line
  BY LenProperties, ElementOfSeq
<1>2. \A l \in Line : l \in Text /\ Len(l) \in Nat
  <2>1. Char \ {NewLine} \subseteq Char
    OBVIOUS
  <2>2. \A l \in Line : l \in Text
    BY <2>1, SeqMonotonic DEF Line, Text
  <2>3. \A l \in Line : Len(l) \in Nat
    BY LenProperties DEF Line
  <2> QED  BY <2>2, <2>3
<1>3. \A n \in 1..Len(lines) : Bytes(lines, n) \in Nat
  BY <1>1, <1>2 DEF Bytes
<1> QED  BY <1>1, <1>2, <1>3

\* What the recursive function of Span computes.
SpanSteps(lines, from) ==
    \E sum \in [0..Len(lines) -> Nat] :
        /\ \A n \in 0..Len(lines) : Span(lines, from, n) = sum[n]
        /\ \A n \in 0..from - 1 : n <= Len(lines) => sum[n] = 0
        /\ \A n \in from..Len(lines) : sum[n] = sum[n - 1] + Bytes(lines, n)

\* Span adds the bytes of one line after the other.
LEMMA SpanByStep ==
    ASSUME NEW lines \in Seq(Line), NEW from \in Nat \ {0}
    PROVE  SpanSteps(lines, from)
<1> DEFINE N == Len(lines)
           Eq(f) == f = [n \in 0..N |-> IF n < from THEN 0
                                        ELSE f[n - 1] + Len(lines[n]) + 1]
           span == CHOOSE f : Eq(f)
<1>1. N \in Nat /\ \A n \in 1..N : Len(lines[n]) \in Nat
  BY LinesType
<1>2. PICK f \in [0..N -> Nat] :
        /\ f[0] = 0
        /\ \A n \in 1..N : f[n] = IF n < from THEN 0
                                  ELSE f[n - 1] + Len(lines[n]) + 1
  <2> DEFINE Add(n, s) == IF n < from THEN 0 ELSE s + Len(lines[n]) + 1
             step == [n \in 1..N |-> [s \in Nat |-> Add(n, s)]]
  <2>1. step \in [1..N -> [Nat -> Nat]]
    BY <1>1
  <2>2. \A n \in 1..N : \A s \in Nat : step[n][s] = Add(n, s)
    OBVIOUS
  <2> HIDE DEF step, Add
  <2>3. PICK f \in [0..N -> Nat] :
            f[0] = 0 /\ \A n \in 1..N : f[n] = step[n][f[n - 1]]
    <3>1. Recursive(Nat, 0, N, step)
      <4> HIDE DEF N
      <4> QED  BY <1>1, <2>1, Recursion
    <3> QED  BY <3>1 DEF Recursive
  <2>4. \A n \in 1..N : f[n] = Add(n, f[n - 1])
    <3> HIDE DEF N
    <3>1. \A n \in 1..N : f[n - 1] \in Nat
      BY <1>1, <2>3
    <3> QED  BY <2>2, <2>3, <3>1
  <2> QED  BY <2>3, <2>4 DEF Add
<1>3. Eq(span)
  <2>1. Eq(f)
    <3> HIDE DEF N
    <3>1. \A n \in 0..N : n = 0 \/ n \in 1..N
      BY <1>1
    <3>2. 0 < from
      OBVIOUS
    <3>3. \A n \in 0..N : f[n] = IF n < from THEN 0
                                 ELSE f[n - 1] + Len(lines[n]) + 1
      BY <1>2, <3>1, <3>2
    <3> QED  BY <1>2, <3>3
  <2> HIDE DEF Eq
  <2> QED  BY <2>1
<1>4. span = [n \in 0..N |-> IF n < from THEN 0
                             ELSE span[n - 1] + Len(lines[n]) + 1]
  BY <1>3
<1>5. \A n \in 0..N : Span(lines, from, n) = span[n]
  BY DEF Span
<1> HIDE DEF span, Eq, N
<1>6. \A n \in 0..N : span[n] = IF n < from THEN 0
                                ELSE span[n - 1] + Len(lines[n]) + 1
  BY <1>4
<1>7. Alike(f, span, N)
  <2>1. \A n \in 1..N : n \in 0..N
    BY <1>1
  <2>2. f[0] = span[0]
    <3>1. 0 \in 0..N /\ 0 < from
      BY <1>1
    <3> QED  BY <1>2, <1>6, <3>1
  <2>3. \A n \in 1..N : f[n - 1] = span[n - 1] => f[n] = span[n]
    BY <1>2, <1>6, <2>1
  <2>4. StepAlike(f, span, N)
    BY <2>2, <2>3 DEF StepAlike
  <2> QED  BY <1>1, <2>4, SameSteps
<1>8. \A n \in 0..N : Span(lines, from, n) = f[n]
  BY <1>5, <1>7 DEF Alike
<1>9. \A n \in 0..from - 1 : n <= N => f[n] = 0
  <2>1. \A n \in 0..from - 1 : n <= N => n = 0 \/ (n \in 1..N /\ n < from)
    BY <1>1
  <2> QED  BY <1>2, <2>1
<1>10. \A n \in from..N : f[n] = f[n - 1] + Bytes(lines, n)
  <2>1. ASSUME NEW n \in from..N
        PROVE  f[n] = f[n - 1] + Bytes(lines, n)
    <3>1. n \in 1..N /\ ~(n < from) /\ n - 1 \in 0..N
      BY <1>1
    <3>2. f[n] = f[n - 1] + Len(lines[n]) + 1
      BY <1>2, <3>1
    <3>3. f[n - 1] \in Nat /\ Len(lines[n]) \in Nat
      BY <1>1, <1>2, <3>1
    <3>4. PICK x, y \in Nat : x = f[n - 1] /\ y = Len(lines[n])
      BY <3>3
    <3>5. x + y + 1 = x + (y + 1)
      OBVIOUS
    <3> QED  BY <3>2, <3>4, <3>5 DEF Bytes
  <2> QED  BY <2>1
<1> QED  BY <1>8, <1>9, <1>10 DEF SpanSteps, N

\* The lines before no, in bytes: where line no + 1 starts.
SizeTo(lines, n) == Span(lines, 1, n)

\* SizeTo by step.
LEMMA SizeByStep ==
    ASSUME NEW lines \in Seq(Line)
    PROVE  /\ \A n \in 0..Len(lines) : SizeTo(lines, n) \in Nat
           /\ SizeTo(lines, 0) = 0
           /\ \A n \in 1..Len(lines) :
                SizeTo(lines, n) = SizeTo(lines, n - 1) + Bytes(lines, n)
<1>1. Len(lines) \in Nat
  BY LinesType
<1>2. PICK sum \in [0..Len(lines) -> Nat] :
        /\ \A n \in 0..Len(lines) : Span(lines, 1, n) = sum[n]
        /\ \A n \in 0..1 - 1 : n <= Len(lines) => sum[n] = 0
        /\ \A n \in 1..Len(lines) : sum[n] = sum[n - 1] + Bytes(lines, n)
  BY SpanByStep DEF SpanSteps
<1>3. sum[0] = 0 /\ \A n \in 1..Len(lines) : n \in 0..Len(lines) /\ n - 1 \in 0..Len(lines)
  BY <1>1, <1>2
<1>4. 0 \in 0..Len(lines)
  BY <1>1
<1> QED  BY <1>2, <1>3, <1>4 DEF SizeTo

\* The lines from from to to are those to to without those before from.
LEMMA SpanIsDifference ==
    ASSUME NEW lines \in Seq(Line), NEW from \in 1..Len(lines) + 1,
           NEW to \in from - 1..Len(lines)
    PROVE  Span(lines, from, to) = SizeTo(lines, to) - SizeTo(lines, from - 1)
<1> DEFINE N == Len(lines)
<1>1. N \in Nat /\ from \in Nat \ {0} /\ from - 1 \in 0..N
  BY LinesType
<1>2. PICK sum \in [0..N -> Nat] :
        /\ \A n \in 0..N : Span(lines, from, n) = sum[n]
        /\ \A n \in 0..from - 1 : n <= N => sum[n] = 0
        /\ \A n \in from..N : sum[n] = sum[n - 1] + Bytes(lines, n)
  BY <1>1, SpanByStep DEF SpanSteps
<1> HIDE DEF N
<1>3. /\ \A n \in 0..N : SizeTo(lines, n) \in Nat
      /\ \A n \in 1..N : SizeTo(lines, n) = SizeTo(lines, n - 1) + Bytes(lines, n)
      /\ \A n \in 1..N : Bytes(lines, n) \in Nat
  BY SizeByStep, LinesType DEF N
<1> DEFINE b == from - 1
           T == { k \in Nat : b + k <= N =>
                    sum[b + k] = SizeTo(lines, b + k) - SizeTo(lines, b) }
<1>4. 0 \in T
  <2>1. sum[b] = 0 /\ SizeTo(lines, b) \in Nat
    BY <1>1, <1>2, <1>3
  <2>2. b + 0 = b
    BY <1>1
  <2> QED  BY <2>1, <2>2
<1>5. ASSUME NEW k \in Nat, k \in T, b + (k + 1) <= N
      PROVE  sum[b + (k + 1)] = SizeTo(lines, b + (k + 1)) - SizeTo(lines, b)
  <2> DEFINE n == b + (k + 1)
  <2>1. n \in 1..N /\ n - 1 = b + k /\ n \in from..N /\ b + k <= N /\ b + k \in 0..N
    BY <1>1, <1>5
  <2> HIDE DEF n, b
  <2>2. sum[n] = sum[b + k] + Bytes(lines, n)
    BY <1>2, <2>1
  <2>3. SizeTo(lines, n) = SizeTo(lines, b + k) + Bytes(lines, n)
    BY <1>3, <2>1
  <2>4. sum[b + k] = SizeTo(lines, b + k) - SizeTo(lines, b)
    BY <1>5, <2>1
  <2>5. Bytes(lines, n) \in Nat /\ SizeTo(lines, b + k) \in Nat /\ SizeTo(lines, b) \in Nat
    BY <1>1, <1>3, <2>1 DEF b
  <2> QED  BY <2>2, <2>3, <2>4, <2>5 DEF n
<1>6. \A k \in Nat : k \in T => k + 1 \in T
  BY <1>5
<1> HIDE DEF T
<1>7. \A k \in Nat : k \in T
  BY <1>4, <1>6, SetInduction
<1>8. to - b \in T /\ b + (to - b) = to /\ to \in 0..N /\ to <= N
  BY <1>1, <1>7 DEF N
<1>9. sum[to] = SizeTo(lines, to) - SizeTo(lines, b)
  BY <1>8 DEF T
<1> QED  BY <1>2, <1>8, <1>9

\* Lists that begin alike have lines that start at the same offsets.
SameUpTo(lines, other, k) ==
    /\ k <= Len(lines) /\ k <= Len(other)
    /\ \A n \in 1..k : lines[n] = other[n]

\* The lines both lists begin with take the same bytes.
LEMMA SizeSame ==
    ASSUME NEW lines \in Seq(Line), NEW other \in Seq(Line), NEW k \in Nat,
           SameUpTo(lines, other, k)
    PROVE  \A n \in 0..k : SizeTo(lines, n) = SizeTo(other, n)
<1>1. /\ Len(lines) \in Nat /\ Len(other) \in Nat
      /\ k <= Len(lines) /\ k <= Len(other)
      /\ \A n \in 1..k : Bytes(lines, n) = Bytes(other, n)
  BY LinesType DEF SameUpTo, Bytes
<1> DEFINE f == [n \in 0..k |-> SizeTo(lines, n)]
           g == [n \in 0..k |-> SizeTo(other, n)]
<1>2. f[0] = g[0]
  BY SizeByStep
<1>3. ASSUME NEW n \in 1..k, f[n - 1] = g[n - 1]
      PROVE  f[n] = g[n]
  <2>1. n \in 1..Len(lines) /\ n \in 1..Len(other) /\ n \in 0..k /\ n - 1 \in 0..k
    BY <1>1
  <2>2. SizeTo(lines, n) = SizeTo(lines, n - 1) + Bytes(lines, n)
    BY <2>1, SizeByStep
  <2>3. SizeTo(other, n) = SizeTo(other, n - 1) + Bytes(other, n)
    BY <2>1, SizeByStep
  <2> QED  BY <1>1, <1>3, <2>1, <2>2, <2>3
<1>4. StepAlike(f, g, k)
  BY <1>2, <1>3 DEF StepAlike
<1> HIDE DEF f, g
<1>5. Alike(f, g, k)
  BY <1>4, SameSteps
<1> QED  BY <1>5 DEF Alike, f, g

\* A sequence of three parts, read either way.  Under a name: the solver goes
\* round in circles with a fact about every concatenation.
Regroup(a, b, c) == (a \o b) \o c = a \o (b \o c)

\* Texts can be put together in either order.
LEMMA Regroups ==
    ASSUME NEW a \in Text, NEW b \in Text, NEW c \in Text
    PROVE  Regroup(a, b, c)
BY ConcatAssociative DEF Regroup, Text

\* Two texts, one after the other.
LEMMA TextConcat ==
    ASSUME NEW a \in Text, NEW b \in Text
    PROVE  a \o b \in Text /\ Len(a \o b) = Len(a) + Len(b)
BY ConcatProperties DEF Text

\* A text of one character.
LEMMA OneChar ==
    ASSUME NEW ch \in Char
    PROVE  <<ch>> \in Text /\ Len(<<ch>>) = 1 /\ <<ch>>[1] = ch
BY DEF Text

\* A line added to a text.
Joined(text, line) == (text \o <<NewLine>>) \o line

\* The bytes of the line added are those of its characters and its line break.
LEMMA JoinedType ==
    ASSUME NEW text \in Text, NEW line \in Text
    PROVE  /\ Joined(text, line) \in Text
           /\ Len(Joined(text, line)) = Len(text) + (Len(line) + 1)
<1>1. <<NewLine>> \in Text /\ Len(<<NewLine>>) = 1
  BY OneChar, NewLineAssumption
<1>2. PICK a \in Text : a = text \o <<NewLine>> /\ Len(a) = Len(text) + 1
  BY <1>1, TextConcat
<1>3. Joined(text, line) = a \o line
  BY <1>2 DEF Joined
<1>4. a \o line \in Text /\ Len(a \o line) = Len(a) + Len(line)
  BY TextConcat
<1>5. Len(text) \in Nat /\ Len(line) \in Nat
  BY LenProperties DEF Text
<1>6. PICK x, y \in Nat : x = Len(text) /\ y = Len(line)
  BY <1>5
<1>7. x + 1 + y = x + (y + 1)
  OBVIOUS
<1> QED  BY <1>2, <1>3, <1>4, <1>6, <1>7

\* The texts that the first lines stand for.
Flats(lines, flat) ==
    /\ flat \in [1..Len(lines) -> Text]
    /\ Flat(lines) = flat[Len(lines)]
    /\ flat[1] = lines[1]
    /\ \A n \in 2..Len(lines) : flat[n] = Joined(flat[n - 1], lines[n])

FlatSteps(lines) == \E flat : Flats(lines, flat)

\* What the recursive function of Flat computes.
LEMMA FlatByStep ==
    ASSUME NEW lines \in Seq(Line), lines # <<>>
    PROVE  FlatSteps(lines)
<1> DEFINE N == Len(lines)
           Eq(f) == f = [n \in 1..N |-> IF n = 1 THEN lines[1]
                                        ELSE f[n - 1] \o <<NewLine>> \o lines[n]]
           flat == CHOOSE f : Eq(f)
           First == lines[1]
<1>1. N \in Nat /\ N >= 1 /\ \A n \in 1..N : lines[n] \in Text
  BY LinesType, EmptySeq
<1>2. First \in Text
  <2>1. 1 \in 1..N
    BY <1>1
  <2> QED  BY <1>1, <2>1
<1>3. PICK g \in [0..N - 1 -> Text] :
        g[0] = First /\ \A n \in 1..N - 1 : g[n] = Joined(g[n - 1], lines[n + 1])
  <2> DEFINE M == N - 1
             step == [n \in 1..M |-> [s \in Text |-> Joined(s, lines[n + 1])]]
  <2>1. M \in Nat /\ \A n \in 1..M : lines[n + 1] \in Text
    BY <1>1
  <2>2. step \in [1..M -> [Text -> Text]]
    BY <2>1, JoinedType
  <2>3. \A n \in 1..M : \A s \in Text : step[n][s] = Joined(s, lines[n + 1])
    OBVIOUS
  <2> HIDE DEF step, M, First
  <2>4. PICK g \in [0..M -> Text] :
            g[0] = First /\ \A n \in 1..M : g[n] = step[n][g[n - 1]]
    <3>1. Recursive(Text, First, M, step)
      BY <1>2, <2>1, <2>2, Recursion
    <3> QED  BY <3>1 DEF Recursive
  <2>5. \A n \in 1..M : g[n] = Joined(g[n - 1], lines[n + 1])
    <3>1. \A n \in 1..M : g[n - 1] \in Text
      BY <2>1, <2>4
    <3> QED  BY <2>3, <2>4, <3>1
  <2> QED  BY <2>4, <2>5 DEF M
<1> DEFINE f == [n \in 1..N |-> g[n - 1]]
<1>4. f \in [1..N -> Text] /\ f[1] = First
  <2> HIDE DEF N
  <2>1. 1 \in 1..N /\ 1 - 1 = 0
    BY <1>1
  <2>2. \A n \in 1..N : g[n - 1] \in Text
    BY <1>1, <1>3
  <2> QED  BY <1>3, <2>1, <2>2
<1>5. \A n \in 2..N : f[n] = Joined(f[n - 1], lines[n])
  <2> HIDE DEF N
  <2>1. ASSUME NEW n \in 2..N
        PROVE  f[n] = Joined(f[n - 1], lines[n])
    <3>1. /\ n - 1 \in 1..N - 1 /\ n - 1 + 1 = n /\ n \in 1..N /\ n - 1 \in 1..N
      BY <1>1
    <3>2. g[n - 1] = Joined(g[n - 1 - 1], lines[n])
      BY <1>3, <3>1
    <3> QED  BY <3>1, <3>2
  <2> QED  BY <2>1
<1> HIDE DEF f
<1>6. Eq(flat)
  <2>1. Eq(f)
    <3> HIDE DEF N
    <3>1. \A n \in 1..N : n = 1 \/ (n \in 2..N /\ n # 1)
      BY <1>1
    <3>2. f = [n \in 1..N |-> f[n]]
      BY <1>4
    <3> QED  BY <1>4, <1>5, <3>1, <3>2 DEF Joined
  <2> HIDE DEF Eq
  <2> QED  BY <2>1
<1>7. flat = [n \in 1..N |-> IF n = 1 THEN lines[1]
                             ELSE flat[n - 1] \o <<NewLine>> \o lines[n]]
  BY <1>6
<1>8. Flat(lines) = flat[N]
  BY DEF Flat
<1> HIDE DEF flat, Eq, N
<1>9. /\ flat[1] = First
      /\ \A n \in 2..N : flat[n] = Joined(flat[n - 1], lines[n])
  <2>1. 1 \in 1..N /\ \A n \in 2..N : n \in 1..N /\ n # 1
    BY <1>1
  <2> QED  BY <1>7, <2>1 DEF Joined
<1> DEFINE T == { k \in Nat : k + 1 <= N => flat[k + 1] = f[k + 1] }
<1>10. 0 \in T
  BY <1>4, <1>9
<1>11. ASSUME NEW k \in Nat, k \in T, k + 1 + 1 <= N
       PROVE  flat[k + 1 + 1] = f[k + 1 + 1]
  <2> DEFINE n == k + 1 + 1
  <2>1. n \in 2..N /\ n - 1 = k + 1 /\ k + 1 <= N
    BY <1>1, <1>11
  <2> HIDE DEF n
  <2>2. flat[n - 1] = f[n - 1]
    BY <1>11, <2>1
  <2> QED  BY <1>5, <1>9, <2>1, <2>2 DEF n
<1>12. \A k \in Nat : k \in T => k + 1 \in T
  BY <1>11
<1> HIDE DEF T
<1>13. \A k \in Nat : k \in T
  BY <1>10, <1>12, SetInduction
<1>14. N - 1 \in T /\ N - 1 + 1 = N
  BY <1>1, <1>13
<1>15. flat[N] = f[N]
  BY <1>1, <1>14 DEF T
<1>16. Flats(lines, f)
  BY <1>4, <1>5, <1>8, <1>15 DEF Flats, N, First
<1> QED  BY <1>16 DEF FlatSteps

\* A line starts behind the bytes of the lines before it.
LEMMA FlatLength ==
    ASSUME NEW lines \in Seq(Line), NEW flat, Flats(lines, flat),
           NEW no \in 1..Len(lines)
    PROVE  Len(flat[no]) = SizeTo(lines, no) - 1
<1> DEFINE N == Len(lines)
           T == { k \in Nat : k + 1 <= N =>
                    Len(flat[k + 1]) = SizeTo(lines, k + 1) - 1 }
<1>1. N \in Nat /\ \A n \in 1..N : lines[n] \in Text /\ Len(lines[n]) \in Nat
  BY LinesType
<1>2. /\ flat \in [1..N -> Text] /\ flat[1] = lines[1]
      /\ \A n \in 2..N : flat[n] = Joined(flat[n - 1], lines[n])
  BY DEF Flats
<1>3. /\ SizeTo(lines, 0) = 0 /\ \A n \in 0..N : SizeTo(lines, n) \in Nat
      /\ \A n \in 1..N : SizeTo(lines, n) = SizeTo(lines, n - 1) + (Len(lines[n]) + 1)
  BY SizeByStep DEF Bytes
<1> HIDE DEF N
<1>4. 0 \in T
  <2>1. ASSUME 1 <= N
        PROVE  Len(flat[1]) = SizeTo(lines, 1) - 1
    <3>1. 1 \in 1..N /\ 1 - 1 = 0
      BY <1>1, <2>1
    <3> QED  BY <1>1, <1>2, <1>3, <3>1
  <2> QED  BY <2>1
<1>5. ASSUME NEW k \in Nat, k \in T, k + 1 + 1 <= N
      PROVE  Len(flat[k + 1 + 1]) = SizeTo(lines, k + 1 + 1) - 1
  <2> DEFINE n == k + 1 + 1
             m == k + 1
  <2>1. n \in 2..N /\ n \in 1..N /\ n - 1 = m /\ m <= N /\ m \in 1..N /\ m \in 0..N
    BY <1>1, <1>5
  <2>2. Len(flat[m]) = SizeTo(lines, m) - 1
    BY <1>5, <2>1
  <2> HIDE DEF n, m
  <2>3. flat[n] = Joined(flat[m], lines[n])
    BY <1>2, <2>1
  <2>4. flat[m] \in Text /\ lines[n] \in Text
    BY <1>1, <1>2, <2>1
  <2>5. Len(flat[n]) = Len(flat[m]) + (Len(lines[n]) + 1)
    BY <2>3, <2>4, JoinedType
  <2>6. SizeTo(lines, n) = SizeTo(lines, m) + (Len(lines[n]) + 1)
    BY <1>3, <2>1
  <2>7. PICK x, y \in Nat : x = SizeTo(lines, m) /\ y = Len(lines[n]) + 1
    BY <1>1, <1>3, <2>1
  <2>8. x - 1 + y = x + y - 1
    OBVIOUS
  <2> QED  BY <2>2, <2>5, <2>6, <2>7, <2>8 DEF n
<1>6. \A k \in Nat : k \in T => k + 1 \in T
  BY <1>5
<1> HIDE DEF T
<1>7. \A k \in Nat : k \in T
  BY <1>4, <1>6, SetInduction
<1>8. no - 1 \in T /\ no - 1 + 1 = no /\ no <= N
  BY <1>1, <1>7 DEF N
<1> QED  BY <1>8 DEF T

\* Lists that begin alike stand for texts that begin alike.
LEMMA FlatSame ==
    ASSUME NEW lines \in Seq(Line), NEW other \in Seq(Line), NEW k \in Nat \ {0},
           SameUpTo(lines, other, k),
           NEW flat, Flats(lines, flat), NEW flat2, Flats(other, flat2)
    PROVE  flat[k] = flat2[k]
<1> DEFINE T == { j \in Nat : j + 1 <= k => flat[j + 1] = flat2[j + 1] }
<1>1. /\ Len(lines) \in Nat /\ Len(other) \in Nat
      /\ k <= Len(lines) /\ k <= Len(other)
      /\ \A n \in 1..k : lines[n] = other[n]
  BY LinesType DEF SameUpTo
<1>2. /\ flat[1] = lines[1] /\ flat2[1] = other[1]
      /\ \A n \in 2..k : /\ flat[n] = Joined(flat[n - 1], lines[n])
                         /\ flat2[n] = Joined(flat2[n - 1], other[n])
  <2>1. \A n \in 2..k : n \in 2..Len(lines) /\ n \in 2..Len(other)
    BY <1>1
  <2> QED  BY <2>1 DEF Flats
<1>3. 0 \in T
  <2>1. 1 \in 1..k
    OBVIOUS
  <2> QED  BY <1>1, <1>2, <2>1
<1>4. ASSUME NEW j \in Nat, j \in T, j + 1 + 1 <= k
      PROVE  flat[j + 1 + 1] = flat2[j + 1 + 1]
  <2> DEFINE n == j + 1 + 1
  <2>1. n \in 2..k /\ n \in 1..k /\ n - 1 = j + 1 /\ j + 1 <= k
    BY <1>4
  <2> HIDE DEF n
  <2>2. flat[n - 1] = flat2[n - 1]
    BY <1>4, <2>1
  <2> QED  BY <1>1, <1>2, <2>1, <2>2 DEF n
<1>5. \A j \in Nat : j \in T => j + 1 \in T
  BY <1>4
<1> HIDE DEF T
<1>6. \A j \in Nat : j \in T
  BY <1>3, <1>5, SetInduction
<1>7. k - 1 \in T /\ k - 1 + 1 = k
  BY <1>6
<1> QED  BY <1>7 DEF T

-----------------------------------------------------------------------------
(***************************************************************************)
(* Two lists of lines that differ by one character stand for texts that    *)
(* differ by it.                                                           *)
(***************************************************************************)

\* What stands in the file before line no.
Before(flat, no) == IF no = 1 THEN <<>> ELSE flat[no - 1] \o <<NewLine>>

\* A line stands behind what stands before it, at the offset SizeTo gives.
LEMMA BeforeLine ==
    ASSUME NEW lines \in Seq(Line), NEW flat, Flats(lines, flat),
           NEW no \in 1..Len(lines)
    PROVE  /\ Before(flat, no) \in Text
           /\ Len(Before(flat, no)) = SizeTo(lines, no - 1)
           /\ flat[no] = Before(flat, no) \o lines[no]
<1>1. /\ Len(lines) \in Nat /\ lines[no] \in Text
      /\ \A n \in 0..Len(lines) : SizeTo(lines, n) \in Nat
      /\ SizeTo(lines, 0) = 0
  BY LinesType, SizeByStep
<1>2. CASE no = 1
  <2>1. <<>> \in Text /\ Len(<<>>) = 0 /\ <<>> \o lines[no] = lines[no]
    BY <1>1, EmptySeq, ConcatEmptySeq DEF Text
  <2>2. flat[no] = lines[no] /\ no - 1 = 0
    BY <1>2 DEF Flats
  <2> QED  BY <1>1, <1>2, <2>1, <2>2 DEF Before
<1>3. CASE no # 1
  <2>1. no \in 2..Len(lines) /\ no - 1 \in 1..Len(lines)
    BY <1>1, <1>3
  <2>2. flat[no] = Joined(flat[no - 1], lines[no]) /\ flat[no - 1] \in Text
    BY <2>1 DEF Flats
  <2>3. Len(flat[no - 1]) = SizeTo(lines, no - 1) - 1
    BY <2>1, FlatLength
  <2>4. SizeTo(lines, no - 1) \in Nat
    BY <1>1, <2>1
  <2>5. <<NewLine>> \in Text /\ Len(<<NewLine>>) = 1
    BY OneChar, NewLineAssumption
  <2>6. /\ flat[no - 1] \o <<NewLine>> \in Text
        /\ Len(flat[no - 1] \o <<NewLine>>) = Len(flat[no - 1]) + 1
    BY <2>2, <2>5, TextConcat
  <2>7. Before(flat, no) = flat[no - 1] \o <<NewLine>>
    BY <1>3 DEF Before
  <2>8. Len(Before(flat, no)) = SizeTo(lines, no - 1)
    BY <2>3, <2>4, <2>6, <2>7
  <2> QED  BY <2>2, <2>6, <2>7, <2>8 DEF Joined
<1> QED  BY <1>2, <1>3

\* Lists that end alike stand for texts that end alike.
SameBehind(lines, p, other, q) ==
    /\ Len(lines) - p = Len(other) - q
    /\ \A i \in 1..Len(lines) - p : lines[p + i] = other[q + i]

Ending(flat, p, flat2, q, i) ==
    \E after \in Text :
        flat[p + i] = flat[p] \o after /\ flat2[q + i] = flat2[q] \o after

EndAlike(lines, p, flat, other, q, flat2) ==
    \E after \in Text : /\ Flat(lines) = flat[p] \o after
                        /\ Flat(other) = flat2[q] \o after

\* What follows the line p of the one list and the line q of the other.
LEMMA CommonEnding ==
    ASSUME NEW lines \in Seq(Line), NEW other \in Seq(Line),
           NEW p \in 1..Len(lines), NEW q \in 1..Len(other),
           SameBehind(lines, p, other, q),
           NEW flat, Flats(lines, flat), NEW flat2, Flats(other, flat2)
    PROVE  EndAlike(lines, p, flat, other, q, flat2)
<1> DEFINE N == Len(lines)
           M == Len(other)
           K == N - p
           T == { i \in Nat : i <= K => Ending(flat, p, flat2, q, i) }
<1>1. /\ N \in Nat /\ M \in Nat /\ K \in Nat /\ p \in Nat /\ q \in Nat
      /\ p + K = N /\ q + K = M
      /\ \A n \in 1..N : lines[n] \in Text
      /\ \A i \in 1..K : lines[p + i] = other[q + i]
  BY LinesType DEF SameBehind
<1>2. /\ \A n \in 1..N : flat[n] \in Text
      /\ \A n \in 2..N : flat[n] = Joined(flat[n - 1], lines[n])
      /\ \A n \in 1..M : flat2[n] \in Text
      /\ \A n \in 2..M : flat2[n] = Joined(flat2[n - 1], other[n])
      /\ Flat(lines) = flat[N] /\ Flat(other) = flat2[M]
  BY DEF Flats
<1> HIDE DEF N, M, K
<1>3. p \in 1..N /\ q \in 1..M
  BY DEF N, M
<1>4. 0 \in T
  <2>1. p + 0 = p /\ q + 0 = q
    BY <1>1
  <2>2. <<>> \in Text
    BY EmptySeq DEF Text
  <2>3. flat[p] \o <<>> = flat[p] /\ flat2[q] \o <<>> = flat2[q]
    BY <1>2, <1>3, ConcatEmptySeq DEF Text
  <2>4. Ending(flat, p, flat2, q, 0)
    BY <2>1, <2>2, <2>3 DEF Ending
  <2> QED  BY <2>4
<1>5. ASSUME NEW i \in Nat, i \in T, i + 1 <= K
      PROVE  Ending(flat, p, flat2, q, i + 1)
  <2> DEFINE n == p + (i + 1)
             m == q + (i + 1)
  <2>1. /\ n \in 2..N /\ n - 1 = p + i /\ p + i \in 1..N
        /\ m \in 2..M /\ m - 1 = q + i /\ q + i \in 1..M /\ i <= K
        /\ i + 1 \in 1..K
    BY <1>1, <1>3, <1>5
  <2>2. PICK after \in Text :
          flat[p + i] = flat[p] \o after /\ flat2[q + i] = flat2[q] \o after
    BY <1>5, <2>1 DEF Ending
  <2>3. PICK l \in Text : l = lines[n] /\ l = other[m]
    <3>1. n \in 1..N
      BY <2>1
    <3> QED  BY <1>1, <2>1, <3>1
  <2> HIDE DEF n, m
  <2>4. <<NewLine>> \in Text
    BY OneChar, NewLineAssumption
  <2>5. PICK line \in Text : line = <<NewLine>> \o l
    BY <2>4, TextConcat
  <2>6. ASSUME NEW s \in Text
        PROVE  Joined(s \o after, l) = s \o (after \o line)
    <3>1. PICK sa \in Text : sa = s \o after
      BY TextConcat
    <3>2. (sa \o <<NewLine>>) \o l = sa \o line
      <4>1. Regroup(sa, <<NewLine>>, l)
        BY <2>4, Regroups
      <4> QED  BY <2>5, <4>1 DEF Regroup
    <3>3. (s \o after) \o line = s \o (after \o line)
      <4>1. Regroup(s, after, line)
        BY Regroups
      <4> QED  BY <4>1 DEF Regroup
    <3> QED  BY <3>1, <3>2, <3>3 DEF Joined
  <2>7. flat[n] = flat[p] \o (after \o line) /\ flat2[m] = flat2[q] \o (after \o line)
    <3>1. flat[p] \in Text /\ flat2[q] \in Text
      BY <1>2, <1>3
    <3>2. flat[n] = Joined(flat[p] \o after, l)
      BY <1>2, <2>1, <2>2, <2>3
    <3>3. flat2[m] = Joined(flat2[q] \o after, l)
      BY <1>2, <2>1, <2>2, <2>3
    <3> QED  BY <2>6, <3>1, <3>2, <3>3
  <2>8. after \o line \in Text
    BY TextConcat
  <2> QED  BY <2>7, <2>8 DEF Ending, n, m
<1>6. \A i \in Nat : i \in T => i + 1 \in T
  BY <1>5
<1> HIDE DEF T
<1>7. \A i \in Nat : i \in T
  BY <1>4, <1>6, SetInduction
<1>8. Ending(flat, p, flat2, q, K)
  BY <1>1, <1>7 DEF T
<1> QED  BY <1>1, <1>2, <1>8 DEF Ending, EndAlike

\* The list other stands for the text of lines with ch inserted at place.
Gains(lines, other, ch, place) ==
    \E a, c \in Text : /\ Len(a) = place /\ Flat(lines) = a \o c
                       /\ Flat(other) = (a \o <<ch>>) \o c

\* Typing a character into a line.
CharAdded(lines, other, it, head, tail, ch) ==
    /\ it \in 1..Len(lines) /\ Len(other) = Len(lines)
    /\ \A n \in 1..Len(lines) : n # it => other[n] = lines[n]
    /\ lines[it] = head \o tail /\ other[it] = (head \o <<ch>>) \o tail

\* It puts the character behind the part of the line before it.
LEMMA CharAddedGains ==
    ASSUME NEW lines \in Seq(Line), NEW other \in Seq(Line), NEW it,
           NEW head \in Text, NEW tail \in Text, NEW ch \in Char,
           CharAdded(lines, other, it, head, tail, ch)
    PROVE  Gains(lines, other, ch, SizeTo(lines, it - 1) + Len(head))
<1>1. /\ it \in 1..Len(lines) /\ it \in 1..Len(other) /\ Len(lines) \in Nat
      /\ lines # <<>> /\ other # <<>>
  BY LinesType, EmptySeq DEF CharAdded
<1>2. PICK flat : Flats(lines, flat)
  BY <1>1, FlatByStep DEF FlatSteps
<1>3. PICK flat2 : Flats(other, flat2)
  BY <1>1, FlatByStep DEF FlatSteps
<1>4. PICK b \in Text : b = Before(flat, it) /\ b = Before(flat2, it)
  <2>1. Before(flat, it) \in Text
    BY <1>1, <1>2, BeforeLine
  <2>2. CASE it = 1
    BY <2>1, <2>2 DEF Before
  <2>3. CASE it # 1
    <3>1. PICK k \in Nat \ {0} : k = it - 1
      BY <1>1, <2>3
    <3>2. SameUpTo(lines, other, k)
      BY <1>1, <3>1 DEF CharAdded, SameUpTo
    <3>3. flat[k] = flat2[k]
      BY <1>2, <1>3, <3>2, FlatSame
    <3> QED  BY <2>1, <2>3, <3>1, <3>3 DEF Before
  <2> QED  BY <2>2, <2>3
<1>5. /\ Len(b) = SizeTo(lines, it - 1)
      /\ flat[it] = b \o (head \o tail)
      /\ flat2[it] = b \o ((head \o <<ch>>) \o tail)
  <2>1. Len(b) = SizeTo(lines, it - 1) /\ flat[it] = b \o lines[it]
    BY <1>1, <1>2, <1>4, BeforeLine
  <2>2. flat2[it] = b \o other[it]
    BY <1>1, <1>3, <1>4, BeforeLine
  <2> QED  BY <2>1, <2>2 DEF CharAdded
<1>6. SameBehind(lines, it, other, it)
  BY <1>1 DEF CharAdded, SameBehind
<1>7. PICK after \in Text : /\ Flat(lines) = flat[it] \o after
                            /\ Flat(other) = flat2[it] \o after
  <2>1. EndAlike(lines, it, flat, other, it, flat2)
    BY <1>1, <1>2, <1>3, <1>6, CommonEnding
  <2> QED  BY <2>1 DEF EndAlike
<1>8. <<ch>> \in Text
  BY OneChar
<1>9. PICK hc \in Text : hc = head \o <<ch>>
  BY <1>8, TextConcat
<1>10. PICK a \in Text : a = b \o head /\ Len(a) = Len(b) + Len(head)
  BY TextConcat
<1>11. PICK c \in Text : c = tail \o after
  BY TextConcat
<1>12. PICK ac \in Text : ac = a \o <<ch>>
  BY <1>8, TextConcat
<1>13. Flat(lines) = a \o c
  <2>1. b \o (head \o tail) = a \o tail
    <3>1. Regroup(b, head, tail)
      BY Regroups
    <3> QED  BY <1>10, <3>1 DEF Regroup
  <2>2. (a \o tail) \o after = a \o c
    <3>1. Regroup(a, tail, after)
      BY Regroups
    <3> QED  BY <1>11, <3>1 DEF Regroup
  <2> QED  BY <1>5, <1>7, <2>1, <2>2
<1>14. Flat(other) = ac \o c
  <2>1. b \o hc = ac
    <3>1. Regroup(b, head, <<ch>>)
      BY <1>8, Regroups
    <3> QED  BY <1>9, <1>10, <1>12, <3>1 DEF Regroup
  <2>2. b \o (hc \o tail) = ac \o tail
    <3>1. Regroup(b, hc, tail)
      BY Regroups
    <3> QED  BY <2>1, <3>1 DEF Regroup
  <2>3. (ac \o tail) \o after = ac \o c
    <3>1. Regroup(ac, tail, after)
      BY Regroups
    <3> QED  BY <1>11, <3>1 DEF Regroup
  <2> QED  BY <1>5, <1>7, <1>9, <2>2, <2>3
<1> QED  BY <1>5, <1>10, <1>12, <1>13, <1>14 DEF Gains

\* Typing a line break into a line.
LineBroken(lines, other, it, head, tail) ==
    /\ it \in 1..Len(lines) /\ Len(other) = Len(lines) + 1
    /\ \A n \in 1..it - 1 : other[n] = lines[n]
    /\ \A n \in it + 1..Len(lines) : other[n + 1] = lines[n]
    /\ lines[it] = head \o tail /\ other[it] = head /\ other[it + 1] = tail

\* It puts a line break between the two parts of the line.
LEMMA LineBrokenGains ==
    ASSUME NEW lines \in Seq(Line), NEW other \in Seq(Line), NEW it,
           NEW head \in Text, NEW tail \in Text,
           LineBroken(lines, other, it, head, tail)
    PROVE  Gains(lines, other, NewLine, SizeTo(lines, it - 1) + Len(head))
<1>1. /\ it \in 1..Len(lines) /\ it \in 1..Len(other) /\ Len(lines) \in Nat
      /\ it + 1 \in 2..Len(other) /\ it + 1 \in 1..Len(other)
      /\ lines # <<>> /\ other # <<>> /\ it + 1 - 1 = it
  BY LinesType, EmptySeq DEF LineBroken
<1>2. PICK flat : Flats(lines, flat)
  BY <1>1, FlatByStep DEF FlatSteps
<1>3. PICK flat2 : Flats(other, flat2)
  BY <1>1, FlatByStep DEF FlatSteps
<1>4. PICK b \in Text : b = Before(flat, it) /\ b = Before(flat2, it)
  <2>1. Before(flat, it) \in Text
    BY <1>1, <1>2, BeforeLine
  <2>2. CASE it = 1
    BY <2>1, <2>2 DEF Before
  <2>3. CASE it # 1
    <3>1. PICK k \in Nat \ {0} : k = it - 1
      BY <1>1, <2>3
    <3>2. SameUpTo(lines, other, k)
      BY <1>1, <3>1 DEF LineBroken, SameUpTo
    <3>3. flat[k] = flat2[k]
      BY <1>2, <1>3, <3>2, FlatSame
    <3> QED  BY <2>1, <2>3, <3>1, <3>3 DEF Before
  <2> QED  BY <2>2, <2>3
<1>5. /\ Len(b) = SizeTo(lines, it - 1)
      /\ flat[it] = b \o (head \o tail)
      /\ flat2[it] = b \o head
  <2>1. Len(b) = SizeTo(lines, it - 1) /\ flat[it] = b \o lines[it]
    BY <1>1, <1>2, <1>4, BeforeLine
  <2>2. flat2[it] = b \o other[it]
    BY <1>1, <1>3, <1>4, BeforeLine
  <2> QED  BY <2>1, <2>2 DEF LineBroken
<1>6. flat2[it + 1] = ((b \o head) \o <<NewLine>>) \o tail
  <2>1. flat2[it + 1] = Joined(flat2[it], tail)
    BY <1>1, <1>3 DEF Flats, LineBroken
  <2> QED  BY <1>5, <2>1 DEF Joined
<1>7. SameBehind(lines, it, other, it + 1)
  <2>1. Len(lines) - it = Len(other) - (it + 1)
    BY <1>1 DEF LineBroken
  <2>2. ASSUME NEW i \in 1..Len(lines) - it
        PROVE  lines[it + i] = other[it + 1 + i]
    <3>1. it + i \in it + 1..Len(lines) /\ it + i + 1 = it + 1 + i
      BY <1>1
    <3> QED  BY <3>1 DEF LineBroken
  <2> QED  BY <2>1, <2>2 DEF SameBehind
<1>8. PICK after \in Text : /\ Flat(lines) = flat[it] \o after
                            /\ Flat(other) = flat2[it + 1] \o after
  <2>1. EndAlike(lines, it, flat, other, it + 1, flat2)
    BY <1>1, <1>2, <1>3, <1>7, CommonEnding
  <2> QED  BY <2>1 DEF EndAlike
<1>9. <<NewLine>> \in Text
  BY OneChar, NewLineAssumption
<1>10. PICK a \in Text : a = b \o head /\ Len(a) = Len(b) + Len(head)
  BY TextConcat
<1>11. PICK c \in Text : c = tail \o after
  BY TextConcat
<1>12. PICK ac \in Text : ac = a \o <<NewLine>>
  BY <1>9, TextConcat
<1>13. Flat(lines) = a \o c
  <2>1. b \o (head \o tail) = a \o tail
    <3>1. Regroup(b, head, tail)
      BY Regroups
    <3> QED  BY <1>10, <3>1 DEF Regroup
  <2>2. (a \o tail) \o after = a \o c
    <3>1. Regroup(a, tail, after)
      BY Regroups
    <3> QED  BY <1>11, <3>1 DEF Regroup
  <2> QED  BY <1>5, <1>8, <2>1, <2>2
<1>14. Flat(other) = ac \o c
  <2>1. (ac \o tail) \o after = ac \o c
    <3>1. Regroup(ac, tail, after)
      BY Regroups
    <3> QED  BY <1>11, <3>1 DEF Regroup
  <2> QED  BY <1>6, <1>8, <1>10, <1>12, <2>1
<1> QED  BY <1>5, <1>10, <1>12, <1>13, <1>14 DEF Gains

-----------------------------------------------------------------------------
(***************************************************************************)
(* Finding a line: from every cached line, the loops of locateLine and     *)
(* translateOffset end with the line asked for cached.                     *)
(***************************************************************************)

textOp == [edit_file : Seq(Line), cur_line_it : Int, cur_line_no : Int,
           cur_char : Int, total_chars : Int, modified : BOOLEAN]

\* The iterator is in the list, with the offset of its line, and the total is
\* right.
Walkable(f) ==
    /\ f \in textOp
    /\ f.cur_line_it \in 1..Len(f.edit_file)
    /\ f.cur_char = SizeTo(f.edit_file, f.cur_line_it - 1)
    /\ f.total_chars = SizeTo(f.edit_file, Len(f.edit_file)) - 1

\* So is the number of the line.
Cached(f) == Walkable(f) /\ f.cur_line_no = f.cur_line_it

\* The same text, with another line cached.
SameText(f, g) ==
    /\ g.edit_file = f.edit_file /\ g.total_chars = f.total_chars
    /\ g.modified = f.modified

At(f, g, it) ==
    /\ Walkable(g) /\ SameText(f, g)
    /\ g.cur_line_no = f.cur_line_no /\ g.cur_line_it = it

Move(f, it, c) == [f EXCEPT !.cur_line_it = it, !.cur_char = c]

Moved(f, g, it, c) ==
    /\ g \in textOp /\ SameText(f, g) /\ g.cur_line_it = it /\ g.cur_char = c
    /\ g.cur_line_no = f.cur_line_no

\* Move changes the iterator and the offset only.
LEMMA MovedFields ==
    ASSUME NEW f \in textOp, NEW it \in Int, NEW c \in Int
    PROVE  Moved(f, Move(f, it, c), it, c)
BY DEF textOp, SameText, Move, Moved

\* Assigning cur_line_no changes nothing else.
LEMMA NumberedFields ==
    ASSUME NEW f \in textOp, NEW no \in Int
    PROVE  LET g == [f EXCEPT !.cur_line_no = no]
           IN  /\ g \in textOp /\ SameText(f, g) /\ g.cur_line_no = no
               /\ g.cur_line_it = f.cur_line_it /\ g.cur_char = f.cur_char
BY DEF textOp, SameText

\* Moving the iterator to a line together with where the line starts.
LEMMA MovedAt ==
    ASSUME NEW f, Walkable(f), NEW it \in 1..Len(f.edit_file),
           NEW c, c = SizeTo(f.edit_file, it - 1)
    PROVE  At(f, Move(f, it, c), it)
<1> DEFINE g == Move(f, it, c)
<1>1. f \in textOp /\ f.edit_file \in Seq(Line) /\ Len(f.edit_file) \in Nat
  BY LinesType DEF Walkable, textOp
<1>2. it \in Int /\ it - 1 \in 0..Len(f.edit_file)
  BY <1>1
<1>3. c \in Int
  BY <1>1, <1>2, SizeByStep
<1>4. /\ g \in textOp /\ SameText(f, g) /\ g.cur_line_it = it
      /\ g.cur_char = c /\ g.cur_line_no = f.cur_line_no
  <2>1. Moved(f, g, it, c)
    BY <1>1, <1>2, <1>3, MovedFields
  <2> QED  BY <2>1 DEF Moved
<1> HIDE DEF g
<1>5. Walkable(g)
  BY <1>4 DEF Walkable, SameText
<1> QED  BY <1>4, <1>5 DEF At, g

\* Walking from line to line.
LEMMA WalkArrives ==
    ASSUME NEW f, Walkable(f), NEW d \in Int,
           f.cur_line_it + d \in 1..Len(f.edit_file)
    PROVE  At(f, Walk(f, d), f.cur_line_it + d)
<1> DEFINE lines == f.edit_file
           it == f.cur_line_it
           to == it + d
           c == IF d > 0 THEN f.cur_char + Span(lines, it, it + d - 1)
                ELSE f.cur_char - Span(lines, it + d, it - 1)
<1>1. /\ f \in textOp /\ lines \in Seq(Line) /\ Len(lines) \in Nat
      /\ it \in 1..Len(lines) /\ f.cur_char = SizeTo(lines, it - 1)
      /\ to \in 1..Len(lines)
  BY LinesType DEF Walkable, textOp
<1>2. Walk(f, d) = Move(f, to, c)
  BY <1>1 DEF Walk, textOp, Move
<1>3. c = SizeTo(lines, to - 1)
  <2> HIDE DEF lines
  <2>1. /\ it \in Int /\ SizeTo(lines, it - 1) \in Nat /\ SizeTo(lines, to - 1) \in Nat
    <3>1. it - 1 \in 0..Len(lines) /\ to - 1 \in 0..Len(lines)
      BY <1>1
    <3> QED  BY <1>1, <3>1, SizeByStep
  <2>2. CASE d > 0
    <3>1. it \in 1..Len(lines) + 1 /\ to - 1 \in it - 1..Len(lines)
      BY <1>1, <2>2
    <3>2. Span(lines, it, to - 1) = SizeTo(lines, to - 1) - SizeTo(lines, it - 1)
      BY <1>1, <3>1, SpanIsDifference
    <3> QED  BY <1>1, <2>1, <2>2, <3>2
  <2>3. CASE ~(d > 0)
    <3>1. to \in 1..Len(lines) + 1 /\ it - 1 \in to - 1..Len(lines)
      BY <1>1, <2>3
    <3>2. Span(lines, to, it - 1) = SizeTo(lines, it - 1) - SizeTo(lines, to - 1)
      BY <1>1, <3>1, SpanIsDifference
    <3> QED  BY <1>1, <2>1, <2>3, <3>2
  <2> QED  BY <2>2, <2>3
<1> HIDE DEF c
<1> QED  BY <1>1, <1>2, <1>3, MovedAt

\* The iterator begin(), whose line starts at 0.
LEMMA FirstLineAt ==
    ASSUME NEW f, Walkable(f)
    PROVE  At(f, FirstLine(f), 1)
<1>1. f.edit_file \in Seq(Line) /\ Len(f.edit_file) \in Nat /\ 1 \in 1..Len(f.edit_file)
  BY LinesType DEF Walkable, textOp
<1>2. 0 = SizeTo(f.edit_file, 1 - 1)
  BY <1>1, SizeByStep
<1> QED  BY <1>1, <1>2, MovedAt DEF FirstLine, Move

\* The iterator before end(), whose line starts at the total less its length.
LEMMA LastLineAt ==
    ASSUME NEW f, Walkable(f)
    PROVE  At(f, LastLine(f), Len(f.edit_file))
<1> DEFINE lines == f.edit_file
           N == Len(lines)
<1>1. lines \in Seq(Line) /\ N \in Nat /\ N \in 1..N
  BY LinesType DEF Walkable, textOp
<1>2. SizeTo(lines, N) = SizeTo(lines, N - 1) + (Len(lines[N]) + 1)
  BY <1>1, SizeByStep DEF Bytes
<1>3. Len(lines[N]) \in Nat /\ SizeTo(lines, N - 1) \in Nat
  BY <1>1, LinesType, SizeByStep
<1>4. f.total_chars - Len(lines[N]) = SizeTo(lines, N - 1)
  BY <1>2, <1>3 DEF Walkable
<1>5. LastLine(f) = Move(f, N, f.total_chars - Len(lines[N]))
  BY DEF LastLine, Move
<1> HIDE DEF lines
<1> QED  BY <1>1, <1>4, <1>5, MovedAt DEF lines

\* The object after locateLine: the line asked for is cached, if there is one.
Locates(f, g, no) ==
    /\ Cached(g) /\ SameText(f, g)
    /\ ~IsEnd(f, no) => g.cur_line_no = no

\* Whichever way locateLine walks, it ends at the line asked for.
LEMMA LineLocated ==
    ASSUME NEW f, Cached(f), NEW no \in Int
    PROVE  Locates(f, locateLine(f, no), no)
<1> DEFINE N == Len(f.edit_file)
           distance == no - f.cur_line_no
           here == [f EXCEPT !.cur_line_no = no]
           fromEnd == N - no < distance
           start == IF fromEnd THEN LastLine(here) ELSE here
           rest == IF fromEnd THEN no - N ELSE distance
<1>1. /\ f \in textOp /\ f.cur_line_no = f.cur_line_it
      /\ f.cur_line_it \in 1..N /\ N \in Nat
  BY LinesType DEF Cached, Walkable, textOp
<1>2. CASE distance = 0 \/ IsEnd(f, no)
  <2>1. locateLine(f, no) = f
    BY <1>2 DEF locateLine
  <2>2. distance = 0 => f.cur_line_no = no
    BY <1>1
  <2> QED  BY <1>2, <2>1, <2>2 DEF Locates, SameText
<1>3. CASE ~(distance = 0 \/ IsEnd(f, no))
  <2>1. no \in 1..N
    BY <1>1, <1>3 DEF IsEnd
  <2>2. /\ Walkable(here) /\ SameText(f, here) /\ here.cur_line_no = no
        /\ here.cur_line_it = f.cur_line_it
    <3>1. /\ here \in textOp /\ SameText(f, here) /\ here.cur_line_no = no
          /\ here.cur_line_it = f.cur_line_it /\ here.cur_char = f.cur_char
      BY <1>1, NumberedFields
    <3> HIDE DEF here
    <3> QED  BY <3>1 DEF Cached, Walkable, SameText
  <2>3. /\ locateLine(f, no) = IF distance \in {-1, 1} THEN Walk(here, distance)
                               ELSE IF rest <= no /\ -rest <= no
                               THEN Walk(start, rest)
                               ELSE Walk(FirstLine(here), no - 1)
    BY <1>3 DEF locateLine
  <2> HIDE DEF here
  <2>4. ASSUME NEW g, At(here, g, no)
        PROVE  Locates(f, g, no)
    BY <2>2, <2>4 DEF At, SameText, Locates, Cached
  <2>5. At(here, Walk(here, distance), no)
    <3>1. distance \in Int /\ here.cur_line_it + distance = no
      BY <1>1, <2>1, <2>2
    <3> HIDE DEF distance
    <3> QED  BY <2>1, <2>2, <3>1, WalkArrives DEF SameText
  <2>6. At(here, Walk(FirstLine(here), no - 1), no)
    <3> DEFINE first == FirstLine(here)
    <3>1. At(here, first, 1)
      BY <2>2, FirstLineAt
    <3> HIDE DEF first
    <3>2. Walkable(first) /\ first.cur_line_it + (no - 1) = no /\ no - 1 \in Int
      BY <2>1, <3>1 DEF At
    <3>3. no \in 1..Len(first.edit_file)
      BY <2>1, <2>2, <3>1 DEF At, SameText
    <3>4. At(first, Walk(first, no - 1), no)
      BY <3>2, <3>3, WalkArrives
    <3> QED  BY <3>1, <3>4 DEF At, SameText, first
  <2>7. At(here, Walk(start, rest), no)
    <3>1. CASE ~fromEnd
      BY <2>5, <3>1
    <3>2. CASE fromEnd
      <4> DEFINE last == LastLine(here)
      <4>1. At(here, last, N)
        BY <2>2, LastLineAt DEF SameText
      <4>2. start = last /\ rest = no - N
        BY <3>2
      <4> HIDE DEF last
      <4>3. Walkable(last) /\ last.cur_line_it + (no - N) = no /\ no - N \in Int
        BY <1>1, <2>1, <4>1 DEF At
      <4>4. no \in 1..Len(last.edit_file)
        BY <2>1, <2>2, <4>1 DEF At, SameText
      <4>5. At(last, Walk(last, no - N), no)
        BY <4>3, <4>4, WalkArrives
      <4> QED  BY <4>1, <4>2, <4>5 DEF At, SameText
    <3> QED  BY <3>1, <3>2
  <2> HIDE DEF distance, start, rest
  <2> QED  BY <2>3, <2>4, <2>5, <2>6, <2>7
<1> QED  BY <1>2, <1>3

\* The least of some naturals.
LEMMA LeastNat ==
    ASSUME NEW S, S \subseteq Nat, S # {}
    PROVE  Min(S) \in S /\ \A n \in S : Min(S) <= n
<1>1. PICK x \in S : \A y \in S : ~ (<<y, x>> \in OpToRel(<, Nat))
  BY NatLessThanWellFounded, WFMin, Zenon
<1>2. ASSUME NEW y \in S
      PROVE  x <= y
  <2>1. x \in Nat /\ y \in Nat
    OBVIOUS
  <2>2. ~(y < x)
    BY <1>1, <2>1 DEF OpToRel
  <2> QED  BY <2>1, <2>2
<1>3. \E z \in S : \A y \in S : z <= y
  BY <1>2
<1> QED  BY <1>3 DEF Min

\* Giving the line the iterator is at its number.
Renumber(g, no) == [g EXCEPT !.cur_line_no = no]

\* With the number of its line the object is Cached again.
LEMMA RenumberCaches ==
    ASSUME NEW f, NEW g, NEW no \in Int, At(f, g, no)
    PROVE  /\ Cached(Renumber(g, no)) /\ SameText(f, Renumber(g, no))
           /\ Renumber(g, no).cur_line_it = no
           /\ Renumber(g, no).cur_char = g.cur_char
<1> DEFINE h == Renumber(g, no)
<1>1. g \in textOp
  BY DEF At, Walkable
<1>2. /\ h \in textOp /\ SameText(g, h) /\ h.cur_line_no = no
      /\ h.cur_line_it = g.cur_line_it /\ h.cur_char = g.cur_char
  BY <1>1, NumberedFields DEF Renumber
<1> HIDE DEF h
<1>3. Walkable(h)
  BY <1>2 DEF At, Walkable, SameText
<1>4. Cached(h) /\ h.cur_line_it = no
  BY <1>2, <1>3 DEF At, Cached
<1>5. SameText(f, h)
  BY <1>2 DEF At, SameText
<1> QED  BY <1>2, <1>4, <1>5 DEF h

\* The place offset is in the cached line or right behind it.
Reaches(g, offset) ==
    g.cur_char <= offset /\ offset <= g.cur_char + Len(CurLine(g))

Finds(f, g, offset) == Cached(g) /\ SameText(f, g) /\ Reaches(g, offset)

\* The sizes of lines, for an object.
LEMMA WalkableSizes ==
    ASSUME NEW f, Walkable(f)
    PROVE  /\ f.edit_file \in Seq(Line) /\ Len(f.edit_file) \in Nat
           /\ f.cur_line_it \in 1..Len(f.edit_file)
           /\ f.cur_char \in Nat /\ Len(CurLine(f)) \in Nat
           /\ f.cur_char + Len(CurLine(f)) = SizeTo(f.edit_file, f.cur_line_it) - 1
<1> DEFINE lines == f.edit_file
           it == f.cur_line_it
<1>1. /\ lines \in Seq(Line) /\ Len(lines) \in Nat /\ it \in 1..Len(lines)
      /\ f.cur_char = SizeTo(lines, it - 1)
  BY LinesType DEF Walkable, textOp
<1> HIDE DEF lines, it
<1>2. it - 1 \in 0..Len(lines) /\ Len(lines[it]) \in Nat
  BY <1>1, LinesType
<1>3. SizeTo(lines, it - 1) \in Nat
  BY <1>1, <1>2, SizeByStep
<1>4. SizeTo(lines, it) = SizeTo(lines, it - 1) + (Len(lines[it]) + 1)
  BY <1>1, SizeByStep DEF Bytes
<1>5. f.cur_char + Len(lines[it]) = SizeTo(lines, it) - 1
  BY <1>1, <1>2, <1>3, <1>4
<1> QED  BY <1>1, <1>2, <1>3, <1>5 DEF CurLine, lines, it

\* The loop back ends at the line of an offset before the cached line ...
LEMMA BackFinds ==
    ASSUME NEW f, Cached(f), NEW offset \in Nat, offset <= f.cur_char
    PROVE  Finds(f, Back(f, offset), offset)
<1> DEFINE lines == f.edit_file
           it == f.cur_line_it
           stops == { n \in 0..it - 1 : Walk(f, -n).cur_char <= offset }
           walked == Min(stops)
           g == Walk(f, -walked)
<1>1. /\ Walkable(f) /\ f.cur_line_no = it
      /\ lines \in Seq(Line) /\ Len(lines) \in Nat /\ it \in 1..Len(lines)
      /\ f.cur_char = SizeTo(lines, it - 1)
  BY WalkableSizes DEF Cached, Walkable
<1>2. ASSUME NEW n \in 0..it - 1
      PROVE  /\ At(f, Walk(f, -n), it - n)
             /\ Walk(f, -n).cur_char = SizeTo(lines, it - n - 1)
  <2>1. -n \in Int /\ it + (-n) = it - n /\ it - n \in 1..Len(lines)
    BY <1>1
  <2>2. At(f, Walk(f, -n), it - n)
    BY <1>1, <2>1, WalkArrives
  <2> QED  BY <2>2 DEF At, Walkable, SameText
<1>3. it - 1 \in stops
  <2>1. it - 1 \in 0..it - 1 /\ it - (it - 1) - 1 = 0
    BY <1>1
  <2>2. Walk(f, -(it - 1)).cur_char = 0
    BY <1>1, <1>2, <2>1, SizeByStep
  <2> QED  BY <2>1, <2>2
<1>4. /\ walked \in 0..it - 1 /\ walked \in stops
      /\ \A n \in stops : walked <= n
  <2>1. stops \subseteq Nat /\ stops # {}
    BY <1>1, <1>3
  <2> HIDE DEF stops
  <2>2. walked \in stops /\ \A n \in stops : walked <= n
    BY <2>1, LeastNat
  <2> QED  BY <2>2 DEF stops
<1> HIDE DEF walked
<1>5. At(f, g, it - walked) /\ g.cur_char <= offset
  BY <1>2, <1>4
<1>6. Back(f, offset) = Renumber(g, it - walked)
  <2>1. g.cur_line_no - walked = it - walked
    BY <1>1, <1>5 DEF At
  <2>2. Back(f, offset) = [g EXCEPT !.cur_line_no = @ - walked]
    BY DEF Back, walked
  <2>3. g \in textOp
    BY <1>5 DEF At, Walkable
  <2> HIDE DEF g
  <2> QED  BY <2>1, <2>2, <2>3 DEF Renumber, textOp
<1> DEFINE h == Renumber(g, it - walked)
<1>7. /\ Cached(h) /\ SameText(f, h)
      /\ h.cur_line_it = it - walked /\ h.cur_char = g.cur_char
  <2>1. it - walked \in Int
    BY <1>1, <1>4
  <2> QED  BY <1>5, <2>1, RenumberCaches
<1> HIDE DEF h, g
<1>8. h.cur_char + Len(CurLine(h)) = SizeTo(lines, it - walked) - 1
  BY <1>7, WalkableSizes DEF Cached, SameText
<1>9. offset <= SizeTo(lines, it - walked) - 1
  <2>1. CASE walked = 0
    <3>1. SizeTo(lines, it) - 1 = f.cur_char + Len(CurLine(f)) /\ Len(CurLine(f)) \in Nat
          /\ f.cur_char \in Nat
      BY <1>1, WalkableSizes
    <3>2. it - walked = it
      BY <1>1, <2>1
    <3> QED  BY <3>1, <3>2
  <2>2. CASE walked # 0
    <3>1. walked - 1 \in 0..it - 1 /\ ~(walked <= walked - 1)
          /\ it - (walked - 1) - 1 = it - walked
          /\ it - walked \in 0..Len(lines)
      BY <1>1, <1>4, <2>2
    <3>2. walked - 1 \notin stops
      BY <1>4, <3>1
    <3>3. ~(SizeTo(lines, it - walked) <= offset)
      BY <1>2, <3>1, <3>2
    <3>4. SizeTo(lines, it - walked) \in Nat
      BY <1>1, <3>1, SizeByStep
    <3> QED  BY <3>3, <3>4
  <2> QED  BY <2>1, <2>2
<1>10. Reaches(h, offset)
  BY <1>5, <1>7, <1>8, <1>9 DEF Reaches
<1> QED  BY <1>6, <1>7, <1>10 DEF Finds, h

\* ... and the loop ahead at the line of an offset behind its start.
LEMMA AheadFinds ==
    ASSUME NEW f, Cached(f), NEW offset \in Nat, f.cur_char <= offset,
           offset <= f.total_chars
    PROVE  Finds(f, Ahead(f, offset), offset)
<1> DEFINE lines == f.edit_file
           it == f.cur_line_it
           N == Len(lines)
           reaches(at) == at.cur_char + Len(CurLine(at)) >= offset
           stops == { n \in 0..N - it :
                        reaches(Walk(f, n)) \/ f.cur_line_no + n >= N }
           walked == Min(stops)
           g == Walk(f, walked)
<1>1. /\ Walkable(f) /\ f.cur_line_no = it
      /\ lines \in Seq(Line) /\ N \in Nat /\ it \in 1..N
      /\ f.cur_char = SizeTo(lines, it - 1)
      /\ f.total_chars = SizeTo(lines, N) - 1
  BY WalkableSizes DEF Cached, Walkable
<1>2. ASSUME NEW n \in 0..N - it
      PROVE  /\ At(f, Walk(f, n), it + n)
             /\ Walk(f, n).cur_char = SizeTo(lines, it + n - 1)
             /\ Walk(f, n).cur_char + Len(CurLine(Walk(f, n)))
                    = SizeTo(lines, it + n) - 1
  <2>1. n \in Int /\ it + n \in 1..N
    BY <1>1
  <2>2. At(f, Walk(f, n), it + n)
    BY <1>1, <2>1, WalkArrives
  <2> DEFINE w == Walk(f, n)
  <2> HIDE DEF w
  <2>3. Walkable(w) /\ w.edit_file = lines /\ w.cur_line_it = it + n
    BY <2>2 DEF At, SameText, w
  <2>4. w.cur_char + Len(CurLine(w)) = SizeTo(lines, it + n) - 1
    BY <2>3, WalkableSizes
  <2>5. w.cur_char = SizeTo(lines, it + n - 1)
    <3>1. w.cur_char = SizeTo(w.edit_file, w.cur_line_it - 1)
      BY <2>3 DEF Walkable
    <3>2. (it + n) - 1 = it + n - 1
      BY <1>1
    <3>3. w.edit_file = lines /\ w.cur_line_it - 1 = it + n - 1
      BY <2>3, <3>2
    <3> QED  BY <3>1, <3>3
  <2> QED  BY <2>2, <2>4, <2>5 DEF w
<1>3. N - it \in stops
  <2>1. N - it \in 0..N - it /\ it + (N - it) >= N
    BY <1>1
  <2> QED  BY <1>1, <2>1
<1>4. /\ walked \in 0..N - it /\ walked \in stops
      /\ \A n \in stops : walked <= n
  <2>1. stops \subseteq Nat /\ stops # {}
    BY <1>1, <1>3
  <2> HIDE DEF stops
  <2>2. walked \in stops /\ \A n \in stops : walked <= n
    BY <2>1, LeastNat
  <2> QED  BY <2>2 DEF stops
<1> HIDE DEF walked
<1>5. /\ At(f, g, it + walked) /\ g.cur_char = SizeTo(lines, it + walked - 1)
      /\ g.cur_char + Len(CurLine(g)) = SizeTo(lines, it + walked) - 1
  BY <1>2, <1>4
<1>6. Ahead(f, offset) = Renumber(g, it + walked)
  <2>1. g.cur_line_no + walked = it + walked
    BY <1>1, <1>5 DEF At
  <2>2. Ahead(f, offset) = [g EXCEPT !.cur_line_no = @ + walked]
    BY DEF Ahead, walked
  <2>3. g \in textOp
    BY <1>5 DEF At, Walkable
  <2> HIDE DEF g
  <2> QED  BY <2>1, <2>2, <2>3 DEF Renumber, textOp
<1> DEFINE h == Renumber(g, it + walked)
<1>7. /\ Cached(h) /\ SameText(f, h)
      /\ h.cur_line_it = it + walked /\ h.cur_char = g.cur_char
  <2>1. it + walked \in Int
    BY <1>1, <1>4
  <2> QED  BY <1>5, <2>1, RenumberCaches
<1>8. offset <= SizeTo(lines, it + walked) - 1
  <2>1. CASE reaches(g)
    <3>1. g.cur_char + Len(CurLine(g)) >= offset
      BY <2>1
    <3>2. SizeTo(lines, it + walked) \in Nat
      <4>1. it + walked \in 0..N
        BY <1>1, <1>4
      <4> QED  BY <1>1, <4>1, SizeByStep
    <3> QED  BY <1>5, <3>1, <3>2
  <2>2. CASE f.cur_line_no + walked >= N
    <3>1. it + walked = N
      <4>1. it + walked >= N
        BY <1>1, <2>2
      <4>2. N \in Nat /\ it \in 1..N /\ walked \in 0..N - it
        BY <1>1, <1>4
      <4> HIDE DEF N, it
      <4> QED  BY ONLY <4>1, <4>2
    <3> QED  BY <1>1, <3>1
  <2> QED  BY <1>4, <2>1, <2>2
<1> HIDE DEF h, g
<1>9. g.cur_char <= offset
  <2>1. CASE walked = 0
    <3>1. it + walked - 1 = it - 1
      BY <1>1, <2>1
    <3> QED  BY <1>1, <1>5, <3>1
  <2>2. CASE walked # 0
    <3>1. walked - 1 \in 0..N - it /\ ~(walked <= walked - 1)
          /\ it + (walked - 1) = it + walked - 1
          /\ it + walked - 1 \in 0..N
      BY <1>1, <1>4, <2>2
    <3>2. walked - 1 \notin stops
      BY <1>4, <3>1
    <3>3. ~reaches(Walk(f, walked - 1))
      BY <3>1, <3>2
    <3>4. ~(SizeTo(lines, it + walked - 1) - 1 >= offset)
      BY <1>2, <3>1, <3>3
    <3>5. SizeTo(lines, it + walked - 1) \in Nat
      BY <1>1, <3>1, SizeByStep
    <3> QED  BY <1>5, <3>4, <3>5
  <2> QED  BY <2>1, <2>2
<1>10. h.cur_char + Len(CurLine(h)) = SizeTo(lines, it + walked) - 1
  BY <1>7, WalkableSizes DEF Cached, SameText
<1>11. Reaches(h, offset)
  BY <1>7, <1>8, <1>9, <1>10 DEF Reaches
<1> QED  BY <1>6, <1>7, <1>11 DEF Finds, h

\* translateOffset finds the line of every offset in the file.
OffsetLocated(f, offset) ==
    LET g == LocateOffset(f, offset)
    IN  /\ Cached(g) /\ SameText(f, g)
        /\ offset <= f.total_chars => Reaches(g, offset)

\* Wherever translateOffset starts from, the line of the offset is cached.
LEMMA LocateOffsetFinds ==
    ASSUME NEW f, Cached(f), NEW offset \in Nat
    PROVE  OffsetLocated(f, offset)
<1> DEFINE near == IF offset - f.cur_char > f.total_chars - offset
                   THEN locateLine(f, Len(f.edit_file))
                   ELSE IF f.cur_char - offset > offset THEN locateLine(f, 1)
                   ELSE f
<1>1. Cached(near) /\ SameText(f, near)
  <2>1. Len(f.edit_file) \in Int
    BY WalkableSizes DEF Cached
  <2>2. CASE near = locateLine(f, Len(f.edit_file))
    BY <2>1, <2>2, LineLocated DEF Locates
  <2>3. CASE near = locateLine(f, 1)
    BY <2>3, LineLocated DEF Locates
  <2>4. CASE near = f
    BY <2>4 DEF SameText
  <2> QED  BY <2>2, <2>3, <2>4
<1>2. near.cur_char \in Nat
  BY <1>1, WalkableSizes DEF Cached
<1>3. LocateOffset(f, offset) = IF offset > f.total_chars THEN f
                                ELSE IF offset <= near.cur_char
                                THEN Back(near, offset) ELSE Ahead(near, offset)
  BY DEF LocateOffset
<1> HIDE DEF near
<1>4. f.total_chars \in Int
  BY DEF Cached, Walkable, textOp
<1>5. CASE offset > f.total_chars
  <2>1. LocateOffset(f, offset) = f /\ ~(offset <= f.total_chars)
    BY <1>3, <1>4, <1>5
  <2> QED  BY <2>1 DEF OffsetLocated, SameText
<1>6. CASE ~(offset > f.total_chars) /\ offset <= near.cur_char
  <2>1. Finds(near, Back(near, offset), offset)
    BY <1>1, <1>6, BackFinds
  <2>2. LocateOffset(f, offset) = Back(near, offset)
    BY <1>3, <1>6
  <2> QED  BY <1>1, <2>1, <2>2 DEF Finds, OffsetLocated, SameText
<1>7. CASE ~(offset > f.total_chars) /\ ~(offset <= near.cur_char)
  <2>1. near.cur_char <= offset /\ offset <= near.total_chars
    BY <1>1, <1>2, <1>4, <1>7 DEF SameText
  <2>2. Finds(near, Ahead(near, offset), offset)
    BY <1>1, <2>1, AheadFinds
  <2>3. LocateOffset(f, offset) = Ahead(near, offset)
    BY <1>3, <1>7
  <2> QED  BY <1>1, <2>2, <2>3 DEF Finds, OffsetLocated, SameText
<1> QED  BY <1>5, <1>6, <1>7

-----------------------------------------------------------------------------
(***************************************************************************)
(* Changing the list: a line changes, is cut in two or takes in the next.  *)
(***************************************************************************)

\* A line in two parts.
Parts(S, line, k, head, tail) ==
    /\ head \in Seq(S) /\ Len(head) = k - 1
    /\ tail \in Seq(S) /\ line = head \o tail

\* SubSeq cuts a line in two.
LEMMA LineInParts ==
    ASSUME NEW S, NEW line \in Seq(S), NEW k \in 1..Len(line) + 1
    PROVE  Parts(S, line, k, SubSeq(line, 1, k - 1), SubSeq(line, k, Len(line)))
<1> DEFINE head == SubSeq(line, 1, k - 1)
           tail == SubSeq(line, k, Len(line))
<1>1. Len(line) \in Nat /\ \A j \in 1..Len(line) : line[j] \in S
  BY LenProperties, ElementOfSeq
<1>2. head \in Seq(S) /\ Len(head) = k - 1
  <2>1. \A j \in 1..k - 1 : line[j] \in S
    BY <1>1
  <2>2. /\ head \in Seq(S)
        /\ Len(head) = IF 1 <= k - 1 THEN k - 1 - 1 + 1 ELSE 0
    BY <1>1, <2>1, SubSeqProperties
  <2> QED  BY <1>1, <2>2
<1>3. tail \in Seq(S)
  <2>1. \A j \in k..Len(line) : line[j] \in S
    BY <1>1
  <2> QED  BY <1>1, <2>1, SubSeqProperties
<1>4. line = head \o tail
  <2>1. CASE line = <<>>
    <3>1. k = 1 /\ head = <<>> /\ tail = <<>>
      BY <1>1, <2>1, SubSeqEmpty
    <3> QED  BY <2>1, <3>1
  <2>2. CASE line # <<>>
    <3>1. /\ 1 \in 1..Len(line) + 1 /\ k - 1 \in 1 - 1..Len(line)
          /\ Len(line) \in k - 1..Len(line) /\ (k - 1) + 1 = k
      BY <1>1
    <3>2. SubSeq(line, 1, k - 1) \o SubSeq(line, (k - 1) + 1, Len(line))
            = SubSeq(line, 1, Len(line))
      BY <3>1, ConcatAdjacentSubSeq
    <3>3. SubSeq(line, 1, Len(line)) = line
      BY SubSeqFull
    <3> QED  BY <3>1, <3>2, <3>3
  <2> QED  BY <2>1, <2>2
<1> QED  BY <1>2, <1>3, <1>4 DEF Parts

\* A character in the midst of a line.
LEMMA LineAround ==
    ASSUME NEW S, NEW line \in Seq(S), NEW k \in 1..Len(line)
    PROVE  /\ RemoveAt(line, k)
                = SubSeq(line, 1, k - 1) \o SubSeq(line, k + 1, Len(line))
           /\ SubSeq(line, 1, k - 1) \in Seq(S)
           /\ Len(SubSeq(line, 1, k - 1)) = k - 1
           /\ SubSeq(line, k + 1, Len(line)) \in Seq(S)
           /\ line = (SubSeq(line, 1, k - 1) \o <<line[k]>>)
                        \o SubSeq(line, k + 1, Len(line))
<1> DEFINE head == SubSeq(line, 1, k - 1)
           tail == SubSeq(line, k + 1, Len(line))
           more == SubSeq(line, 1, k)
<1>1. Len(line) \in Nat /\ k + 1 \in 1..Len(line) + 1 /\ k \in 1..Len(line) + 1
      /\ (k + 1) - 1 = k
  BY LenProperties
<1>2. head \in Seq(S) /\ Len(head) = k - 1
  BY <1>1, LineInParts DEF Parts
<1>3. tail \in Seq(S) /\ line = more \o tail
  <2>1. Parts(S, line, k + 1, SubSeq(line, 1, (k + 1) - 1), tail)
    BY <1>1, LineInParts
  <2> QED  BY <1>1, <2>1 DEF Parts
<1>4. more = head \o <<line[k]>>
  BY SubSeqRecursiveSecond
<1> QED  BY <1>2, <1>3, <1>4 DEF RemoveAt

\* The four ways the list changes.
LEMMA TypedInto ==
    ASSUME NEW lines \in Seq(Line), NEW it \in 1..Len(lines),
           NEW k \in 1..Len(lines[it]) + 1, NEW ch \in Char \ {NewLine}
    PROVE  LET other == [lines EXCEPT ![it] = InsertAt(lines[it], k, ch)]
           IN  /\ other \in Seq(Line) /\ Len(other) = Len(lines)
               /\ SameUpTo(lines, other, it - 1)
               /\ Gains(lines, other, ch, SizeTo(lines, it - 1) + (k - 1))
<1> DEFINE S == Char \ {NewLine}
           line == lines[it]
           head == SubSeq(line, 1, k - 1)
           tail == SubSeq(line, k, Len(line))
           new == InsertAt(line, k, ch)
           other == [lines EXCEPT ![it] = new]
<1>1. Len(lines) \in Nat /\ line \in Seq(S)
  BY LinesType DEF Line
<1>2. /\ head \in Seq(S) /\ Len(head) = k - 1
      /\ tail \in Seq(S) /\ line = head \o tail
  <2> HIDE DEF line, S
  <2> QED  BY <1>1, LineInParts DEF Parts, line
<1>3. new = (head \o <<ch>>) \o tail
  BY DEF InsertAt
<1>4. new \in Line
  <2>1. <<ch>> \in Seq(S)
    OBVIOUS
  <2> HIDE DEF head, tail, S
  <2>2. head \o <<ch>> \in Seq(S)
    BY <1>2, <2>1, ConcatProperties
  <2>3. (head \o <<ch>>) \o tail \in Seq(S)
    BY <1>2, <2>2, ConcatProperties
  <2> QED  BY <1>3, <2>3 DEF Line, S
<1> HIDE DEF new
<1>5. /\ other \in Seq(Line) /\ Len(other) = Len(lines) /\ other[it] = new
      /\ \A n \in 1..Len(lines) : n # it => other[n] = lines[n]
  BY <1>4, ExceptSeq
<1>6. head \in Text /\ tail \in Text /\ ch \in Char
  <2>1. S \subseteq Char
    OBVIOUS
  <2> HIDE DEF head, tail, S
  <2> QED  BY <1>2, <2>1, SeqMonotonic DEF Text
<1> HIDE DEF other, S
<1>7. CharAdded(lines, other, it, head, tail, ch)
  BY <1>2, <1>3, <1>5 DEF CharAdded
<1>8. SameUpTo(lines, other, it - 1)
  BY <1>1, <1>5 DEF SameUpTo
<1> HIDE DEF head, tail
<1>9. Gains(lines, other, ch, SizeTo(lines, it - 1) + Len(head))
  BY <1>5, <1>6, <1>7, CharAddedGains
<1> QED  BY <1>2, <1>5, <1>8, <1>9 DEF other, new

\* A character goes from the midst of a line.
LEMMA DeletedFrom ==
    ASSUME NEW lines \in Seq(Line), NEW it \in 1..Len(lines),
           NEW k \in 1..Len(lines[it])
    PROVE  LET other == [lines EXCEPT ![it] = RemoveAt(lines[it], k)]
           IN  /\ other \in Seq(Line) /\ Len(other) = Len(lines)
               /\ SameUpTo(lines, other, it - 1)
               /\ lines[it][k] \in Char
               /\ Gains(other, lines, lines[it][k],
                        SizeTo(lines, it - 1) + (k - 1))
<1> DEFINE S == Char \ {NewLine}
           line == lines[it]
           head == SubSeq(line, 1, k - 1)
           tail == SubSeq(line, k + 1, Len(line))
           new == RemoveAt(line, k)
           ch == line[k]
           other == [lines EXCEPT ![it] = new]
<1>1. Len(lines) \in Nat /\ line \in Seq(S)
  BY LinesType DEF Line
<1>2. /\ head \in Seq(S) /\ Len(head) = k - 1 /\ tail \in Seq(S)
      /\ new = head \o tail /\ line = (head \o <<ch>>) \o tail
  <2> HIDE DEF line, S
  <2> QED  BY <1>1, LineAround DEF line
<1>3. ch \in Char
  BY <1>1, ElementOfSeq
<1>4. new \in Line
  <2> HIDE DEF head, tail, S
  <2> QED  BY <1>2, ConcatProperties DEF Line, S
<1> HIDE DEF new
<1>5. /\ other \in Seq(Line) /\ Len(other) = Len(lines) /\ other[it] = new
      /\ \A n \in 1..Len(lines) : n # it => other[n] = lines[n]
  BY <1>4, ExceptSeq
<1>6. head \in Text /\ tail \in Text
  <2>1. S \subseteq Char
    OBVIOUS
  <2> HIDE DEF head, tail, S
  <2> QED  BY <1>2, <2>1, SeqMonotonic DEF Text
<1> HIDE DEF other, S, ch
<1>7. CharAdded(other, lines, it, head, tail, ch)
  BY <1>2, <1>5 DEF CharAdded
<1>8. SameUpTo(lines, other, it - 1) /\ SameUpTo(other, lines, it - 1)
  BY <1>1, <1>5 DEF SameUpTo
<1> HIDE DEF head, tail
<1>9. Gains(other, lines, ch, SizeTo(other, it - 1) + Len(head))
  BY <1>3, <1>5, <1>6, <1>7, CharAddedGains
<1>10. SizeTo(other, it - 1) = SizeTo(lines, it - 1)
  <2>1. it - 1 \in Nat /\ it - 1 \in 0..it - 1
    BY <1>1
  <2> QED  BY <1>5, <1>8, <2>1, SizeSame
<1> QED  BY <1>2, <1>3, <1>5, <1>8, <1>9, <1>10 DEF other, new, ch

\* A line is a text without line breaks.
LEMMA LinesAreTexts ==
    ASSUME NEW line \in Line
    PROVE  line \in Text /\ Len(line) \in Nat
<1>1. Char \ {NewLine} \subseteq Char
  OBVIOUS
<1> QED  BY <1>1, SeqMonotonic, LenProperties DEF Line, Text

\* A line is cut in two: the second part starts behind the first and its line
\* break.
LEMMA BrokenInto ==
    ASSUME NEW lines \in Seq(Line), NEW it \in 1..Len(lines),
           NEW head \in Line, NEW tail \in Line, lines[it] = head \o tail
    PROVE  LET other == InsertAt([lines EXCEPT ![it] = head], it + 1, tail)
           IN  /\ other \in Seq(Line) /\ Len(other) = Len(lines) + 1
               /\ SameUpTo(lines, other, it - 1)
               /\ Gains(lines, other, NewLine, SizeTo(lines, it - 1) + Len(head))
               /\ SizeTo(other, it) = SizeTo(lines, it - 1) + (Len(head) + 1)
<1> DEFINE cut == [lines EXCEPT ![it] = head]
           other == InsertAt(cut, it + 1, tail)
<1>1. Len(lines) \in Nat /\ head \in Text /\ tail \in Text /\ Len(head) \in Nat
  BY LinesType, LinesAreTexts
<1>2. /\ cut \in Seq(Line) /\ Len(cut) = Len(lines) /\ cut[it] = head
      /\ \A n \in 1..Len(lines) : n # it => cut[n] = lines[n]
  BY ExceptSeq
<1> HIDE DEF cut
<1>3. /\ other \in Seq(Line) /\ Len(other) = Len(lines) + 1
      /\ \A n \in 1..Len(lines) + 1 :
            other[n] = IF n < it + 1 THEN cut[n]
                       ELSE IF n = it + 1 THEN tail ELSE cut[n - 1]
  <2>1. it + 1 \in 1..Len(cut) + 1
    BY <1>1, <1>2
  <2>2. IsInsertion(Line, cut, it + 1, tail, other)
    BY <1>2, <2>1, InsertAtProperties
  <2> QED  BY <1>2, <2>2 DEF IsInsertion
<1> HIDE DEF other
<1>4. other[it] = head /\ other[it + 1] = tail
  <2>1. /\ it \in 1..Len(lines) + 1 /\ it < it + 1
        /\ it + 1 \in 1..Len(lines) + 1 /\ ~(it + 1 < it + 1)
    BY <1>1
  <2> QED  BY <1>2, <1>3, <2>1
<1>5. ASSUME NEW n \in 1..it - 1
      PROVE  other[n] = lines[n]
  <2>1. n \in 1..Len(lines) + 1 /\ n < it + 1 /\ n \in 1..Len(lines) /\ n # it
    BY <1>1
  <2> QED  BY <1>2, <1>3, <2>1
<1>6. ASSUME NEW n \in it + 1..Len(lines)
      PROVE  other[n + 1] = lines[n]
  <2>1. /\ n + 1 \in 1..Len(lines) + 1 /\ ~(n + 1 < it + 1) /\ n + 1 # it + 1
        /\ n + 1 - 1 = n /\ n \in 1..Len(lines) /\ n # it
    BY <1>1
  <2> QED  BY <1>2, <1>3, <2>1
<1>7. LineBroken(lines, other, it, head, tail)
  BY <1>3, <1>4, <1>5, <1>6 DEF LineBroken
<1>8. SameUpTo(lines, other, it - 1)
  BY <1>1, <1>3, <1>5 DEF SameUpTo
<1>9. Gains(lines, other, NewLine, SizeTo(lines, it - 1) + Len(head))
  BY <1>1, <1>3, <1>7, LineBrokenGains
<1>10. SizeTo(other, it) = SizeTo(lines, it - 1) + (Len(head) + 1)
  <2>1. it - 1 \in Nat /\ it - 1 \in 0..it - 1 /\ it \in 1..Len(other)
    BY <1>1, <1>3
  <2>2. SizeTo(lines, it - 1) = SizeTo(other, it - 1)
    BY <1>3, <1>8, <2>1, SizeSame
  <2>3. SizeTo(other, it) = SizeTo(other, it - 1) + (Len(other[it]) + 1)
    BY <1>3, <2>1, SizeByStep DEF Bytes
  <2> QED  BY <1>4, <2>2, <2>3
<1> QED  BY <1>3, <1>8, <1>9, <1>10 DEF other, cut

\* An empty line goes before a line other than the first: a line break is added
\* at the end of the line before.
LEMMA BrokenBefore ==
    ASSUME NEW lines \in Seq(Line), NEW it \in 2..Len(lines)
    PROVE  LET other == InsertAt(lines, it, <<>>)
           IN  /\ other \in Seq(Line) /\ Len(other) = Len(lines) + 1
               /\ SameUpTo(lines, other, it - 1)
               /\ Gains(lines, other, NewLine, SizeTo(lines, it - 1) - 1)
               /\ SizeTo(other, it) = SizeTo(lines, it - 1) + 1
<1> DEFINE other == InsertAt(lines, it, <<>>)
           prev == it - 1
           head == lines[prev]
<1>1. /\ Len(lines) \in Nat /\ prev \in 1..Len(lines) /\ it \in 1..Len(lines) + 1
      /\ prev + 1 = it /\ prev - 1 \in 0..Len(lines) /\ prev \in Nat
  BY LinesType
<1>2. <<>> \in Line /\ Len(<<>>) = 0 /\ <<>> \in Text
  BY EmptySeq DEF Line, Text
<1>3. head \in Text /\ head = head \o <<>> /\ Len(head) \in Nat
  BY <1>1, LinesType, ConcatEmptySeq DEF Text
<1>4. /\ other \in Seq(Line) /\ Len(other) = Len(lines) + 1
      /\ \A n \in 1..Len(lines) + 1 :
            other[n] = IF n < it THEN lines[n]
                       ELSE IF n = it THEN <<>> ELSE lines[n - 1]
  <2>1. IsInsertion(Line, lines, it, <<>>, other)
    BY <1>1, <1>2, InsertAtProperties
  <2> QED  BY <2>1 DEF IsInsertion
<1> HIDE DEF other
<1>5. other[it] = <<>> /\ \A n \in 1..prev : other[n] = lines[n]
  <2>1. ~(it < it)
    OBVIOUS
  <2>2. \A n \in 1..prev : n \in 1..Len(lines) + 1 /\ n < it
    BY <1>1
  <2> QED  BY <1>1, <1>4, <2>1, <2>2
<1>6. ASSUME NEW n \in prev + 1..Len(lines)
      PROVE  other[n + 1] = lines[n]
  <2>1. n + 1 \in 1..Len(lines) + 1 /\ ~(n + 1 < it) /\ n + 1 # it /\ n + 1 - 1 = n
    BY <1>1
  <2> QED  BY <1>4, <2>1
<1>7. SameUpTo(lines, other, prev)
  BY <1>1, <1>4, <1>5 DEF SameUpTo
<1>8. LineBroken(lines, other, prev, head, <<>>)
  <2>1. other[prev] = head
    <3>1. prev \in 1..prev
      BY <1>1
    <3> QED  BY <1>5, <3>1
  <2>2. \A n \in 1..prev - 1 : n \in 1..prev
    BY <1>1
  <2> HIDE DEF prev, head
  <2>3. lines[prev] = head \o <<>>
    BY <1>3 DEF head
  <2> QED  BY <1>1, <1>4, <1>5, <1>6, <2>1, <2>2, <2>3 DEF LineBroken
<1>9. Gains(lines, other, NewLine, SizeTo(lines, prev - 1) + Len(head))
  <2> HIDE DEF prev, head
  <2> QED  BY <1>2, <1>3, <1>4, <1>8, LineBrokenGains
<1>10. SizeTo(lines, prev - 1) + Len(head) = SizeTo(lines, prev) - 1
  <2>1. SizeTo(lines, prev) = SizeTo(lines, prev - 1) + (Len(head) + 1)
    BY <1>1, SizeByStep DEF Bytes
  <2>2. SizeTo(lines, prev - 1) \in Nat
    BY <1>1, SizeByStep
  <2> QED  BY <1>3, <2>1, <2>2
<1>11. SizeTo(other, it) = SizeTo(lines, prev) + 1
  <2>1. prev \in 0..prev /\ it \in 1..Len(other)
    BY <1>1, <1>4
  <2>2. SizeTo(lines, prev) = SizeTo(other, prev)
    BY <1>1, <1>4, <1>7, <2>1, SizeSame
  <2>3. SizeTo(other, it) = SizeTo(other, prev) + (Len(other[it]) + 1)
    BY <1>4, <2>1, SizeByStep DEF Bytes
  <2>4. Len(other[it]) + 1 = 1
    BY <1>2, <1>5
  <2> QED  BY <2>2, <2>3, <2>4
<1> QED  BY <1>4, <1>7, <1>9, <1>10, <1>11 DEF other

\* A line takes in the next: the line break between them goes.
LEMMA JoinedWithNext ==
    ASSUME NEW lines \in Seq(Line), NEW it \in 1..Len(lines) - 1
    PROVE  LET other == RemoveAt([lines EXCEPT ![it] = lines[it] \o lines[it + 1]],
                                 it + 1)
           IN  /\ other \in Seq(Line) /\ Len(other) = Len(lines) - 1
               /\ SameUpTo(lines, other, it - 1)
               /\ Gains(other, lines, NewLine,
                        SizeTo(lines, it - 1) + Len(lines[it]))
<1> DEFINE head == lines[it]
           tail == lines[it + 1]
           new == head \o tail
           long == [lines EXCEPT ![it] = new]
           other == RemoveAt(long, it + 1)
<1>1. /\ Len(lines) \in Nat /\ it \in 1..Len(lines) /\ it + 1 \in 1..Len(lines)
      /\ head \in Line /\ tail \in Line
      /\ head \in Text /\ tail \in Text /\ Len(head) \in Nat
  BY LinesType
<1>2. new \in Line
  <2> HIDE DEF head, tail
  <2> QED  BY <1>1, ConcatProperties DEF Line
<1> HIDE DEF new
<1>3. /\ long \in Seq(Line) /\ Len(long) = Len(lines) /\ long[it] = new
      /\ \A n \in 1..Len(lines) : n # it => long[n] = lines[n]
  BY <1>1, <1>2, ExceptSeq
<1> HIDE DEF long
<1>4. /\ other \in Seq(Line) /\ Len(other) = Len(lines) - 1
      /\ \A n \in 1..Len(lines) - 1 :
            other[n] = IF n < it + 1 THEN long[n] ELSE long[n + 1]
  <2>1. it + 1 \in 1..Len(long)
    BY <1>1, <1>3
  <2> QED  BY <1>3, <2>1, RemoveAtProperties
<1> HIDE DEF other
<1>5. other[it] = new
  <2>1. it \in 1..Len(lines) - 1 /\ it < it + 1
    BY <1>1
  <2> QED  BY <1>3, <1>4, <2>1
<1>6. ASSUME NEW n \in 1..it - 1
      PROVE  other[n] = lines[n]
  <2>1. n \in 1..Len(lines) - 1 /\ n < it + 1 /\ n \in 1..Len(lines) /\ n # it
    BY <1>1
  <2> QED  BY <1>3, <1>4, <2>1
<1>7. ASSUME NEW n \in it + 1..Len(other)
      PROVE  lines[n + 1] = other[n]
  <2>1. /\ n \in 1..Len(lines) - 1 /\ ~(n < it + 1)
        /\ n + 1 \in 1..Len(lines) /\ n + 1 # it
    BY <1>1, <1>4
  <2> QED  BY <1>3, <1>4, <2>1
<1>8. LineBroken(other, lines, it, head, tail)
  <2>1. it \in 1..Len(other) /\ Len(lines) = Len(other) + 1
    BY <1>1, <1>4
  <2>2. other[it] = head \o tail
    BY <1>5 DEF new
  <2> HIDE DEF head, tail
  <2>3. lines[it] = head /\ lines[it + 1] = tail
    BY DEF head, tail
  <2> QED  BY <1>6, <1>7, <2>1, <2>2, <2>3 DEF LineBroken
<1>9. SameUpTo(lines, other, it - 1) /\ SameUpTo(other, lines, it - 1)
  BY <1>1, <1>4, <1>6 DEF SameUpTo
<1>10. Gains(other, lines, NewLine, SizeTo(other, it - 1) + Len(head))
  <2> HIDE DEF head, tail
  <2> QED  BY <1>1, <1>4, <1>8, LineBrokenGains
<1>11. SizeTo(other, it - 1) = SizeTo(lines, it - 1)
  <2>1. it - 1 \in Nat /\ it - 1 \in 0..it - 1
    BY <1>1
  <2> QED  BY <1>4, <1>9, <2>1, SizeSame
<1> QED  BY <1>4, <1>9, <1>10, <1>11 DEF other, long, new

-----------------------------------------------------------------------------
(***************************************************************************)
(* deleteChar and insertChar on the cached line.                           *)
(***************************************************************************)

\* The whole text, in bytes.
LEMMA FlatSize ==
    ASSUME NEW lines \in Seq(Line), lines # <<>>
    PROVE  /\ Flat(lines) \in Text
           /\ Len(Flat(lines)) = SizeTo(lines, Len(lines)) - 1
<1>1. Len(lines) \in Nat /\ Len(lines) \in 1..Len(lines)
  BY LinesType, EmptySeq
<1>2. PICK flat : Flats(lines, flat)
  BY FlatByStep DEF FlatSteps
<1>3. Len(flat[Len(lines)]) = SizeTo(lines, Len(lines)) - 1
  BY <1>1, <1>2, FlatLength
<1> QED  BY <1>1, <1>2, <1>3 DEF Flats

\* A character more is a byte more.
LEMMA GainsSize ==
    ASSUME NEW lines \in Seq(Line), lines # <<>>,
           NEW other \in Seq(Line), other # <<>>,
           NEW ch \in Char, NEW place, Gains(lines, other, ch, place)
    PROVE  /\ SizeTo(other, Len(other)) = SizeTo(lines, Len(lines)) + 1
           /\ place \in 0..SizeTo(lines, Len(lines)) - 1
<1>1. PICK a, c \in Text : /\ Len(a) = place /\ Flat(lines) = a \o c
                           /\ Flat(other) = (a \o <<ch>>) \o c
  BY DEF Gains
<1>2. <<ch>> \in Text /\ Len(<<ch>>) = 1
  BY OneChar
<1>3. PICK ac \in Text : ac = a \o <<ch>> /\ Len(ac) = Len(a) + 1
  BY <1>2, TextConcat
<1>4. /\ Len(Flat(lines)) = Len(a) + Len(c)
      /\ Len(Flat(other)) = Len(a) + 1 + Len(c)
  <2>1. Len(a \o c) = Len(a) + Len(c) /\ Len(ac \o c) = Len(ac) + Len(c)
    BY TextConcat
  <2> QED  BY <1>1, <1>3, <2>1
<1>5. /\ Len(Flat(lines)) = SizeTo(lines, Len(lines)) - 1
      /\ Len(Flat(other)) = SizeTo(other, Len(other)) - 1
  BY FlatSize
<1>6. /\ SizeTo(lines, Len(lines)) \in Nat
      /\ SizeTo(other, Len(other)) \in Nat
  <2>1. Len(lines) \in 0..Len(lines) /\ Len(other) \in 0..Len(other)
    BY LinesType
  <2> QED  BY <2>1, SizeByStep
<1>7. Len(a) \in Nat /\ Len(c) \in Nat
  BY LenProperties DEF Text
<1> DEFINE x == Len(a)
           y == Len(c)
           s == SizeTo(lines, Len(lines))
           t == SizeTo(other, Len(other))
<1> HIDE DEF x, y, s, t
<1>8. x \in Nat /\ y \in Nat /\ s \in Nat /\ t \in Nat /\ x + y = s - 1 /\ x + 1 + y = t - 1
  BY <1>4, <1>5, <1>6, <1>7 DEF x, y, s, t
<1>9. t = s + 1 /\ x \in 0..s - 1
  BY <1>8
<1> QED  BY <1>1, <1>9 DEF x, s, t

\* The text g holds is the one of f with ch at place.
Adds(f, g, ch, place) ==
    /\ Cached(g) /\ g.total_chars = f.total_chars + 1
    /\ Gains(f.edit_file, g.edit_file, ch, place)

\* An object with another list, the same line or the next one cached.
Rewritten(f, lines, total) ==
    [f EXCEPT !.edit_file = lines, !.total_chars = total, !.modified = TRUE]

MovedOn(f, lines, c, total) ==
    [f EXCEPT !.edit_file = lines, !.cur_line_it = @ + 1,
              !.cur_line_no = @ + 1, !.cur_char = c,
              !.total_chars = total, !.modified = TRUE]

\* Rewritten keeps the cached line ...
LEMMA RewrittenFields ==
    ASSUME NEW f \in textOp, NEW lines \in Seq(Line), NEW total \in Int
    PROVE  LET g == Rewritten(f, lines, total)
           IN  /\ g \in textOp /\ g.edit_file = lines /\ g.total_chars = total
               /\ g.cur_line_it = f.cur_line_it /\ g.cur_line_no = f.cur_line_no
               /\ g.cur_char = f.cur_char
BY DEF textOp, Rewritten

\* ... and MovedOn caches the next one.
LEMMA MovedOnFields ==
    ASSUME NEW f \in textOp, NEW lines \in Seq(Line), NEW total \in Int,
           NEW c \in Int
    PROVE  LET g == MovedOn(f, lines, c, total)
           IN  /\ g \in textOp /\ g.edit_file = lines /\ g.total_chars = total
               /\ g.cur_line_it = f.cur_line_it + 1
               /\ g.cur_line_no = f.cur_line_no + 1
               /\ g.cur_char = c
<1>1. /\ f.cur_line_it + 1 \in Int /\ f.cur_line_no + 1 \in Int
  BY DEF textOp
<1>2. PICK it, no \in Int : it = f.cur_line_it + 1 /\ no = f.cur_line_no + 1
  BY <1>1
<1>3. MovedOn(f, lines, c, total) =
        [f EXCEPT !.edit_file = lines, !.cur_line_it = it, !.cur_line_no = no,
                  !.cur_char = c, !.total_chars = total, !.modified = TRUE]
  BY <1>2 DEF MovedOn
<1> DEFINE g == [f EXCEPT !.edit_file = lines, !.cur_line_it = it, !.cur_line_no = no,
                  !.cur_char = c, !.total_chars = total, !.modified = TRUE]
<1>4. /\ g \in textOp /\ g.edit_file = lines /\ g.total_chars = total
      /\ g.cur_line_it = it /\ g.cur_line_no = no /\ g.cur_char = c
  BY DEF textOp
<1> HIDE DEF g
<1> QED  BY <1>2, <1>3, <1>4 DEF g

\* insertChar rewrites the line or moves on to the next.
LEMMA InsertedIs ==
    ASSUME NEW f \in textOp, NEW pos, NEW ch
    PROVE  /\ ch # NewLine =>
                Inserted(f, pos, ch) =
                    Rewritten(f, [f.edit_file EXCEPT ![f.cur_line_it] =
                                    InsertAt(CurLine(f), pos.offset, ch)],
                              f.total_chars + 1)
           /\ ch = NewLine /\ pos.offset = 0 =>
                Inserted(f, pos, ch) =
                    MovedOn(f, InsertAt(f.edit_file, f.cur_line_it, <<>>),
                            f.cur_char + 1, f.total_chars + 1)
           /\ ch = NewLine /\ pos.offset # 0 =>
                Inserted(f, pos, ch) =
                    MovedOn(f, InsertAt([f.edit_file EXCEPT ![f.cur_line_it] =
                                    SubSeq(CurLine(f), 1, pos.offset - 1)],
                                        f.cur_line_it + 1,
                                    SubSeq(CurLine(f), pos.offset, Len(CurLine(f)))),
                            f.cur_char + Len(SubSeq(CurLine(f), 1, pos.offset - 1)) + 1,
                            f.total_chars + 1)
BY DEF textOp, Inserted, Broken, Rewritten, MovedOn, CurLine

\* deleteChar rewrites the line.
LEMMA DeletedIs ==
    ASSUME NEW f \in textOp, NEW pos
    PROVE  Deleted(f, pos) =
                Rewritten(f,
                    IF pos.offset = Len(CurLine(f)) + 1
                    THEN RemoveAt([f.edit_file EXCEPT ![f.cur_line_it] =
                                    CurLine(f) \o f.edit_file[f.cur_line_it + 1]],
                                  f.cur_line_it + 1)
                    ELSE [f.edit_file EXCEPT ![f.cur_line_it] =
                            RemoveAt(CurLine(f), pos.offset)],
                    f.total_chars - 1)
<1> DEFINE it == f.cur_line_it
           lines == f.edit_file
           joins == pos.offset = Len(CurLine(f)) + 1
           joined == RemoveAt([lines EXCEPT ![it] = CurLine(f) \o lines[it + 1]],
                              it + 1)
           cut == [lines EXCEPT ![it] = RemoveAt(CurLine(f), pos.offset)]
           new == IF joins THEN joined ELSE cut
<1>1. Deleted(f, pos) = [f EXCEPT !.edit_file = new, !.total_chars = @ - 1,
                                  !.modified = TRUE]
  <2>1. RemoveAt([lines EXCEPT ![it] = lines[it] \o lines[it + 1]], it + 1) = joined
    BY DEF CurLine
  <2>2. [lines EXCEPT ![it] = RemoveAt(lines[it], pos.offset)] = cut
    BY DEF CurLine
  <2>3. Deleted(f, pos) =
          [f EXCEPT !.edit_file =
                        IF joins
                        THEN RemoveAt([lines EXCEPT ![it] = lines[it] \o lines[it + 1]],
                                      it + 1)
                        ELSE [lines EXCEPT ![it] = RemoveAt(lines[it], pos.offset)],
                    !.total_chars = @ - 1, !.modified = TRUE]
    BY DEF Deleted
  <2> HIDE DEF joined, cut, joins
  <2> QED  BY <2>1, <2>2, <2>3
<1> HIDE DEF new
<1>2. Deleted(f, pos) = Rewritten(f, new, f.total_chars - 1)
  BY <1>1 DEF Rewritten
<1> QED  BY <1>2 DEF new

\* What Cached says, with the list as a sequence that is not empty.
LEMMA CachedFields ==
    ASSUME NEW f, Cached(f)
    PROVE  /\ f \in textOp /\ f.edit_file \in Seq(Line) /\ f.edit_file # <<>>
           /\ Len(f.edit_file) \in Nat
           /\ f.cur_line_it \in 1..Len(f.edit_file)
           /\ f.cur_line_no = f.cur_line_it
           /\ f.cur_char = SizeTo(f.edit_file, f.cur_line_it - 1)
           /\ f.total_chars = SizeTo(f.edit_file, Len(f.edit_file)) - 1
           /\ f.total_chars \in Int /\ f.cur_char \in Nat
           /\ CurLine(f) = f.edit_file[f.cur_line_it]
           /\ CurLine(f) \in Line /\ Len(CurLine(f)) \in Nat
<1>1. /\ f \in textOp /\ f.cur_line_no = f.cur_line_it
      /\ f.cur_line_it \in 1..Len(f.edit_file)
      /\ f.cur_char = SizeTo(f.edit_file, f.cur_line_it - 1)
      /\ f.total_chars = SizeTo(f.edit_file, Len(f.edit_file)) - 1
  BY DEF Cached, Walkable
<1>2. f.edit_file \in Seq(Line) /\ f.total_chars \in Int
  BY <1>1 DEF textOp
<1>3. Len(f.edit_file) \in Nat /\ f.edit_file # <<>>
  BY <1>1, <1>2, LinesType, EmptySeq
<1>4. f.cur_char \in Nat
  <2>1. f.cur_line_it - 1 \in 0..Len(f.edit_file)
    BY <1>1, <1>3
  <2> QED  BY <1>1, <1>2, <2>1, SizeByStep
<1>5. /\ CurLine(f) = f.edit_file[f.cur_line_it]
      /\ CurLine(f) \in Line /\ Len(CurLine(f)) \in Nat
  BY <1>1, <1>2, LinesType DEF CurLine
<1> QED  BY <1>1, <1>2, <1>3, <1>4, <1>5

\* The cached line still starts where it did.
LEMMA RewrittenCached ==
    ASSUME NEW f, Cached(f), NEW lines \in Seq(Line), NEW total,
           f.cur_line_it <= Len(lines),
           SameUpTo(f.edit_file, lines, f.cur_line_it - 1),
           total = SizeTo(lines, Len(lines)) - 1
    PROVE  /\ Cached(Rewritten(f, lines, total))
           /\ SizeTo(lines, f.cur_line_it - 1)
                = SizeTo(f.edit_file, f.cur_line_it - 1)
<1> DEFINE g == Rewritten(f, lines, total)
           it == f.cur_line_it
<1>1. /\ f \in textOp /\ f.edit_file \in Seq(Line) /\ Len(f.edit_file) \in Nat
      /\ it \in 1..Len(f.edit_file) /\ f.cur_line_no = it
      /\ f.cur_char = SizeTo(f.edit_file, it - 1)
  BY CachedFields
<1>2. Len(lines) \in Nat
  BY LinesType
<1>3. total \in Int
  <2>1. Len(lines) \in 0..Len(lines)
    BY <1>2
  <2>2. SizeTo(lines, Len(lines)) \in Nat
    BY <2>1, SizeByStep
  <2> QED  BY <2>2
<1>4. /\ g \in textOp /\ g.edit_file = lines /\ g.total_chars = total
      /\ g.cur_line_it = it /\ g.cur_line_no = it /\ g.cur_char = f.cur_char
  <2>1. /\ g \in textOp /\ g.edit_file = lines /\ g.total_chars = total
        /\ g.cur_line_it = f.cur_line_it /\ g.cur_line_no = f.cur_line_no
        /\ g.cur_char = f.cur_char
    <3>1. f \in textOp
      BY <1>1
    <3> QED  BY <1>3, <3>1, RewrittenFields
  <2> HIDE DEF g
  <2> QED  BY <1>1, <2>1
<1>5. SizeTo(lines, it - 1) = SizeTo(f.edit_file, it - 1)
  <2>1. it - 1 \in Nat /\ it - 1 \in 0..it - 1
    BY <1>1
  <2> HIDE DEF it
  <2>2. SameUpTo(f.edit_file, lines, it - 1)
    BY DEF it
  <2> QED  BY <1>1, <2>1, <2>2, SizeSame
<1>6. it \in 1..Len(lines)
  BY <1>1, <1>2
<1> HIDE DEF g
<1>7. Cached(g)
  BY <1>1, <1>4, <1>5, <1>6 DEF Cached, Walkable
<1> QED  BY <1>5, <1>7 DEF g

\* The next line starts behind the new line break.
LEMMA MovedOnCached ==
    ASSUME NEW f, Cached(f), NEW lines \in Seq(Line), NEW total, NEW c,
           f.cur_line_it + 1 <= Len(lines),
           SameUpTo(f.edit_file, lines, f.cur_line_it - 1),
           c = SizeTo(lines, f.cur_line_it),
           total = SizeTo(lines, Len(lines)) - 1
    PROVE  /\ Cached(MovedOn(f, lines, c, total))
           /\ SizeTo(lines, f.cur_line_it - 1)
                = SizeTo(f.edit_file, f.cur_line_it - 1)
<1> DEFINE g == MovedOn(f, lines, c, total)
           it == f.cur_line_it
<1>1. /\ f \in textOp /\ f.edit_file \in Seq(Line) /\ Len(f.edit_file) \in Nat
      /\ it \in 1..Len(f.edit_file) /\ f.cur_line_no = it
  BY CachedFields
<1>2. Len(lines) \in Nat
  BY LinesType
<1>3. total \in Int /\ c \in Int
  <2>1. Len(lines) \in 0..Len(lines) /\ it \in 0..Len(lines)
    BY <1>1, <1>2
  <2>2. SizeTo(lines, Len(lines)) \in Nat /\ SizeTo(lines, it) \in Nat
    BY <2>1, SizeByStep
  <2> QED  BY <2>2
<1>4. /\ g \in textOp /\ g.edit_file = lines /\ g.total_chars = total
      /\ g.cur_line_it = it + 1 /\ g.cur_line_no = it + 1 /\ g.cur_char = c
  BY <1>1, <1>3, MovedOnFields
<1>5. SizeTo(lines, it - 1) = SizeTo(f.edit_file, it - 1)
  <2>1. it - 1 \in Nat /\ it - 1 \in 0..it - 1
    BY <1>1
  <2> HIDE DEF it
  <2>2. SameUpTo(f.edit_file, lines, it - 1)
    BY DEF it
  <2> QED  BY <1>1, <2>1, <2>2, SizeSame
<1>6. it + 1 \in 1..Len(lines) /\ it + 1 - 1 = it
  BY <1>1, <1>2
<1> HIDE DEF g
<1>7. Cached(g)
  BY <1>4, <1>6 DEF Cached, Walkable
<1> QED  BY <1>5, <1>7 DEF g

\* insertChar on the cached line.  Column 0 of a line is the place behind the
\* line break before it.
InsertPlace(f, pos, ch) ==
    \/ pos.offset \in 1..Len(CurLine(f)) + 1
    \/ pos.offset = 0 /\ ch = NewLine /\ f.cur_line_it # 1

PlaceIn(f, pos) == SizeTo(f.edit_file, f.cur_line_it - 1) + (pos.offset - 1)

\* The cached line starts at the same offset of g.
StartsAlike(f, g) ==
    /\ f.cur_line_it \in 1..Len(g.edit_file)
    /\ SizeTo(g.edit_file, f.cur_line_it - 1)
         = SizeTo(f.edit_file, f.cur_line_it - 1)

InsertsHere(f, g, pos, ch) ==
    Adds(f, g, ch, PlaceIn(f, pos)) /\ StartsAlike(f, g)

\* insertChar adds the character at the place of the position and leaves the
\* object cached.
LEMMA InsertedAdds ==
    ASSUME NEW f, Cached(f), NEW pos, NEW ch \in Char, InsertPlace(f, pos, ch)
    PROVE  InsertsHere(f, Inserted(f, pos, ch), pos, ch)
<1> DEFINE lines == f.edit_file
           it == f.cur_line_it
           line == CurLine(f)
           k == pos.offset
           g == Inserted(f, pos, ch)
<1>1. /\ f \in textOp /\ lines \in Seq(Line) /\ lines # <<>>
      /\ Len(lines) \in Nat /\ it \in 1..Len(lines)
      /\ f.cur_char = SizeTo(lines, it - 1) /\ f.cur_char \in Nat
      /\ f.total_chars = SizeTo(lines, Len(lines)) - 1 /\ f.total_chars \in Int
      /\ line = lines[it] /\ line \in Line /\ Len(line) \in Nat
  BY CachedFields
<1>2. \A n \in 1..Len(lines) : n >= 1
  BY <1>1
<1>3. SizeTo(lines, Len(lines)) \in Nat
  <2>1. Len(lines) \in 0..Len(lines)
    BY <1>1
  <2> QED  BY <1>1, <2>1, SizeByStep
<1>4. ASSUME NEW s, s = SizeTo(lines, Len(lines)) + 1
      PROVE  f.total_chars + 1 = s - 1
  BY <1>1, <1>3, <1>4
<1>5. CASE ch # NewLine
  <2> DEFINE other == [lines EXCEPT ![it] = InsertAt(lines[it], k, ch)]
  <2>1. k \in 1..Len(lines[it]) + 1 /\ ch \in Char \ {NewLine}
    BY <1>1, <1>5 DEF InsertPlace
  <2>2. /\ other \in Seq(Line) /\ Len(other) = Len(lines)
        /\ SameUpTo(lines, other, it - 1)
        /\ Gains(lines, other, ch, SizeTo(lines, it - 1) + (k - 1))
    BY <1>1, <2>1, TypedInto
  <2>3. g = Rewritten(f, other, f.total_chars + 1)
    BY <1>1, <1>5, InsertedIs
  <2> HIDE DEF other, g
  <2>4. other # <<>> /\ it <= Len(other) /\ it \in 1..Len(other)
    BY <1>1, <2>2, EmptySeq
  <2>5. SizeTo(other, Len(other)) = SizeTo(lines, Len(lines)) + 1
    BY <1>1, <2>2, <2>4, GainsSize
  <2>6. Cached(g) /\ SizeTo(other, it - 1) = SizeTo(lines, it - 1)
    <3>1. f.total_chars + 1 = SizeTo(other, Len(other)) - 1
      BY <1>4, <2>5
    <3> QED  BY <2>2, <2>3, <2>4, <3>1, RewrittenCached
  <2>7. g.edit_file = other /\ g.total_chars = f.total_chars + 1
    <3>1. f.total_chars + 1 \in Int
      BY <1>1
    <3> QED  BY <1>1, <2>2, <2>3, <3>1, RewrittenFields
  <2>8. Adds(f, g, ch, PlaceIn(f, pos)) /\ StartsAlike(f, g)
    BY <2>2, <2>4, <2>6, <2>7 DEF Adds, PlaceIn, StartsAlike
  <2> QED  BY <2>8 DEF InsertsHere, g
<1>6. CASE ch = NewLine /\ k = 0
  <2> DEFINE other == InsertAt(lines, it, <<>>)
  <2>1. it \in 2..Len(lines)
    BY <1>1, <1>6 DEF InsertPlace
  <2>2. /\ other \in Seq(Line) /\ Len(other) = Len(lines) + 1
        /\ SameUpTo(lines, other, it - 1)
        /\ Gains(lines, other, NewLine, SizeTo(lines, it - 1) - 1)
        /\ SizeTo(other, it) = SizeTo(lines, it - 1) + 1
    BY <1>1, <2>1, BrokenBefore
  <2>3. g = MovedOn(f, other, f.cur_char + 1, f.total_chars + 1)
    BY <1>1, <1>6, InsertedIs
  <2> HIDE DEF other, g
  <2>4. other # <<>> /\ it + 1 <= Len(other) /\ it \in 1..Len(other)
    BY <1>1, <2>2, EmptySeq
  <2>5. SizeTo(other, Len(other)) = SizeTo(lines, Len(lines)) + 1
    BY <1>1, <2>2, <2>4, GainsSize, NewLineAssumption
  <2>6. Cached(g) /\ SizeTo(other, it - 1) = SizeTo(lines, it - 1)
    <3>1. f.total_chars + 1 = SizeTo(other, Len(other)) - 1
      BY <1>4, <2>5
    <3>2. f.cur_char + 1 = SizeTo(other, it)
      BY <1>1, <2>2
    <3> QED  BY <2>2, <2>3, <2>4, <3>1, <3>2, MovedOnCached
  <2>7. g.edit_file = other /\ g.total_chars = f.total_chars + 1
    <3>1. f.total_chars + 1 \in Int /\ f.cur_char + 1 \in Int
      BY <1>1
    <3> QED  BY <1>1, <2>2, <2>3, <3>1, MovedOnFields
  <2>8. PlaceIn(f, pos) = SizeTo(lines, it - 1) - 1
    BY <1>1, <1>6 DEF PlaceIn
  <2>9. Adds(f, g, ch, PlaceIn(f, pos)) /\ StartsAlike(f, g)
    BY <1>6, <2>2, <2>4, <2>6, <2>7, <2>8 DEF Adds, StartsAlike
  <2> QED  BY <2>9 DEF InsertsHere, g
<1>7. CASE ch = NewLine /\ k # 0
  <2> DEFINE head == SubSeq(line, 1, k - 1)
             tail == SubSeq(line, k, Len(line))
             other == InsertAt([lines EXCEPT ![it] = head], it + 1, tail)
             c == f.cur_char + Len(head) + 1
  <2>1. k \in 1..Len(line) + 1
    BY <1>1, <1>7 DEF InsertPlace
  <2>2. /\ head \in Line /\ Len(head) = k - 1 /\ tail \in Line
        /\ line = head \o tail
    <3> DEFINE S == Char \ {NewLine}
    <3>1. Line = Seq(S)
      BY DEF Line
    <3> HIDE DEF line, k, S
    <3>2. Parts(S, line, k, SubSeq(line, 1, k - 1), SubSeq(line, k, Len(line)))
      BY <1>1, <2>1, <3>1, LineInParts
    <3> QED  BY <3>1, <3>2 DEF Parts
  <2>3. g = MovedOn(f, other, c, f.total_chars + 1)
    BY <1>1, <1>7, InsertedIs
  <2> HIDE DEF head, tail
  <2>4. /\ other \in Seq(Line) /\ Len(other) = Len(lines) + 1
        /\ SameUpTo(lines, other, it - 1)
        /\ Gains(lines, other, NewLine, SizeTo(lines, it - 1) + Len(head))
        /\ SizeTo(other, it) = SizeTo(lines, it - 1) + (Len(head) + 1)
    <3>1. lines[it] = head \o tail
      BY <1>1, <2>2
    <3>2. lines \in Seq(Line) /\ it \in 1..Len(lines) /\ head \in Line /\ tail \in Line
      BY <1>1, <2>2
    <3> HIDE DEF lines, it, line
    <3> QED  BY <3>1, <3>2, BrokenInto
  <2>5. c = SizeTo(other, it) /\ c \in Int
    <3>1. Len(head) \in Nat
      BY <2>1, <2>2
    <3> QED  BY <1>1, <2>4, <3>1
  <2> HIDE DEF other, g, c
  <2>6. other # <<>> /\ it + 1 <= Len(other) /\ it \in 1..Len(other)
    BY <1>1, <2>4, EmptySeq
  <2>7. SizeTo(other, Len(other)) = SizeTo(lines, Len(lines)) + 1
    BY <1>1, <2>4, <2>6, GainsSize, NewLineAssumption
  <2>8. Cached(g) /\ SizeTo(other, it - 1) = SizeTo(lines, it - 1)
    <3>1. f.total_chars + 1 = SizeTo(other, Len(other)) - 1
      BY <1>4, <2>7
    <3> QED  BY <2>3, <2>4, <2>5, <2>6, <3>1, MovedOnCached
  <2>9. g.edit_file = other /\ g.total_chars = f.total_chars + 1
    <3>1. f.total_chars + 1 \in Int
      BY <1>1
    <3>2. f \in textOp /\ other \in Seq(Line) /\ c \in Int
      BY <1>1, <2>4, <2>5
    <3> QED  BY <2>3, <3>1, <3>2, MovedOnFields
  <2>10. Adds(f, g, ch, PlaceIn(f, pos)) /\ StartsAlike(f, g)
    BY <1>7, <2>2, <2>4, <2>6, <2>8, <2>9 DEF Adds, PlaceIn, StartsAlike
  <2> QED  BY <2>10 DEF InsertsHere, g
<1> QED  BY <1>5, <1>6, <1>7

\* deleteChar on the cached line, its line break included if there is a next
\* line: read backwards, what goes is inserted.
DeletePlace(f, pos) ==
    /\ pos.offset \in 1..Len(CurLine(f)) + 1
    /\ f.cur_line_it = Len(f.edit_file) => pos.offset # Len(CurLine(f)) + 1

DeletesHere(f, g, pos) ==
    /\ Adds(g, f, DeletedChar(f, pos), PlaceIn(f, pos)) /\ StartsAlike(f, g)
    /\ Cached(g) /\ DeletedChar(f, pos) \in Char

\* deleteChar takes away the character it reports.
LEMMA DeletedRemoves ==
    ASSUME NEW f, Cached(f), NEW pos, DeletePlace(f, pos)
    PROVE  DeletesHere(f, Deleted(f, pos), pos)
<1> DEFINE lines == f.edit_file
           it == f.cur_line_it
           line == CurLine(f)
           k == pos.offset
           ch == DeletedChar(f, pos)
           new == IF k = Len(line) + 1
                  THEN RemoveAt([lines EXCEPT ![it] = line \o lines[it + 1]], it + 1)
                  ELSE [lines EXCEPT ![it] = RemoveAt(line, k)]
           g == Deleted(f, pos)
<1>1. /\ f \in textOp /\ lines \in Seq(Line) /\ lines # <<>>
      /\ Len(lines) \in Nat /\ it \in 1..Len(lines)
      /\ f.total_chars = SizeTo(lines, Len(lines)) - 1 /\ f.total_chars \in Int
      /\ line = lines[it] /\ line \in Line /\ Len(line) \in Nat
  BY CachedFields
<1>2. g = Rewritten(f, new, f.total_chars - 1)
  BY <1>1, DeletedIs
<1>3. /\ new \in Seq(Line) /\ Len(new) \in Nat /\ it <= Len(new)
      /\ SameUpTo(lines, new, it - 1) /\ ch \in Char
      /\ Gains(new, lines, ch, SizeTo(lines, it - 1) + (k - 1))
  <2>1. CASE k = Len(line) + 1
    <3>1. it \in 1..Len(lines) - 1
      BY <1>1, <2>1 DEF DeletePlace
    <3> DEFINE other == RemoveAt([lines EXCEPT ![it] = lines[it] \o lines[it + 1]],
                                 it + 1)
    <3>2. /\ other \in Seq(Line) /\ Len(other) = Len(lines) - 1
          /\ SameUpTo(lines, other, it - 1)
          /\ Gains(other, lines, NewLine, SizeTo(lines, it - 1) + Len(lines[it]))
      BY <1>1, <3>1, JoinedWithNext
    <3>3. new = other
      BY <1>1, <2>1
    <3>4. ch = NewLine
      BY <2>1 DEF DeletedChar
    <3>5. Len(line) = k - 1
      BY <1>1, <2>1
    <3> HIDE DEF other, new, ch, line
    <3>6. Len(new) \in Nat /\ it <= Len(new)
      BY <1>1, <3>1, <3>2, <3>3
    <3> QED  BY <1>1, <3>2, <3>3, <3>4, <3>5, <3>6, NewLineAssumption
  <2>2. CASE k # Len(line) + 1
    <3>1. k \in 1..Len(lines[it])
      BY <1>1, <2>2 DEF DeletePlace
    <3> DEFINE other == [lines EXCEPT ![it] = RemoveAt(lines[it], k)]
    <3>2. /\ other \in Seq(Line) /\ Len(other) = Len(lines)
          /\ SameUpTo(lines, other, it - 1) /\ lines[it][k] \in Char
          /\ Gains(other, lines, lines[it][k], SizeTo(lines, it - 1) + (k - 1))
      BY <1>1, <3>1, DeletedFrom
    <3>3. new = other
      BY <1>1, <2>2
    <3>4. ch = lines[it][k]
      BY <1>1, <2>2 DEF DeletedChar
    <3> HIDE DEF other, new, ch, line
    <3> QED  BY <1>1, <3>2, <3>3, <3>4
  <2> QED  BY <2>1, <2>2
<1> HIDE DEF new, g, ch
<1>4. new # <<>> /\ it \in 1..Len(new)
  BY <1>1, <1>3, EmptySeq
<1>5. /\ SizeTo(lines, Len(lines)) = SizeTo(new, Len(new)) + 1
      /\ SizeTo(new, Len(new)) \in Nat
  <2>1. Len(new) \in 0..Len(new)
    BY <1>3
  <2> QED  BY <1>1, <1>3, <1>4, <2>1, GainsSize, SizeByStep
<1>6. f.total_chars - 1 = SizeTo(new, Len(new)) - 1
  BY <1>1, <1>5
<1>7. Cached(g) /\ SizeTo(new, it - 1) = SizeTo(lines, it - 1)
  BY <1>2, <1>3, <1>4, <1>6, RewrittenCached
<1>8. g.edit_file = new /\ g.total_chars = f.total_chars - 1
  <2>1. f.total_chars - 1 \in Int
    BY <1>1
  <2> QED  BY <1>1, <1>2, <1>3, <2>1, RewrittenFields
<1>9. f.total_chars = g.total_chars + 1
  BY <1>1, <1>8
<1>10. Adds(g, f, ch, PlaceIn(f, pos)) /\ StartsAlike(f, g)
  BY <1>3, <1>4, <1>7, <1>8, <1>9 DEF Adds, PlaceIn, StartsAlike
<1> QED  BY <1>3, <1>7, <1>10 DEF DeletesHere, g, ch

-----------------------------------------------------------------------------
(***************************************************************************)
(* loadFile.                                                               *)
(***************************************************************************)

\* A list of at least one line.
Lists == { lines \in Seq(Line) : lines # <<>> }

\* The lines read so far, with one more character read.
Extended(lines, ch) ==
    IF ch = NewLine THEN Append(lines, <<>>)
    ELSE [lines EXCEPT ![Len(lines)] = Append(lines[Len(lines)], ch)]

\* It is behind the text read so far.
LEMMA ExtendedType ==
    ASSUME NEW lines \in Lists, NEW ch \in Char
    PROVE  /\ Extended(lines, ch) \in Lists
           /\ Flat(Extended(lines, ch)) = Flat(lines) \o <<ch>>
<1> DEFINE N == Len(lines)
           head == lines[N]
           place == SizeTo(lines, N - 1) + Len(head)
           other == Extended(lines, ch)
<1>1. /\ lines \in Seq(Line) /\ lines # <<>> /\ N \in Nat /\ N \in 1..N
      /\ head \in Line /\ head \in Text /\ Len(head) \in Nat
  <2>1. lines \in Seq(Line) /\ lines # <<>>
    BY DEF Lists
  <2>2. N \in Nat /\ N \in 1..N
    BY <2>1, LinesType, EmptySeq
  <2> QED  BY <2>1, <2>2, LinesType
<1>2. <<>> \in Text /\ <<>> \in Line /\ head \o <<>> = head
  BY <1>1, EmptySeq, ConcatEmptySeq DEF Line, Text
<1>3. other \in Lists /\ Gains(lines, other, ch, place)
  <2>1. CASE ch = NewLine
    <3>1. other = Append(lines, <<>>)
      BY <2>1 DEF Extended
    <3>2. /\ other \in Seq(Line) /\ other # <<>> /\ Len(other) = N + 1
          /\ \A n \in 1..N : other[n] = lines[n]
          /\ other[N + 1] = <<>>
      BY <1>1, <1>2, <3>1, AppendProperties
    <3> HIDE DEF N, head, other
    <3>3. LineBroken(lines, other, N, head, <<>>)
      <4>1. \A n \in 1..N - 1 : n \in 1..N
        BY <1>1
      <4>2. N \in 1..Len(lines) /\ Len(other) = Len(lines) + 1
        BY <1>1, <3>2 DEF N
      <4>3. \A n \in N + 1..Len(lines) : FALSE
        BY <1>1 DEF N
      <4>4. lines[N] = head
        BY DEF head
      <4> QED  BY <1>1, <1>2, <3>2, <4>1, <4>2, <4>3, <4>4 DEF LineBroken
    <3>4. Gains(lines, other, NewLine, SizeTo(lines, N - 1) + Len(head))
      BY <1>1, <1>2, <3>2, <3>3, LineBrokenGains
    <3> QED  BY <2>1, <3>2, <3>4 DEF Lists
  <2>2. CASE ch # NewLine
    <3> DEFINE new == Append(head, ch)
    <3>1. other = [lines EXCEPT ![N] = new]
      BY <2>2 DEF Extended
    <3>2. new \in Line /\ new = head \o <<ch>>
      <4> DEFINE S == Char \ {NewLine}
      <4>1. head \in Seq(S) /\ ch \in S
        BY <1>1, <2>2 DEF Line
      <4> HIDE DEF S, head
      <4>2. new \in Seq(S) /\ new = head \o <<ch>>
        BY <4>1, AppendProperties, AppendIsConcat
      <4> QED  BY <4>2 DEF Line, S
    <3> HIDE DEF new, other
    <3>3. /\ other \in Seq(Line) /\ Len(other) = N /\ other[N] = new
          /\ \A n \in 1..N : n # N => other[n] = lines[n]
      BY <1>1, <3>1, <3>2, ExceptSeq
    <3>4. other # <<>>
      BY <1>1, <3>3, EmptySeq
    <3>5. new = (head \o <<ch>>) \o <<>>
      <4>1. new \in Text
        BY <3>2, LinesAreTexts
      <4>2. new \o <<>> = new
        BY <4>1, ConcatEmptySeq DEF Text
      <4> HIDE DEF head
      <4> QED  BY <3>2, <4>2
    <3>6. lines[N] = head
      OBVIOUS
    <3>7. N \in 1..Len(lines) /\ Len(other) = Len(lines)
      BY <1>1, <3>3
    <3>8. \A n \in 1..Len(lines) : n # N => other[n] = lines[n]
      BY <3>3
    <3> HIDE DEF head, N
    <3>9. CharAdded(lines, other, N, head, <<>>, ch)
      BY <1>2, <3>3, <3>5, <3>6, <3>7, <3>8 DEF CharAdded
    <3>10. Gains(lines, other, ch, SizeTo(lines, N - 1) + Len(head))
      BY <1>1, <1>2, <3>3, <3>9, CharAddedGains
    <3> QED  BY <3>3, <3>4, <3>10 DEF Lists
  <2> QED  BY <2>1, <2>2
<1>4. Flat(lines) \in Text /\ Len(Flat(lines)) = SizeTo(lines, N) - 1
  BY <1>1, FlatSize
<1>5. place = Len(Flat(lines))
  <2>1. SizeTo(lines, N) = SizeTo(lines, N - 1) + (Len(head) + 1)
    BY <1>1, SizeByStep DEF Bytes
  <2>2. N - 1 \in 0..Len(lines)
    BY <1>1
  <2>3. SizeTo(lines, N - 1) \in Nat
    BY <1>1, <2>2, SizeByStep
  <2> HIDE DEF N, head
  <2> QED  BY <1>1, <1>4, <2>1, <2>3
<1> HIDE DEF other, place, N
<1>6. PICK a, c \in Text : /\ Len(a) = place /\ Flat(lines) = a \o c
                           /\ Flat(other) = (a \o <<ch>>) \o c
  BY <1>3 DEF Gains
<1>7. c = <<>>
  <2>1. Len(Flat(lines)) = Len(a) + Len(c)
    BY <1>6, TextConcat
  <2>2. Len(a) \in Nat /\ Len(c) \in Nat
    BY LenProperties DEF Text
  <2>3. Len(c) = 0
    BY <1>5, <1>6, <2>1, <2>2
  <2> QED  BY <2>3, EmptySeq DEF Text
<1>8. a = Flat(lines)
  BY <1>6, <1>7, ConcatEmptySeq DEF Text
<1>9. PICK b \in Text : b = a \o <<ch>>
  BY OneChar, TextConcat
<1>10. b \o <<>> = b
  BY ConcatEmptySeq DEF Text
<1>11. Flat(other) = Flat(lines) \o <<ch>>
  BY <1>6, <1>7, <1>8, <1>9, <1>10
<1> QED  BY <1>3, <1>11 DEF other

\* An empty file has one empty line.
LEMMA EmptyList == <<<<>>>> \in Lists /\ Flat(<<<<>>>>) = <<>>
<1> DEFINE lines == <<<<>>>>
<1>1. <<>> \in Line
  BY EmptySeq DEF Line
<1>2. lines \in Seq(Line) /\ Len(lines) = 1 /\ lines[1] = <<>> /\ lines # <<>>
  BY <1>1
<1> HIDE DEF lines
<1>3. PICK flat : Flats(lines, flat)
  BY <1>2, FlatByStep DEF FlatSteps
<1>4. Flat(lines) = <<>>
  BY <1>2, <1>3 DEF Flats
<1> QED  BY <1>2, <1>4 DEF Lists, lines

\* The lines found in a text stand for that text.
LEMMA LinesFlat ==
    ASSUME NEW text \in Text
    PROVE  Lines(text) \in Lists /\ Flat(Lines(text)) = text
<1> DEFINE N == Len(text)
           First == <<<<>>>>
           Eq(f) == f = [n \in 0..N |->
                          IF n = 0 THEN <<<<>>>>
                          ELSE LET before == f[n - 1]
                               IN  IF text[n] = NewLine THEN Append(before, <<>>)
                                   ELSE [before EXCEPT ![Len(before)] = Append(@, text[n])]]
           lines == CHOOSE f : Eq(f)
<1>1. N \in Nat /\ \A n \in 1..N : text[n] \in Char
  BY LenProperties, ElementOfSeq DEF Text
<1>2. PICK f \in [0..N -> Lists] :
        f[0] = First /\ \A n \in 1..N : f[n] = Extended(f[n - 1], text[n])
  <2> DEFINE step == [n \in 1..N |-> [s \in Lists |-> Extended(s, text[n])]]
  <2>1. step \in [1..N -> [Lists -> Lists]]
    BY <1>1, ExtendedType
  <2>2. \A n \in 1..N : \A s \in Lists : step[n][s] = Extended(s, text[n])
    OBVIOUS
  <2>3. First \in Lists
    BY EmptyList
  <2> HIDE DEF step, First, N
  <2>4. PICK f \in [0..N -> Lists] :
            f[0] = First /\ \A n \in 1..N : f[n] = step[n][f[n - 1]]
    <3>1. Recursive(Lists, First, N, step)
      BY <1>1, <2>1, <2>3, Recursion
    <3> QED  BY <3>1 DEF Recursive
  <2>5. \A n \in 1..N : f[n - 1] \in Lists
    <3>1. \A n \in 1..N : n - 1 \in 0..N
      BY <1>1
    <3> QED  BY <2>4, <3>1
  <2>6. \A n \in 1..N : f[n] = Extended(f[n - 1], text[n])
    BY <2>2, <2>4, <2>5
  <2> QED  BY <2>4, <2>6 DEF N, First
<1>3. Eq(lines)
  <2>1. Eq(f)
    <3> HIDE DEF N
    <3>1. f = [n \in 0..N |-> f[n]] /\ \A n \in 0..N : n = 0 \/ n \in 1..N
      BY <1>1
    <3>2. ASSUME NEW n \in 0..N
          PROVE  f[n] = IF n = 0 THEN First ELSE Extended(f[n - 1], text[n])
      <4> HIDE DEF First
      <4>1. CASE n = 0
        <5>1. f[0] = First
          BY <1>2 DEF N, First
        <5> QED  BY <4>1, <5>1
      <4>2. CASE n # 0
        <5>1. n \in 1..N
          BY <3>1, <4>2
        <5>2. f[n] = Extended(f[n - 1], text[n])
          BY <1>2, <5>1 DEF N, First
        <5> QED  BY <4>2, <5>2
      <4> QED  BY <4>1, <4>2
    <3>3. f = [n \in 0..N |-> IF n = 0 THEN First ELSE Extended(f[n - 1], text[n])]
      BY <3>1, <3>2, Zenon
    <3> QED  BY <3>3 DEF Extended
  <2> HIDE DEF Eq
  <2> QED  BY <2>1
<1>4. lines = [n \in 0..N |-> IF n = 0 THEN First
                              ELSE Extended(lines[n - 1], text[n])]
  BY <1>3 DEF Extended
<1>5. Lines(text) = lines[N]
  BY DEF Lines
<1> HIDE DEF lines, Eq, N, First
<1>6. lines[0] = First /\ \A n \in 1..N : lines[n] = Extended(lines[n - 1], text[n])
  <2>1. 0 \in 0..N /\ \A n \in 1..N : n \in 0..N /\ n # 0
    BY <1>1
  <2> QED  BY <1>4, <2>1
<1> DEFINE T == { k \in Nat : k <= N => /\ lines[k] \in Lists
                                        /\ Flat(lines[k]) = SubSeq(text, 1, k) }
<1>7. 0 \in T
  <2>1. SubSeq(text, 1, 0) = <<>>
    BY SubSeqEmpty
  <2> QED  BY <1>6, <2>1, EmptyList DEF First
<1>8. ASSUME NEW k \in Nat, k \in T, k + 1 <= N
      PROVE  /\ lines[k + 1] \in Lists
             /\ Flat(lines[k + 1]) = SubSeq(text, 1, k + 1)
  <2> DEFINE n == k + 1
  <2>1. n \in 1..N /\ n - 1 = k /\ k <= N /\ 1 \in 1..N /\ n \in 1..N
    BY <1>1, <1>8
  <2>2. lines[k] \in Lists /\ Flat(lines[k]) = SubSeq(text, 1, k)
    BY <1>8, <2>1
  <2> HIDE DEF n
  <2>3. lines[n] = Extended(lines[k], text[n]) /\ text[n] \in Char
    BY <1>1, <1>6, <2>1
  <2>4. lines[n] \in Lists /\ Flat(lines[n]) = SubSeq(text, 1, k) \o <<text[n]>>
    BY <2>2, <2>3, ExtendedType
  <2>5. SubSeq(text, 1, n) = SubSeq(text, 1, n - 1) \o <<text[n]>>
    <3>1. 1 \in 1..Len(text) /\ n \in 1..Len(text)
      BY <2>1 DEF N
    <3> QED  BY <3>1, SubSeqRecursiveSecond DEF Text
  <2> QED  BY <2>1, <2>4, <2>5 DEF n
<1>9. \A k \in Nat : k \in T => k + 1 \in T
  BY <1>8
<1> HIDE DEF T
<1>10. \A k \in Nat : k \in T
  BY <1>7, <1>9, SetInduction
<1>11. lines[N] \in Lists /\ Flat(lines[N]) = SubSeq(text, 1, N)
  BY <1>1, <1>10 DEF T
<1>12. SubSeq(text, 1, N) = text
  BY SubSeqFull DEF N, Text
<1> QED  BY <1>5, <1>11, <1>12

\* loadFile caches the first line.
LEMMA LoadedCached ==
    ASSUME NEW text \in Text
    PROVE  /\ Cached(Loaded(text)) /\ Loaded(text).total_chars = Len(text)
           /\ Flat(Loaded(text).edit_file) = text
<1> DEFINE f == Loaded(text)
           lines == Lines(text)
<1>1. lines \in Seq(Line) /\ lines # <<>> /\ Flat(lines) = text
  BY LinesFlat DEF Lists
<1>2. Len(text) \in Nat
  BY LenProperties DEF Text
<1> HIDE DEF lines
<1>3. /\ f \in textOp /\ f.edit_file = lines /\ f.cur_line_it = 1
      /\ f.cur_line_no = 1 /\ f.cur_char = 0 /\ f.total_chars = Len(text)
  BY <1>1, <1>2 DEF Loaded, textOp, lines
<1> HIDE DEF f
<1>4. 1 \in 1..Len(lines) /\ Len(lines) \in Nat
  BY <1>1, LinesType, EmptySeq
<1>5. SizeTo(lines, 1 - 1) = 0
  BY <1>1, SizeByStep
<1>6. Len(text) = SizeTo(lines, Len(lines)) - 1
  BY <1>1, FlatSize
<1>7. Cached(f)
  BY <1>3, <1>4, <1>5, <1>6 DEF Cached, Walkable
<1> QED  BY <1>1, <1>3, <1>7 DEF f

-----------------------------------------------------------------------------
(***************************************************************************)
(* The calls.                                                              *)
(***************************************************************************)

Position == [lineno : Int, offset : Int]

\* The place a position stands for in the file.
PlaceOf(f, pos) == SizeTo(f.edit_file, pos.lineno - 1) + (pos.offset - 1)

\* A call that changes nothing but the cache.
Quiet ==
    /\ Cached(file') /\ SameText(file, file') /\ done' = Nothing
    /\ defined' = defined \/ defined' = FALSE

\* A call that inserts or deletes a character and reports where.
Inserting(ch, offset, pos) ==
    /\ Adds(file, file', ch, PlaceOf(file', pos)) /\ Room
    /\ done' = Report(CH_INSERT, ch, offset, pos)

Deleting(ch, offset, pos) ==
    /\ Adds(file', file, ch, PlaceOf(file', pos))
    /\ done' = Report(CH_DELETE, ch, offset, pos)

Edited ==
    \E ch \in Char, offset \in Int, pos \in Position :
        /\ Cached(file') /\ defined' = defined
        /\ offset \in {NoOffset, PlaceOf(file', pos)}
        /\ Inserting(ch, offset, pos) \/ Deleting(ch, offset, pos)

\* A call that is refused, or undefined, leaves the text alone.
LEMMA RefusedStep ==
    ASSUME NEW at, Cached(at), SameText(file, at), Refuse(at) \/ Undefined(at)
    PROVE  Quiet
BY DEF Refuse, Undefined, Quiet

\* The position names the cached line, and the offset, if there is one, the
\* position.
Addressed(at, pos, offset) ==
    /\ Cached(file) /\ Cached(at) /\ SameText(file, at)
    /\ pos \in Position /\ pos.lineno = at.cur_line_no
    /\ offset \in Int /\ offset \in {NoOffset, PlaceIn(at, pos)}

\* A call that inserts reports the place where it inserts ...
LEMMA InsertedStep ==
    ASSUME NEW at, NEW pos, NEW offset, Addressed(at, pos, offset),
           NEW ch \in Char, InsertPlace(at, pos, ch), Room,
           InsertAtPos(at, pos, ch, offset)
    PROVE  Edited
<1>1. /\ Cached(at) /\ SameText(file, at) /\ pos \in Position
      /\ pos.lineno = at.cur_line_it
      /\ offset \in Int /\ offset \in {NoOffset, PlaceIn(at, pos)}
  BY DEF Addressed, Cached
<1>2. /\ file' = Inserted(at, pos, ch) /\ defined' = defined
      /\ done' = Report(CH_INSERT, ch, offset, pos)
  BY DEF InsertAtPos
<1>3. Adds(at, file', ch, PlaceIn(at, pos)) /\ StartsAlike(at, file')
  BY <1>1, <1>2, InsertedAdds DEF InsertsHere
<1>4. PlaceIn(at, pos) = PlaceOf(file', pos)
  BY <1>1, <1>3 DEF PlaceIn, PlaceOf, StartsAlike
<1>5. Adds(file, file', ch, PlaceOf(file', pos)) /\ Cached(file')
  BY <1>1, <1>3, <1>4 DEF Adds, SameText
<1>6. Inserting(ch, offset, pos)
  BY <1>2, <1>5 DEF Inserting
<1> QED  BY <1>1, <1>2, <1>4, <1>5, <1>6 DEF Edited

\* ... and one that deletes the place where it deletes, and what was there.
LEMMA DeletedStep ==
    ASSUME NEW at, NEW pos, NEW offset, Addressed(at, pos, offset),
           DeletePlace(at, pos), DeleteAt(at, pos, offset)
    PROVE  Edited
<1> DEFINE ch == DeletedChar(at, pos)
<1>1. /\ Cached(file) /\ Cached(at) /\ SameText(file, at) /\ pos \in Position
      /\ pos.lineno = at.cur_line_it
      /\ offset \in Int /\ offset \in {NoOffset, PlaceIn(at, pos)}
  BY DEF Addressed, Cached
<1>2. /\ file' = Deleted(at, pos) /\ defined' = defined
      /\ done' = Report(CH_DELETE, ch, offset, pos)
  BY DEF DeleteAt
<1>3. /\ Adds(file', at, ch, PlaceIn(at, pos)) /\ StartsAlike(at, file')
      /\ Cached(file') /\ ch \in Char
  BY <1>1, <1>2, DeletedRemoves DEF DeletesHere
<1> HIDE DEF ch
<1>4. PlaceIn(at, pos) = PlaceOf(file', pos)
  BY <1>1, <1>3 DEF PlaceIn, PlaceOf, StartsAlike
<1>5. Adds(file', file, ch, PlaceOf(file', pos))
  BY <1>1, <1>3, <1>4 DEF Adds, SameText
<1>6. Deleting(ch, offset, pos)
  BY <1>2, <1>5 DEF Deleting
<1> QED  BY <1>1, <1>2, <1>3, <1>4, <1>6 DEF Edited

\* What translatePos returns: an offset of the line, or the error value.
LEMMA PosTranslated ==
    ASSUME NEW f, Cached(f), NEW pos \in Position,
           translatePos(f, pos) # NoOffset
    PROVE  LET at == locateLine(f, pos.lineno)
           IN  /\ ~IsEnd(f, pos.lineno)
               /\ pos.offset \in 0..Len(CurLine(at)) + 1
               /\ translatePos(f, pos) = PlaceIn(at, pos)
               /\ translatePos(f, pos) \in Int
               /\ at.cur_line_it = 1 => pos.offset # 0
<1> DEFINE at == locateLine(f, pos.lineno)
<1>1. /\ ~IsEnd(f, pos.lineno)
      /\ pos.offset \in 0..Len(CurLine(at)) + 1
      /\ translatePos(f, pos) = at.cur_char + pos.offset - 1
  BY DEF translatePos
<1>2. pos.lineno \in Int /\ pos.offset \in Int
  BY DEF Position
<1>3. Cached(at)
  BY <1>2, LineLocated DEF Locates
<1> HIDE DEF at
<1>4. /\ at.edit_file \in Seq(Line) /\ at.cur_line_it \in 1..Len(at.edit_file)
      /\ at.cur_char = SizeTo(at.edit_file, at.cur_line_it - 1)
      /\ at.cur_char \in Nat
  BY <1>3, CachedFields
<1>5. translatePos(f, pos) = PlaceIn(at, pos) /\ translatePos(f, pos) \in Int
  BY <1>1, <1>2, <1>4 DEF PlaceIn
<1>6. ASSUME at.cur_line_it = 1, pos.offset = 0
      PROVE  FALSE
  <2>1. SizeTo(at.edit_file, 0) = 0 /\ at.cur_line_it - 1 = 0
    BY <1>4, <1>6, SizeByStep
  <2>2. at.cur_char = 0
    BY <1>4, <2>1
  <2>3. translatePos(f, pos) = -1
    BY <1>1, <1>6, <2>2
  <2> QED  BY <2>3 DEF NoOffset
<1> QED  BY <1>1, <1>5, <1>6 DEF at

\* The line of a position in the file is found.
LEMMA Found ==
    ASSUME Cached(file), NEW f, Cached(f), SameText(file, f),
           NEW pos \in Position
    PROVE  LET at == locateLine(f, pos.lineno)
           IN  /\ Cached(at) /\ SameText(file, at)
               /\ ~IsEnd(f, pos.lineno) => at.cur_line_no = pos.lineno
<1>1. pos.lineno \in Int
  BY DEF Position
<1>2. Locates(f, locateLine(f, pos.lineno), pos.lineno)
  BY <1>1, LineLocated
<1> QED  BY <1>2 DEF Locates, SameText

\* deleteChar with off, ...
LEMMA DeleteCharStep ==
    ASSUME Cached(file), NEW pos \in Position, DeleteChar(pos)
    PROVE  Quiet \/ Edited
<1> DEFINE offset == translatePos(file, pos)
           at == locateLine(file, pos.lineno)
<1>1. /\ Cached(at) /\ SameText(file, at)
      /\ ~IsEnd(file, pos.lineno) => at.cur_line_no = pos.lineno
  <2>1. SameText(file, file)
    BY DEF SameText
  <2> QED  BY <2>1, Found
<1>2. CASE offset \in {NoOffset, file.total_chars} \/ pos.offset = 0
  BY <1>1, <1>2, RefusedStep DEF DeleteChar
<1>3. CASE offset \notin {NoOffset, file.total_chars} /\ pos.offset # 0
  <2>1. DeleteAt(at, pos, offset)
    BY <1>3 DEF DeleteChar
  <2>2. /\ ~IsEnd(file, pos.lineno)
        /\ pos.offset \in 0..Len(CurLine(at)) + 1
        /\ offset = PlaceIn(at, pos) /\ offset \in Int
    BY <1>3, PosTranslated
  <2> HIDE DEF offset, at
  <2>3. Addressed(at, pos, offset)
    BY <1>1, <2>2 DEF Addressed
  <2>4. DeletePlace(at, pos)
    <3>1. /\ Len(CurLine(at)) \in Nat /\ Walkable(at)
      BY <1>1, CachedFields DEF Cached
    <3>2. pos.offset \in 1..Len(CurLine(at)) + 1
      BY <1>3, <2>2, <3>1
    <3>3. ASSUME at.cur_line_it = Len(at.edit_file),
                 pos.offset = Len(CurLine(at)) + 1
          PROVE  FALSE
      <4>1. /\ at.cur_char \in Nat
            /\ at.cur_char = SizeTo(at.edit_file, at.cur_line_it - 1)
            /\ at.cur_char + Len(CurLine(at)) = SizeTo(at.edit_file, at.cur_line_it) - 1
        BY <1>1, <3>1, WalkableSizes, CachedFields
      <4>2. at.total_chars = SizeTo(at.edit_file, at.cur_line_it) - 1
        BY <1>1, <3>3, CachedFields
      <4>3. offset = at.cur_char + Len(CurLine(at))
        BY <2>2, <3>1, <3>3, <4>1 DEF PlaceIn
      <4>4. offset = file.total_chars
        BY <1>1, <4>1, <4>2, <4>3 DEF SameText
      <4> QED  BY <1>3, <4>4
    <3> QED  BY <3>2, <3>3 DEF DeletePlace
  <2>5. Edited
    BY <2>1, <2>3, <2>4, DeletedStep
  <2> QED  BY <2>5
<1> QED  BY <1>2, <1>3

\* ... insertChar with off, ...
LEMMA InsertCharStep ==
    ASSUME Cached(file), NEW pos \in Position, NEW ch \in Char, Room,
           InsertChar(pos, ch)
    PROVE  Quiet \/ Edited
<1> DEFINE offset == translatePos(file, pos)
           at == locateLine(file, pos.lineno)
<1>1. /\ Cached(at) /\ SameText(file, at)
      /\ ~IsEnd(file, pos.lineno) => at.cur_line_no = pos.lineno
  <2>1. SameText(file, file)
    BY DEF SameText
  <2> QED  BY <2>1, Found
<1>2. CASE offset = NoOffset \/ (pos.offset = 0 /\ ch # NewLine)
  BY <1>1, <1>2, RefusedStep DEF InsertChar
<1>3. CASE offset # NoOffset /\ ~(pos.offset = 0 /\ ch # NewLine)
  <2>1. InsertAtPos(at, pos, ch, offset)
    BY <1>3 DEF InsertChar
  <2>2. /\ ~IsEnd(file, pos.lineno)
        /\ pos.offset \in 0..Len(CurLine(at)) + 1
        /\ offset = PlaceIn(at, pos) /\ offset \in Int
        /\ at.cur_line_it = 1 => pos.offset # 0
    BY <1>3, PosTranslated
  <2> HIDE DEF offset, at
  <2>3. Addressed(at, pos, offset)
    BY <1>1, <2>2 DEF Addressed
  <2>4. InsertPlace(at, pos, ch)
    <3>1. Len(CurLine(at)) \in Nat
      BY <1>1, CachedFields
    <3> QED  BY <1>3, <2>2, <3>1 DEF InsertPlace
  <2>5. Edited
    BY <2>1, <2>3, <2>4, InsertedStep
  <2> QED  BY <2>5
<1> QED  BY <1>2, <1>3

\* Without off, for an operation at an offset or none.
MayReport(f, pos, offset) ==
    /\ offset \in Int
    /\ ~IsEnd(f, pos.lineno) =>
        offset \in {NoOffset, PlaceIn(locateLine(f, pos.lineno), pos)}

\* ... deleteChar without it ...
LEMMA DeleteOnLineStep ==
    ASSUME Cached(file), NEW f, Cached(f), SameText(file, f),
           NEW pos \in Position, NEW offset, MayReport(f, pos, offset),
           DeleteOnLine(f, pos, offset)
    PROVE  Quiet \/ Edited
<1> DEFINE at == locateLine(f, pos.lineno)
<1>1. /\ Cached(at) /\ SameText(file, at)
      /\ ~IsEnd(f, pos.lineno) => at.cur_line_no = pos.lineno
  BY Found
<1>2. CASE IsEnd(f, pos.lineno)
  BY <1>2, RefusedStep DEF DeleteOnLine
<1>3. CASE ~IsEnd(f, pos.lineno) /\ (~OnLine(at, pos) \/ AtEnd(at, pos))
  BY <1>1, <1>3, RefusedStep DEF DeleteOnLine
<1>4. CASE ~IsEnd(f, pos.lineno) /\ OnLine(at, pos) /\ ~AtEnd(at, pos)
  <2>1. DeleteAt(at, pos, offset)
    BY <1>4 DEF DeleteOnLine
  <2>2. Addressed(at, pos, offset)
    BY <1>1, <1>4 DEF Addressed, MayReport
  <2> HIDE DEF at
  <2>3. DeletePlace(at, pos)
    BY <1>1, <1>4 DEF DeletePlace, OnLine, AtEnd, Cached
  <2> QED  BY <2>1, <2>2, <2>3, DeletedStep
<1> QED  BY <1>2, <1>3, <1>4

\* ... and insertChar without it.
LEMMA InsertOnLineStep ==
    ASSUME Cached(file), NEW f, Cached(f), SameText(file, f),
           NEW pos \in Position, NEW offset, MayReport(f, pos, offset),
           NEW ch \in Char, Room, InsertOnLine(f, pos, ch, offset)
    PROVE  Quiet \/ Edited
<1> DEFINE at == locateLine(f, pos.lineno)
<1>1. /\ Cached(at) /\ SameText(file, at)
      /\ ~IsEnd(f, pos.lineno) => at.cur_line_no = pos.lineno
  BY Found
<1>2. CASE IsEnd(f, pos.lineno)
  BY <1>2, RefusedStep DEF InsertOnLine
<1>3. CASE ~IsEnd(f, pos.lineno) /\ ~OnLine(at, pos)
  BY <1>1, <1>3, RefusedStep DEF InsertOnLine
<1>4. CASE ~IsEnd(f, pos.lineno) /\ OnLine(at, pos)
  <2>1. InsertAtPos(at, pos, ch, offset)
    BY <1>4 DEF InsertOnLine
  <2>2. Addressed(at, pos, offset)
    BY <1>1, <1>4 DEF Addressed, MayReport
  <2> HIDE DEF at
  <2>3. InsertPlace(at, pos, ch)
    BY <1>4 DEF InsertPlace, OnLine
  <2> QED  BY <2>1, <2>2, <2>3, InsertedStep
<1> QED  BY <1>2, <1>3, <1>4

\* The position translateOffset finds stands for the offset it was given.
LEMMA OffsetReports ==
    ASSUME Cached(file), NEW offset \in Nat,
           translateOffset(file, offset) # NoPos
    PROVE  LET f == LocateOffset(file, offset)
               pos == translateOffset(file, offset)
           IN  /\ Cached(f) /\ SameText(file, f) /\ pos \in Position
               /\ MayReport(f, pos, offset)
<1> DEFINE f == LocateOffset(file, offset)
           pos == translateOffset(file, offset)
<1>1. Cached(f) /\ SameText(file, f)
  BY LocateOffsetFinds DEF OffsetLocated
<1>2. pos = [lineno |-> f.cur_line_no, offset |-> offset - f.cur_char + 1]
  BY DEF translateOffset
<1>3. offset \in Int
  OBVIOUS
<1> HIDE DEF f, pos
<1>4. /\ f.cur_line_no \in Int /\ f.cur_char \in Nat
      /\ f.cur_char = SizeTo(f.edit_file, f.cur_line_it - 1)
  BY <1>1, CachedFields
<1>5. pos \in Position /\ pos.lineno = f.cur_line_no
  BY <1>2, <1>3, <1>4 DEF Position
<1>6. locateLine(f, pos.lineno) = f
  BY <1>4, <1>5 DEF locateLine
<1>7. PlaceIn(f, pos) = offset
  BY <1>2, <1>3, <1>4 DEF PlaceIn
<1>8. MayReport(f, pos, offset)
  BY <1>3, <1>6, <1>7 DEF MayReport
<1> QED  BY <1>1, <1>5, <1>8 DEF f, pos

-----------------------------------------------------------------------------
(***************************************************************************)
(* The invariant and the theorems.                                         *)
(***************************************************************************)

\* The last call's report, if there is one, holds of the file.
ReportHolds ==
    \E op \in {CH_DELETE, CH_INSERT}, ch \in Char, offset \in Int,
       pos \in Position :
        /\ done = Report(op, ch, offset, pos)
        /\ offset \in {NoOffset, PlaceOf(file, pos)}
        /\ PlaceOf(file, pos) \in 0..MaxChars

\* The inductive invariant.
BufferInv ==
    /\ Cached(file) /\ file.total_chars \in 0..MaxChars
    /\ defined \in BOOLEAN
    /\ done = Nothing \/ ReportHolds

\* Every call edits the text by one character or leaves it alone.
LEMMA StepIs ==
    ASSUME Cached(file), Next
    PROVE  Quiet \/ Edited
<1>0. SameText(file, file)
  BY DEF SameText
<1>1. ASSUME NEW pos \in Positions
      PROVE  pos \in Position /\ MayReport(file, pos, NoOffset)
  BY DEF Positions, Position, MayReport, NoOffset
<1>2. ASSUME NEW pos \in Positions, DeleteChar(pos)
      PROVE  Quiet \/ Edited
  BY <1>1, <1>2, DeleteCharStep
<1>3. ASSUME NEW pos \in Positions, DeleteOnLine(file, pos, NoOffset)
      PROVE  Quiet \/ Edited
  BY <1>0, <1>1, <1>3, DeleteOnLineStep
<1>4. ASSUME NEW pos \in Positions, ShowOffset(pos)
      PROVE  Quiet \/ Edited
  BY <1>0, <1>1, <1>4, Found, RefusedStep DEF ShowOffset
<1>5. ASSUME NEW pos \in Positions, NEW ch \in Char, Room, InsertChar(pos, ch)
      PROVE  Quiet \/ Edited
  BY <1>1, <1>5, InsertCharStep
<1>6. ASSUME NEW pos \in Positions, NEW ch \in Char, Room,
             InsertOnLine(file, pos, ch, NoOffset)
      PROVE  Quiet \/ Edited
  BY <1>0, <1>1, <1>6, InsertOnLineStep
<1>7. ASSUME NEW offset \in Offsets, DeleteCharAt(offset)
      PROVE  Quiet \/ Edited
  <2>1. offset \in Nat
    BY MaxCharsAssumption DEF Offsets
  <2> DEFINE f == LocateOffset(file, offset)
             pos == translateOffset(file, offset)
  <2>2. CASE pos = NoPos
    BY <1>0, <1>7, <2>2, RefusedStep DEF DeleteCharAt
  <2>3. CASE pos # NoPos
    <3>1. DeleteOnLine(f, pos, offset)
      BY <1>7, <2>3 DEF DeleteCharAt
    <3>2. /\ Cached(f) /\ SameText(file, f) /\ pos \in Position
          /\ MayReport(f, pos, offset)
      BY <2>1, <2>3, OffsetReports
    <3> HIDE DEF f, pos
    <3> QED  BY <3>1, <3>2, DeleteOnLineStep
  <2> QED  BY <2>2, <2>3
<1>8. ASSUME NEW offset \in Offsets, GoToOffset(offset)
      PROVE  Quiet \/ Edited
  <2>1. offset \in Nat
    BY MaxCharsAssumption DEF Offsets
  <2>2. Cached(LocateOffset(file, offset)) /\ SameText(file, LocateOffset(file, offset))
    BY <2>1, LocateOffsetFinds DEF OffsetLocated
  <2> QED  BY <1>8, <2>2, RefusedStep DEF GoToOffset
<1>9. ASSUME NEW offset \in Offsets, NEW ch \in Char, Room,
             InsertCharAt(offset, ch)
      PROVE  Quiet \/ Edited
  <2>1. offset \in Nat
    BY MaxCharsAssumption DEF Offsets
  <2> DEFINE f == LocateOffset(file, offset)
             pos == translateOffset(file, offset)
  <2>2. CASE pos = NoPos
    BY <1>0, <1>9, <2>2, RefusedStep DEF InsertCharAt
  <2>3. CASE pos # NoPos
    <3>1. InsertOnLine(f, pos, ch, offset)
      BY <1>9, <2>3 DEF InsertCharAt
    <3>2. /\ Cached(f) /\ SameText(file, f) /\ pos \in Position
          /\ MayReport(f, pos, offset)
      BY <2>1, <2>3, OffsetReports
    <3> HIDE DEF f, pos
    <3> QED  BY <1>9, <3>1, <3>2, InsertOnLineStep
  <2> QED  BY <2>2, <2>3
<1>10. ASSUME NEW no \in 0..Len(file.edit_file) + 1, Draw(no)
       PROVE  Quiet \/ Edited
  <2>1. no \in Int
    OBVIOUS
  <2>2. Cached(locateLine(file, no)) /\ SameText(file, locateLine(file, no))
    BY <2>1, LineLocated DEF Locates
  <2> QED  BY <1>10, <2>2, RefusedStep DEF Draw
<1> QED
  BY <1>2, <1>3, <1>4, <1>5, <1>6, <1>7, <1>8, <1>9, <1>10 DEF Next

\* A call that adds a character has room for it, one that removes one found
\* it there, and the place is in the text.
LEMMA AddsBounds ==
    ASSUME NEW f, Cached(f), NEW g, NEW ch \in Char, NEW place,
           Adds(f, g, ch, place)
    PROVE  /\ f.total_chars \in Nat /\ g.total_chars = f.total_chars + 1
           /\ place \in 0..f.total_chars
<1>1. /\ Cached(g) /\ g.total_chars = f.total_chars + 1
      /\ Gains(f.edit_file, g.edit_file, ch, place)
  BY DEF Adds
<1>2. /\ f.edit_file \in Seq(Line) /\ f.edit_file # <<>>
      /\ g.edit_file \in Seq(Line) /\ g.edit_file # <<>>
      /\ f.total_chars = SizeTo(f.edit_file, Len(f.edit_file)) - 1
      /\ f.total_chars \in Int
  BY <1>1, CachedFields
<1>3. place \in 0..SizeTo(f.edit_file, Len(f.edit_file)) - 1
  BY <1>1, <1>2, GainsSize
<1>4. place \in 0..f.total_chars
  BY <1>2, <1>3
<1> QED  BY <1>1, <1>2, <1>4

\* The calls keep the invariant.
LEMMA BufferInvInductive == Spec => []BufferInv
<1>1. Init => BufferInv
  <2> SUFFICES ASSUME Init
               PROVE  BufferInv
    OBVIOUS
  <2>1. PICK text \in Texts : file = Loaded(text)
    BY DEF Init
  <2>2. text \in Text /\ Len(text) \in 0..MaxChars
    <3>1. PICK n \in 0..MaxChars : text \in [1..n -> Char]
      BY DEF Texts
    <3>2. n \in Nat
      BY MaxCharsAssumption
    <3> QED  BY <3>1, <3>2 DEF Text
  <2> QED  BY <2>1, <2>2, LoadedCached DEF Init, BufferInv
<1>2. BufferInv /\ [Next]_vars => BufferInv'
  <2> SUFFICES ASSUME BufferInv, [Next]_vars
               PROVE  BufferInv'
    OBVIOUS
  <2>1. /\ Cached(file) /\ file.total_chars \in 0..MaxChars
        /\ defined \in BOOLEAN /\ MaxChars \in Nat
    BY MaxCharsAssumption DEF BufferInv
  <2>2. CASE UNCHANGED vars
    BY <2>2 DEF vars, BufferInv, ReportHolds
  <2>3. CASE Quiet
    BY <2>1, <2>3 DEF Quiet, BufferInv, SameText
  <2>4. CASE Edited
    <3>1. PICK ch \in Char, offset \in Int, pos \in Position :
            /\ Cached(file') /\ defined' = defined
            /\ offset \in {NoOffset, PlaceOf(file', pos)}
            /\ Inserting(ch, offset, pos) \/ Deleting(ch, offset, pos)
      BY <2>4 DEF Edited
    <3>2. /\ file'.total_chars \in 0..MaxChars
          /\ PlaceOf(file', pos) \in 0..MaxChars
          /\ \E op \in {CH_DELETE, CH_INSERT} : done' = Report(op, ch, offset, pos)
      <4>1. CASE Inserting(ch, offset, pos)
        <5>1. /\ file'.total_chars = file.total_chars + 1
              /\ PlaceOf(file', pos) \in 0..file.total_chars
          BY <2>1, <4>1, AddsBounds DEF Inserting
        <5>2. file.total_chars < MaxChars
          BY <4>1 DEF Inserting, Room
        <5> QED  BY <2>1, <4>1, <5>1, <5>2 DEF Inserting
      <4>2. CASE Deleting(ch, offset, pos)
        <5>1. /\ file'.total_chars \in Nat
              /\ file.total_chars = file'.total_chars + 1
              /\ PlaceOf(file', pos) \in 0..file'.total_chars
          BY <3>1, <4>2, AddsBounds DEF Deleting
        <5> QED  BY <2>1, <4>2, <5>1 DEF Deleting
      <4> QED  BY <3>1, <4>1, <4>2
    <3>3. ReportHolds'
      BY <3>1, <3>2 DEF ReportHolds
    <3> QED  BY <2>1, <3>1, <3>2, <3>3 DEF BufferInv
  <2> QED  BY <2>1, <2>2, <2>3, <2>4, StepIs
<1> QED  BY <1>1, <1>2, PTL DEF Spec

\* Type correctness: the iterator never leaves the list, and neither counter
\* of textOp falls below 0.
THEOREM BufferTypeOK == Spec => []TypeOK
<1>1. BufferInv => TypeOK
  <2> SUFFICES ASSUME BufferInv
               PROVE  TypeOK
    OBVIOUS
  <2>1. /\ file.edit_file \in Seq(Line)
        /\ file.cur_line_it \in 1..Len(file.edit_file)
        /\ file.cur_line_no = file.cur_line_it /\ file.cur_char \in Nat
        /\ Len(file.edit_file) \in Nat /\ file \in textOp
    BY CachedFields DEF BufferInv
  <2>2. file.cur_line_no \in Nat /\ file.modified \in BOOLEAN
    BY <2>1 DEF textOp
  <2>3. done = Nothing \/ /\ done.operation \in {CH_DELETE, CH_INSERT}
                          /\ done.data \in Char
                          /\ done.char_offset \in {NoOffset} \cup 0..MaxChars
    BY DEF BufferInv, ReportHolds, Report
  <2> QED  BY <2>1, <2>2, <2>3 DEF TypeOK, BufferInv
<1> QED  BY <1>1, BufferInvInductive, PTL

\* Whatever was inserted, joined or split, cur_line_it, cur_line_no and cur_char
\* belong together and total_chars is the size of the file, which is what
\* locateLine relies on (text.cpp:117-171).
THEOREM BufferCacheMatches == Spec => []CacheMatches
<1>1. BufferInv => CacheMatches
  <2> SUFFICES ASSUME BufferInv
               PROVE  CacheMatches
    OBVIOUS
  <2>1. /\ file.edit_file \in Seq(Line) /\ file.edit_file # <<>>
        /\ file.cur_line_no = file.cur_line_it
        /\ file.cur_char = SizeTo(file.edit_file, file.cur_line_it - 1)
        /\ file.total_chars = SizeTo(file.edit_file, Len(file.edit_file)) - 1
    BY CachedFields DEF BufferInv
  <2>2. file.total_chars = Len(Flat(file.edit_file))
    BY <2>1, FlatSize
  <2> QED  BY <2>1, <2>2 DEF CacheMatches, Start, SizeTo
<1> QED  BY <1>1, BufferInvInductive, PTL

\* From every cached line, translateOffset finds the position of every offset
\* (text.cpp:188-223).
THEOREM BufferOffsetsFound == Spec => []OffsetsFound
<1>1. BufferInv => OffsetsFound
  <2> SUFFICES ASSUME BufferInv, NEW offset \in 0..file.total_chars
               PROVE  LET pos == translateOffset(file, offset)
                      IN  /\ pos.lineno \in 1..Len(file.edit_file)
                          /\ pos.offset \in 1..Len(file.edit_file[pos.lineno]) + 1
                          /\ Start(pos.lineno) + pos.offset - 1 = offset
    BY DEF OffsetsFound
  <2> DEFINE g == LocateOffset(file, offset)
             pos == translateOffset(file, offset)
  <2>1. /\ Cached(file) /\ file.total_chars \in Nat /\ offset \in Nat
        /\ offset <= file.total_chars
    BY MaxCharsAssumption DEF BufferInv
  <2>2. Cached(g) /\ SameText(file, g) /\ Reaches(g, offset)
    BY <2>1, LocateOffsetFinds DEF OffsetLocated
  <2>3. pos = [lineno |-> g.cur_line_no, offset |-> offset - g.cur_char + 1]
    BY <2>1 DEF translateOffset
  <2> HIDE DEF g, pos
  <2>4. /\ g.edit_file = file.edit_file
        /\ g.cur_line_it \in 1..Len(file.edit_file)
        /\ g.cur_line_no = g.cur_line_it /\ g.cur_char \in Nat
        /\ g.cur_char = SizeTo(file.edit_file, g.cur_line_it - 1)
        /\ CurLine(g) = file.edit_file[g.cur_line_it] /\ Len(CurLine(g)) \in Nat
    BY <2>2, CachedFields DEF SameText
  <2>5. pos.lineno = g.cur_line_it /\ pos.offset = offset - g.cur_char + 1
    BY <2>3, <2>4
  <2>6. pos.offset \in 1..Len(CurLine(g)) + 1
    <3>1. PICK n, c \in Nat : n = Len(CurLine(g)) /\ c = g.cur_char
      BY <2>4
    <3>2. c <= offset /\ offset <= c + n /\ pos.offset = offset - c + 1
      BY <2>2, <2>5, <3>1 DEF Reaches
    <3>3. pos.offset \in 1..n + 1
      BY <2>1, <3>2
    <3> QED  BY <3>1, <3>3
  <2>7. Start(pos.lineno) = g.cur_char
    BY <2>4, <2>5 DEF Start, SizeTo
  <2>8. Start(pos.lineno) + pos.offset - 1 = offset
    BY <2>1, <2>4, <2>5, <2>7
  <2> QED  BY <2>4, <2>5, <2>6, <2>8 DEF pos
<1> QED  BY <1>1, BufferInvInductive, PTL

\* The offset a call reports and the position it was called with are one place
\* of the file (text_mutex.cpp:42-47).
THEOREM BufferSamePlace == Spec => []SamePlace
<1>1. BufferInv => SamePlace
  <2> SUFFICES ASSUME BufferInv, done # Nothing
               PROVE  done.char_offset \in {NoOffset, Place}
    BY DEF SamePlace
  <2>1. PICK op \in {CH_DELETE, CH_INSERT}, ch \in Char, offset \in Int,
             pos \in Position :
          /\ done = Report(op, ch, offset, pos)
          /\ offset \in {NoOffset, PlaceOf(file, pos)}
    BY DEF BufferInv, ReportHolds
  <2>2. Place = PlaceOf(file, pos)
    BY <2>1 DEF Place, PlaceOf, Report, Start, SizeTo
  <2> QED  BY <2>1, <2>2 DEF Report
<1> QED  BY <1>1, BufferInvInductive, PTL

-----------------------------------------------------------------------------
(***************************************************************************)
(* The list of lines implements one sequence of characters.                *)
(***************************************************************************)

\* Inserting in the midst of a text, and removing again.
LEMMA InsertBetween ==
    ASSUME NEW a \in Text, NEW c \in Text, NEW ch \in Char
    PROVE  InsertAt(a \o c, Len(a) + 1, ch) = (a \o <<ch>>) \o c
<1>1. Len(a) \in Nat /\ Len(c) \in Nat
  BY LenProperties DEF Text
<1>2. PICK s \in Text : s = a \o c /\ Len(s) = Len(a) + Len(c)
  BY TextConcat
<1>3. SubSeq(s, 1, Len(a)) = a
  BY <1>2, SubSeqOfConcat1 DEF Text
<1>4. SubSeq(s, Len(a) + 1, Len(s)) = c
  BY <1>2, SubSeqOfConcat2 DEF Text
<1>5. Len(a) + 1 - 1 = Len(a)
  BY <1>1
<1>6. InsertAt(s, Len(a) + 1, ch)
        = (SubSeq(s, 1, (Len(a) + 1) - 1) \o <<ch>>) \o SubSeq(s, Len(a) + 1, Len(s))
  BY DEF InsertAt
<1>7. (Len(a) + 1) - 1 = Len(a)
  BY <1>1
<1> QED  BY <1>2, <1>3, <1>4, <1>6, <1>7

\* RemoveAt takes away what stands between a and c.
LEMMA RemoveBetween ==
    ASSUME NEW a \in Text, NEW c \in Text, NEW ch \in Char
    PROVE  LET s == (a \o <<ch>>) \o c
           IN  /\ RemoveAt(s, Len(a) + 1) = a \o c
               /\ s[Len(a) + 1] = ch
<1>1. Len(a) \in Nat /\ Len(c) \in Nat
  BY LenProperties DEF Text
<1>2. <<ch>> \in Text /\ Len(<<ch>>) = 1 /\ <<ch>>[1] = ch
  BY OneChar
<1>3. PICK ac \in Text : ac = a \o <<ch>> /\ Len(ac) = Len(a) + 1
  BY <1>2, TextConcat
<1>4. PICK s \in Text : s = ac \o c /\ Len(s) = Len(ac) + Len(c)
  BY TextConcat
<1>5. PICK e \in Text : e = <<ch>> \o c
  BY <1>2, TextConcat
<1>6. s = a \o e
  <2>1. Regroup(a, <<ch>>, c)
    BY <1>2, Regroups
  <2> QED  BY <1>3, <1>4, <1>5, <2>1 DEF Regroup
<1>7. SubSeq(s, 1, Len(a)) = a
  BY <1>6, SubSeqOfConcat1 DEF Text
<1>8. SubSeq(s, Len(ac) + 1, Len(s)) = c
  BY <1>4, SubSeqOfConcat2 DEF Text
<1>9. RemoveAt(s, Len(a) + 1)
        = SubSeq(s, 1, (Len(a) + 1) - 1) \o SubSeq(s, (Len(a) + 1) + 1, Len(s))
  BY DEF RemoveAt
<1>10. (Len(a) + 1) - 1 = Len(a)
  BY <1>1
<1>11. RemoveAt(s, Len(a) + 1) = a \o c
  BY <1>3, <1>7, <1>8, <1>9, <1>10
<1>12. s[Len(a) + 1] = ch
  <2>1. Len(a) + 1 \in 1..Len(ac) + Len(c) /\ Len(a) + 1 <= Len(ac)
    BY <1>1, <1>3
  <2>2. s[Len(a) + 1] = ac[Len(a) + 1]
    BY <1>4, <2>1, ConcatProperties DEF Text
  <2>3. ac[Len(a) + 1] = <<ch>>[Len(a) + 1 - Len(a)]
    <3>1. Len(a) + 1 \in 1..Len(a) + Len(<<ch>>) /\ ~(Len(a) + 1 <= Len(a))
      BY <1>1, <1>2
    <3> QED  BY <1>2, <1>3, <3>1, ConcatProperties DEF Text
  <2>4. Len(a) + 1 - Len(a) = 1
    BY <1>1
  <2> QED  BY <1>2, <2>2, <2>3, <2>4
<1> QED  BY <1>3, <1>4, <1>11, <1>12

\* An operation on the one text of the file.
FlatOp(op, ch, place) ==
    [operation |-> op, data |-> ch, id |-> 1, char_offset |-> place]

\* A character more in the file is an insertion into the flat text ...
LEMMA FlatInserts ==
    ASSUME NEW f, Cached(f), NEW g, NEW ch \in Char, NEW place,
           Adds(f, g, ch, place)
    PROVE  LET op == FlatOp(CH_INSERT, ch, place)
           IN  /\ FlatFile!Silent(Flat(f.edit_file), op)
               /\ Flat(g.edit_file) = FlatFile!writeLocal(Flat(f.edit_file), op)
<1>1. PICK a, c \in Text : /\ Len(a) = place /\ Flat(f.edit_file) = a \o c
                           /\ Flat(g.edit_file) = (a \o <<ch>>) \o c
  BY DEF Adds, Gains
<1>2. PICK s \in Text : s = a \o c /\ Len(s) = Len(a) + Len(c)
  BY TextConcat
<1>3. Len(a) \in Nat /\ Len(c) \in Nat
  BY LenProperties DEF Text
<1> DEFINE op == FlatOp(CH_INSERT, ch, place)
<1>4. /\ op.operation = FlatFile!CH_INSERT /\ op.operation # FlatFile!CH_DELETE
      /\ op.char_offset = Len(a) /\ op.data = ch
  BY <1>1 DEF FlatOp, CH_INSERT, FlatFile!CH_INSERT, FlatFile!CH_DELETE
<1> HIDE DEF op
<1>5. FlatFile!InRange(s, op)
  <2>1. Len(a) \in 0..Len(s)
    BY <1>2, <1>3
  <2> QED  BY <1>4, <2>1 DEF FlatFile!InRange
<1>6. FlatFile!Silent(s, op)
  BY <1>4, <1>5 DEF FlatFile!Silent
<1>7. FlatFile!writeLocal(s, op) = InsertAt(s, Len(a) + 1, ch)
  <2>1. FlatFile!writeLocal(s, op) = FlatFile!InsertAt(s, op.char_offset + 1, op.data)
    BY <1>4, <1>5 DEF FlatFile!writeLocal
  <2> QED  BY <1>4, <2>1 DEF FlatFile!InsertAt, InsertAt
<1> QED  BY <1>1, <1>2, <1>6, <1>7, InsertBetween DEF op

\* ... and one less a deletion, of the character its author saw.
LEMMA FlatDeletes ==
    ASSUME NEW f, Cached(f), NEW g, NEW ch \in Char, NEW place,
           Adds(g, f, ch, place)
    PROVE  LET op == FlatOp(CH_DELETE, ch, place)
           IN  /\ FlatFile!Silent(Flat(f.edit_file), op)
               /\ Flat(g.edit_file) = FlatFile!writeLocal(Flat(f.edit_file), op)
<1>1. PICK a, c \in Text : /\ Len(a) = place /\ Flat(g.edit_file) = a \o c
                           /\ Flat(f.edit_file) = (a \o <<ch>>) \o c
  BY DEF Adds, Gains
<1>2. PICK ac \in Text : ac = a \o <<ch>> /\ Len(ac) = Len(a) + 1
  BY OneChar, TextConcat
<1>3. PICK s \in Text : s = ac \o c /\ Len(s) = Len(ac) + Len(c)
  BY TextConcat
<1>4. Len(a) \in Nat /\ Len(c) \in Nat
  BY LenProperties DEF Text
<1>5. RemoveAt(s, Len(a) + 1) = a \o c /\ s[Len(a) + 1] = ch
  BY <1>2, <1>3, RemoveBetween
<1> DEFINE op == FlatOp(CH_DELETE, ch, place)
<1>6. /\ op.operation = FlatFile!CH_DELETE /\ op.operation # FlatFile!CH_INSERT
      /\ op.char_offset = Len(a) /\ op.data = ch
  BY <1>1 DEF FlatOp, CH_DELETE, FlatFile!CH_DELETE, FlatFile!CH_INSERT
<1> HIDE DEF op
<1>7. FlatFile!InRange(s, op)
  <2>1. Len(a) \in 0..Len(s) - 1
    BY <1>2, <1>3, <1>4
  <2> QED  BY <1>6, <2>1 DEF FlatFile!InRange
<1>8. FlatFile!Silent(s, op)
  BY <1>5, <1>6, <1>7 DEF FlatFile!Silent
<1>9. FlatFile!writeLocal(s, op) = RemoveAt(s, Len(a) + 1)
  <2>1. FlatFile!writeLocal(s, op) = FlatFile!RemoveAt(s, op.char_offset + 1)
    BY <1>6, <1>7 DEF FlatFile!writeLocal
  <2> QED  BY <1>6, <2>1 DEF FlatFile!RemoveAt, RemoveAt
<1>10. Flat(f.edit_file) = s
  BY <1>1, <1>2, <1>3
<1> QED  BY <1>1, <1>5, <1>8, <1>9, <1>10 DEF op

\* A report is not Nothing.
LEMMA ReportIsOne ==
    ASSUME NEW op \in {CH_DELETE, CH_INSERT}, NEW ch \in Char,
           NEW offset \in Int, NEW pos \in Position
    PROVE  Report(op, ch, offset, pos) # Nothing
<1>1. Report(op, ch, offset, pos) \in
        [operation : {CH_DELETE, CH_INSERT}, data : Char,
         char_offset : Int, pos : [lineno : Int, offset : Int]]
  BY DEF Report, Position
<1> QED  BY <1>1, NothingAssumption

\* The file implements one sequence of characters.
THEOREM BufferImplements == Spec => Implements
<1>1. Init => FlatFile!Init
  <2> SUFFICES ASSUME Init
               PROVE  FlatFile!Init
    OBVIOUS
  <2>1. PICK text \in Texts : file = Loaded(text)
    BY DEF Init
  <2>2. PICK n \in 0..MaxChars : text \in [1..n -> Char]
    BY <2>1 DEF Texts
  <2>3. text \in Text
    <3>1. n \in Nat
      BY MaxCharsAssumption
    <3> QED  BY <2>2, <3>1 DEF Text
  <2>4. Flat(file.edit_file) = text
    BY <2>1, <2>3, LoadedCached
  <2> QED  BY <2>4 DEF FlatFile!Init, Init, Texts
<1>2. BufferInv /\ BufferInv' /\ [Next]_vars => [FlatFile!Next]_FlatFile!vars
  <2> SUFFICES ASSUME BufferInv, BufferInv', [Next]_vars
               PROVE  [FlatFile!Next]_FlatFile!vars
    OBVIOUS
  <2>1. Cached(file) /\ MaxChars \in Nat
    BY MaxCharsAssumption DEF BufferInv
  <2>2. CASE UNCHANGED vars
    BY <2>2 DEF vars, FlatFile!vars, Place, Start
  <2>3. CASE Quiet
    BY <2>3 DEF Quiet, SameText, FlatFile!Next, FlatFile!Keep
  <2>4. CASE Edited
    <3>1. PICK ch \in Char, offset \in Int, pos \in Position :
            /\ Cached(file') /\ defined' = defined
            /\ offset \in {NoOffset, PlaceOf(file', pos)}
            /\ Inserting(ch, offset, pos) \/ Deleting(ch, offset, pos)
      BY <2>4 DEF Edited
    <3>2. ASSUME NEW name \in {CH_DELETE, CH_INSERT},
                 done' = Report(name, ch, offset, pos),
                 FlatFile!Silent(Flat(file.edit_file),
                                 FlatOp(name, ch, PlaceOf(file', pos))),
                 Flat(file'.edit_file) =
                    FlatFile!writeLocal(Flat(file.edit_file),
                                        FlatOp(name, ch, PlaceOf(file', pos))),
                 PlaceOf(file', pos) \in 0..MaxChars
          PROVE  FlatFile!Change
      <4> DEFINE op == FlatOp(name, ch, PlaceOf(file', pos))
      <4>1. done' # Nothing
        BY <3>2, ReportIsOne
      <4>2. /\ done'.operation = name /\ done'.data = ch
            /\ done'.pos = pos
        BY <3>2 DEF Report
      <4>3. Place' = PlaceOf(file', pos)
        BY <4>2 DEF Place, PlaceOf, Start, SizeTo
      <4>4. op \in FlatFile!Operations
        BY <3>2 DEF FlatOp, FlatFile!Operations, FlatFile!UserId,
                    CH_DELETE, CH_INSERT, FlatFile!CH_DELETE, FlatFile!CH_INSERT
      <4>5. (IF done' = Nothing THEN Nothing
             ELSE [operation |-> done'.operation, data |-> done'.data,
                   id |-> 1, char_offset |-> Place']) = op
        BY <4>1, <4>2, <4>3 DEF FlatOp
      <4> HIDE DEF op
      <4>6. FlatFile!Silent(Flat(file.edit_file), op)
            /\ Flat(file'.edit_file) = FlatFile!writeLocal(Flat(file.edit_file), op)
        BY <3>2 DEF op
      <4> QED  BY <4>4, <4>5, <4>6 DEF FlatFile!Change
    <3>3. CASE Inserting(ch, offset, pos)
      <4>1. Adds(file, file', ch, PlaceOf(file', pos))
        BY <3>3 DEF Inserting
      <4>2. PlaceOf(file', pos) \in 0..MaxChars
        <5>1. /\ PlaceOf(file', pos) \in 0..file.total_chars
              /\ file.total_chars \in 0..MaxChars
          BY <2>1, <4>1, AddsBounds DEF BufferInv
        <5> QED  BY <2>1, <5>1
      <4>3. FlatFile!Change
        BY <2>1, <3>2, <3>3, <4>1, <4>2, FlatInserts DEF Inserting
      <4> QED  BY <4>3 DEF FlatFile!Next
    <3>4. CASE Deleting(ch, offset, pos)
      <4>1. Adds(file', file, ch, PlaceOf(file', pos))
        BY <3>4 DEF Deleting
      <4>2. PlaceOf(file', pos) \in 0..MaxChars
        <5>1. /\ PlaceOf(file', pos) \in 0..file'.total_chars
              /\ file'.total_chars \in 0..MaxChars
          BY <3>1, <4>1, AddsBounds DEF BufferInv
        <5> QED  BY <2>1, <5>1
      <4>3. FlatFile!Change
        BY <2>1, <3>2, <3>4, <4>1, <4>2, FlatDeletes DEF Deleting
      <4> QED  BY <4>3 DEF FlatFile!Next
    <3> QED  BY <3>1, <3>3, <3>4
  <2> QED  BY <2>1, <2>2, <2>3, <2>4, StepIs
<1> QED  BY <1>1, <1>2, BufferInvInductive, PTL DEF Spec, Implements, FlatFile!Spec
=============================================================================
