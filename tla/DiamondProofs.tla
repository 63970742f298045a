--------------------------- MODULE DiamondProofs ---------------------------
(***************************************************************************)
(* The Diamond machine keeps its promises for every bound: what one pair   *)
(* of operations does (XformProofs) lifted to the behaviours of the two    *)
(* sites.  The inductive invariant says what a site's text is at each      *)
(* point of its two steps.                                                 *)
(***************************************************************************)
EXTENDS Diamond, XformProofs

\* The text of a site is determined by how far it got.
Progress(s) ==
    /\ done[s] = 0 => text[s] = common
    /\ done[s] = 1 => text[s] = writeLocal(common, mine[s])
    /\ done[s] = 2 =>
        text[s] = writeLocal(writeLocal(common, mine[s]), Transformed(s))

DiamondInv ==
    /\ text \in [Site -> Text] /\ done \in [Site -> 0..2]
    /\ mine \in [Site -> op_t]
    /\ ConcurrentOn(common, mine[1], mine[2])
    /\ ConcurrentOn(common, mine[2], mine[1])
    /\ \A s \in Site : Progress(s)

LEMMA DiamondInit == Init => DiamondInv
<1> SUFFICES ASSUME Init
             PROVE  DiamondInv
  OBVIOUS
<1>1. common \in Text
  <2>1. PICK n \in 0..MaxLen : common \in [1..n -> Char]
    BY DEF Init
  <2>2. n \in Nat
    BY MaxLenAssumption
  <2> QED  BY <2>1, <2>2, SeqDef DEF Text
<1>2. 1 \in Site /\ 2 \in Site
  BY DEF Site
<1>3. LocalOps(common) \subseteq op_t
  BY DEF LocalOps, op_t, NOOP, CH_INSERT, CH_DELETE
<1>4. mine \in [Site -> op_t]
  BY <1>3 DEF Init
<1>5. \A s \in Site : Silent(common, mine[s])
  BY DEF Init, LocalOps
<1>6. mine[1].id # mine[2].id
  BY DEF Init
<1>7. /\ ConcurrentOn(common, mine[1], mine[2])
      /\ ConcurrentOn(common, mine[2], mine[1])
  BY <1>1, <1>2, <1>4, <1>5, <1>6 DEF ConcurrentOn
<1>8. text \in [Site -> Text] /\ done \in [Site -> 0..2]
  BY <1>1 DEF Init
<1>9. \A s \in Site : Progress(s)
  BY DEF Init, Progress
<1> QED  BY <1>4, <1>7, <1>8, <1>9 DEF DiamondInv

LEMMA DiamondStep == DiamondInv /\ [Next]_vars => DiamondInv'
<1> SUFFICES ASSUME DiamondInv, [Next]_vars
             PROVE  DiamondInv'
  OBVIOUS
<1>1. CASE UNCHANGED vars
  BY <1>1 DEF vars, DiamondInv, Progress, Transformed
<1>2. ASSUME NEW s \in Site, NEW op \in op_t, Perform(s, op), done[s] < 2,
             done[s] = 0 => op = mine[s],
             done[s] = 1 => op = Transformed(s)
      PROVE  DiamondInv'
  <2>1. /\ UNCHANGED <<common, mine>>
        /\ text' = [text EXCEPT ![s] = writeLocal(text[s], op)]
        /\ done' = [done EXCEPT ![s] = done[s] + 1]
    BY <1>2 DEF Perform
  <2>2. text' \in [Site -> Text] /\ done' \in [Site -> 0..2]
    <3>1. writeLocal(text[s], op) \in Text
      BY <1>2, WriteType DEF DiamondInv
    <3> QED  BY <1>2, <2>1, <3>1 DEF DiamondInv
  <2>3. Progress(s)'
    <3>1. Transformed(s)' = Transformed(s)
      BY <2>1 DEF Transformed
    <3>2. /\ done[s] \in {0, 1} /\ done'[s] = done[s] + 1
          /\ text'[s] = writeLocal(text[s], op)
      BY <1>2, <2>1 DEF DiamondInv
    <3>3. Progress(s)
      BY DEF DiamondInv
    <3>4. CASE done[s] = 0
      BY <1>2, <2>1, <3>2, <3>3, <3>4 DEF Progress
    <3>5. CASE done[s] = 1
      BY <1>2, <2>1, <3>1, <3>2, <3>3, <3>5 DEF Progress
    <3> QED  BY <3>2, <3>4, <3>5
  <2>4. ASSUME NEW r \in Site, r # s
        PROVE  Progress(r)'
    <3>1. done'[r] = done[r] /\ text'[r] = text[r]
      BY <2>1, <2>4 DEF DiamondInv
    <3> QED  BY <2>1, <3>1 DEF DiamondInv, Progress, Transformed
  <2> QED  BY <2>1, <2>2, <2>3, <2>4 DEF DiamondInv
<1>3. ASSUME NEW s \in Site, PerformOwn(s)
      PROVE  DiamondInv'
  <2>1. mine[s] \in op_t
    BY DEF DiamondInv
  <2> QED  BY <1>2, <1>3, <2>1 DEF PerformOwn
<1>4. ASSUME NEW s \in Site, PerformOther(s)
      PROVE  DiamondInv'
  <2>1. Transformed(s) \in op_t
    BY ShiftType DEF DiamondInv, Transformed, Site, Other
  <2> QED  BY <1>2, <1>4, <2>1 DEF PerformOther
<1> QED  BY <1>1, <1>3, <1>4 DEF Next

LEMMA DiamondSafety == DiamondInv => TypeOK /\ Confluence /\ TransformedSilent
<1> SUFFICES ASSUME DiamondInv
             PROVE  TypeOK /\ Confluence /\ TransformedSilent
  OBVIOUS
<1>1. /\ Transformed(1) = Shift(mine[2], mine[1])
      /\ Transformed(2) = Shift(mine[1], mine[2])
  BY DEF Transformed, Other
<1>2. TypeOK
  <2>1. \A s \in Site : Transformed(s) \in op_t
    BY ShiftType DEF DiamondInv, Transformed, Site, Other
  <2> QED  BY <2>1 DEF DiamondInv, TypeOK, ConcurrentOn
<1>3. Confluence
  <2>1. Progress(1) /\ Progress(2)
    BY DEF DiamondInv, Site
  <2> QED
    BY <1>1, <2>1, TransformationCommutes DEF DiamondInv, Confluence, Progress
<1>4. TransformedSilent
  <2>1. ASSUME NEW s \in Site, done[s] = 1
        PROVE  Silent(text[s], Transformed(s))
    <3>1. text[s] = writeLocal(common, mine[s])
      BY <2>1 DEF DiamondInv, Progress
    <3>2. s = 1 \/ s = 2
      BY DEF Site
    <3>3. /\ ConcurrentOn(common, mine[1], mine[2])
          /\ ConcurrentOn(common, mine[2], mine[1])
      BY DEF DiamondInv
    <3> QED  BY <1>1, <3>1, <3>2, <3>3, SilentAfterShift
  <2> QED  BY <2>1 DEF TransformedSilent
<1> QED  BY <1>2, <1>3, <1>4

LEMMA DiamondInvariant == Spec => []DiamondInv
BY DiamondInit, DiamondStep, PTL DEF Spec

\* Whatever the text and whatever two users do to it at the same time, xform
\* makes both sites end with the same text.
THEOREM DiamondConfluence == Spec => []Confluence
BY DiamondInvariant, DiamondSafety, PTL

\* What a site receives is in range there and deletes what its author meant.
THEOREM DiamondSilence == Spec => []TransformedSilent
BY DiamondInvariant, DiamondSafety, PTL

\* Texts stay texts, and no transformed offset falls below zero.
THEOREM DiamondType == Spec => []TypeOK
BY DiamondInvariant, DiamondSafety, PTL
=============================================================================
