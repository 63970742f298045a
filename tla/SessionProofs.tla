--------------------------- MODULE SessionProofs ---------------------------
(***************************************************************************)
(* Whatever the number of users and however their logins, logouts and ends *)
(* interleave, the file lock gives the users of one log different ids, and *)
(* the semaphore counts at least those who are online.  When users take    *)
(* turns it counts exactly: a session lasts as long as its users, ends     *)
(* with the last one, and a login succeeds.                                *)
(***************************************************************************)
EXTENDS Session, SequenceTheorems, FiniteSetTheorems, TLAPS

(***************************************************************************)
(* The inductive invariant.                                                *)
(***************************************************************************)

\* The calls made under the file lock.
UnderLock == {"read_header", "write_header", "unlock"}

\* Where a process has a semaphore open.
HasSem == {"empty", "zero_header", "post", "lock", "read_header",
           "write_header", "unlock", "view_post", "online", "trywait", "unlink"}

\* What a process has done before it makes a call.
CallsInOrder ==
    \A p \in Process :
        /\ pc[p] \in UnderLock => p \in holder
        /\ pc[p] \in HasSem => sem[p] # NoSem
        /\ pc[p] \notin {"start", "failed"} => log.header # NoFile
        /\ pc[p] = "start" => id[p] = 0
        /\ pc[p] = "write_header" => id[p] # 0

\* The header is the last id of the users of the present log, but for the one
\* about to be written.  An id read before the log was emptied is written into
\* the new one before anybody reads there.
HeaderIsLast ==
    \A p \in Process :
        /\ joined[p] <= log.emptied
        /\ id[p] # 0 /\ joined[p] = log.emptied =>
            /\ log.header >= 0
            /\ IF pc[p] = "write_header" THEN id[p] = log.header + 1
               ELSE id[p] <= log.header
        /\ pc[p] = "write_header" /\ joined[p] # log.emptied =>
            \A q \in Process : id[q] # 0 => joined[q] # log.emptied

DifferentIDs ==
    \A p, q \in Process :
        p # q /\ id[p] # 0 /\ id[q] # 0 /\ joined[p] = joined[q] => id[p] # id[q]

SessionInv == TypeOK /\ CallsInOrder /\ HeaderIsLast /\ DifferentIDs

(***************************************************************************)
(* It holds initially.                                                     *)
(***************************************************************************)

LEMMA SessionInit == Init => SessionInv
<1> SUFFICES ASSUME Init PROVE SessionInv
  OBVIOUS
<1>1. TypeOK
  BY DEF Init, TypeOK, Settled, NoFile, NoSem
<1>2. CallsInOrder
  BY DEF Init, CallsInOrder, UnderLock, HasSem
<1>3. HeaderIsLast /\ DifferentIDs
  BY DEF Init, HeaderIsLast, DifferentIDs
<1> QED  BY <1>1, <1>2, <1>3 DEF SessionInv

(***************************************************************************)
(* What changes several variables at once: the end of a process, and the   *)
(* two ways to a semaphore.                                                *)
(***************************************************************************)

LEMMA ExitType ==
    ASSUME TypeOK, NEW p \in Process, NEW how \in {"gone", "killed", "failed"},
           Exit(p, how)
    PROVE  /\ pc' \in [Process -> Settled \cup Calls]
           /\ holder' \subseteq Process /\ \A q, r \in holder' : q = r
           /\ sem' \in [Process -> 0..Len(value)]
           /\ id' \in [Process -> Nat] /\ joined' \in [Process -> Nat]
           /\ sval' \in [Process -> Nat]
BY DEF Exit, Goto, TypeOK, Settled, NoSem

LEMMA ExitOrder ==
    ASSUME SessionInv, NEW p \in Process, NEW how \in {"gone", "killed", "failed"},
           Exit(p, how), log' = log, pc[p] \notin {"start", "failed"}
    PROVE  CallsInOrder'
BY DEF SessionInv, TypeOK, Exit, Goto, CallsInOrder, UnderLock, HasSem, NoFile, NoSem

LEMMA ExitHeader ==
    ASSUME SessionInv, NEW p \in Process, NEW how \in {"gone", "killed", "failed"},
           Exit(p, how), log' = log
    PROVE  HeaderIsLast' /\ DifferentIDs'
<1>1. HeaderIsLast'
  BY DEF SessionInv, TypeOK, Exit, Goto, HeaderIsLast, NoFile, NoHeader
<1>2. DifferentIDs'
  BY DEF SessionInv, TypeOK, Exit, DifferentIDs
<1> QED  BY <1>1, <1>2

LEMMA SemType ==
    ASSUME TypeOK, NEW p \in Process, NewSem(p) \/ (OldSem(p) /\ name # NoSem)
    PROVE  /\ value' \in Seq(Nat) /\ name' \in 0..Len(value')
           /\ sem' \in [Process -> 0..Len(value')]
           /\ sem'[p] # NoSem /\ \A q \in Process \ {p} : sem'[q] = sem[q]
<1>1. CASE NewSem(p)
  <2>1. value' \in Seq(Nat) /\ Len(value') = Len(value) + 1
    BY <1>1, AppendProperties DEF NewSem, TypeOK
  <2> QED  BY <1>1, <2>1 DEF NewSem, TypeOK, NoSem
<1>2. CASE OldSem(p) /\ name # NoSem
  BY <1>2 DEF OldSem, TypeOK, NoSem
<1> QED  BY <1>1, <1>2

LEMMA ValueType ==
    ASSUME TypeOK, NEW s \in 1..Len(value), NEW v \in Nat,
           value' = [value EXCEPT ![s] = v]
    PROVE  value' \in Seq(Nat) /\ Len(value') = Len(value)
BY ExceptSeq DEF TypeOK

(***************************************************************************)
(* Every call keeps it.                                                    *)
(***************************************************************************)

\* Types; a lock is taken only when nobody holds it.
LEMMA TypeStep == SessionInv /\ [Next]_vars => TypeOK'
<1> SUFFICES ASSUME SessionInv, [Next]_vars PROVE TypeOK'
  OBVIOUS
<1> USE DEF SessionInv
<1>1. ASSUME NEW p \in Server, OpenLog(p) PROVE TypeOK'
  <2>1. CASE log.header = NoFile
    <3>1. log' \in [header : {NoFile, NoHeader} \cup Nat, emptied : Nat]
      BY <1>1, <2>1 DEF OpenLog, TypeOK
    <3> QED  BY <1>1, <2>1, <3>1 DEF OpenLog, Goto, TypeOK, Process, Calls
  <2>2. CASE log.header # NoFile
    BY <1>1, <2>2 DEF OpenLog, Goto, TypeOK, Process, Calls
  <2> QED  BY <2>1, <2>2
<1>2. ASSUME NEW p \in Server, UnlinkStale(p) PROVE TypeOK'
  <2>1. NoSem \in 0..Len(value)
    BY LenProperties DEF TypeOK, NoSem
  <2> QED  BY <1>2, <2>1 DEF UnlinkStale, Goto, TypeOK, Process, Calls
<1>3. ASSUME NEW p \in Server, CreateSem(p) PROVE TypeOK'
  <2>1. CASE name = NoSem
    <3>1. NewSem(p) /\ Goto(p, "empty")
      BY <1>3, <2>1 DEF CreateSem
    <3> QED  BY <1>3, <3>1, SemType DEF CreateSem, Goto, TypeOK, Process, At, Settled, Calls
  <2>2. CASE name # NoSem
    BY <1>3, <2>2 DEF CreateSem, Goto, TypeOK, Process, At, Settled, Calls
  <2> QED  BY <2>1, <2>2
<1>4. ASSUME NEW p \in Server, ReopenSem(p) PROVE TypeOK'
  <2>1. CASE name = NoSem
    BY <1>4, <2>1, ExitType DEF ReopenSem, TypeOK, Process, At, Settled, Calls
  <2>2. CASE name # NoSem
    <3>1. OldSem(p) /\ Goto(p, "post")
      BY <1>4, <2>2 DEF ReopenSem
    <3> QED  BY <1>4, <2>2, <3>1, SemType DEF ReopenSem, Goto, TypeOK, Process, At, Settled, Calls
  <2> QED  BY <2>1, <2>2
<1>5. ASSUME NEW p \in Server, Empty(p) PROVE TypeOK'
  <2>1. log' \in [header : {NoFile, NoHeader} \cup Nat, emptied : Nat]
    BY <1>5 DEF Empty, TypeOK
  <2> QED  BY <1>5, <2>1 DEF Empty, Goto, TypeOK, Process, Settled, Calls
<1>6. ASSUME NEW p \in Server, ZeroHeader(p) PROVE TypeOK'
  BY <1>6 DEF ZeroHeader, Goto, TypeOK, Process, At, NoSem, NoFile, NoHeader, Settled, Calls, CallsInOrder, HasSem
<1>7. ASSUME NEW p \in Server, Post(p) PROVE TypeOK'
  <2>1. sem[p] \in 1..Len(value) /\ value[sem[p]] \in Nat
    BY <1>7 DEF Post, At, Process, TypeOK, CallsInOrder, HasSem, NoSem
  <2>2. value' \in Seq(Nat) /\ Len(value') = Len(value)
    <3>1. value[sem[p]] + 1 \in Nat /\ value' = [value EXCEPT ![sem[p]] = value[sem[p]] + 1]
      BY <1>7, <2>1 DEF Post
    <3>2. TypeOK
      OBVIOUS
    <3> QED  BY ONLY <2>1, <3>1, <3>2, ValueType
  <2> QED  BY <1>7, <2>2 DEF Post, Goto, TypeOK, Process, At, Settled, Calls
<1>8. ASSUME NEW p \in Server, Lock(p) PROVE TypeOK'
  BY <1>8 DEF Lock, Goto, TypeOK, Process, At, NoSem, NoFile, NoHeader, Settled, Calls, CallsInOrder, HasSem
<1>9. ASSUME NEW p \in Server, ReadHeader(p) PROVE TypeOK'
  <2>1. CASE log.header = NoHeader
    BY <1>9, <2>1, ExitType DEF ReadHeader, TypeOK, Process, At, Settled, Calls
  <2>2. CASE log.header # NoHeader
    <3>1. log.header \in Nat /\ log.emptied \in Nat
      BY <1>9, <2>2 DEF ReadHeader, TypeOK, Process, At, NoSem, NoFile, NoHeader, CallsInOrder
    <3>2. id' \in [Process -> Nat] /\ joined' \in [Process -> Nat]
      <4>1. /\ id' = [id EXCEPT ![p] = log.header + 1]
            /\ joined' = [joined EXCEPT ![p] = log.emptied]
        BY <1>9, <2>2 DEF ReadHeader
      <4>2. id \in [Process -> Nat] /\ joined \in [Process -> Nat]
        BY DEF TypeOK
      <4>3. log.header + 1 \in Nat
        BY <3>1
      <4> QED  BY ONLY <3>1, <4>1, <4>2, <4>3
    <3>3. pc' \in [Process -> Settled \cup Calls]
      BY <1>9, <2>2 DEF ReadHeader, Goto, TypeOK, Process, Calls
    <3>4. UNCHANGED <<orderly, log, name, value, holder, sem, sval>>
      BY <1>9, <2>2 DEF ReadHeader
    <3> QED  BY <3>2, <3>3, <3>4 DEF TypeOK
  <2> QED  BY <2>1, <2>2
<1>10. ASSUME NEW p \in Server, WriteHeader(p) PROVE TypeOK'
  BY <1>10 DEF WriteHeader, Goto, TypeOK, Process, At, NoSem, NoFile, NoHeader, Settled, Calls, CallsInOrder, HasSem
<1>11. ASSUME NEW p \in Server, Unlock(p) PROVE TypeOK'
  BY <1>11 DEF Unlock, Goto, TypeOK, Process, At, NoSem, NoFile, NoHeader, Settled, Calls, CallsInOrder, HasSem
<1>12. ASSUME NEW p \in Viewer, OpenViewer(p) PROVE TypeOK'
  <2>1. pc' \in [Process -> Settled \cup Calls]
    BY <1>12 DEF OpenViewer, Goto, TypeOK, Process, Settled, Calls
  <2>2. joined' \in [Process -> Nat]
    BY <1>12 DEF OpenViewer, TypeOK, Process
  <2> QED  BY <1>12, <2>1, <2>2 DEF OpenViewer, TypeOK
<1>13. ASSUME NEW p \in Viewer, ViewSem(p) PROVE TypeOK'
  <2>1. NewSem(p) \/ (OldSem(p) /\ name # NoSem)
    BY <1>13 DEF ViewSem
  <2> QED  BY <1>13, <2>1, SemType DEF ViewSem, Goto, TypeOK, Process, At, Settled, Calls
<1>14. ASSUME NEW p \in Viewer, ViewPost(p) PROVE TypeOK'
  <2>1. sem[p] \in 1..Len(value) /\ value[sem[p]] \in Nat
    BY <1>14 DEF ViewPost, At, Process, TypeOK, CallsInOrder, HasSem, NoSem
  <2>2. value' \in Seq(Nat) /\ Len(value') = Len(value)
    <3>1. value[sem[p]] + 1 \in Nat /\ value' = [value EXCEPT ![sem[p]] = value[sem[p]] + 1]
      BY <1>14, <2>1 DEF ViewPost
    <3>2. TypeOK
      OBVIOUS
    <3> QED  BY ONLY <2>1, <3>1, <3>2, ValueType
  <2> QED  BY <1>14, <2>2 DEF ViewPost, Goto, TypeOK, Process, At, Settled, Calls
<1>15. ASSUME NEW p \in Process, GetValue(p) PROVE TypeOK'
  <2>1. value[sem[p]] \in Nat
    BY <1>15 DEF GetValue, At, TypeOK, CallsInOrder, HasSem, NoSem
  <2> QED  BY <1>15, <2>1 DEF GetValue, Goto, TypeOK, Calls
<1>16. ASSUME NEW p \in Process, TryWait(p) PROVE TypeOK'
  <2>1. sem[p] \in 1..Len(value) /\ value[sem[p]] \in Nat
    BY <1>16 DEF TryWait, At, TypeOK, CallsInOrder, HasSem, NoSem
  <2>2. value' \in Seq(Nat) /\ Len(value') = Len(value)
    <3>1. PICK v \in Nat : value' = [value EXCEPT ![sem[p]] = v]
      <4>1. CASE value[sem[p]] = 0
        <5>1. value' = [value EXCEPT ![sem[p]] = 0] /\ 0 \in Nat
          BY <1>16, <4>1 DEF TryWait
        <5> QED  BY ONLY <5>1
      <4>2. CASE value[sem[p]] # 0
        <5>1. value[sem[p]] - 1 \in Nat
          BY <2>1, <4>2
        <5> QED  BY <1>16, <4>2, <5>1 DEF TryWait
      <4> QED  BY <4>1, <4>2
    <3>2. TypeOK
      OBVIOUS
    <3> QED  BY ONLY <2>1, <3>1, <3>2, ValueType
  <2>3. CASE Goto(p, "unlink") /\ UNCHANGED <<holder, sem, id, joined, sval>>
    BY <1>16, <2>2, <2>3 DEF TryWait, Goto, TypeOK, Process, At, Settled, Calls
  <2>4. CASE Exit(p, "gone")
    BY <1>16, <2>2, <2>4, ExitType DEF TryWait, TypeOK, Process, At, Settled, Calls
  <2> QED  BY <1>16, <2>3, <2>4 DEF TryWait
<1>17. ASSUME NEW p \in Process, Unlink(p) PROVE TypeOK'
  <2>1. name' \in 0..Len(value)
    BY <1>17, LenProperties DEF Unlink, TypeOK, NoSem
  <2> QED  BY <1>17, <2>1, ExitType DEF Unlink, TypeOK
<1>18. ASSUME NEW p \in Process, Kill(p) PROVE TypeOK'
  BY <1>18, ExitType DEF Kill, TypeOK, Process, At, Settled, Calls, NoSem
<1>19. CASE UNCHANGED vars
  BY <1>19 DEF vars, TypeOK, Process, At, NoSem, NoFile, NoHeader, Settled, Calls, CallsInOrder, HasSem
<1> QED
  BY <1>1, <1>2, <1>3, <1>4, <1>5, <1>6, <1>7, <1>8, <1>9, <1>10, <1>11, <1>12, <1>13, <1>14, <1>15, <1>16, <1>17, <1>18, <1>19 DEF Next, Login, View, Logout

\* A process has the lock and the semaphore when it makes a call that needs them.
LEMMA OrderStep == SessionInv /\ [Next]_vars => CallsInOrder'
<1> SUFFICES ASSUME SessionInv, [Next]_vars PROVE CallsInOrder'
  OBVIOUS
<1> USE DEF SessionInv
<1>1. ASSUME NEW p \in Server, OpenLog(p) PROVE CallsInOrder'
  BY <1>1 DEF OpenLog, Goto, TypeOK, Process, At, NoSem, NoFile, NoHeader, CallsInOrder, UnderLock, HasSem
<1>2. ASSUME NEW p \in Server, UnlinkStale(p) PROVE CallsInOrder'
  BY <1>2 DEF UnlinkStale, Goto, TypeOK, Process, At, NoSem, NoFile, NoHeader, CallsInOrder, UnderLock, HasSem
<1>3. ASSUME NEW p \in Server, CreateSem(p) PROVE CallsInOrder'
  <2>1. CASE name = NoSem
    <3>1. NewSem(p) /\ Goto(p, "empty")
      BY <1>3, <2>1 DEF CreateSem
    <3> QED  BY <1>3, <3>1, SemType DEF CreateSem, Goto, TypeOK, Process, At, NoSem, NoFile, NoHeader, CallsInOrder, UnderLock, HasSem
  <2>2. CASE name # NoSem
    <3>1. /\ p \in Process /\ pc[p] = "create_sem"
          /\ pc' = [pc EXCEPT ![p] = "reopen_sem"]
          /\ UNCHANGED <<log, holder, sem, id>>
      BY <1>3, <2>2 DEF CreateSem, Goto, At, Process
    <3> QED  BY <3>1 DEF TypeOK, CallsInOrder, UnderLock, HasSem
  <2> QED  BY <2>1, <2>2
<1>4. ASSUME NEW p \in Server, ReopenSem(p) PROVE CallsInOrder'
  <2>1. CASE name = NoSem
    BY <1>4, <2>1, ExitOrder DEF ReopenSem, At, Process
  <2>2. CASE name # NoSem
    <3>1. OldSem(p) /\ Goto(p, "post")
      BY <1>4, <2>2 DEF ReopenSem
    <3> QED  BY <1>4, <2>2, <3>1, SemType DEF ReopenSem, Goto, TypeOK, Process, At, NoSem, NoFile, NoHeader, CallsInOrder, UnderLock, HasSem
  <2> QED  BY <2>1, <2>2
<1>5. ASSUME NEW p \in Server, Empty(p) PROVE CallsInOrder'
  BY <1>5 DEF Empty, Goto, TypeOK, Process, At, NoSem, NoFile, NoHeader, CallsInOrder, UnderLock, HasSem
<1>6. ASSUME NEW p \in Server, ZeroHeader(p) PROVE CallsInOrder'
  BY <1>6 DEF ZeroHeader, Goto, TypeOK, Process, At, NoSem, NoFile, NoHeader, CallsInOrder, UnderLock, HasSem
<1>7. ASSUME NEW p \in Server, Post(p) PROVE CallsInOrder'
  BY <1>7 DEF Post, Goto, TypeOK, Process, At, NoSem, NoFile, NoHeader, CallsInOrder, UnderLock, HasSem
<1>8. ASSUME NEW p \in Server, Lock(p) PROVE CallsInOrder'
  BY <1>8 DEF Lock, Goto, TypeOK, Process, At, NoSem, NoFile, NoHeader, CallsInOrder, UnderLock, HasSem
<1>9. ASSUME NEW p \in Server, ReadHeader(p) PROVE CallsInOrder'
  <2>1. CASE log.header = NoHeader
    BY <1>9, <2>1, ExitOrder DEF ReadHeader, At, Process
  <2>2. CASE log.header # NoHeader
    <3>1. /\ p \in Process /\ pc[p] = "read_header"
          /\ pc' = [pc EXCEPT ![p] = "write_header"]
          /\ \A q \in Process \ {p} : id'[q] = id[q]
          /\ id'[p] = log.header + 1 /\ log.header \in Nat
          /\ UNCHANGED <<log, holder, sem>>
      BY <1>9, <2>2 DEF ReadHeader, Goto, At, TypeOK, CallsInOrder, Process, NoFile, NoHeader
    <3> QED  BY <3>1 DEF TypeOK, CallsInOrder, UnderLock, HasSem
  <2> QED  BY <2>1, <2>2
<1>10. ASSUME NEW p \in Server, WriteHeader(p) PROVE CallsInOrder'
  BY <1>10 DEF WriteHeader, Goto, TypeOK, Process, At, NoSem, NoFile, NoHeader, CallsInOrder, UnderLock, HasSem
<1>11. ASSUME NEW p \in Server, Unlock(p) PROVE CallsInOrder'
  BY <1>11 DEF Unlock, Goto, TypeOK, Process, At, NoSem, NoFile, NoHeader, CallsInOrder, UnderLock, HasSem
<1>12. ASSUME NEW p \in Viewer, OpenViewer(p) PROVE CallsInOrder'
  BY <1>12 DEF OpenViewer, Goto, TypeOK, Process, At, NoSem, NoFile, NoHeader, CallsInOrder, UnderLock, HasSem
<1>13. ASSUME NEW p \in Viewer, ViewSem(p) PROVE CallsInOrder'
  <2>1. NewSem(p) \/ (OldSem(p) /\ name # NoSem)
    BY <1>13 DEF ViewSem
  <2> QED  BY <1>13, <2>1, SemType DEF ViewSem, Goto, TypeOK, Process, At, NoSem, NoFile, NoHeader, CallsInOrder, UnderLock, HasSem
<1>14. ASSUME NEW p \in Viewer, ViewPost(p) PROVE CallsInOrder'
  BY <1>14 DEF ViewPost, Goto, TypeOK, Process, At, NoSem, NoFile, NoHeader, CallsInOrder, UnderLock, HasSem
<1>15. ASSUME NEW p \in Process, GetValue(p) PROVE CallsInOrder'
  BY <1>15 DEF GetValue, Goto, TypeOK, Process, At, NoSem, NoFile, NoHeader, CallsInOrder, UnderLock, HasSem
<1>16. ASSUME NEW p \in Process, TryWait(p) PROVE CallsInOrder'
  <2>1. CASE Goto(p, "unlink") /\ UNCHANGED <<holder, sem, id, joined, sval>>
    BY <1>16, <2>1 DEF TryWait, Goto, TypeOK, Process, At, NoSem, NoFile, NoHeader, CallsInOrder, UnderLock, HasSem
  <2>2. CASE Exit(p, "gone")
    BY <1>16, <2>2, ExitOrder DEF TryWait, At
  <2> QED  BY <1>16, <2>1, <2>2 DEF TryWait
<1>17. ASSUME NEW p \in Process, Unlink(p) PROVE CallsInOrder'
  BY <1>17, ExitOrder DEF Unlink, At
<1>18. ASSUME NEW p \in Process, Kill(p) PROVE CallsInOrder'
  BY <1>18, ExitOrder DEF Kill
<1>19. CASE UNCHANGED vars
  BY <1>19 DEF vars, TypeOK, Process, At, NoSem, NoFile, NoHeader, CallsInOrder, UnderLock, HasSem
<1> QED
  BY <1>1, <1>2, <1>3, <1>4, <1>5, <1>6, <1>7, <1>8, <1>9, <1>10, <1>11, <1>12, <1>13, <1>14, <1>15, <1>16, <1>17, <1>18, <1>19 DEF Next, Login, View, Logout

\* The header stays the last id.
LEMMA LastStep == SessionInv /\ [Next]_vars => HeaderIsLast'
<1> SUFFICES ASSUME SessionInv, [Next]_vars PROVE HeaderIsLast'
  OBVIOUS
<1> USE DEF SessionInv
<1>1. ASSUME NEW p \in Server, OpenLog(p) PROVE HeaderIsLast'
  <2>1. CASE log.header = NoFile
    BY <1>1, <2>1 DEF OpenLog, Goto, TypeOK, Process, At, NoSem, NoFile, NoHeader, CallsInOrder, HeaderIsLast, UnderLock
  <2>2. CASE log.header # NoFile
    BY <1>1, <2>2 DEF OpenLog, Goto, TypeOK, Process, At, NoSem, NoFile, NoHeader, CallsInOrder, HeaderIsLast, UnderLock
  <2> QED  BY <2>1, <2>2
<1>2. ASSUME NEW p \in Server, UnlinkStale(p) PROVE HeaderIsLast'
  BY <1>2 DEF UnlinkStale, Goto, TypeOK, Process, At, NoSem, NoFile, NoHeader, CallsInOrder, HeaderIsLast, UnderLock
<1>3. ASSUME NEW p \in Server, CreateSem(p) PROVE HeaderIsLast'
  <2>1. CASE name = NoSem
    BY <1>3, <2>1 DEF CreateSem, Goto, TypeOK, Process, At, NoSem, NoFile, NoHeader, CallsInOrder, HeaderIsLast, UnderLock
  <2>2. CASE name # NoSem
    BY <1>3, <2>2 DEF CreateSem, Goto, TypeOK, Process, At, NoSem, NoFile, NoHeader, CallsInOrder, HeaderIsLast, UnderLock
  <2> QED  BY <2>1, <2>2
<1>4. ASSUME NEW p \in Server, ReopenSem(p) PROVE HeaderIsLast'
  <2>1. CASE name = NoSem
    BY <1>4, <2>1, ExitHeader DEF ReopenSem, Process
  <2>2. CASE name # NoSem
    BY <1>4, <2>2 DEF ReopenSem, Goto, TypeOK, Process, At, NoSem, NoFile, NoHeader, CallsInOrder, HeaderIsLast, UnderLock
  <2> QED  BY <2>1, <2>2
<1>5. ASSUME NEW p \in Server, Empty(p) PROVE HeaderIsLast'
  <2>1. /\ log'.emptied = log.emptied + 1 /\ log.emptied \in Nat
        /\ id' = id /\ joined' = joined /\ joined \in [Process -> Nat]
    BY <1>5 DEF Empty, TypeOK
  <2>2. \A q \in Process : joined'[q] < log'.emptied
    BY <2>1 DEF HeaderIsLast
  <2> QED  BY <2>1, <2>2 DEF HeaderIsLast
<1>6. ASSUME NEW p \in Server, ZeroHeader(p) PROVE HeaderIsLast'
  BY <1>6 DEF ZeroHeader, Goto, TypeOK, Process, At, NoSem, NoFile, NoHeader, CallsInOrder, HeaderIsLast, UnderLock
<1>7. ASSUME NEW p \in Server, Post(p) PROVE HeaderIsLast'
  BY <1>7 DEF Post, Goto, TypeOK, Process, At, NoSem, NoFile, NoHeader, CallsInOrder, HeaderIsLast, UnderLock
<1>8. ASSUME NEW p \in Server, Lock(p) PROVE HeaderIsLast'
  BY <1>8 DEF Lock, Goto, TypeOK, Process, At, NoSem, NoFile, NoHeader, CallsInOrder, HeaderIsLast, UnderLock
<1>9. ASSUME NEW p \in Server, ReadHeader(p) PROVE HeaderIsLast'
  <2>1. CASE log.header = NoHeader
    BY <1>9, <2>1, ExitHeader DEF ReadHeader, Process
  <2>2. CASE log.header # NoHeader
    <3>1. /\ p \in Process /\ log' = log /\ pc[p] = "read_header"
          /\ log.header \in Nat /\ log.emptied \in Nat
          /\ id' = [id EXCEPT ![p] = log.header + 1]
          /\ joined' = [joined EXCEPT ![p] = log.emptied]
          /\ pc' = [pc EXCEPT ![p] = "write_header"]
      BY <1>9, <2>2 DEF ReadHeader, Goto, TypeOK, Process, At, NoSem, NoFile, NoHeader, CallsInOrder
    <3>2. \A q \in Process : q # p => pc[q] # "write_header"
      BY <3>1 DEF TypeOK, CallsInOrder, UnderLock
    <3> QED  BY <3>1, <3>2 DEF HeaderIsLast, TypeOK
  <2> QED  BY <2>1, <2>2
<1>10. ASSUME NEW p \in Server, WriteHeader(p) PROVE HeaderIsLast'
  <2>1. /\ p \in Process /\ log'.header = id[p] /\ log'.emptied = log.emptied
        /\ pc[p] = "write_header" /\ pc' = [pc EXCEPT ![p] = "unlock"]
        /\ id' = id /\ joined' = joined
    BY <1>10 DEF WriteHeader, Goto, TypeOK, Process, At, NoSem, NoFile, NoHeader
  <2>2. \A q \in Process : q # p => pc[q] # "write_header"
    BY <2>1 DEF TypeOK, CallsInOrder, UnderLock
  <2>3. id \in [Process -> Nat] /\ pc \in [Process -> Settled \cup Calls]
    BY DEF TypeOK
  <2> HIDE DEF SessionInv
  <2>4. CASE joined[p] = log.emptied
    <3>1. \A q \in Process : joined[q] = log.emptied /\ id[q] # 0 => id[q] <= id[p]
      <4>1. id[p] \in Nat /\ \A q \in Process : id[q] \in Nat
        BY <2>1, <2>3
      <4>2. log.header \in Int
        BY DEF SessionInv, TypeOK, NoFile, NoHeader
      <4>3. id[p] = log.header + 1
        BY <2>1, <2>4 DEF SessionInv, CallsInOrder, HeaderIsLast
      <4>4. \A q \in Process \ {p} : joined[q] = log.emptied /\ id[q] # 0
                                     => id[q] <= log.header
        BY <2>2 DEF SessionInv, HeaderIsLast
      <4> QED  BY <4>1, <4>2, <4>3, <4>4
    <3> QED  BY <2>1, <2>2, <2>3, <3>1 DEF SessionInv, HeaderIsLast
  <2>5. CASE joined[p] # log.emptied
    <3>1. \A q \in Process : id[q] # 0 => joined[q] # log.emptied
      BY <2>1, <2>5 DEF SessionInv, HeaderIsLast
    <3> QED  BY <2>1, <2>2, <2>3, <3>1 DEF SessionInv, HeaderIsLast
  <2> QED  BY <2>4, <2>5
<1>11. ASSUME NEW p \in Server, Unlock(p) PROVE HeaderIsLast'
  BY <1>11 DEF Unlock, Goto, TypeOK, Process, At, NoSem, NoFile, NoHeader, CallsInOrder, HeaderIsLast, UnderLock
<1>12. ASSUME NEW p \in Viewer, OpenViewer(p) PROVE HeaderIsLast'
  BY <1>12 DEF OpenViewer, Goto, TypeOK, Process, At, NoSem, NoFile, NoHeader, CallsInOrder, HeaderIsLast, UnderLock
<1>13. ASSUME NEW p \in Viewer, ViewSem(p) PROVE HeaderIsLast'
  BY <1>13 DEF ViewSem, Goto, TypeOK, Process, At, NoSem, NoFile, NoHeader, CallsInOrder, HeaderIsLast, UnderLock
<1>14. ASSUME NEW p \in Viewer, ViewPost(p) PROVE HeaderIsLast'
  BY <1>14 DEF ViewPost, Goto, TypeOK, Process, At, NoSem, NoFile, NoHeader, CallsInOrder, HeaderIsLast, UnderLock
<1>15. ASSUME NEW p \in Process, GetValue(p) PROVE HeaderIsLast'
  BY <1>15 DEF GetValue, Goto, TypeOK, Process, At, NoSem, NoFile, NoHeader, CallsInOrder, HeaderIsLast, UnderLock
<1>16. ASSUME NEW p \in Process, TryWait(p) PROVE HeaderIsLast'
  <2>1. CASE Goto(p, "unlink") /\ UNCHANGED <<holder, sem, id, joined, sval>>
    BY <1>16, <2>1 DEF TryWait, Goto, TypeOK, Process, At, NoSem, NoFile, NoHeader, CallsInOrder, HeaderIsLast, UnderLock
  <2>2. CASE Exit(p, "gone")
    BY <1>16, <2>2, ExitHeader DEF TryWait
  <2> QED  BY <1>16, <2>1, <2>2 DEF TryWait
<1>17. ASSUME NEW p \in Process, Unlink(p) PROVE HeaderIsLast'
  BY <1>17, ExitHeader DEF Unlink
<1>18. ASSUME NEW p \in Process, Kill(p) PROVE HeaderIsLast'
  BY <1>18, ExitHeader DEF Kill
<1>19. CASE UNCHANGED vars
  BY <1>19 DEF vars, TypeOK, Process, At, NoSem, NoFile, NoHeader, CallsInOrder, HeaderIsLast, UnderLock
<1> QED
  BY <1>1, <1>2, <1>3, <1>4, <1>5, <1>6, <1>7, <1>8, <1>9, <1>10, <1>11, <1>12, <1>13, <1>14, <1>15, <1>16, <1>17, <1>18, <1>19 DEF Next, Login, View, Logout

\* Only ReadHeader gives an id, under the lock: nobody else has a greater one than the header.
LEMMA DifferentStep == SessionInv /\ [Next]_vars => DifferentIDs'
<1> SUFFICES ASSUME SessionInv, [Next]_vars PROVE DifferentIDs'
  OBVIOUS
<1> USE DEF SessionInv
<1>1. ASSUME NEW p \in Server, OpenLog(p) PROVE DifferentIDs'
  BY <1>1 DEF OpenLog, DifferentIDs
<1>2. ASSUME NEW p \in Server, UnlinkStale(p) PROVE DifferentIDs'
  BY <1>2 DEF UnlinkStale, DifferentIDs
<1>3. ASSUME NEW p \in Server, CreateSem(p) PROVE DifferentIDs'
  BY <1>3 DEF CreateSem, DifferentIDs
<1>4. ASSUME NEW p \in Server, ReopenSem(p) PROVE DifferentIDs'
  <2>1. CASE name = NoSem
    BY <1>4, <2>1, ExitHeader DEF ReopenSem, Process
  <2>2. CASE name # NoSem
    BY <1>4, <2>2 DEF ReopenSem, TypeOK, Process, DifferentIDs
  <2> QED  BY <2>1, <2>2
<1>5. ASSUME NEW p \in Server, Empty(p) PROVE DifferentIDs'
  BY <1>5 DEF Empty, DifferentIDs
<1>6. ASSUME NEW p \in Server, ZeroHeader(p) PROVE DifferentIDs'
  BY <1>6 DEF ZeroHeader, DifferentIDs
<1>7. ASSUME NEW p \in Server, Post(p) PROVE DifferentIDs'
  BY <1>7 DEF Post, DifferentIDs
<1>8. ASSUME NEW p \in Server, Lock(p) PROVE DifferentIDs'
  BY <1>8 DEF Lock, DifferentIDs
<1>9. ASSUME NEW p \in Server, ReadHeader(p) PROVE DifferentIDs'
  <2>1. CASE log.header = NoHeader
    BY <1>9, <2>1, ExitHeader DEF ReadHeader, Process
  <2>2. CASE log.header # NoHeader
    <3>1. /\ p \in Process /\ pc[p] = "read_header"
          /\ log.header \in Nat
          /\ id' = [id EXCEPT ![p] = log.header + 1]
          /\ joined' = [joined EXCEPT ![p] = log.emptied]
      BY <1>9, <2>2 DEF ReadHeader, TypeOK, Process, At, NoSem, NoFile, NoHeader, CallsInOrder
    <3>2. \A q \in Process : q # p => pc[q] # "write_header"
      BY <3>1 DEF TypeOK, CallsInOrder, UnderLock
    <3>3. \A q \in Process : q # p /\ id[q] # 0 /\ joined[q] = log.emptied
                             => id[q] <= log.header
      BY <3>1, <3>2 DEF HeaderIsLast
    <3>4. \A q \in Process : id[q] \in Nat
      BY DEF TypeOK
    <3>5. \A q \in Process : q # p /\ id[q] # 0 /\ joined[q] = log.emptied
                             => id[q] # log.header + 1
      BY <3>1, <3>3, <3>4
    <3> QED  BY <3>1, <3>5 DEF TypeOK, Process, DifferentIDs
  <2> QED  BY <2>1, <2>2
<1>10. ASSUME NEW p \in Server, WriteHeader(p) PROVE DifferentIDs'
  BY <1>10 DEF WriteHeader, DifferentIDs
<1>11. ASSUME NEW p \in Server, Unlock(p) PROVE DifferentIDs'
  BY <1>11 DEF Unlock, DifferentIDs
<1>12. ASSUME NEW p \in Viewer, OpenViewer(p) PROVE DifferentIDs'
  <2>1. p \in Process /\ id[p] = 0 /\ id' = id
    BY <1>12 DEF OpenViewer, At, Process, CallsInOrder
  <2>2. \A q \in Process : q # p => joined'[q] = joined[q]
    BY <1>12 DEF OpenViewer, TypeOK
  <2> QED  BY <2>1, <2>2 DEF DifferentIDs
<1>13. ASSUME NEW p \in Viewer, ViewSem(p) PROVE DifferentIDs'
  BY <1>13 DEF ViewSem, DifferentIDs
<1>14. ASSUME NEW p \in Viewer, ViewPost(p) PROVE DifferentIDs'
  BY <1>14 DEF ViewPost, DifferentIDs
<1>15. ASSUME NEW p \in Process, GetValue(p) PROVE DifferentIDs'
  BY <1>15 DEF GetValue, DifferentIDs
<1>16. ASSUME NEW p \in Process, TryWait(p) PROVE DifferentIDs'
  <2>1. CASE UNCHANGED <<holder, sem, id, joined, sval>>
    BY <1>16, <2>1 DEF DifferentIDs
  <2>2. CASE Exit(p, "gone")
    BY <1>16, <2>2, ExitHeader DEF TryWait
  <2> QED  BY <1>16, <2>1, <2>2 DEF TryWait
<1>17. ASSUME NEW p \in Process, Unlink(p) PROVE DifferentIDs'
  BY <1>17, ExitHeader DEF Unlink
<1>18. ASSUME NEW p \in Process, Kill(p) PROVE DifferentIDs'
  BY <1>18, ExitHeader DEF Kill
<1>19. CASE UNCHANGED vars
  BY <1>19 DEF vars, TypeOK, Process, DifferentIDs
<1> QED
  BY <1>1, <1>2, <1>3, <1>4, <1>5, <1>6, <1>7, <1>8, <1>9, <1>10, <1>11, <1>12, <1>13, <1>14, <1>15, <1>16, <1>17, <1>18, <1>19 DEF Next, Login, View, Logout

LEMMA SessionInvariant == Spec => []SessionInv
<1>1. SessionInv /\ [Next]_vars => SessionInv'
  BY TypeStep, OrderStep, LastStep, DifferentStep DEF SessionInv
<1> QED  BY <1>1, SessionInit, PTL DEF Spec

(***************************************************************************)
(* The results.                                                            *)
(***************************************************************************)

\* Type correctness, and one holder of the file lock, for every set of users
\* and viewers and whoever is killed.
THEOREM SessionType == Spec => []TypeOK
<1>1. SessionInv => TypeOK
  BY DEF SessionInv
<1> QED  BY <1>1, SessionInvariant, PTL

\* Two users who took their ids from one log have different ids, in every
\* interleaving of logins, logouts and kills (server/main.cpp:104-111).
THEOREM SessionIDs == Spec => []OneIDPerLog
<1>1. SessionInv => OneIDPerLog
  BY DEF SessionInv, DifferentIDs, OneIDPerLog, Process
<1> QED  BY <1>1, SessionInvariant, PTL

(***************************************************************************)
(* The semaphore.  Whatever interleaves, it counts at least those who have *)
(* posted it and not left.  This alone does not keep a session: a user who *)
(* leaves acts on the value he has read before.                            *)
(***************************************************************************)

\* Who has posted semaphore s and not left.
Counted(p) ==
    pc[p] \in {"lock", "read_header", "write_header", "unlock", "online", "trywait"}

Posted(s) == { p \in Process : sem[p] = s /\ Counted(p) }

SemCounts == \A s \in DOMAIN value : value[s] >= Cardinality(Posted(s))

LEMMA ProcessFinite == IsFiniteSet(Process)
BY FiniteAssumption, FS_Union DEF Process

LEMMA PostedFinite ==
    \A s : IsFiniteSet(Posted(s)) /\ Cardinality(Posted(s)) \in Nat
<1>1. \A s : Posted(s) \subseteq Process
  BY DEF Posted
<1> QED  BY <1>1, ProcessFinite, FS_Subset, FS_CardinalityType

\* A step that only takes processes away from the count.
LEMMA CountKept ==
    ASSUME TypeOK, SemCounts, value' = value,
           \A p \in Process : Counted(p)' => Counted(p) /\ sem'[p] = sem[p]
    PROVE  SemCounts'
<1> SUFFICES ASSUME NEW s \in DOMAIN value
             PROVE  value[s] >= Cardinality(Posted(s)')
  BY DEF SemCounts, Posted
<1>1. Posted(s)' \subseteq Posted(s)
  BY DEF Posted
<1>2. Cardinality(Posted(s)') <= Cardinality(Posted(s))
  BY <1>1, PostedFinite, FS_Subset
<1>3. Cardinality(Posted(s)') \in Nat
  BY <1>1, PostedFinite, FS_Subset, FS_CardinalityType
<1>4. value[s] >= Cardinality(Posted(s))
  BY DEF SemCounts, Posted
<1>5. value[s] \in Nat
  <2>1. value \in Seq(Nat)
    BY DEF TypeOK
  <2> QED  BY <2>1
<1> QED  BY <1>2, <1>3, <1>4, <1>5, PostedFinite

\* A semaphore that was just created counts nobody.
LEMMA CountNew ==
    ASSUME TypeOK, SemCounts, NEW p \in Process, NewSem(p),
           \A q \in Process : Counted(q)' => Counted(q) /\ q # p
    PROVE  SemCounts'
<1> DEFINE N == Len(value)
<1>1. /\ N \in Nat /\ value \in Seq(Nat) /\ value' = Append(value, 0)
      /\ DOMAIN value = 1..N /\ DOMAIN value' = 1..N + 1
      /\ value'[N + 1] = 0 /\ \A s \in 1..N : value'[s] = value[s]
  BY DEF NewSem, TypeOK
<1>2. sem' = [sem EXCEPT ![p] = N + 1] /\ sem \in [Process -> 0..N]
  BY DEF NewSem, TypeOK
<1> HIDE DEF N
<1> SUFFICES ASSUME NEW s \in 1..N + 1
             PROVE  value'[s] >= Cardinality(Posted(s)')
  BY <1>1 DEF SemCounts, Posted
<1>3. CASE s = N + 1
  <2>1. Posted(s)' = {}
    BY <1>1, <1>2, <1>3 DEF Posted
  <2> QED  BY <1>1, <1>3, <2>1, FS_EmptySet
<1>4. CASE s # N + 1
  <2>1. s \in 1..N /\ Posted(s)' \subseteq Posted(s)
    BY <1>1, <1>2, <1>4 DEF Posted
  <2>2. Cardinality(Posted(s)') <= Cardinality(Posted(s))
    BY <2>1, PostedFinite, FS_Subset
  <2>3. Cardinality(Posted(s)') \in Nat
    BY <2>1, PostedFinite, FS_Subset, FS_CardinalityType
  <2>4. value[s] >= Cardinality(Posted(s)) /\ value[s] \in Nat
    BY <1>1, <2>1 DEF SemCounts, Posted
  <2> QED  BY <1>1, <2>1, <2>2, <2>3, <2>4, PostedFinite
<1> QED  BY <1>3, <1>4

\* One process more, and it is counted.
LEMMA CountPost ==
    ASSUME TypeOK, SemCounts, NEW p \in Process, NEW c, c # NoSem,
           sem[p] = c, ~Counted(p), Counted(p)',
           value' = [value EXCEPT ![c] = @ + 1], sem' = sem,
           \A q \in Process \ {p} : Counted(q)' <=> Counted(q)
    PROVE  /\ SemCounts'
           /\ Cardinality(Posted(c)') = Cardinality(Posted(c)) + 1
<1> DEFINE N == Len(value)
<1>1. N \in Nat /\ DOMAIN value = 1..N /\ c \in 1..N /\ value \in [1..N -> Nat]
  BY DEF TypeOK, NoSem
<1>2. /\ DOMAIN value' = 1..N /\ value'[c] = value[c] + 1
      /\ \A s \in 1..N : s # c => value'[s] = value[s]
  BY <1>1
<1>3. /\ Posted(c)' = Posted(c) \cup {p} /\ p \notin Posted(c)
      /\ \A s \in 1..N : s # c => Posted(s)' = Posted(s)
  BY DEF Posted
<1>4. \A s \in 1..N : value[s] >= Cardinality(Posted(s)) /\ value[s] \in Nat
  BY <1>1 DEF SemCounts, Posted
<1> HIDE DEF N
<1>5. Cardinality(Posted(c)') = Cardinality(Posted(c)) + 1
  BY <1>3, PostedFinite, FS_AddElement
<1>6. ASSUME NEW s \in 1..N
      PROVE  value'[s] >= Cardinality(Posted(s)')
  <2>1. CASE s = c
    <3>1. Posted(s)' = Posted(c)'
      BY <2>1 DEF Posted
    <3>2. value[c] >= Cardinality(Posted(c)) /\ value[c] \in Nat
      BY <1>4, <2>1
    <3> QED  BY <1>2, <1>5, <2>1, <3>1, <3>2, PostedFinite
  <2>2. CASE s # c
    BY <1>2, <1>3, <1>4, <2>2
  <2> QED  BY <2>1, <2>2
<1>7. SemCounts'
  BY <1>2, <1>6 DEF SemCounts, Posted
<1> QED  BY <1>5, <1>7

\* One process less.  The semaphore is not 0: it counts the one that leaves.
LEMMA CountWait ==
    ASSUME TypeOK, SemCounts, NEW p \in Process, NEW c, c # NoSem,
           sem[p] = c, Counted(p), ~Counted(p)',
           value' = [value EXCEPT ![c] = IF @ = 0 THEN 0 ELSE @ - 1],
           \A q \in Process \ {p} : sem'[q] = sem[q],
           \A q \in Process \ {p} : Counted(q)' <=> Counted(q)
    PROVE  /\ SemCounts' /\ c \in DOMAIN value
           /\ value[c] \in Nat /\ value[c] >= Cardinality(Posted(c))
           /\ value[c] # 0 /\ value'[c] = value[c] - 1
           /\ Cardinality(Posted(c)') = Cardinality(Posted(c)) - 1
<1> DEFINE N == Len(value)
<1>1. N \in Nat /\ DOMAIN value = 1..N /\ c \in 1..N /\ value \in [1..N -> Nat]
  BY DEF TypeOK, NoSem
<1>2. /\ Posted(c)' = Posted(c) \ {p} /\ p \in Posted(c)
      /\ \A s \in 1..N : s # c => Posted(s)' = Posted(s)
  BY DEF Posted
<1>3. \A s \in 1..N : value[s] >= Cardinality(Posted(s)) /\ value[s] \in Nat
  BY <1>1 DEF SemCounts, Posted
<1> HIDE DEF N
<1>4. /\ Cardinality(Posted(c)') = Cardinality(Posted(c)) - 1
      /\ Cardinality(Posted(c)) # 0
  BY <1>2, PostedFinite, FS_RemoveElement, FS_EmptySet
<1>5. value[c] # 0
  BY <1>1, <1>3, <1>4, PostedFinite
<1>6. /\ DOMAIN value' = 1..N /\ value'[c] = value[c] - 1
      /\ \A s \in 1..N : s # c => value'[s] = value[s]
  BY <1>1, <1>5
<1>7. ASSUME NEW s \in 1..N
      PROVE  value'[s] >= Cardinality(Posted(s)')
  <2>1. CASE s = c
    <3>1. Posted(s)' = Posted(c)'
      BY <2>1 DEF Posted
    <3>2. value[c] >= Cardinality(Posted(c)) /\ value[c] \in Nat
      BY <1>3, <2>1
    <3> QED  BY <1>4, <1>6, <2>1, <3>1, <3>2, PostedFinite
  <2>2. CASE s # c
    BY <1>2, <1>3, <1>6, <2>2
  <2> QED  BY <2>1, <2>2
<1>8. SemCounts'
  BY <1>6, <1>7 DEF SemCounts, Posted
<1> QED  BY <1>1, <1>3, <1>4, <1>5, <1>6, <1>8

\* Where the value of a semaphore changes, or its meaning.
LEMMA CountStep == SessionInv /\ SemCounts /\ [Next]_vars => SemCounts'
<1> SUFFICES ASSUME SessionInv, SemCounts, [Next]_vars PROVE SemCounts'
  OBVIOUS
<1>0. TypeOK /\ CallsInOrder
  BY DEF SessionInv
<1> DEFINE Kept == /\ value' = value
                   /\ \A p \in Process :
                        Counted(p)' => Counted(p) /\ sem'[p] = sem[p]
<1>1. ASSUME NEW p \in Server,
             OpenLog(p) \/ UnlinkStale(p) \/ Empty(p) \/ ZeroHeader(p)
      PROVE  Kept
  BY <1>0, <1>1 DEF OpenLog, UnlinkStale, Empty, ZeroHeader, Goto, At,
                    Counted, TypeOK, Process
<1>2. ASSUME NEW p \in Server, Lock(p) \/ WriteHeader(p) \/ Unlock(p)
      PROVE  Kept
  BY <1>0, <1>2 DEF Lock, WriteHeader, Unlock, Goto, At, Counted, TypeOK,
                    Process
<1>3. ASSUME NEW p \in Process,
             ReadHeader(p) \/ OpenViewer(p) \/ GetValue(p) \/ Unlink(p)
             \/ Kill(p)
      PROVE  Kept
  <2>1. CASE ReadHeader(p)
    BY <1>0, <2>1 DEF ReadHeader, Exit, Goto, At, Counted, TypeOK
  <2>2. CASE OpenViewer(p) \/ GetValue(p)
    BY <1>0, <2>2 DEF OpenViewer, GetValue, Goto, At, Counted, TypeOK
  <2>3. CASE Unlink(p) \/ Kill(p)
    BY <1>0, <2>3 DEF Unlink, Kill, Exit, Goto, At, Counted, TypeOK
  <2> QED  BY <1>3, <2>1, <2>2, <2>3
<1>4. ASSUME NEW p \in Server, CreateSem(p) PROVE SemCounts'
  <2>1. CASE name = NoSem
    <3>1. NewSem(p) /\ \A q \in Process : Counted(q)' => Counted(q) /\ q # p
      BY <1>0, <1>4, <2>1 DEF CreateSem, Goto, At, Counted, TypeOK, Process
    <3> QED  BY <1>0, <3>1, CountNew DEF Process
  <2>2. CASE name # NoSem
    <3>1. Kept
      BY <1>0, <1>4, <2>2 DEF CreateSem, Goto, At, Counted, TypeOK, Process
    <3> QED  BY <1>0, <3>1, CountKept
  <2> QED  BY <2>1, <2>2
<1>5. ASSUME NEW p \in Server, ReopenSem(p) PROVE SemCounts'
  <2>1. Kept
    BY <1>0, <1>5 DEF ReopenSem, OldSem, Exit, Goto, At, Counted, TypeOK,
                      Process
  <2> QED  BY <1>0, <2>1, CountKept
<1>6. ASSUME NEW p \in Viewer, ViewSem(p) PROVE SemCounts'
  <2>1. CASE name = NoSem
    <3>1. NewSem(p) /\ \A q \in Process : Counted(q)' => Counted(q) /\ q # p
      BY <1>0, <1>6, <2>1 DEF ViewSem, Goto, At, Counted, TypeOK, Process
    <3> QED  BY <1>0, <3>1, CountNew DEF Process
  <2>2. CASE name # NoSem
    <3>1. Kept
      BY <1>0, <1>6, <2>2 DEF ViewSem, OldSem, Goto, At, Counted, TypeOK,
                              Process
    <3> QED  BY <1>0, <3>1, CountKept
  <2> QED  BY <2>1, <2>2
<1>7. ASSUME NEW p \in Process, Post(p) \/ ViewPost(p) PROVE SemCounts'
  <2>1. /\ sem[p] # NoSem /\ ~Counted(p) /\ Counted(p)' /\ sem' = sem
        /\ value' = [value EXCEPT ![sem[p]] = @ + 1]
        /\ \A q \in Process \ {p} : Counted(q)' <=> Counted(q)
    BY <1>0, <1>7 DEF Post, ViewPost, Goto, At, Counted, TypeOK, CallsInOrder,
                      HasSem
  <2> QED  BY <1>0, <2>1, CountPost
<1>8. ASSUME NEW p \in Process, TryWait(p) PROVE SemCounts'
  <2>1. /\ sem[p] # NoSem /\ Counted(p) /\ ~Counted(p)'
        /\ value' = [value EXCEPT ![sem[p]] = IF @ = 0 THEN 0 ELSE @ - 1]
        /\ \A q \in Process \ {p} : sem'[q] = sem[q]
        /\ \A q \in Process \ {p} : Counted(q)' <=> Counted(q)
    BY <1>0, <1>8 DEF TryWait, Exit, Goto, At, Counted, TypeOK, CallsInOrder,
                      HasSem
  <2> QED  BY <1>0, <2>1, CountWait
<1>9. CASE UNCHANGED vars
  <2>1. Kept
    BY <1>9 DEF vars, Counted
  <2> QED  BY <1>0, <2>1, CountKept
<1>10. Kept => SemCounts'
  BY <1>0, CountKept
<1> HIDE DEF Kept
<1>11. ASSUME NEW p \in Server, Login(p) PROVE SemCounts'
  <2>1. p \in Process
    BY DEF Process
  <2>2. CASE OpenLog(p) \/ UnlinkStale(p) \/ Empty(p) \/ ZeroHeader(p)
    BY <1>1, <1>10, <2>2
  <2>3. CASE Lock(p) \/ WriteHeader(p) \/ Unlock(p)
    BY <1>2, <1>10, <2>3
  <2>4. CASE ReadHeader(p)
    BY <1>3, <1>10, <2>1, <2>4
  <2>5. CASE CreateSem(p) \/ ReopenSem(p) \/ Post(p)
    BY <1>4, <1>5, <1>7, <2>1, <2>5
  <2> QED  BY <1>11, <2>2, <2>3, <2>4, <2>5 DEF Login
<1>12. ASSUME NEW p \in Viewer, View(p) PROVE SemCounts'
  <2>1. p \in Process
    BY DEF Process
  <2> QED  BY <1>3, <1>6, <1>7, <1>10, <1>12, <2>1 DEF View
<1>13. ASSUME NEW p \in Process, Logout(p) \/ Kill(p) PROVE SemCounts'
  BY <1>3, <1>8, <1>10, <1>13 DEF Logout
<1> QED  BY <1>9, <1>11, <1>12, <1>13 DEF Next

(***************************************************************************)
(* Users who take turns.  While a login or logout is under way no other    *)
(* one is, so that what a process read is still true when it acts on it.   *)
(***************************************************************************)

\* Where a process belongs to the log.
InLog == {"write_header", "unlock", "view_sem", "view_post", "online", "trywait"}

\* Where the log may be without a header.
Making == {"unlink_stale", "create_sem", "empty", "zero_header"}

OneAtATime ==
    \A p, q \in Process :
        pc[p] \notin Settled /\ pc[q] \notin Settled => p = q

\* What a process relies on when it makes its call.
ReliesOn(p) ==
    /\ pc[p] \in HasSem => sem[p] = name
    /\ pc[p] \in InLog => joined[p] = log.emptied
    /\ pc[p] \in {"unlink_stale", "empty", "zero_header", "unlink"}
        => Online = {}
    /\ pc[p] = "trywait" => sval[p] = value[sem[p]]
    /\ pc[p] = "reopen_sem" => name # NoSem
    /\ pc[p] = "create_sem" /\ log.header = NoHeader => name = NoSem
    /\ p \in Server => pc[p] # "failed"

InTurn == \A p \in Process : ReliesOn(p)

\* A log is without a header only while somebody is making it, and without
\* a log there is no semaphore.
HeaderMade ==
    /\ log.header = NoHeader => \E p \in Process : pc[p] \in Making
    /\ log.header = NoFile => name = NoSem

\* Unless somebody was killed, the semaphore counts exactly, and it has its
\* name only as long as somebody has it open.
CountExact ==
    name # NoSem /\ (\A p \in Process : pc[p] # "killed") =>
        /\ value[name] = Cardinality(Posted(name))
        /\ \E p \in Process : pc[p] \in HasSem

TurnInv == OneAtATime /\ InTurn /\ HeaderMade /\ CountExact

SemInv == SessionInv /\ SemCounts /\ (orderly => TurnInv)

LEMMA SemInit == Init => SemInv
<1> SUFFICES ASSUME Init PROVE SemInv
  OBVIOUS
<1>1. SemCounts
  BY DEF Init, SemCounts
<1>2. OneAtATime /\ InTurn /\ HeaderMade /\ CountExact
  BY DEF Init, OneAtATime, InTurn, ReliesOn, HeaderMade, CountExact, HasSem, InLog,
         Settled, NoFile, NoHeader, NoSem
<1> QED  BY <1>1, <1>2, SessionInit DEF SemInv, TurnInv

\* Only one login or logout at a time.
LEMMA TurnsStep ==
    ASSUME TypeOK, orderly, OneAtATime, Next
    PROVE  OneAtATime'
<1> DEFINE Step(p) == \A q \in Process : q # p => pc'[q] = pc[q]
<1>1. ASSUME NEW p \in Process, Step(p),
             \/ \A q \in Process : pc[q] \in Settled
             \/ pc[p] \notin Settled
             \/ pc'[p] \in Settled
      PROVE  OneAtATime'
  BY <1>1 DEF OneAtATime
<1>2. ASSUME NEW p \in Server, Login(p)
      PROVE  Step(p) /\ (pc[p] \notin Settled
                         \/ \A q \in Process : pc[q] \in Settled)
  <2>1. CASE OpenLog(p)
    BY <2>1 DEF OpenLog, Goto, At, Starts, TypeOK
  <2>2. CASE ~OpenLog(p)
    <3>1. pc[p] \in {"unlink_stale", "create_sem", "reopen_sem", "empty",
                     "zero_header", "post", "lock", "read_header",
                     "write_header", "unlock"}
      BY <1>2, <2>2 DEF Login, At, UnlinkStale, CreateSem, ReopenSem, Empty,
             ZeroHeader, Post, Lock, ReadHeader, WriteHeader, Unlock
    <3>2. Step(p)
      BY <1>2, <2>2 DEF Login, Goto, Exit, TypeOK, UnlinkStale, CreateSem,
             ReopenSem, Empty, ZeroHeader, Post, Lock, ReadHeader,
             WriteHeader, Unlock
    <3> QED  BY <3>1, <3>2 DEF Settled
  <2> QED  BY <2>1, <2>2
<1>3. ASSUME NEW p \in Viewer, View(p)
      PROVE  Step(p) /\ (pc[p] \notin Settled
                         \/ \A q \in Process : pc[q] \in Settled)
  BY <1>3 DEF View, OpenViewer, ViewSem, ViewPost, Goto, At, Starts, TypeOK,
              Settled
<1>4. ASSUME NEW p \in Process, Logout(p)
      PROVE  Step(p) /\ (pc[p] \notin Settled
                         \/ \A q \in Process : pc[q] \in Settled)
  BY <1>4 DEF Logout, GetValue, TryWait, Unlink, Goto, Exit, At, Starts,
              TypeOK, Settled
<1>5. ASSUME NEW p \in Process, Kill(p)
      PROVE  Step(p) /\ pc'[p] \in Settled
  BY <1>5 DEF Kill, Exit, Goto, TypeOK, Settled
<1> HIDE DEF Step
<1> QED
  BY <1>1, <1>2, <1>3, <1>4, <1>5 DEF Next, Process

\* The processes that are not at it rely only on the name and the log, and
\* those who are online on that nobody takes them away.
LEMMA OthersRely ==
    ASSUME TypeOK, OneAtATime, InTurn, NEW p \in Process,
           pc[p] \notin Settled \/ \A q \in Process : pc[q] \in Settled,
           \A q \in Process \ {p} : pc'[q] = pc[q] /\ sem'[q] = sem[q]
                                    /\ joined'[q] = joined[q],
           Online = {} \/ (name' = name /\ log'.emptied = log.emptied),
           ReliesOn(p)'
    PROVE  InTurn'
<1> SUFFICES ASSUME NEW q \in Process, q # p
             PROVE  ReliesOn(q)'
  BY DEF InTurn
<1>1. pc[q] \in Settled /\ pc'[q] = pc[q]
  BY DEF OneAtATime
<1>2. ReliesOn(q)
  BY DEF InTurn
<1>3. pc[q] = "online" =>
        name' = name /\ log'.emptied = log.emptied
  BY DEF Online
<1> QED
  BY <1>1, <1>2, <1>3 DEF ReliesOn, Settled, HasSem, InLog

\* What a process relies on stays true until it has acted on it.
LEMMA InTurnStep ==
    ASSUME SemInv, orderly, TurnInv, Next
    PROVE  InTurn'
<1>0. /\ TypeOK /\ CallsInOrder /\ OneAtATime /\ InTurn /\ HeaderMade
      /\ SemCounts
  BY DEF SemInv, SessionInv, TurnInv
<1> DEFINE Kept(p) ==
        /\ pc[p] \notin Settled \/ \A q \in Process : pc[q] \in Settled
        /\ \A q \in Process \ {p} : pc'[q] = pc[q] /\ sem'[q] = sem[q]
                                    /\ joined'[q] = joined[q]
        /\ Online = {} \/ (name' = name /\ log'.emptied = log.emptied)
<1>k. \A p \in Process : Kept(p) /\ ReliesOn(p)' => InTurn'
  BY <1>0, OthersRely
<1> HIDE DEF Kept
<1>c. ASSUME NEW p \in Process, pc[p] \in HasSem
      PROVE  /\ sem[p] # NoSem /\ sem[p] = name /\ name \in 1..Len(value)
             /\ pc[p] \in InLog => joined[p] = log.emptied
  BY <1>0, <1>c DEF CallsInOrder, InTurn, ReliesOn, TypeOK, NoSem
<1>1. ASSUME NEW p \in Server, OpenLog(p) PROVE InTurn'
  <2>1. p \in Process /\ \A q \in Process : pc[q] \in Settled
    BY <1>1 DEF OpenLog, Starts, Process
  <2>2. Kept(p)
    <3>1. log'.emptied = log.emptied
      BY <1>0, <1>1 DEF OpenLog, TypeOK
    <3> QED  BY <1>0, <1>1, <2>1, <3>1 DEF Kept, OpenLog, Goto, TypeOK
  <2>3. CASE log.header = NoFile
    <3>1. Online = {} /\ Online' = {}
      BY <1>0, <1>1, <2>1, <2>3
         DEF OpenLog, Goto, TypeOK, CallsInOrder, Online
    <3> QED  BY <1>0, <1>1, <1>k, <2>1, <2>2, <2>3, <3>1
               DEF OpenLog, Goto, TypeOK, ReliesOn, HasSem, InLog
  <2>4. CASE log.header # NoFile
    <3>1. log.header # NoHeader
      BY <1>0, <2>1 DEF HeaderMade, Making, Settled
    <3> QED  BY <1>0, <1>1, <1>k, <2>1, <2>2, <2>4, <3>1
               DEF OpenLog, Goto, TypeOK, ReliesOn, HasSem, InLog
  <2> QED  BY <2>3, <2>4
<1>2. ASSUME NEW p \in Server, UnlinkStale(p) PROVE InTurn'
  <2>1. p \in Process /\ pc[p] = "unlink_stale" /\ Online = {}
    BY <1>0, <1>2 DEF UnlinkStale, At, InTurn, ReliesOn, Process
  <2>2. Kept(p)
    BY <1>0, <1>2, <2>1 DEF Kept, UnlinkStale, Goto, TypeOK, Settled
  <2> QED  BY <1>0, <1>2, <1>k, <2>1, <2>2
             DEF UnlinkStale, Goto, TypeOK, ReliesOn, HasSem, InLog
<1>3. ASSUME NEW p \in Server, CreateSem(p) PROVE InTurn'
  <2>1. p \in Process /\ pc[p] = "create_sem"
        /\ (log.header = NoHeader => name = NoSem)
    BY <1>0, <1>3 DEF CreateSem, At, InTurn, ReliesOn, Process
  <2>2. name = NoSem => Online = {} /\ Online' = {}
    <3>1. name = NoSem => Online = {}
      BY <1>c DEF Online, HasSem
    <3> QED  BY <1>0, <1>3, <2>1, <3>1 DEF CreateSem, Goto, TypeOK, Online
  <2>3. Kept(p)
    BY <1>0, <1>3, <2>1, <2>2
       DEF Kept, CreateSem, NewSem, Goto, TypeOK, Settled
  <2>4. CASE name = NoSem
    <3>1. sem'[p] = name' /\ pc'[p] = "empty"
      BY <1>0, <1>3, <2>1, <2>4 DEF CreateSem, NewSem, Goto, TypeOK
    <3> QED  BY <1>k, <2>1, <2>2, <2>3, <2>4, <3>1 DEF ReliesOn, HasSem, InLog
  <2>5. CASE name # NoSem
    <3>1. name' # NoSem /\ pc'[p] = "reopen_sem"
      BY <1>0, <1>3, <2>1, <2>5 DEF CreateSem, Goto, TypeOK
    <3> QED  BY <1>k, <2>1, <2>3, <3>1 DEF ReliesOn, HasSem, InLog
  <2> QED  BY <2>4, <2>5
<1>4. ASSUME NEW p \in Server, ReopenSem(p) PROVE InTurn'
  <2>1. p \in Process /\ pc[p] = "reopen_sem" /\ name # NoSem
    BY <1>0, <1>4 DEF ReopenSem, At, InTurn, ReliesOn, Process
  <2>2. /\ pc' = [pc EXCEPT ![p] = "post"] /\ sem' = [sem EXCEPT ![p] = name]
        /\ UNCHANGED <<name, log, joined>>
    BY <1>4, <2>1 DEF ReopenSem, OldSem, Goto
  <2>3. Kept(p)
    BY <1>0, <2>1, <2>2 DEF Kept, TypeOK, Settled
  <2>4. pc'[p] = "post" /\ sem'[p] = name'
    BY <1>0, <2>1, <2>2 DEF TypeOK
  <2> QED  BY <1>k, <2>1, <2>3, <2>4 DEF ReliesOn, HasSem, InLog
<1>5. ASSUME NEW p \in Server, Empty(p) PROVE InTurn'
  <2>1. p \in Process /\ pc[p] = "empty" /\ Online = {} /\ sem[p] = name
    BY <1>0, <1>5 DEF Empty, At, InTurn, ReliesOn, HasSem, Process
  <2>2. Kept(p)
    BY <1>0, <1>5, <2>1 DEF Kept, Empty, Goto, TypeOK, Settled
  <2>3. pc'[p] = "zero_header" /\ sem'[p] = name' /\ Online' = {}
    BY <1>0, <1>5, <2>1 DEF Empty, Goto, TypeOK, Online
  <2> QED  BY <1>k, <2>1, <2>2, <2>3 DEF ReliesOn, HasSem, InLog
<1>6. ASSUME NEW p \in Server,
             ZeroHeader(p) \/ Post(p) \/ Lock(p)
      PROVE  InTurn'
  <2>1. /\ p \in Process /\ pc[p] \in {"zero_header", "post", "lock"}
        /\ sem[p] = name
    BY <1>0, <1>6 DEF ZeroHeader, Post, Lock, At, InTurn, ReliesOn, HasSem,
                      Process
  <2>2. log'.emptied = log.emptied
    BY <1>0, <1>6 DEF ZeroHeader, Post, Lock, TypeOK
  <2>3. Kept(p)
    BY <1>0, <1>6, <2>1, <2>2
       DEF Kept, ZeroHeader, Post, Lock, Goto, TypeOK, Settled
  <2>4. pc'[p] \in {"post", "lock", "read_header"} /\ sem'[p] = name'
    BY <1>0, <1>6, <2>1 DEF ZeroHeader, Post, Lock, Goto, TypeOK
  <2> QED  BY <1>k, <2>1, <2>3, <2>4 DEF ReliesOn, HasSem, InLog
<1>7. ASSUME NEW p \in Server, ReadHeader(p) PROVE InTurn'
  <2>1. p \in Process /\ pc[p] = "read_header" /\ sem[p] = name
    BY <1>0, <1>7 DEF ReadHeader, At, InTurn, ReliesOn, HasSem, Process
  <2>2. log.header # NoHeader
    BY <1>0, <2>1 DEF HeaderMade, OneAtATime, Making, Settled
  <2>3. /\ pc' = [pc EXCEPT ![p] = "write_header"]
        /\ joined' = [joined EXCEPT ![p] = log.emptied]
        /\ UNCHANGED <<name, log, sem>>
    BY <1>7, <2>2 DEF ReadHeader, Goto
  <2>4. Kept(p)
    BY <1>0, <2>1, <2>3 DEF Kept, TypeOK, Settled
  <2>5. /\ pc'[p] = "write_header" /\ sem'[p] = name'
        /\ joined'[p] = log'.emptied
    BY <1>0, <2>1, <2>3 DEF TypeOK
  <2> QED  BY <1>k, <2>1, <2>4, <2>5 DEF ReliesOn, HasSem, InLog
<1>8. ASSUME NEW p \in Server, WriteHeader(p) \/ Unlock(p) PROVE InTurn'
  <2>1. /\ p \in Process /\ pc[p] \in {"write_header", "unlock"}
        /\ sem[p] = name /\ joined[p] = log.emptied
    BY <1>0, <1>8 DEF WriteHeader, Unlock, At, InTurn, ReliesOn, HasSem,
                      InLog, Process
  <2>2. log'.emptied = log.emptied
    BY <1>0, <1>8 DEF WriteHeader, Unlock, TypeOK
  <2>3. Kept(p)
    BY <1>0, <1>8, <2>1, <2>2
       DEF Kept, WriteHeader, Unlock, Goto, TypeOK, Settled
  <2>4. /\ pc'[p] \in {"unlock", "online"} /\ sem'[p] = name'
        /\ joined'[p] = log'.emptied
    BY <1>0, <1>8, <2>1, <2>2 DEF WriteHeader, Unlock, Goto, TypeOK
  <2> QED  BY <1>k, <2>1, <2>3, <2>4 DEF ReliesOn, HasSem, InLog
<1>9. ASSUME NEW p \in Viewer, OpenViewer(p) PROVE InTurn'
  <2>1. /\ p \in Process /\ p \notin Server
        /\ \A q \in Process : pc[q] \in Settled
    BY <1>9, ViewerAssumption DEF OpenViewer, Starts, Process
  <2>2. Kept(p)
    BY <1>0, <1>9, <2>1 DEF Kept, OpenViewer, Goto, TypeOK
  <2>3. \/ pc'[p] = "failed"
        \/ pc'[p] = "view_sem" /\ joined'[p] = log'.emptied
    BY <1>0, <1>9, <2>1 DEF OpenViewer, Goto, TypeOK
  <2> QED  BY <1>k, <2>1, <2>2, <2>3 DEF ReliesOn, HasSem, InLog
<1>10. ASSUME NEW p \in Viewer, ViewSem(p) PROVE InTurn'
  <2>1. p \in Process /\ pc[p] = "view_sem" /\ joined[p] = log.emptied
    BY <1>0, <1>10 DEF ViewSem, At, InTurn, ReliesOn, InLog, Process
  <2>2. name = NoSem => Online = {}
    BY <1>c DEF Online, HasSem
  <2>3. Kept(p)
    BY <1>0, <1>10, <2>1, <2>2
       DEF Kept, ViewSem, NewSem, OldSem, Goto, TypeOK, Settled
  <2>4. /\ pc'[p] = "view_post" /\ sem'[p] = name'
        /\ joined'[p] = log'.emptied
    BY <1>0, <1>10, <2>1 DEF ViewSem, NewSem, OldSem, Goto, TypeOK
  <2> QED  BY <1>k, <2>1, <2>3, <2>4 DEF ReliesOn, HasSem, InLog
<1>11. ASSUME NEW p \in Viewer, ViewPost(p) PROVE InTurn'
  <2>1. /\ p \in Process /\ pc[p] = "view_post" /\ joined[p] = log.emptied
        /\ sem[p] = name
    BY <1>0, <1>11 DEF ViewPost, At, InTurn, ReliesOn, HasSem, InLog, Process
  <2>2. Kept(p)
    BY <1>0, <1>11, <2>1 DEF Kept, ViewPost, Goto, TypeOK, Settled
  <2>3. pc'[p] = "online" /\ sem'[p] = name' /\ joined'[p] = log'.emptied
    BY <1>0, <1>11, <2>1 DEF ViewPost, Goto, TypeOK
  <2> QED  BY <1>k, <2>1, <2>2, <2>3 DEF ReliesOn, HasSem, InLog
<1>12. ASSUME NEW p \in Process, GetValue(p) PROVE InTurn'
  <2>1. /\ \A q \in Process : pc[q] \in Settled
        /\ pc[p] = "online" /\ joined[p] = log.emptied /\ sem[p] = name
    BY <1>0, <1>12 DEF GetValue, At, Starts, InTurn, ReliesOn, HasSem, InLog
  <2>2. Kept(p)
    BY <1>0, <1>12, <2>1 DEF Kept, GetValue, Goto, TypeOK
  <2>3. /\ pc'[p] = "trywait" /\ sem'[p] = name' /\ joined'[p] = log'.emptied
        /\ sval'[p] = value'[sem'[p]]
    BY <1>0, <1>12, <2>1 DEF GetValue, Goto, TypeOK
  <2> QED  BY <1>k, <2>2, <2>3 DEF ReliesOn, HasSem, InLog
<1>13. ASSUME NEW p \in Process, TryWait(p) PROVE InTurn'
  <2>1. /\ pc[p] = "trywait" /\ sem[p] = name /\ sem[p] # NoSem
        /\ sval[p] = value[sem[p]]
    BY <1>0, <1>13, <1>c DEF TryWait, At, InTurn, ReliesOn, HasSem
  <2>2. Kept(p)
    BY <1>0, <1>13, <2>1 DEF Kept, TryWait, Exit, Goto, TypeOK, Settled
  <2>3. PICK c : c = sem[p]
    OBVIOUS
  <2>4. /\ value[c] \in Nat /\ value[c] >= Cardinality(Posted(c))
        /\ value[c] # 0
        /\ Cardinality(Posted(c)') = Cardinality(Posted(c)) - 1
    <3>1. /\ value' = [value EXCEPT ![c] = IF @ = 0 THEN 0 ELSE @ - 1]
          /\ Counted(p) /\ ~Counted(p)'
          /\ \A q \in Process \ {p} : sem'[q] = sem[q]
          /\ \A q \in Process \ {p} : Counted(q)' <=> Counted(q)
      BY <1>0, <1>13, <2>1, <2>3
         DEF TryWait, Exit, Goto, Counted, TypeOK
    <3> QED  BY <1>0, <2>1, <2>3, <3>1, CountWait
  <2>5. CASE value[c] # 1
    <3>1. pc'[p] = "gone"
      BY <1>0, <1>13, <2>1, <2>3, <2>4, <2>5 DEF TryWait, Exit, Goto, TypeOK
    <3> QED  BY <1>k, <2>2, <3>1 DEF ReliesOn, HasSem, InLog
  <2>6. CASE value[c] = 1
    <3>1. pc'[p] = "unlink" /\ sem'[p] = name'
      BY <1>0, <1>13, <2>1, <2>3, <2>6 DEF TryWait, Goto, TypeOK
    <3>2. Posted(c)' = {}
      <4>0. IsFiniteSet(Posted(c)')
        <5>1. Posted(c)' \subseteq Process
          BY DEF Posted
        <5> QED  BY <5>1, ProcessFinite, FS_Subset
      <4>1. Cardinality(Posted(c)') = 0
        <5>1. Cardinality(Posted(c)) \in Nat /\ Cardinality(Posted(c)') \in Nat
          BY <4>0, PostedFinite, FS_CardinalityType
        <5> QED  BY <2>4, <2>6, <5>1
      <4> QED  BY <4>0, <4>1, FS_EmptySet
    <3>3. Online' = {}
      <4> SUFFICES ASSUME NEW q \in Process, pc'[q] = "online"
                   PROVE  FALSE
        BY DEF Online
      <4>1. q # p /\ pc[q] = "online" /\ sem'[q] = sem[q]
        BY <2>2, <3>1 DEF Kept
      <4>2. sem[q] = c
        BY <1>c, <2>1, <2>3, <4>1 DEF HasSem
      <4> QED  BY <3>2, <4>1, <4>2 DEF Posted, Counted
    <3> QED  BY <1>k, <2>2, <3>1, <3>3 DEF ReliesOn, HasSem, InLog
  <2> QED  BY <2>5, <2>6
<1>14. ASSUME NEW p \in Process, Unlink(p) PROVE InTurn'
  <2>1. pc[p] = "unlink" /\ Online = {}
    BY <1>0, <1>14 DEF Unlink, At, InTurn, ReliesOn
  <2>2. Kept(p)
    BY <1>0, <1>14, <2>1 DEF Kept, Unlink, Exit, Goto, TypeOK, Settled
  <2>3. pc'[p] = "gone"
    BY <1>0, <1>14 DEF Unlink, Exit, Goto, TypeOK
  <2> QED  BY <1>k, <2>2, <2>3 DEF ReliesOn, HasSem, InLog
<1>15. ASSUME NEW p \in Process, Kill(p) PROVE InTurn'
  <2>1. /\ \A q \in Process \ {p} : pc'[q] = pc[q] /\ sem'[q] = sem[q]
                                    /\ joined'[q] = joined[q]
        /\ pc'[p] = "killed" /\ pc[p] = "online"
        /\ UNCHANGED <<name, log, value>> /\ sval'[p] = 0
        /\ \A q \in Process \ {p} : sval'[q] = sval[q]
    BY <1>0, <1>15 DEF Kill, At, Exit, Goto, TypeOK
  <2>2. Online' \subseteq Online
    BY <2>1 DEF Online
  <2> QED  BY <1>0, <2>1, <2>2 DEF InTurn, ReliesOn, HasSem, InLog
<1> QED
  BY <1>1, <1>2, <1>3, <1>4, <1>5, <1>6, <1>7, <1>8, <1>9, <1>10, <1>11, <1>12, <1>13, <1>14, <1>15
     DEF Next, Login, View, Logout

LEMMA HeaderMadeStep ==
    ASSUME SemInv, orderly, TurnInv, Next
    PROVE  HeaderMade'
<1>0. /\ TypeOK /\ CallsInOrder /\ OneAtATime /\ InTurn /\ HeaderMade
  BY DEF SemInv, SessionInv, TurnInv
<1> USE DEF HeaderMade, Making, NoFile, NoHeader, NoSem
\* A step that leaves the header, and does not end the making of a log.
<1>k. ASSUME log'.header = log.header, NEW p \in Process,
             \A q \in Process \ {p} : pc'[q] = pc[q],
             pc[p] \in Making => pc'[p] \in Making \/ log.header # NoHeader,
             log.header = NoFile => name' = name
      PROVE  HeaderMade'
  BY <1>0, <1>k
<1>1. ASSUME NEW p \in Server, OpenLog(p) PROVE HeaderMade'
  <2>1. p \in Process /\ pc[p] = "start"
    BY <1>1 DEF OpenLog, At, Process
  <2>2. CASE log.header = NoFile
    BY <1>0, <1>1, <2>1, <2>2 DEF OpenLog, Goto, TypeOK
  <2>3. CASE log.header # NoFile
    BY <1>0, <1>1, <1>k, <2>1, <2>3 DEF OpenLog, Goto, TypeOK
  <2> QED  BY <2>2, <2>3
<1>2. ASSUME NEW p \in Server, UnlinkStale(p) \/ CreateSem(p) PROVE HeaderMade'
  <2>1. /\ p \in Process /\ pc[p] \in {"unlink_stale", "create_sem"}
        /\ log.header # NoFile
    BY <1>0, <1>2 DEF UnlinkStale, CreateSem, At, CallsInOrder, Process
  <2>2. log' = log /\ \A q \in Process \ {p} : pc'[q] = pc[q]
    BY <1>0, <1>2 DEF UnlinkStale, CreateSem, Goto, TypeOK
  <2>3. pc'[p] \in Making \/ log.header # NoHeader
    BY <1>0, <1>2, <2>1
       DEF UnlinkStale, CreateSem, At, Goto, TypeOK, InTurn, ReliesOn
  <2> QED  BY <1>k, <2>1, <2>2, <2>3
<1>3. ASSUME NEW p \in Server, Empty(p) PROVE HeaderMade'
  BY <1>0, <1>3 DEF Empty, Goto, TypeOK, Process
<1>4. ASSUME NEW p \in Server, ZeroHeader(p) \/ WriteHeader(p) PROVE HeaderMade'
  <2>1. p \in Process /\ pc[p] \in {"zero_header", "write_header"}
    BY <1>4 DEF ZeroHeader, WriteHeader, At, Process
  <2>2. log.header # NoFile /\ log.header \in {NoHeader} \cup Nat
    BY <1>0, <2>1 DEF CallsInOrder, TypeOK
  <2>3. log'.header \in Nat
    <3>0. log \in [header : {NoFile, NoHeader} \cup Nat, emptied : Nat]
      BY <1>0 DEF TypeOK
    <3>1. CASE ZeroHeader(p)
      <4>1. log' = [log EXCEPT !.header = IF @ = NoHeader THEN 0 ELSE @]
        BY <3>1 DEF ZeroHeader
      <4> QED  BY <2>2, <3>0, <4>1
    <3>2. CASE WriteHeader(p)
      <4>1. log' = [log EXCEPT !.header = id[p]] /\ id[p] \in Nat
        BY <1>0, <2>1, <3>2 DEF WriteHeader, TypeOK
      <4> QED  BY <3>0, <4>1
    <3> QED  BY <1>4, <3>1, <3>2
  <2> QED  BY <2>3
<1>5. ASSUME NEW p \in Process,
             ReopenSem(p) \/ Post(p) \/ Lock(p) \/ ReadHeader(p) \/ Unlock(p)
      PROVE  HeaderMade'
  <2>1. pc[p] \in {"reopen_sem", "post", "lock", "read_header", "unlock"}
    BY <1>5 DEF ReopenSem, Post, Lock, ReadHeader, Unlock, At
  <2>2. log.header # NoFile
    BY <1>0, <2>1 DEF CallsInOrder
  <2>3. log' = log /\ \A q \in Process \ {p} : pc'[q] = pc[q]
    BY <1>0, <1>5
       DEF ReopenSem, Post, Lock, ReadHeader, Unlock, Exit, Goto, TypeOK
  <2> QED  BY <1>k, <2>1, <2>2, <2>3
<1>6. ASSUME NEW p \in Process, View(p) PROVE HeaderMade'
  <2>1. /\ pc[p] \in {"start", "view_sem", "view_post"} /\ log' = log
        /\ \A q \in Process \ {p} : pc'[q] = pc[q]
    BY <1>0, <1>6
       DEF View, OpenViewer, ViewSem, ViewPost, At, Goto, TypeOK
  <2>2. log.header = NoFile => name' = name
    BY <1>0, <1>6
       DEF View, OpenViewer, ViewSem, ViewPost, At, CallsInOrder
  <2> QED  BY <1>k, <2>1, <2>2
<1>7. ASSUME NEW p \in Process, Logout(p) \/ Kill(p) PROVE HeaderMade'
  <2>1. /\ pc[p] \in {"online", "trywait", "unlink"} /\ log' = log
        /\ \A q \in Process \ {p} : pc'[q] = pc[q]
    BY <1>0, <1>7
       DEF Logout, GetValue, TryWait, Unlink, Kill, At, Exit, Goto, TypeOK
  <2>2. log.header # NoFile
    BY <1>0, <2>1 DEF CallsInOrder
  <2> QED  BY <1>k, <2>1, <2>2
<1> QED
  BY <1>1, <1>2, <1>3, <1>4, <1>5, <1>6, <1>7 DEF Next, Login, Process

LEMMA CountExactStep ==
    ASSUME SemInv, orderly, TurnInv, Next
    PROVE  CountExact'
<1> DEFINE Alive == \A p \in Process : pc[p] # "killed"
           Open == \E p \in Process : pc[p] \in HasSem
<1>0. /\ TypeOK /\ CallsInOrder /\ OneAtATime /\ InTurn /\ SemCounts
      /\ name # NoSem /\ Alive => value[name] = Cardinality(Posted(name)) /\ Open
  BY DEF SemInv, SessionInv, TurnInv, CountExact
<1>s. SUFFICES ASSUME name' # NoSem, Alive'
               PROVE  value'[name'] = Cardinality(Posted(name)') /\ Open'
  BY DEF CountExact, Posted
<1>a. ASSUME NEW p \in Process, pc[p] \notin Settled \/ pc[p] \in {"start", "online"},
             \A q \in Process \ {p} : pc'[q] = pc[q]
      PROVE  Alive
  BY <1>s, <1>a DEF Settled
<1>c. ASSUME NEW p \in Process, pc[p] \in HasSem
      PROVE  sem[p] # NoSem /\ sem[p] = name
  BY <1>0, <1>c DEF CallsInOrder, InTurn, ReliesOn
<1>p. ASSUME NEW p \in Process, Counted(p)
      PROVE  pc[p] \in HasSem
  BY <1>p DEF Counted, HasSem
\* A step that leaves the semaphore and those who count.
<1>k. ASSUME Alive, value' = value, name' = name,
             \A q \in Process : Counted(q)' <=> Counted(q),
             \A q \in Process : Counted(q) => sem'[q] = sem[q],
             \A q \in Process : pc[q] \in HasSem => pc'[q] \in HasSem
      PROVE  value'[name'] = Cardinality(Posted(name)') /\ Open'
  <2>1. Posted(name)' = Posted(name)
    BY <1>k DEF Posted
  <2>2. value[name] = Cardinality(Posted(name)) /\ Open
    BY <1>0, <1>s, <1>k
  <2> QED  BY <1>k, <2>1, <2>2
\* A semaphore is created: nobody had one.
<1>n. ASSUME NEW p \in Process, NewSem(p), pc'[p] \in HasSem,
             \A q \in Process : Counted(q)' => Counted(q), name = NoSem
      PROVE  value'[name'] = Cardinality(Posted(name)') /\ Open'
  <2>1. Posted(name)' = {}
    BY <1>n, <1>c, <1>p DEF Posted
  <2>2. value'[name'] = 0
    <3>1. value \in Seq(Nat)
      BY <1>0 DEF TypeOK
    <3> QED  BY <1>n, <3>1 DEF NewSem
  <2> QED  BY <1>n, <2>1, <2>2, FS_EmptySet
<1>1. ASSUME NEW p \in Server,
             OpenLog(p) \/ Empty(p) \/ ZeroHeader(p) \/ Lock(p)
             \/ WriteHeader(p) \/ Unlock(p)
      PROVE  value'[name'] = Cardinality(Posted(name)') /\ Open'
  <2>1. /\ p \in Process
        /\ pc[p] \in {"start", "empty", "zero_header", "lock", "write_header",
                      "unlock"}
        /\ value' = value /\ name' = name /\ sem' = sem
        /\ \A q \in Process \ {p} : pc'[q] = pc[q]
    BY <1>0, <1>1 DEF OpenLog, Empty, ZeroHeader, Lock, WriteHeader, Unlock,
                      Goto, At, TypeOK, Process
  <2>2. /\ Counted(p)' <=> Counted(p)
        /\ pc[p] \in HasSem => pc'[p] \in HasSem
    BY <1>0, <1>1, <2>1
       DEF OpenLog, Empty, ZeroHeader, Lock, WriteHeader, Unlock, Goto, At,
           TypeOK, Counted, HasSem
  <2>3. Alive
    BY <1>a, <2>1 DEF Settled
  <2>4. \A q \in Process : /\ Counted(q)' <=> Counted(q)
                           /\ pc[q] \in HasSem => pc'[q] \in HasSem
    BY <2>1, <2>2 DEF Counted
  <2> HIDE DEF Alive, Open
  <2> QED  BY <1>k, <2>1, <2>3, <2>4
<1>2. ASSUME NEW p \in Process, UnlinkStale(p) \/ Unlink(p) \/ Kill(p)
      PROVE  FALSE
  BY <1>0, <1>2, <1>s DEF UnlinkStale, Unlink, Kill, Exit, Goto, TypeOK
<1>3. ASSUME NEW p \in Server, CreateSem(p)
      PROVE  value'[name'] = Cardinality(Posted(name)') /\ Open'
  <2>1. /\ p \in Process /\ pc[p] = "create_sem"
        /\ \A q \in Process \ {p} : pc'[q] = pc[q]
        /\ pc'[p] = IF name = NoSem THEN "empty" ELSE "reopen_sem"
    BY <1>0, <1>3 DEF CreateSem, Goto, At, TypeOK, Process
  <2>2. \A q \in Process : Counted(q)' <=> Counted(q)
    BY <2>1 DEF Counted
  <2>3. CASE name = NoSem
    <3>1. NewSem(p) /\ pc'[p] \in HasSem
      BY <1>3, <2>1, <2>3 DEF CreateSem, HasSem
    <3> HIDE DEF Alive, Open
    <3> QED  BY <1>n, <2>1, <2>2, <2>3, <3>1
  <2>4. CASE name # NoSem
    <3>1. /\ value' = value /\ name' = name /\ sem' = sem
          /\ \A q \in Process : pc[q] \in HasSem => pc'[q] \in HasSem
      BY <1>3, <2>1, <2>4 DEF CreateSem, HasSem
    <3>2. Alive
      BY <1>a, <2>1 DEF Settled
    <3> HIDE DEF Alive, Open
    <3> QED  BY <1>k, <2>2, <3>1, <3>2
  <2> QED  BY <2>3, <2>4
<1>4. ASSUME NEW p \in Server, ReopenSem(p)
      PROVE  value'[name'] = Cardinality(Posted(name)') /\ Open'
  <2>1. p \in Process /\ pc[p] = "reopen_sem" /\ name # NoSem
    BY <1>0, <1>4 DEF ReopenSem, At, InTurn, ReliesOn, Process
  <2>2. /\ value' = value /\ name' = name
        /\ \A q \in Process \ {p} : pc'[q] = pc[q] /\ sem'[q] = sem[q]
        /\ pc'[p] = "post"
    BY <1>0, <1>4, <2>1 DEF ReopenSem, OldSem, Goto, TypeOK
  <2>3. /\ \A q \in Process : Counted(q)' <=> Counted(q)
        /\ \A q \in Process : Counted(q) => sem'[q] = sem[q]
        /\ \A q \in Process : pc[q] \in HasSem => pc'[q] \in HasSem
    BY <2>1, <2>2 DEF Counted, HasSem
  <2>4. Alive
    BY <1>a, <2>1, <2>2 DEF Settled
  <2> HIDE DEF Alive, Open
  <2> QED  BY <1>k, <2>2, <2>3, <2>4
<1>5. ASSUME NEW p \in Process, Post(p) \/ ViewPost(p)
      PROVE  value'[name'] = Cardinality(Posted(name)') /\ Open'
  <2>1. /\ pc[p] \in {"post", "view_post"} /\ pc'[p] \in {"lock", "online"}
        /\ \A q \in Process \ {p} : pc'[q] = pc[q]
        /\ value' = [value EXCEPT ![sem[p]] = @ + 1]
        /\ name' = name /\ sem' = sem
    BY <1>0, <1>5 DEF Post, ViewPost, Goto, At, TypeOK
  <2>2. sem[p] # NoSem /\ sem[p] = name
    BY <1>c, <2>1 DEF HasSem
  <2>3. PICK c : c = name
    OBVIOUS
  <2>4. /\ ~Counted(p) /\ Counted(p)'
        /\ \A q \in Process \ {p} : Counted(q)' <=> Counted(q)
    BY <2>1 DEF Counted
  <2>5. Cardinality(Posted(c)') = Cardinality(Posted(c)) + 1
    BY <1>0, <2>1, <2>2, <2>3, <2>4, CountPost
  <2>6. value'[c] = value[c] + 1
    BY <1>0, <2>1, <2>2, <2>3 DEF TypeOK, NoSem
  <2>7. Alive
    BY <1>a, <2>1 DEF Settled
  <2>8. value[c] = Cardinality(Posted(c)) /\ Open
    <3>1. Posted(c) = Posted(name)
      BY <2>3
    <3> QED  BY <1>0, <1>s, <2>1, <2>3, <2>7, <3>1
  <2>9. Posted(name)' = Posted(c)'
    BY <2>1, <2>3 DEF Posted
  <2>10. Open'
    BY <2>1 DEF HasSem
  <2> QED  BY <2>1, <2>3, <2>5, <2>6, <2>8, <2>9, <2>10
<1>6. ASSUME NEW p \in Server, ReadHeader(p)
      PROVE  value'[name'] = Cardinality(Posted(name)') /\ Open'
  <2>1. p \in Process /\ pc[p] = "read_header"
    BY <1>6 DEF ReadHeader, At, Process
  <2>2. log.header # NoHeader
    BY <1>0, <2>1 DEF TurnInv, HeaderMade, OneAtATime, Making, Settled
  <2>3. /\ value' = value /\ name' = name /\ sem' = sem
        /\ \A q \in Process \ {p} : pc'[q] = pc[q]
        /\ pc'[p] = "write_header"
    BY <1>0, <1>6, <2>1, <2>2 DEF ReadHeader, Goto, TypeOK
  <2>4. /\ \A q \in Process : Counted(q)' <=> Counted(q)
        /\ \A q \in Process : pc[q] \in HasSem => pc'[q] \in HasSem
    BY <2>1, <2>3 DEF Counted, HasSem
  <2>5. Alive
    BY <1>a, <2>1, <2>3 DEF Settled
  <2> HIDE DEF Alive, Open
  <2> QED  BY <1>k, <2>3, <2>4, <2>5
<1>7. ASSUME NEW p \in Process, OpenViewer(p) \/ GetValue(p)
      PROVE  value'[name'] = Cardinality(Posted(name)') /\ Open'
  <2>1. /\ pc[p] \in {"start", "online"}
        /\ value' = value /\ name' = name /\ sem' = sem
        /\ \A q \in Process \ {p} : pc'[q] = pc[q]
        /\ pc[p] = "start" => pc'[p] \in {"failed", "view_sem"}
        /\ pc[p] = "online" => pc'[p] = "trywait"
    BY <1>0, <1>7 DEF OpenViewer, GetValue, Goto, At, TypeOK
  <2>2. /\ \A q \in Process : Counted(q)' <=> Counted(q)
        /\ \A q \in Process : pc[q] \in HasSem => pc'[q] \in HasSem
    BY <2>1 DEF Counted, HasSem
  <2>3. Alive
    BY <1>a, <2>1
  <2> HIDE DEF Alive, Open
  <2> QED  BY <1>k, <2>1, <2>2, <2>3
<1>8. ASSUME NEW p \in Process, ViewSem(p)
      PROVE  value'[name'] = Cardinality(Posted(name)') /\ Open'
  <2>1. /\ pc[p] = "view_sem" /\ pc'[p] = "view_post"
        /\ \A q \in Process \ {p} : pc'[q] = pc[q]
    BY <1>0, <1>8 DEF ViewSem, Goto, At, TypeOK
  <2>2. /\ \A q \in Process : Counted(q)' <=> Counted(q)
        /\ \A q \in Process : pc[q] \in HasSem => pc'[q] \in HasSem
        /\ ~Counted(p) /\ pc'[p] \in HasSem
    BY <2>1 DEF Counted, HasSem
  <2>3. CASE name = NoSem
    <3>1. NewSem(p)
      BY <1>8, <2>3 DEF ViewSem
    <3> HIDE DEF Alive, Open
    <3> QED  BY <1>n, <2>2, <2>3, <3>1
  <2>4. CASE name # NoSem
    <3>1. /\ value' = value /\ name' = name
          /\ \A q \in Process : Counted(q) => sem'[q] = sem[q]
      BY <1>0, <1>8, <2>2, <2>4 DEF ViewSem, OldSem, TypeOK
    <3>2. Alive
      BY <1>a, <2>1 DEF Settled
    <3> HIDE DEF Alive, Open
    <3> QED  BY <1>k, <2>2, <3>1, <3>2
  <2> QED  BY <2>3, <2>4
<1>9. ASSUME NEW p \in Process, TryWait(p)
      PROVE  value'[name'] = Cardinality(Posted(name)') /\ Open'
  <2>1. /\ pc[p] = "trywait" /\ pc'[p] \in {"unlink", "gone"}
        /\ \A q \in Process \ {p} : pc'[q] = pc[q] /\ sem'[q] = sem[q]
        /\ value' = [value EXCEPT ![sem[p]] = IF @ = 0 THEN 0 ELSE @ - 1]
        /\ name' = name
    BY <1>0, <1>9 DEF TryWait, Exit, Goto, At, TypeOK
  <2>2. sem[p] # NoSem /\ sem[p] = name /\ sval[p] = value[name]
    BY <1>0, <1>c, <2>1 DEF HasSem, InTurn, ReliesOn
  <2>3. PICK c : c = name
    OBVIOUS
  <2>4. /\ Counted(p) /\ ~Counted(p)'
        /\ \A q \in Process \ {p} : Counted(q)' <=> Counted(q)
    BY <2>1 DEF Counted
  <2>5. /\ value[c] \in Nat /\ value[c] # 0 /\ value'[c] = value[c] - 1
        /\ Cardinality(Posted(c)') = Cardinality(Posted(c)) - 1
    BY <1>0, <2>1, <2>2, <2>3, <2>4, CountWait
  <2>6. Alive
    BY <1>a, <2>1 DEF Settled
  <2>7. value[c] = Cardinality(Posted(c))
    <3>1. Posted(c) = Posted(name)
      BY <2>3
    <3> QED  BY <1>0, <1>s, <2>1, <2>3, <2>6, <3>1
  <2>8. Posted(name)' = Posted(c)'
    BY <2>1, <2>3 DEF Posted
  <2>9. Open'
    <3>1. CASE pc'[p] = "unlink"
      BY <3>1 DEF HasSem
    <3>2. CASE pc'[p] = "gone"
      <4>1. value[c] # 1
        BY <1>0, <1>9, <2>2, <2>3, <3>2 DEF TryWait, Goto, TypeOK
      <4>2. Posted(c)' # {}
        <5> SUFFICES ASSUME Posted(c)' = {}
                     PROVE  FALSE
          OBVIOUS
        <5>1. Cardinality(Posted(c)') = 0
          BY FS_EmptySet
        <5> QED  BY <2>5, <2>7, <4>1, <5>1
      <4> QED  BY <4>2 DEF Posted, Counted, HasSem
    <3> QED  BY <2>1, <3>1, <3>2
  <2> QED  BY <2>1, <2>3, <2>5, <2>7, <2>8, <2>9
<1> HIDE DEF Alive, Open
<1>10. ASSUME NEW p \in Server, Login(p)
       PROVE  value'[name'] = Cardinality(Posted(name)') /\ Open'
  <2>1. p \in Process
    BY DEF Process
  <2>2. CASE OpenLog(p) \/ Empty(p) \/ ZeroHeader(p) \/ Lock(p)
             \/ WriteHeader(p) \/ Unlock(p)
    BY <1>1, <2>2
  <2>3. CASE UnlinkStale(p) \/ CreateSem(p) \/ ReopenSem(p)
    BY <1>2, <1>3, <1>4, <2>1, <2>3
  <2>4. CASE Post(p) \/ ReadHeader(p)
    BY <1>5, <1>6, <2>1, <2>4
  <2> QED  BY <1>10, <2>2, <2>3, <2>4 DEF Login
<1>11. ASSUME NEW p \in Process, View(p) \/ Logout(p) \/ Kill(p)
       PROVE  value'[name'] = Cardinality(Posted(name)') /\ Open'
  BY <1>2, <1>5, <1>7, <1>8, <1>9, <1>11 DEF View, Logout
<1> QED  BY <1>10, <1>11 DEF Next, Process

LEMMA SemInvariant == Spec => []SemInv
<1>1. SemInv /\ [Next]_vars => SemInv'
  <2> SUFFICES ASSUME SemInv, [Next]_vars PROVE SemInv'
    OBVIOUS
  <2>1. SessionInv'
    BY TypeStep, OrderStep, LastStep, DifferentStep DEF SemInv, SessionInv
  <2>2. SemCounts'
    BY CountStep DEF SemInv
  <2>3. ASSUME orderly' PROVE TurnInv'
    <3>1. CASE Next
      <4>1. orderly
        BY <2>3, <3>1
           DEF Next, Login, View, Logout, OpenLog, UnlinkStale, CreateSem,
               ReopenSem, Empty, ZeroHeader, Post, Lock, ReadHeader,
               WriteHeader, Unlock, OpenViewer, ViewSem, ViewPost, GetValue,
               TryWait, Unlink, Kill
      <4>2. TurnInv /\ OneAtATime /\ TypeOK
        BY <4>1 DEF SemInv, SessionInv, TurnInv
      <4> QED  BY <3>1, <4>1, <4>2, TurnsStep, InTurnStep, HeaderMadeStep,
                  CountExactStep DEF TurnInv
    <3>2. CASE UNCHANGED vars
      <4>1. TurnInv
        BY <2>3, <3>2 DEF SemInv, vars
      <4> QED  BY <3>2, <4>1
                  DEF vars, TurnInv, OneAtATime, InTurn, ReliesOn, HeaderMade,
                      CountExact, Posted, Counted, Online
    <3> QED  BY <3>1, <3>2
  <2> QED  BY <2>1, <2>2, <2>3 DEF SemInv
<1> QED  BY <1>1, SemInit, PTL DEF Spec

\* If users take turns, whoever is online has the semaphore of the name, and
\* the log is still the one that was joined (server/main.cpp:89-101).
THEOREM SessionStays == Spec => []SessionKept
<1>1. SemInv => SessionKept
  BY DEF SemInv, TurnInv, InTurn, ReliesOn, SessionKept, Online, HasSem, InLog
<1> QED  BY <1>1, SemInvariant, PTL

\* "remove sem if no online user" (server/main.cpp:64), for users who take
\* turns and all leave through logout.
THEOREM SessionEnds == Spec => []SemRemovedInTurn
<1>1. SemInv => SemRemovedInTurn
  <2> SUFFICES ASSUME SemInv, orderly, AllLeft, name # NoSem PROVE FALSE
    BY DEF SemRemovedInTurn, SemRemoved
  <2>1. \E p \in Process : pc[p] \in HasSem
    BY DEF SemInv, TurnInv, CountExact, AllLeft
  <2> QED  BY <2>1 DEF AllLeft, HasSem
<1> QED  BY <1>1, SemInvariant, PTL

\* If users take turns, no login fails (server/main.cpp:90-95, 106).
THEOREM SessionLogin == Spec => []LoginSucceeds
<1>1. SemInv => LoginSucceeds
  BY DEF SemInv, TurnInv, InTurn, ReliesOn, LoginSucceeds, Process
<1> QED  BY <1>1, SemInvariant, PTL
=============================================================================
