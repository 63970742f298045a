------------------------ MODULE ClientThreadsProofs ------------------------
(***************************************************************************)
(* Whatever the options, the bounds and the room in the connection, and    *)
(* however the threads of a client interleave: a mutex is held where the   *)
(* code holds it and nowhere else, the algorithm is given the operations   *)
(* in the order in which they changed the text, and every operation is in  *)
(* exactly one place on its way to the log or from it.                     *)
(***************************************************************************)
EXTENDS ClientThreads, SequenceTheorems, TLAPS

\* Recursion, about which XformProofs has lemmas that are not about xform.
Lemmas == INSTANCE XformProofs WITH Char <- {}, MaxUsers <- 1

(***************************************************************************)
(* The inductive invariant.                                                *)
(***************************************************************************)

Processes == Threads \cup {"server"}

Places(p) ==
    IF p = "writer" THEN {"idle", "consume", "generate", "pop"}
    ELSE IF p = "reader" THEN {"read", "lock", "spin", "apply"}
    ELSE IF p = "server" THEN {"poll", "remote", "commit"}
    ELSE {"idle", "send", "sending", "sent", "recv",
          "receiving", "spin", "apply", "received"}
         \cup IF p \in Editors THEN {"queue"} ELSE {}

Placed ==
    /\ DOMAIN pc = Processes /\ pc = [p \in Processes |-> pc[p]]
    /\ \A p \in Processes : pc[p] \in Places(p)

\* Where everybody can be, and what the queues hold there.
Shape ==
    /\ option \in Options
    /\ job \in [Senders \cup Receivers -> SUBSET SYN]
    /\ Placed
    /\ \A t \in Threads : pc[t] = "sent" => to_send # <<>>
    /\ \A t \in Threads \ {"reader"} :
        pc[t] \in {"spin", "apply", "received"} => to_recv # <<>>

\* The queues are sequences of operations, whatever these are.
Queues(Op) ==
    /\ edit_file \in Seq(Op) /\ local_ops \in Seq(Op)
    /\ algorithm \in Seq(Op)
    /\ to_send \in Seq(Op) /\ to_recv \in Seq(Op)
    /\ in_hand \in [{"reader", "server"} -> Seq(Op)]
    /\ to_server \in Seq(Op) /\ to_client \in Seq(Op)

Sequential == \E Op : Queues(Op)

\* What is in the connection and on its two ends.
Bounds ==
    /\ \A p \in {"reader", "server"} :
        Len(in_hand[p]) = IF pc[p] \in {"read", "poll"} THEN 0 ELSE 1
    /\ Len(to_server) <= Room /\ Len(to_client) <= Room
    /\ readfd \in 0..others /\ others \in 0..MaxOthers[option]

\* The mutexes that a thread may do without where others need them.
Without(t) == {"algo_mtx"} \cup IF t = "reader" THEN {"recv_mtx"} ELSE {}

Mutual ==
    /\ owner \in [Mutexes -> Threads \cup {Nobody}]
    /\ \A m \in Mutexes : owner[m] # Nobody => pc[owner[m]] \in Holding[m]
    /\ \A t \in Threads : \A m \in Mutexes \ Without(t) :
        pc[t] \in Holding[m] => owner[m] = t
    /\ owner["recv_mtx"] # "reader"

\* The order of the operations, which leans on three facts: the writer is
\* busy only with an edit that is still queued, a message is applied only
\* when no edit is queued, and (Mutual) not while one is about to be queued.
InOrder ==
    /\ edit_file = algorithm \o Ungenerated
    /\ pc["writer"] # "idle" => local_ops # <<>>
    /\ \A t \in Threads : pc[t] = "apply" => local_ops = <<>>

ClientInv == Shape /\ Sequential /\ Bounds /\ Mutual /\ InOrder

LEMMA InvIsType == ClientInv => TypeOK
<1> SUFFICES ASSUME ClientInv PROVE TypeOK
  OBVIOUS
<1>1. pc["server"] \in {"poll", "remote", "commit"}
  BY DEF ClientInv, Shape, Placed, Processes, Places
<1> QED  BY <1>1 DEF ClientInv, Shape, Bounds, Mutual, Without, TypeOK

LEMMA InvIsOrder == ClientInv => SameOrder
<1> SUFFICES ASSUME ClientInv PROVE SameOrder
  OBVIOUS
<1>1. ASSUME NEW t \in Threads, pc[t] = "apply" PROVE pc["writer"] # "generate"
  BY <1>1 DEF ClientInv, InOrder
<1> QED  BY <1>1 DEF ClientInv, InOrder, SameOrder

(***************************************************************************)
(* It holds initially.                                                     *)
(***************************************************************************)

LEMMA ClientInit == Init => ClientInv
<1> SUFFICES ASSUME Init PROVE ClientInv
  OBVIOUS
<1>1. \A p \in Processes :
        pc[p] = CASE p = "reader" -> "read" [] p = "server" -> "poll"
                  [] OTHER -> "idle"
  BY DEF Init, Processes
<1>2. Shape
  <2>1. DOMAIN pc = Processes /\ pc = [p \in Processes |-> pc[p]]
    BY DEF Init, Processes
  <2>2. \A p \in Processes : pc[p] \in Places(p)
    BY <1>1 DEF Processes, Places, Threads, Senders, Receivers, Editors
  <2>3. \A t \in Threads : pc[t] \in {"read", "idle"}
    BY <1>1 DEF Processes, Threads, Senders, Receivers, Editors
  <2> QED  BY <2>1, <2>2, <2>3 DEF Init, Shape, Placed
<1>3. Sequential
  <2>1. Queues({})
    BY DEF Init, Queues
  <2> QED  BY <2>1 DEF Sequential
<1>4. Bounds
  <2>1. pc["reader"] = "read" /\ pc["server"] = "poll"
    BY <1>1 DEF Processes, Threads
  <2>2. MaxOthers[option] \in Nat /\ Room \in Nat
    BY MaxOthersAssumption, RoomAssumption DEF Init
  <2> QED  BY <2>1, <2>2 DEF Init, Bounds
<1>5. Mutual
  <2>1. \A t \in Threads : pc[t] \in {"read", "idle"}
    BY <1>1 DEF Processes, Threads, Senders, Receivers, Editors
  <2>2. \A m \in Mutexes : "read" \notin Holding[m] /\ "idle" \notin Holding[m]
    BY DEF Mutexes, Holding
  <2>3. owner["recv_mtx"] # "reader"
    BY DEF Init, Mutexes, Nobody
  <2> QED  BY <2>1, <2>2, <2>3 DEF Init, Mutual
<1>6. InOrder
  <2>1. \A t \in Threads : pc[t] \in {"read", "idle"}
    BY <1>1 DEF Processes, Threads, Senders, Receivers, Editors
  <2>2. pc["writer"] = "idle" /\ Editors \subseteq Threads
    BY <1>1 DEF Processes, Threads, Senders
  <2>3. Ungenerated = <<>>
    BY <2>1, <2>2 DEF Init, Ungenerated
  <2> QED  BY <2>1, <2>2, <2>3 DEF Init, InOrder
<1> QED  BY <1>2, <1>3, <1>4, <1>5, <1>6 DEF ClientInv

(***************************************************************************)
(* The mutexes.                                                            *)
(***************************************************************************)

\* A thread goes to a place with the mutexes that belong to it.
LEMMA MutualStep ==
    ASSUME Mutual, Shape, NEW p \in Threads, NEW to,
           pc' = [pc EXCEPT ![p] = to],
           owner' \in [Mutexes -> Threads \cup {Nobody}],
           \A m \in Mutexes : \/ owner'[m] = owner[m]
                              \/ owner[m] = p /\ owner'[m] = Nobody
                              \/ owner[m] = Nobody /\ owner'[m] = p,
           \A m \in Mutexes : owner'[m] = p => to \in Holding[m],
           p = "reader" => owner'["recv_mtx"] # p,
           \A m \in Mutexes \ Without(p) : to \in Holding[m] => owner'[m] = p
    PROVE  Mutual'
<1> Nobody \notin Threads
  BY DEF Nobody, Threads, Senders, Receivers, Editors
<1>1. pc'[p] = to /\ \A t \in Threads \ {p} : pc'[t] = pc[t]
  BY DEF Shape, Placed, Processes
<1>2. ASSUME NEW m \in Mutexes, owner'[m] # Nobody
      PROVE  pc'[owner'[m]] \in Holding[m]
  BY <1>1, <1>2 DEF Mutual
<1>3. ASSUME NEW t \in Threads, NEW m \in Mutexes \ Without(t),
             pc'[t] \in Holding[m]
      PROVE  owner'[m] = t
  BY <1>1, <1>3 DEF Mutual
<1>4. owner'["recv_mtx"] # "reader"
  BY DEF Mutual, Mutexes, Nobody
<1> QED  BY <1>2, <1>3, <1>4 DEF Mutual, Holding

\* Taking a mutex, and letting go of some.
LEMMA LockType ==
    ASSUME Mutual, NEW t \in Threads, NEW m \in Mutexes, Lock(t, m)
    PROVE  /\ owner' \in [Mutexes -> Threads \cup {Nobody}]
           /\ owner[m] = Nobody /\ owner'[m] = t
           /\ \A n \in Mutexes \ {m} : owner'[n] = owner[n]
BY DEF Mutual, Lock

LEMMA UnlockType ==
    ASSUME Mutual, NEW t \in Threads, NEW ms, Unlock(t, ms)
    PROVE  /\ owner' \in [Mutexes -> Threads \cup {Nobody}]
           /\ \A n \in Mutexes :
                owner'[n] = IF n \in ms /\ owner[n] = t THEN Nobody ELSE owner[n]
BY DEF Mutual, Unlock

\* What a thread holds where it is.
LEMMA Held ==
    ASSUME Mutual, NEW t \in Threads, NEW m \in Mutexes
    PROVE  /\ owner[m] = t => pc[t] \in Holding[m]
           /\ owner[m] = t /\ t = "reader" => m # "recv_mtx"
           /\ m \notin Without(t) /\ pc[t] \in Holding[m] => owner[m] = t
<1> Nobody \notin Threads
  BY DEF Nobody, Threads, Senders, Receivers, Editors
<1> QED  BY DEF Mutual

\* A thread goes from a place to another with the same mutexes.
LEMMA MutualGoes ==
    ASSUME Mutual, Shape, NEW p \in Threads, NEW from, NEW to,
           Goes(p, from, to), UNCHANGED owner,
           \A m \in Mutexes : from \in Holding[m] => to \in Holding[m],
           \A m \in Mutexes \ Without(p) : to \in Holding[m] => from \in Holding[m]
    PROVE  Mutual'
<1>1. \A m \in Mutexes : owner[m] = p => to \in Holding[m]
  BY Held DEF Goes
<1>2. \A m \in Mutexes \ Without(p) : to \in Holding[m] => owner[m] = p
  BY Held DEF Goes
<1>3. p = "reader" => owner["recv_mtx"] # p
  BY DEF Mutual
<1> QED  BY <1>1, <1>2, <1>3, MutualStep DEF Goes, Mutual

\* A thread takes the mutex that its next place needs.
LEMMA MutualLock ==
    ASSUME Mutual, Shape, NEW p \in Threads, NEW from, NEW to, NEW m \in Mutexes,
           Goes(p, from, to), Lock(p, m), p = "reader" => m # "recv_mtx",
           \A n \in Mutexes : from \in Holding[n] \/ n = m => to \in Holding[n],
           \A n \in Mutexes \ Without(p) :
                to \in Holding[n] => from \in Holding[n] \/ n = m
    PROVE  Mutual'
<1>1. /\ owner' \in [Mutexes -> Threads \cup {Nobody}]
      /\ owner[m] = Nobody /\ owner'[m] = p
      /\ \A n \in Mutexes \ {m} : owner'[n] = owner[n]
  BY LockType
<1>2. \A n \in Mutexes : owner'[n] = p => to \in Holding[n]
  BY <1>1, Held DEF Goes
<1>3. \A n \in Mutexes \ Without(p) : to \in Holding[n] => owner'[n] = p
  BY <1>1, Held DEF Goes
<1>4. \A n \in Mutexes : \/ owner'[n] = owner[n]
                         \/ owner[n] = p /\ owner'[n] = Nobody
                         \/ owner[n] = Nobody /\ owner'[n] = p
  BY <1>1
<1>5. p = "reader" => owner'["recv_mtx"] # p
  BY <1>1 DEF Mutual, Mutexes
<1> QED  BY <1>1, <1>2, <1>3, <1>4, <1>5, MutualStep DEF Goes

\* A thread lets go of the mutexes that its next place does not need.
LEMMA MutualUnlock ==
    ASSUME Mutual, Shape, NEW p \in Threads, NEW from, NEW to, NEW ms,
           Goes(p, from, to), Unlock(p, ms),
           \A n \in Mutexes :
                from \in Holding[n] /\ n \notin ms =>
                    to \in Holding[n] \/ (p = "reader" /\ n = "recv_mtx"),
           \A n \in Mutexes \ Without(p) :
                to \in Holding[n] => from \in Holding[n] /\ n \notin ms
    PROVE  Mutual'
<1>1. /\ owner' \in [Mutexes -> Threads \cup {Nobody}]
      /\ \A n \in Mutexes :
            owner'[n] = IF n \in ms /\ owner[n] = p THEN Nobody ELSE owner[n]
  BY UnlockType
<1> Nobody \notin Threads
  BY DEF Nobody, Threads, Senders, Receivers, Editors
<1>2. \A n \in Mutexes : owner'[n] = p => to \in Holding[n]
  BY <1>1, Held DEF Goes
<1>3. \A n \in Mutexes \ Without(p) : to \in Holding[n] => owner'[n] = p
  BY <1>1, Held DEF Goes
<1>4. p = "reader" => owner'["recv_mtx"] # p
  BY <1>1 DEF Mutual, Mutexes
<1> QED  BY <1>1, <1>2, <1>3, <1>4, MutualStep DEF Goes

LEMMA HoldingPlaces ==
    /\ Mutexes = {"mtx2", "mtx", "algo_mtx", "send_mtx", "recv_mtx"}
    /\ Holding["mtx2"] = {"queue", "spin", "apply"}
    /\ Holding["mtx"] = {"consume", "generate", "pop"}
    /\ Holding["algo_mtx"] = {"generate", "apply"}
    /\ Holding["send_mtx"] = {"sending", "sent"}
    /\ Holding["recv_mtx"] = {"receiving", "spin", "apply", "received"}
BY DEF Holding, Mutexes

\* Every step keeps the mutexes where they belong.
LEMMA MutualKept == ClientInv /\ [Next]_vars => Mutual'
<1> SUFFICES ASSUME ClientInv, [Next]_vars PROVE Mutual'
  OBVIOUS
<1> USE DEF ClientInv
<1> Editors \subseteq Threads /\ Senders \subseteq Threads /\ Receivers \subseteq Threads
  BY DEF Threads, Senders, Receivers
<1> "writer" \in Threads /\ "reader" \in Threads
  BY DEF Threads
<1> "reader" \notin Receivers
  BY DEF Receivers, Editors
<1> USE HoldingPlaces DEF Without
<1>1. ASSUME NEW t \in Editors, ChangeText(t) PROVE Mutual'
  BY <1>1, MutualLock DEF ChangeText
<1>2. ASSUME NEW t \in Editors, QueueEdit(t) PROVE Mutual'
  BY <1>2, MutualUnlock DEF QueueEdit
<1>3. ASSUME Consume PROVE Mutual'
  BY <1>3, MutualLock DEF Consume
<1>4. ASSUME EnterGenerate PROVE Mutual'
  <2>1. CASE option.can_sim
    BY <1>4, <2>1, MutualGoes DEF EnterGenerate, LockAlgo
  <2>2. CASE ~option.can_sim
    BY <1>4, <2>2, MutualLock DEF EnterGenerate, LockAlgo
  <2> QED  BY <2>1, <2>2
<1>5. ASSUME Generate PROVE Mutual'
  BY <1>5, MutualUnlock DEF Generate
<1>6. ASSUME PopLocal PROVE Mutual'
  <2>1. CASE Len(local_ops) > 1
    BY <1>6, <2>1, MutualGoes DEF PopLocal
  <2>2. CASE ~(Len(local_ops) > 1)
    BY <1>6, <2>2, MutualUnlock DEF PopLocal
  <2> QED  BY <2>1, <2>2
<1>7. ASSUME NEW t \in Editors, Synchronize(t) PROVE Mutual'
  <2>1. PICK to \in {"send", "recv"} : Goes(t, "idle", to)
    BY <1>7 DEF Synchronize
  <2> QED  BY <1>7, <2>1, MutualGoes DEF Synchronize
<1>8. ASSUME Timers PROVE Mutual'
  <2>1. CASE Expire("send_timer", "send")
    <3>1. "send_timer" \in Threads
      BY DEF Threads, Senders
    <3> QED  BY <2>1, <3>1, MutualGoes DEF Expire
  <2>2. CASE Expire("recv_timer", "recv")
    <3>1. "recv_timer" \in Threads
      BY DEF Threads, Receivers
    <3> QED  BY <2>2, <3>1, MutualGoes DEF Expire
  <2> QED  BY <1>8, <2>1, <2>2 DEF Timers
<1>9. ASSUME NEW t \in Senders, BeginSend(t) PROVE Mutual'
  BY <1>9, MutualLock DEF BeginSend
<1>10. ASSUME NEW t \in Senders, SendFront(t) PROVE Mutual'
  BY <1>10, MutualGoes DEF SendFront
<1>11. ASSUME NEW t \in Senders, PopSent(t) PROVE Mutual'
  BY <1>11, MutualGoes DEF PopSent
<1>12. ASSUME NEW t \in Senders, EndSend(t) PROVE Mutual'
  <2>1. PICK to \in {"recv", "idle"} : Goes(t, "sending", to)
    BY <1>12 DEF EndSend
  <2> QED  BY <1>12, <2>1, MutualUnlock DEF EndSend
<1>13. ASSUME NEW t \in Receivers, BeginRecv(t) PROVE Mutual'
  BY <1>13, MutualLock DEF BeginRecv
<1>14. ASSUME NEW t \in Receivers, RecvFront(t) PROVE Mutual'
  BY <1>14, MutualLock DEF RecvFront
<1>15. ASSUME NEW t \in Receivers, PopRecv(t) PROVE Mutual'
  BY <1>15, MutualGoes DEF PopRecv
<1>16. ASSUME NEW t \in Receivers, EndRecv(t) PROVE Mutual'
  BY <1>16, MutualUnlock DEF EndRecv
<1>17. ASSUME ReadMessage PROVE Mutual'
  <2>1. PICK to \in {"lock", "read"} : Goes("reader", "read", to)
    BY <1>17 DEF ReadMessage
  <2> QED  BY <1>17, <2>1, MutualGoes DEF ReadMessage
<1>18. ASSUME LockForMessage PROVE Mutual'
  BY <1>18, MutualLock DEF LockForMessage
<1>19. ASSUME NEW t \in Threads, EndSpin(t) PROVE Mutual'
  <2>1. CASE option.can_sim
    BY <1>19, <2>1, MutualGoes DEF EndSpin, LockAlgo
  <2>2. CASE ~option.can_sim
    BY <1>19, <2>2, MutualLock DEF EndSpin, LockAlgo
  <2> QED  BY <2>1, <2>2
<1>20. ASSUME NEW t \in Threads, FromNet(t) PROVE Mutual'
  <2> Unlock(t, {"mtx2", "algo_mtx"})
    BY <1>20 DEF FromNet
  <2>1. CASE t = "reader"
    <3>1. Goes(t, "apply", "read")
      BY <1>20, <2>1 DEF FromNet
    <3> QED  BY <2>1, <3>1, MutualUnlock
  <2>2. CASE t # "reader"
    <3>1. Goes(t, "apply", "received")
      BY <1>20, <2>2 DEF FromNet
    <3> QED  BY <2>2, <3>1, MutualUnlock
  <2> QED  BY <2>1, <2>2
<1>21. ASSUME UNCHANGED owner, \A t \in Threads : pc'[t] = pc[t] PROVE Mutual'
  BY <1>21 DEF Mutual, Holding
<1>22. ASSUME Server PROVE Mutual'
  <2>1. UNCHANGED owner
    BY <1>22 DEF Server, LocalProcess, RemoteProcess, GetFileLock, Commit
  <2>2. \A t \in Threads : t # "server"
    BY DEF Threads, Senders, Receivers, Editors
  <2>3. \A t \in Threads : pc'[t] = pc[t]
    BY <1>22, <2>2 DEF Server, LocalProcess, RemoteProcess, GetFileLock, Commit, Goes, Shape, Placed, Processes
  <2> QED  BY <1>21, <2>1, <2>3
<1>23. ASSUME OthersCommit PROVE Mutual'
  BY <1>21, <1>23 DEF OthersCommit
<1>24. ASSUME UNCHANGED vars PROVE Mutual'
  BY <1>21, <1>24 DEF vars
<1> HIDE HoldingPlaces DEF ClientInv, Without
<1> QED
  BY <1>1, <1>2, <1>3, <1>4, <1>5, <1>6, <1>7, <1>8, <1>9, <1>10, <1>11, <1>12,
     <1>13, <1>14, <1>15, <1>16, <1>17, <1>18, <1>19, <1>20, <1>22, <1>23, <1>24
  DEF Next, Editing, Sending, Receiving, Applying, Writer, Reader

(***************************************************************************)
(* The places and the queues.                                              *)
(***************************************************************************)

LEMMA PlaceGoes ==
    ASSUME Shape, NEW p \in Processes, NEW from, NEW to \in Places(p),
           Goes(p, from, to)
    PROVE  /\ Placed'
           /\ pc[p] = from /\ pc'[p] = to
           /\ \A q \in Processes \ {p} : pc'[q] = pc[q]
BY DEF Shape, Placed, Goes, Processes

\* A step that puts nobody at a place where a queue must hold something and
\* takes nothing out of a queue.
LEMMA ShapeGoes ==
    ASSUME Shape, NEW p \in Processes, NEW from, NEW to \in Places(p),
           Goes(p, from, to), UNCHANGED option,
           job' \in [Senders \cup Receivers -> SUBSET SYN],
           to_send # <<>> => to_send' # <<>>, to = "sent" => to_send # <<>>,
           to_recv # <<>> => to_recv' # <<>>,
           p # "reader" /\ to \in {"spin", "apply", "received"} => to_recv # <<>>
    PROVE  Shape'
<1>1. /\ Placed' /\ pc'[p] = to
      /\ \A q \in Processes \ {p} : pc'[q] = pc[q]
  BY PlaceGoes
<1>2. \A t \in Threads : pc'[t] = "sent" => to_send' # <<>>
  BY <1>1 DEF Shape, Processes
<1>3. \A t \in Threads \ {"reader"} :
        pc'[t] \in {"spin", "apply", "received"} => to_recv' # <<>>
  BY <1>1 DEF Shape, Processes
<1> QED  BY <1>1, <1>2, <1>3 DEF Shape

LEMMA ShapeKept == ClientInv /\ [Next]_vars => Shape'
<1> SUFFICES ASSUME ClientInv, [Next]_vars PROVE Shape'
  OBVIOUS
<1> USE DEF ClientInv
<1> Threads \subseteq Processes /\ "server" \in Processes
  BY DEF Processes
<1> Editors \subseteq Threads /\ Senders \subseteq Threads /\ Receivers \subseteq Threads
  BY DEF Threads, Senders, Receivers
<1> "writer" \in Threads /\ "reader" \in Threads
  BY DEF Threads
<1>a. \A t \in Senders \cup Receivers :
        Places(t) = {"idle", "send", "sending", "sent", "recv",
                     "receiving", "spin", "apply", "received"}
                    \cup IF t \in Editors THEN {"queue"} ELSE {}
  BY DEF Senders, Receivers, Editors, Places
<1>b. /\ Places("writer") = {"idle", "consume", "generate", "pop"}
      /\ Places("reader") = {"read", "lock", "spin", "apply"}
      /\ Places("server") = {"poll", "remote", "commit"}
  BY DEF Places
<1>c. Editors \subseteq Senders
  BY DEF Senders
<1>d. job \in [Senders \cup Receivers -> SUBSET SYN]
  BY DEF Shape
<1>e. "reader" \notin Senders \cup Receivers
  BY DEF Senders, Receivers, Editors
<1> USE <1>a, <1>b, <1>c, <1>d
<1>1. ASSUME NEW t \in Editors, ChangeText(t) PROVE Shape'
  BY <1>1, ShapeGoes DEF ChangeText, queueVars
<1>2. ASSUME NEW t \in Editors, QueueEdit(t) PROVE Shape'
  BY <1>2, ShapeGoes DEF QueueEdit, queueVars
<1>3. ASSUME Consume PROVE Shape'
  BY <1>3, ShapeGoes DEF Consume, queueVars
<1>4. ASSUME EnterGenerate PROVE Shape'
  BY <1>4, ShapeGoes DEF EnterGenerate, queueVars
<1>5. ASSUME Generate PROVE Shape'
  <2>1. PICK Op : Queues(Op)
    BY DEF Sequential
  <2>2. Head(local_ops) \in Op
    BY <1>5, <2>1, HeadTailProperties DEF Generate, Goes, InOrder, Queues
  <2>3. to_send # <<>> => to_send' # <<>>
    BY <1>5, <2>1, <2>2, AppendProperties DEF Generate, Queues
  <2> QED  BY <1>5, <2>3, ShapeGoes DEF Generate
<1>6. ASSUME PopLocal PROVE Shape'
  <2>1. PICK to \in {"consume", "idle"} : Goes("writer", "pop", to)
    BY <1>6 DEF PopLocal
  <2> QED  BY <1>6, <2>1, ShapeGoes DEF PopLocal, queueVars
<1>7. ASSUME NEW t \in Editors, Synchronize(t) PROVE Shape'
  <2>1. PICK syn \in {SYN, SEND_SYN, RECV_SYN} :
            /\ job' = [job EXCEPT ![t] = syn]
            /\ Goes(t, "idle", IF "send" \in syn THEN "send" ELSE "recv")
    BY <1>7 DEF Synchronize
  <2>2. syn \in SUBSET SYN
    BY DEF SYN, SEND_SYN, RECV_SYN
  <2>3. PICK to \in {"send", "recv"} : Goes(t, "idle", to)
    BY <2>1
  <2>4. job' \in [Senders \cup Receivers -> SUBSET SYN]
    BY <2>1, <2>2
  <2> QED  BY <1>7, <2>3, <2>4, ShapeGoes DEF Synchronize, queueVars
<1>8. ASSUME Timers PROVE Shape'
  <2>1. ASSUME NEW t \in Senders \cup Receivers, NEW way \in {"send", "recv"},
               Expire(t, way)
        PROVE  Shape'
    <3>1. job' \in [Senders \cup Receivers -> SUBSET SYN]
      BY <2>1 DEF Expire, SYN
    <3> QED  BY <2>1, <3>1, ShapeGoes DEF Expire, queueVars
  <2> QED  BY <1>8, <2>1 DEF Timers, Senders, Receivers
<1>9. ASSUME NEW t \in Senders, BeginSend(t) PROVE Shape'
  BY <1>9, ShapeGoes DEF BeginSend, queueVars
<1>10. ASSUME NEW t \in Senders, SendFront(t) PROVE Shape'
  BY <1>10, ShapeGoes DEF SendFront, queueVars
<1>11. ASSUME NEW t \in Senders, PopSent(t) PROVE Shape'
  <2>1. /\ Placed' /\ pc[t] = "sent" /\ pc'[t] = "sending"
        /\ \A q \in Processes \ {t} : pc'[q] = pc[q]
    BY <1>11, PlaceGoes DEF PopSent
  <2>2. ASSUME NEW q \in Threads, pc'[q] = "sent" PROVE FALSE
    <3>1. q # t /\ pc[q] = "sent"
      BY <2>1, <2>2
    <3>2. owner["send_mtx"] = q /\ owner["send_mtx"] = t
      BY <2>1, <3>1, Held, HoldingPlaces DEF Without
    <3> QED  BY <3>1, <3>2
  <2>3. \A q \in Threads \ {"reader"} :
            pc'[q] \in {"spin", "apply", "received"} => to_recv' # <<>>
    BY <1>11, <2>1 DEF PopSent, Shape
  <2> QED  BY <1>11, <2>1, <2>2, <2>3 DEF PopSent, Shape
<1>12. ASSUME NEW t \in Senders, EndSend(t) PROVE Shape'
  <2>1. PICK to \in {"recv", "idle"} : Goes(t, "sending", to)
    BY <1>12 DEF EndSend
  <2> QED  BY <1>12, <2>1, ShapeGoes DEF EndSend, queueVars
<1>13. ASSUME NEW t \in Receivers, BeginRecv(t) PROVE Shape'
  BY <1>13, ShapeGoes DEF BeginRecv, queueVars
<1>14. ASSUME NEW t \in Receivers, RecvFront(t) PROVE Shape'
  BY <1>14, ShapeGoes DEF RecvFront, queueVars
<1>15. ASSUME NEW t \in Receivers, PopRecv(t) PROVE Shape'
  <2>1. /\ Placed' /\ pc[t] = "received" /\ pc'[t] = "receiving"
        /\ \A q \in Processes \ {t} : pc'[q] = pc[q]
    BY <1>15, PlaceGoes DEF PopRecv
  <2>2. ASSUME NEW q \in Threads \ {"reader"}, pc'[q] \in {"spin", "apply", "received"}
        PROVE FALSE
    <3>1. q # t /\ pc[q] \in {"spin", "apply", "received"}
      BY <2>1, <2>2
    <3>2. owner["recv_mtx"] = q
      BY <3>1, Held, HoldingPlaces DEF Without
    <3>3. owner["recv_mtx"] = t
      BY <2>1, <1>e, Held, HoldingPlaces DEF Without
    <3> QED  BY <3>1, <3>2, <3>3
  <2>3. \A q \in Threads : pc'[q] = "sent" => to_send' # <<>>
    BY <1>15, <2>1 DEF PopRecv, Shape
  <2> QED  BY <1>15, <2>1, <2>2, <2>3 DEF PopRecv, Shape
<1>16. ASSUME NEW t \in Receivers, EndRecv(t) PROVE Shape'
  BY <1>16, ShapeGoes DEF EndRecv, queueVars
<1>17. ASSUME ReadMessage PROVE Shape'
  <2>1. PICK to \in {"lock", "read"} : Goes("reader", "read", to)
    BY <1>17 DEF ReadMessage
  <2>2. PICK Op : Queues(Op)
    BY DEF Sequential
  <2>3. Head(to_client) \in Op
    BY <1>17, <2>2, HeadTailProperties DEF ReadMessage, Queues
  <2>4. to_recv # <<>> => to_recv' # <<>>
    BY <1>17, <2>2, <2>3, AppendProperties DEF ReadMessage, Queues
  <2> QED  BY <1>17, <2>1, <2>4, ShapeGoes DEF ReadMessage
<1>18. ASSUME LockForMessage PROVE Shape'
  BY <1>18, ShapeGoes DEF LockForMessage, queueVars
<1>19. ASSUME NEW t \in Receivers \cup {"reader"}, EndSpin(t) PROVE Shape'
  <2>1. t # "reader" => to_recv # <<>>
    BY <1>19 DEF EndSpin, Goes, Shape
  <2>2. "apply" \in Places(t)
    OBVIOUS
  <2> QED  BY <1>19, <2>1, <2>2, ShapeGoes DEF EndSpin, queueVars
<1>20. ASSUME NEW t \in Receivers \cup {"reader"}, FromNet(t) PROVE Shape'
  <2>1. CASE t = "reader"
    <3>1. Goes(t, "apply", "read")
      BY <1>20, <2>1 DEF FromNet
    <3> QED  BY <1>20, <2>1, <3>1, ShapeGoes DEF FromNet
  <2>2. CASE t # "reader"
    <3>1. Goes(t, "apply", "received") /\ to_recv # <<>>
      BY <1>20, <2>2 DEF FromNet, Goes, Shape
    <3> QED  BY <1>20, <2>2, <3>1, ShapeGoes DEF FromNet
  <2> QED  BY <2>1, <2>2
<1>21. ASSUME UNCHANGED <<option, job, pc, to_send, to_recv>> PROVE Shape'
  BY <1>21 DEF Shape, Placed
<1>22. ASSUME Server PROVE Shape'
  <2>1. CASE LocalProcess
    BY <1>21, <2>1 DEF LocalProcess, queueVars
  <2>2. CASE RemoteProcess
    BY <2>2, ShapeGoes DEF RemoteProcess
  <2>3. CASE GetFileLock
    BY <2>3, ShapeGoes DEF GetFileLock, queueVars
  <2>4. CASE Commit
    BY <2>4, ShapeGoes DEF Commit
  <2> QED  BY <1>22, <2>1, <2>2, <2>3, <2>4 DEF Server
<1>23. ASSUME OthersCommit PROVE Shape'
  BY <1>21, <1>23 DEF OthersCommit, queueVars
<1>24. ASSUME UNCHANGED vars PROVE Shape'
  BY <1>21, <1>24 DEF vars, queueVars
<1> HIDE <1>a, <1>b, <1>c, <1>d DEF ClientInv
<1> QED
  BY <1>1, <1>2, <1>3, <1>4, <1>5, <1>6, <1>7, <1>8, <1>9, <1>10, <1>11, <1>12,
     <1>13, <1>14, <1>15, <1>16, <1>17, <1>18, <1>19, <1>20, <1>22, <1>23, <1>24
  DEF Next, Editing, Sending, Receiving, Applying, Writer, Reader

(***************************************************************************)
(* What the queues hold.                                                   *)
(***************************************************************************)

\* A text that ends with a queued edit is not empty.
LEMMA EditQueued ==
    ASSUME ClientInv, NEW Op, Queues(Op),
           NEW t \in Editors, pc[t] = "queue"
    PROVE  edit_file # <<>> /\ Last(edit_file) \in Op
<1> DEFINE waiting == IF pc["writer"] = "pop" THEN Tail(local_ops) ELSE local_ops
           All == Op \cup {Last(edit_file)}
<1>1. "writer" \in Threads
  BY DEF Threads
<1>2. algorithm \in Seq(All) /\ local_ops \in Seq(All)
  BY DEF Queues
<1>3. waiting \in Seq(All)
  BY <1>1, <1>2, HeadTailProperties DEF ClientInv, InOrder
<1>4. edit_file = algorithm \o (waiting \o <<Last(edit_file)>>)
  BY DEF ClientInv, InOrder, Ungenerated
<1> HIDE DEF waiting
<1>5. waiting \o <<Last(edit_file)>> \in Seq(All) /\ waiting \o <<Last(edit_file)>> # <<>>
  BY <1>3
<1>6. edit_file # <<>>
  BY <1>2, <1>4, <1>5, ConcatEqualIffEmpty
<1> QED  BY <1>6 DEF Queues, Last

LEMMA SequentialKept == ClientInv /\ [Next]_vars => Sequential'
<1> SUFFICES ASSUME ClientInv, [Next]_vars PROVE Sequential'
  OBVIOUS
<1> PICK Op : Queues(Op)
  BY DEF ClientInv, Sequential
<1>0. ASSUME NEW Some, Queues(Some)' PROVE Sequential'
  BY <1>0 DEF Sequential
<1>a. "writer" \in Threads /\ "reader" \in Threads
  BY DEF Threads
<1>1. ASSUME NEW t \in Editors, ChangeText(t) PROVE Sequential'
  <2> PICK All : All = Op \cup {Len(Own(edit_file)) + 1}
    OBVIOUS
  <2>1. Queues(All)
    BY DEF Queues
  <2>2. edit_file' \in Seq(All)
    BY <1>1, <2>1, AppendProperties DEF ChangeText, Queues
  <2>3. Queues(All)'
    BY <1>1, <2>1, <2>2 DEF ChangeText, Queues, queueVars, netVars
  <2> QED  BY <1>0, <2>3
<1>2. ASSUME NEW t \in Editors, QueueEdit(t) PROVE Sequential'
  <2>1. Last(edit_file) \in Op
    BY <1>2, EditQueued DEF QueueEdit, Goes
  <2>2. Queues(Op)'
    BY <1>2, <2>1, AppendProperties DEF QueueEdit, Queues, queueVars, netVars
  <2> QED  BY <1>0, <2>2
<1>3. ASSUME Generate PROVE Sequential'
  <2>1. local_ops # <<>>
    BY <1>3, <1>a DEF Generate, Goes, ClientInv, InOrder
  <2>2. Head(local_ops) \in Op
    BY <2>1, HeadTailProperties DEF Queues
  <2>3. /\ algorithm' \in Seq(Op)
        /\ to_send' \in Seq(Op) /\ to_server' \in Seq(Op)
    <3>1. CASE option.send = "none"
      <4>1. /\ algorithm' = Append(algorithm, Head(local_ops)) /\ UNCHANGED to_send
            /\ to_server' = Append(to_server, Head(local_ops))
        BY <1>3, <3>1 DEF Generate
      <4> QED  BY <2>2, <4>1, AppendProperties DEF Queues
    <3>2. CASE option.send # "none"
      <4>1. /\ algorithm' = Append(algorithm, Head(local_ops)) /\ UNCHANGED to_server
            /\ to_send' = Append(to_send, Head(local_ops))
        BY <1>3, <3>2 DEF Generate
      <4> QED  BY <2>2, <4>1, AppendProperties DEF Queues
    <3> QED  BY <3>1, <3>2
  <2>4. Queues(Op)'
    BY <1>3, <2>3 DEF Generate, Queues
  <2> QED  BY <1>0, <2>4
<1>4. ASSUME PopLocal PROVE Sequential'
  <2>1. local_ops # <<>>
    BY <1>4, <1>a DEF PopLocal, Goes, ClientInv, InOrder
  <2>2. Queues(Op)'
    BY <1>4, <2>1, HeadTailProperties DEF PopLocal, Queues, queueVars, netVars
  <2> QED  BY <1>0, <2>2
<1>5. ASSUME NEW t \in Senders, SendFront(t) PROVE Sequential'
  <2>1. Queues(Op)'
    BY <1>5, HeadTailProperties, AppendProperties DEF SendFront, Queues, queueVars, dataVars
  <2> QED  BY <1>0, <2>1
<1>6. ASSUME NEW t \in Senders, PopSent(t) PROVE Sequential'
  <2>1. to_send # <<>>
    BY <1>6 DEF PopSent, Goes, ClientInv, Shape, Threads
  <2>2. Queues(Op)'
    BY <1>6, <2>1, HeadTailProperties DEF PopSent, Queues, dataVars, netVars
  <2> QED  BY <1>0, <2>2
<1>7. ASSUME NEW t \in Receivers, PopRecv(t) PROVE Sequential'
  <2>1. to_recv # <<>>
    BY <1>7 DEF PopRecv, Goes, ClientInv, Shape, Threads, Receivers, Editors
  <2>2. Queues(Op)'
    BY <1>7, <2>1, HeadTailProperties DEF PopRecv, Queues, dataVars, netVars
  <2> QED  BY <1>0, <2>2
<1>8. ASSUME ReadMessage PROVE Sequential'
  <2>1. Head(to_client) \in Op /\ Tail(to_client) \in Seq(Op)
    BY <1>8, HeadTailProperties DEF ReadMessage, Queues
  <2>2. to_recv' \in Seq(Op) /\ in_hand' \in [{"reader", "server"} -> Seq(Op)]
    <3>1. CASE option.recv = "none"
      <4>1. /\ UNCHANGED to_recv
            /\ in_hand' = [in_hand EXCEPT !["reader"] = <<Head(to_client)>>]
        BY <1>8, <3>1 DEF ReadMessage
      <4> QED  BY <2>1, <4>1 DEF Queues
    <3>2. CASE option.recv # "none"
      <4>1. UNCHANGED in_hand /\ to_recv' = Append(to_recv, Head(to_client))
        BY <1>8, <3>2 DEF ReadMessage
      <4> QED  BY <2>1, <4>1, AppendProperties DEF Queues
    <3> QED  BY <3>1, <3>2
  <2>3. Queues(Op)'
    BY <1>8, <2>1, <2>2 DEF ReadMessage, Queues, dataVars
  <2> QED  BY <1>0, <2>3
<1>9. ASSUME NEW t \in Receivers \cup {"reader"}, FromNet(t) PROVE Sequential'
  <2> DEFINE msg == IF t = "reader" THEN in_hand["reader"] ELSE <<Head(to_recv)>>
  <2>1. t # "reader" => to_recv # <<>>
    BY <1>9 DEF FromNet, Goes, ClientInv, Shape, Threads
  <2>2. msg \in Seq(Op)
    BY <2>1, HeadTailProperties DEF Queues
  <2>3. in_hand' \in [{"reader", "server"} -> Seq(Op)]
    BY <1>9 DEF FromNet, Queues
  <2>4. algorithm' = algorithm \o msg /\ edit_file' = edit_file \o msg
    BY <1>9 DEF FromNet
  <2> HIDE DEF msg
  <2>5. algorithm' \in Seq(Op) /\ edit_file' \in Seq(Op)
    BY <2>2, <2>4, ConcatProperties DEF Queues
  <2>6. Queues(Op)'
    BY <1>9, <2>3, <2>5 DEF FromNet, Queues, netVars
  <2> QED  BY <1>0, <2>6
<1>10. ASSUME LocalProcess PROVE Sequential'
  <2> PICK All : All = Op \cup {-readfd'}
    OBVIOUS
  <2>1. Queues(All)
    BY DEF Queues
  <2>2. to_client' \in Seq(All)
    BY <1>10, <2>1, AppendProperties DEF LocalProcess, Queues
  <2>3. Queues(All)'
    BY <1>10, <2>1, <2>2 DEF LocalProcess, Queues, dataVars, queueVars
  <2> QED  BY <1>0, <2>3
<1>11. ASSUME RemoteProcess PROVE Sequential'
  <2>1. Queues(Op)'
    BY <1>11, HeadTailProperties DEF RemoteProcess, Queues, dataVars
  <2> QED  BY <1>0, <2>1
<1>12. ASSUME Commit PROVE Sequential'
  <2>1. Queues(Op)'
    BY <1>12 DEF Commit, Queues, dataVars
  <2> QED  BY <1>0, <2>1
<1>13. ASSUME UNCHANGED <<dataVars, queueVars, to_server, to_client>> PROVE Sequential'
  <2>1. Queues(Op)'
    BY <1>13 DEF Queues, dataVars, queueVars
  <2> QED  BY <1>0, <2>1
<1>14. ASSUME NEW t \in Threads,
              \/ Synchronize(t) \/ BeginSend(t) \/ EndSend(t)
              \/ BeginRecv(t) \/ RecvFront(t) \/ EndRecv(t) \/ EndSpin(t)
       PROVE  Sequential'
  BY <1>13, <1>14 DEF Synchronize, BeginSend, EndSend, BeginRecv, RecvFront,
     EndRecv, EndSpin, netVars
<1>15. ASSUME Timers \/ Consume \/ EnterGenerate \/ LockForMessage PROVE Sequential'
  BY <1>13, <1>15 DEF Timers, Expire, Consume, EnterGenerate, LockForMessage, netVars
<1>16. ASSUME GetFileLock \/ OthersCommit \/ UNCHANGED vars PROVE Sequential'
  BY <1>13, <1>16 DEF GetFileLock, OthersCommit, vars, netVars
<1> QED
  BY <1>1, <1>2, <1>3, <1>4, <1>5, <1>6, <1>7, <1>8, <1>9, <1>10, <1>11, <1>12,
     <1>14, <1>15, <1>16
  DEF Next, Editing, Sending, Receiving, Applying, Writer, Reader, Server,
      Threads, Senders, Receivers

(***************************************************************************)
(* The connection and its two ends.                                        *)
(***************************************************************************)

LEMMA BoundsKept == ClientInv /\ [Next]_vars => Bounds'
<1> SUFFICES ASSUME ClientInv, [Next]_vars PROVE Bounds'
  OBVIOUS
<1> PICK Op : Queues(Op)
  BY DEF ClientInv, Sequential
<1> DEFINE Ends == {"reader", "server"}
<1> Ends \subseteq Processes /\ Threads \subseteq Processes
  BY DEF Processes, Threads
<1> "reader" \notin Senders \cup Receivers /\ "server" \notin Threads
  BY DEF Threads, Senders, Receivers, Editors
<1>a. /\ Room \in Nat \ {0} /\ option \in Options /\ MaxOthers[option] \in Nat
      /\ others \in 0..MaxOthers[option] /\ readfd \in 0..others
      /\ Len(to_server) <= Room /\ Len(to_client) <= Room
  BY RoomAssumption, MaxOthersAssumption DEF ClientInv, Bounds, Shape
<1>b. /\ to_server \in Seq(Op) /\ to_client \in Seq(Op)
      /\ in_hand \in [Ends -> Seq(Op)]
  BY DEF Queues
\* A step that leaves the ends of the connection and the log alone.
<1>0. ASSUME UNCHANGED <<option, in_hand, others, readfd>>,
             \A p \in Ends : pc'[p] \in {"read", "poll"} <=> pc[p] \in {"read", "poll"},
             Len(to_server') <= Room, Len(to_client') <= Room
      PROVE  Bounds'
  BY <1>0 DEF ClientInv, Bounds
\* Nobody but the reader and the server process is at the ends.
<1>c. ASSUME NEW t \in Threads \ {"reader"}, NEW from, NEW to, Goes(t, from, to)
      PROVE  \A p \in Ends : pc'[p] = pc[p]
  BY <1>c DEF Goes, ClientInv, Shape, Placed
<1>1. ASSUME NEW t \in Threads \ {"reader"},
             \/ Editing(t) \/ Synchronize(t) \/ BeginSend(t) \/ PopSent(t)
             \/ EndSend(t) \/ BeginRecv(t) \/ RecvFront(t) \/ PopRecv(t)
             \/ EndRecv(t) \/ EndSpin(t)
      PROVE  Bounds'
  <2>1. PICK from, to : Goes(t, from, to)
    BY <1>1 DEF Editing, ChangeText, QueueEdit, Synchronize, BeginSend, PopSent,
       EndSend, BeginRecv, RecvFront, PopRecv, EndRecv, EndSpin
  <2>2. UNCHANGED <<option, in_hand, others, readfd, to_server, to_client>>
    BY <1>1 DEF Editing, ChangeText, QueueEdit, Synchronize, BeginSend, PopSent,
       EndSend, BeginRecv, RecvFront, PopRecv, EndRecv, EndSpin, queueVars,
       netVars, logVars
  <2> QED  BY <1>0, <1>a, <1>c, <2>1, <2>2
<1>2. ASSUME Timers PROVE Bounds'
  <2>1. PICK t \in {"send_timer", "recv_timer"}, way \in {"send", "recv"} : Expire(t, way)
    BY <1>2 DEF Timers
  <2>2. t \in Threads \ {"reader"}
    BY DEF Threads, Senders, Receivers
  <2> QED  BY <1>0, <1>a, <1>c, <2>1, <2>2 DEF Expire, queueVars, netVars, logVars
<1>3. ASSUME Writer PROVE Bounds'
  <2>1. PICK from, to : Goes("writer", from, to)
    BY <1>3 DEF Writer, Consume, EnterGenerate, Generate, PopLocal
  <2>2. \A p \in Ends : pc'[p] = pc[p]
    BY <1>c, <2>1 DEF Threads
  <2>3. /\ UNCHANGED <<option, in_hand, others, readfd, to_client>>
        /\ UNCHANGED to_server \/ Generate
    BY <1>3 DEF Writer, Consume, EnterGenerate, Generate, PopLocal, queueVars,
       netVars, logVars
  <2>4. ASSUME Generate PROVE Len(to_server') <= Room
    <3>1. CASE option.send = "none"
      <4>1. local_ops # <<>>
        BY <2>4 DEF Generate, Goes, ClientInv, InOrder, Threads
      <4>2. Head(local_ops) \in Op
        BY <4>1, HeadTailProperties DEF Queues
      <4>3. to_server' = Append(to_server, Head(local_ops)) /\ Len(to_server) < Room
        BY <2>4, <3>1 DEF Generate
      <4> QED  BY <1>a, <1>b, <4>2, <4>3, AppendProperties
    <3>2. CASE option.send # "none"
      BY <1>a, <2>4, <3>2 DEF Generate
    <3> QED  BY <3>1, <3>2
  <2> QED  BY <1>0, <1>a, <2>2, <2>3, <2>4
<1>4. ASSUME NEW t \in Senders, SendFront(t) PROVE Bounds'
  <2>1. Head(to_send) \in Op
    BY <1>4, HeadTailProperties DEF SendFront, Queues
  <2>2. Len(to_server') <= Room
    BY <1>4, <1>a, <1>b, <2>1, AppendProperties DEF SendFront
  <2>3. t \in Threads \ {"reader"}
    BY DEF Threads
  <2> QED  BY <1>0, <1>4, <1>a, <1>c, <2>2, <2>3 DEF SendFront, queueVars, logVars
<1>5. ASSUME ReadMessage PROVE Bounds'
  <2>1. /\ Head(to_client) \in Op /\ Tail(to_client) \in Seq(Op)
        /\ Len(Tail(to_client)) = Len(to_client) - 1
    BY <1>5, <1>b, HeadTailProperties DEF ReadMessage
  <2>2. Len(to_client') <= Room
    BY <1>5, <1>a, <1>b, <2>1 DEF ReadMessage
  <2>3. CASE option.recv = "none"
    <3>1. Goes("reader", "read", "lock")
      BY <1>5, <2>3 DEF ReadMessage
    <3>2. pc'["reader"] = "lock" /\ pc'["server"] = pc["server"]
      BY <3>1 DEF Goes, ClientInv, Shape, Placed
    <3>3. /\ in_hand'["reader"] = <<Head(to_client)>>
          /\ in_hand'["server"] = in_hand["server"]
      BY <1>5, <1>b, <2>3 DEF ReadMessage
    <3>4. Len(in_hand'["reader"]) = 1
      BY <3>3
    <3> QED
      BY <1>5, <1>a, <2>2, <3>2, <3>3, <3>4 DEF ReadMessage, logVars, ClientInv, Bounds
  <2>4. CASE option.recv # "none"
    <3>1. Goes("reader", "read", "read") /\ UNCHANGED in_hand
      BY <1>5, <2>4 DEF ReadMessage
    <3>2. \A p \in Ends : pc'[p] = pc[p]
      BY <3>1 DEF Goes, ClientInv, Shape, Placed
    <3> QED  BY <1>0, <1>5, <1>a, <2>2, <3>1, <3>2 DEF ReadMessage, logVars
  <2> QED  BY <2>3, <2>4
<1>6. ASSUME LockForMessage \/ EndSpin("reader") PROVE Bounds'
  <2>1. PICK from \in {"lock", "spin"}, to \in {"spin", "apply"} : Goes("reader", from, to)
    BY <1>6 DEF LockForMessage, EndSpin
  <2>2. \A p \in Ends : pc'[p] \in {"read", "poll"} <=> pc[p] \in {"read", "poll"}
    BY <2>1 DEF Goes, ClientInv, Shape, Placed
  <2> QED
    BY <1>0, <1>6, <1>a, <2>2 DEF LockForMessage, EndSpin, queueVars, netVars, logVars
<1>7. ASSUME NEW t \in Receivers \cup {"reader"}, FromNet(t) PROVE Bounds'
  <2>1. CASE t = "reader"
    <3>1. Goes("reader", "apply", "read")
      BY <1>7, <2>1 DEF FromNet
    <3>2. pc'["reader"] = "read" /\ pc'["server"] = pc["server"]
      BY <3>1 DEF Goes, ClientInv, Shape, Placed
    <3>3. in_hand'["reader"] = <<>> /\ in_hand'["server"] = in_hand["server"]
      BY <1>7, <1>b, <2>1 DEF FromNet
    <3>4. Len(in_hand'["reader"]) = 0
      BY <3>3
    <3> QED
      BY <1>7, <1>a, <3>2, <3>3, <3>4 DEF FromNet, netVars, logVars, ClientInv, Bounds
  <2>2. CASE t # "reader"
    <3>1. PICK to : Goes(t, "apply", to)
      BY <1>7 DEF FromNet
    <3>2. t \in Threads \ {"reader"}
      BY <2>2 DEF Threads
    <3> QED  BY <1>0, <1>7, <1>a, <1>c, <2>2, <3>1, <3>2 DEF FromNet, netVars, logVars
  <2> QED  BY <2>1, <2>2
<1>8. ASSUME LocalProcess PROVE Bounds'
  <2>1. PICK All : All = Op \cup {-readfd'}
    OBVIOUS
  <2>2. to_client \in Seq(All) /\ -readfd' \in All
    BY <1>b, <2>1
  <2>3. Len(to_client') <= Room
    BY <1>8, <1>a, <2>2, AppendProperties DEF LocalProcess
  <2>4. readfd' \in 0..others' /\ others' \in 0..MaxOthers[option']
    BY <1>8, <1>a DEF LocalProcess
  <2> QED
    BY <1>8, <1>a, <2>3, <2>4 DEF LocalProcess, queueVars, ClientInv, Bounds
<1>9. ASSUME RemoteProcess PROVE Bounds'
  <2>1. /\ Head(to_server) \in Op
        /\ Len(Tail(to_server)) = Len(to_server) - 1
    BY <1>9, <1>b, HeadTailProperties DEF RemoteProcess
  <2>2. Len(to_server') <= Room
    BY <1>9, <1>a, <1>b, <2>1 DEF RemoteProcess
  <2>3. pc'["server"] = "remote" /\ pc'["reader"] = pc["reader"]
    BY <1>9 DEF RemoteProcess, Goes, ClientInv, Shape, Placed
  <2>4. /\ in_hand'["server"] = <<Head(to_server)>>
        /\ in_hand'["reader"] = in_hand["reader"]
    BY <1>9, <1>b DEF RemoteProcess
  <2>5. Len(in_hand'["server"]) = 1
    BY <2>4
  <2> QED
    BY <1>9, <1>a, <2>2, <2>3, <2>4, <2>5 DEF RemoteProcess, logVars, ClientInv, Bounds
<1>10. ASSUME GetFileLock PROVE Bounds'
  <2>1. \A p \in Ends : pc'[p] \in {"read", "poll"} <=> pc[p] \in {"read", "poll"}
    BY <1>10 DEF GetFileLock, Goes, ClientInv, Shape, Placed
  <2> QED  BY <1>0, <1>10, <1>a, <2>1 DEF GetFileLock, queueVars, netVars, logVars
<1>11. ASSUME Commit PROVE Bounds'
  <2>1. pc'["server"] = "poll" /\ pc'["reader"] = pc["reader"]
    BY <1>11 DEF Commit, Goes, ClientInv, Shape, Placed
  <2>2. in_hand'["server"] = <<>> /\ in_hand'["reader"] = in_hand["reader"]
    BY <1>11, <1>b DEF Commit
  <2>3. Len(in_hand'["server"]) = 0
    BY <2>2
  <2> QED
    BY <1>11, <1>a, <2>1, <2>2, <2>3 DEF Commit, ClientInv, Bounds
<1>12. ASSUME OthersCommit PROVE Bounds'
  <2>1. readfd' \in 0..others' /\ others' \in 0..MaxOthers[option']
    BY <1>12, <1>a DEF OthersCommit
  <2> QED
    BY <1>12, <1>a, <2>1 DEF OthersCommit, queueVars, ClientInv, Bounds
<1>13. ASSUME UNCHANGED vars PROVE Bounds'
  BY <1>0, <1>13, <1>a DEF vars, queueVars, netVars, logVars
<1>14. \A t \in Senders \cup Receivers : t \in Threads \ {"reader"}
  BY DEF Threads
<1>15. Editors \subseteq Senders
  BY DEF Senders
<1> QED
  BY <1>1, <1>2, <1>3, <1>4, <1>5, <1>6, <1>7, <1>8, <1>9, <1>10, <1>11, <1>12,
     <1>13, <1>14, <1>15
  DEF Next, Sending, Receiving, Applying, Reader, Server

(***************************************************************************)
(* The order.                                                              *)
(***************************************************************************)

\* The two parts of Ungenerated: what the writer still has to do, and the
\* edit that is not queued yet.
Undone == IF pc["writer"] = "pop" THEN Tail(local_ops) ELSE local_ops
Unqueued ==
    IF \E t \in Editors : pc[t] = "queue" THEN <<Last(edit_file)>> ELSE <<>>

LEMMA TwoParts == Ungenerated = Undone \o Unqueued
BY DEF Ungenerated, Undone, Unqueued

\* Whoever holds the edit lock is alone with the text.
LEMMA Alone ==
    ASSUME Mutual, NEW t \in Threads, pc[t] \in Holding["mtx2"]
    PROVE  \A q \in Threads \ {t} : pc[q] \notin Holding["mtx2"]
BY DEF Mutual, Mutexes, Without

\* A step that neither touches the text or what waits for the writer nor
\* takes anybody to or from the places that matter.
LEMMA OrderStays ==
    ASSUME InOrder, Shape, UNCHANGED dataVars,
           NEW p \in Processes, NEW from, NEW to, Goes(p, from, to),
           from \notin {"queue", "pop"}, to \notin {"queue", "pop"},
           p = "writer" => to = "idle" \/ local_ops # <<>>,
           to = "apply" => local_ops = <<>>
    PROVE  InOrder'
<1> Editors \subseteq Threads /\ Threads \subseteq Processes /\ "writer" \in Threads
  BY DEF Threads, Senders, Processes
<1>1. /\ pc[p] = from /\ pc'[p] = to
      /\ \A q \in Processes \ {p} : pc'[q] = pc[q]
  BY DEF Goes, Shape, Placed
<1>2. \A q \in Processes : /\ pc'[q] = "queue" <=> pc[q] = "queue"
                           /\ pc'[q] = "pop" <=> pc[q] = "pop"
  BY <1>1
<1>3. Ungenerated' = Ungenerated
  BY <1>2 DEF Ungenerated, dataVars
<1>4. pc'["writer"] # "idle" => local_ops # <<>>
  BY <1>1 DEF InOrder
<1>5. \A t \in Threads : pc'[t] = "apply" => local_ops = <<>>
  BY <1>1 DEF InOrder
<1> QED  BY <1>3, <1>4, <1>5 DEF InOrder, dataVars

LEMMA AppendToLast ==
    ASSUME NEW S, NEW s \in Seq(S), NEW t \in Seq(S), NEW e \in S
    PROVE  Append(s \o t, e) = s \o (t \o <<e>>)
OBVIOUS

\* ChangeText: the text and Ungenerated get one more operation.
LEMMA OrderEdit ==
    ASSUME ClientInv, NEW t \in Editors, ChangeText(t)
    PROVE  InOrder'
<1> DEFINE op == Len(Own(edit_file)) + 1
<1> Editors \subseteq Threads /\ "writer" \in Threads /\ t # "writer"
  BY DEF Threads, Senders, Editors
<1>0. PICK Some : Queues(Some)
  BY DEF ClientInv, Sequential
<1>1. PICK Op : Op = Some \cup {op}
  OBVIOUS
<1>2. edit_file \in Seq(Op) /\ algorithm \in Seq(Op) /\ local_ops \in Seq(Op) /\ op \in Op
  BY <1>0, <1>1 DEF Queues
<1>3. /\ pc'[t] = "queue" /\ \A q \in Threads \ {t} : pc'[q] = pc[q]
      /\ edit_file' = Append(edit_file, op) /\ UNCHANGED <<local_ops, algorithm>>
  BY DEF ChangeText, Goes, ClientInv, Shape, Placed, Processes
<1>4. \A q \in Threads : pc[q] \notin Holding["mtx2"]
  BY Held, HoldingPlaces DEF ChangeText, Lock, ClientInv, Without, Threads, Senders,
     Receivers, Editors, Nobody
<1>5. Undone' = Undone /\ Undone \in Seq(Op)
  <2>1. pc["writer"] = "pop" => local_ops # <<>>
    BY DEF ClientInv, InOrder
  <2> QED  BY <1>2, <1>3, <2>1, HeadTailProperties DEF Undone
<1> HIDE DEF op
<1>6. Unqueued = <<>> /\ Unqueued' = <<op>>
  <2>1. Last(edit_file') = op
    BY <1>2, <1>3 DEF Last
  <2>2. \A q \in Editors : pc[q] # "queue"
    BY <1>4, HoldingPlaces
  <2> QED  BY <1>3, <2>1, <2>2 DEF Unqueued
<1>7. edit_file = algorithm \o Undone
  <2>1. edit_file = algorithm \o (Undone \o <<>>)
    BY <1>6, TwoParts DEF ClientInv, InOrder
  <2> QED  BY <1>5, <2>1, ConcatEmptySeq
<1>8. edit_file' = algorithm' \o Ungenerated'
  <2>1. Ungenerated' = Undone \o <<op>>
    BY <1>5, <1>6 DEF Ungenerated, Undone, Unqueued
  <2>2. Append(algorithm \o Undone, op) = algorithm \o (Undone \o <<op>>)
    BY <1>2, <1>5, AppendToLast
  <2> QED  BY <1>3, <1>7, <2>1, <2>2
<1>9. \A q \in Threads : pc'[q] # "apply"
  BY <1>3, <1>4, HoldingPlaces
<1> QED  BY <1>3, <1>8, <1>9 DEF ClientInv, InOrder

\* QueueEdit: the edit goes from one part of Ungenerated to the other.
LEMMA OrderQueue ==
    ASSUME ClientInv, NEW t \in Editors, QueueEdit(t)
    PROVE  InOrder'
<1> Editors \subseteq Threads /\ "writer" \in Threads /\ t # "writer"
  BY DEF Threads, Senders, Editors
<1>1. PICK Op : Queues(Op)
  BY DEF ClientInv, Sequential
<1>2. Last(edit_file) \in Op
  BY <1>1, EditQueued DEF QueueEdit, Goes
<1>3. /\ pc[t] = "queue" /\ pc'[t] = "idle"
      /\ \A q \in Threads \ {t} : pc'[q] = pc[q]
      /\ local_ops' = Append(local_ops, Last(edit_file))
      /\ UNCHANGED <<edit_file, algorithm>>
  BY DEF QueueEdit, Goes, ClientInv, Shape, Placed, Processes
<1>4. pc["writer"] = "idle"
  <2>1. pc["writer"] \notin Holding["mtx"]
    BY Held, HoldingPlaces DEF QueueEdit, ClientInv, Without, Nobody
  <2>2. pc["writer"] \in Places("writer")
    BY DEF ClientInv, Shape, Placed, Processes
  <2> QED  BY <2>1, <2>2, HoldingPlaces DEF Places
<1>5. \A q \in Threads \ {t} : pc[q] \notin {"queue", "apply"}
  BY <1>3, Alone, HoldingPlaces DEF ClientInv
<1>6. Ungenerated = local_ops \o <<Last(edit_file)>>
  BY <1>3, <1>4 DEF Ungenerated
<1>7. Ungenerated' = local_ops'
  <2>1. ~ \E q \in Editors : pc'[q] = "queue"
    BY <1>3, <1>5
  <2>2. Ungenerated' = local_ops' \o <<>>
    BY <1>3, <1>4, <2>1 DEF Ungenerated
  <2>3. local_ops' \in Seq(Op)
    BY <1>1, <1>2, <1>3, AppendProperties DEF Queues
  <2> QED  BY <2>2, <2>3, ConcatEmptySeq
<1>8. local_ops' = local_ops \o <<Last(edit_file)>>
  BY <1>1, <1>2, <1>3, AppendIsConcat DEF Queues
<1>9. \A q \in Threads : pc'[q] # "apply"
  BY <1>3, <1>5
<1> QED  BY <1>3, <1>4, <1>6, <1>7, <1>8, <1>9 DEF ClientInv, InOrder

\* A queue handed over to the next one, first element by first element.
LEMMA HeadAndTail ==
    ASSUME NEW S, NEW s \in Seq(S), s # <<>>
    PROVE  Head(s) \in S /\ Tail(s) \in Seq(S) /\ s = <<Head(s)>> \o Tail(s)
OBVIOUS

LEMMA HandOver ==
    ASSUME NEW S, NEW c \in Seq(S), NEW d \in Seq(S), d # <<>>
    PROVE  Append(c, Head(d)) \o Tail(d) = c \o d
<1>1. PICK h \in S, t \in Seq(S) : h = Head(d) /\ t = Tail(d) /\ d = <<h>> \o t
  BY HeadAndTail
<1>2. Append(c, h) = c \o <<h>> /\ <<h>> \in Seq(S)
  BY AppendIsConcat
<1>3. (c \o <<h>>) \o t = c \o (<<h>> \o t)
  BY <1>2, ConcatAssociative
<1> QED  BY <1>1, <1>2, <1>3

\* Of three queues, the middle one hands its first element to the one before
\* it.
HeadMoves(a, b, c) == a \o (b \o c) = Append(a, Head(b)) \o (Tail(b) \o c)

LEMMA HeadMovesOn ==
    ASSUME NEW S, NEW a \in Seq(S), NEW b \in Seq(S), b # <<>>, NEW c \in Seq(S)
    PROVE  HeadMoves(a, b, c)
<1>1. PICK f, t \in Seq(S) : f = Append(a, Head(b)) /\ t = Tail(b)
  BY HeadAndTail, AppendProperties
<1>2. f \o t = a \o b
  BY <1>1, HandOver
<1>3. (f \o t) \o c = f \o (t \o c)
  BY ConcatAssociative
<1>4. (a \o b) \o c = a \o (b \o c)
  BY ConcatAssociative
<1> QED  BY <1>1, <1>2, <1>3, <1>4 DEF HeadMoves

\* Generate and PopLocal: the first edit that waits goes to the algorithm,
\* and then out of the queue.
LEMMA OrderGenerate == ClientInv /\ Generate => InOrder'
<1> SUFFICES ASSUME ClientInv, Generate PROVE InOrder'
  OBVIOUS
<1> Editors \subseteq Threads /\ "writer" \in Threads /\ "writer" \notin Editors
  BY DEF Threads, Senders, Editors
<1>1. PICK Op : Queues(Op)
  BY DEF ClientInv, Sequential
<1>2. /\ pc["writer"] = "generate" /\ pc'["writer"] = "pop"
      /\ \A q \in Threads \ {"writer"} : pc'[q] = pc[q]
      /\ algorithm' = Append(algorithm, Head(local_ops))
      /\ UNCHANGED <<edit_file, local_ops>>
  BY DEF Generate, Goes, ClientInv, Shape, Placed, Processes
<1>3. local_ops # <<>>
  BY <1>2 DEF ClientInv, InOrder
<1>4. Undone = local_ops /\ Undone' = Tail(local_ops) /\ Unqueued' = Unqueued
  BY <1>2 DEF Undone, Unqueued
<1>5. PICK All : All = Op \cup {Last(edit_file)}
  OBVIOUS
<1>6. local_ops \in Seq(All) /\ algorithm \in Seq(All) /\ Unqueued \in Seq(All)
  <2>1. local_ops \in Seq(All) /\ algorithm \in Seq(All)
    BY <1>1, <1>5 DEF Queues
  <2>2. <<Last(edit_file)>> \in Seq(All) /\ <<>> \in Seq(All)
    BY <1>5
  <2> QED  BY <2>1, <2>2 DEF Unqueued
<1>7. edit_file = algorithm \o (local_ops \o Unqueued)
  BY <1>4, TwoParts DEF ClientInv, InOrder
<1>8. Ungenerated' = Tail(local_ops) \o Unqueued
  BY <1>4 DEF Ungenerated, Undone, Unqueued
<1>9. algorithm \o (local_ops \o Unqueued) =
        Append(algorithm, Head(local_ops)) \o (Tail(local_ops) \o Unqueued)
  <2>1. PICK a \in Seq(All) : a = algorithm
    BY <1>6
  <2>2. PICK b \in Seq(All) : b = local_ops
    BY <1>6
  <2>3. PICK c \in Seq(All) : c = Unqueued
    BY <1>6
  <2>4. b # <<>>
    BY <1>3, <2>2
  <2>5. HeadMoves(a, b, c)
    BY <2>4, HeadMovesOn
  <2> QED  BY <2>1, <2>2, <2>3, <2>5 DEF HeadMoves
<1>10. edit_file' = algorithm' \o Ungenerated'
  BY <1>2, <1>7, <1>8, <1>9
<1>11. \A q \in Threads : pc'[q] # "apply"
  BY <1>2, <1>3 DEF ClientInv, InOrder
<1> QED  BY <1>2, <1>3, <1>10, <1>11 DEF InOrder

LEMMA OrderPop == ClientInv /\ PopLocal => InOrder'
<1> SUFFICES ASSUME ClientInv, PopLocal PROVE InOrder'
  OBVIOUS
<1> Editors \subseteq Threads /\ "writer" \in Threads /\ "writer" \notin Editors
  BY DEF Threads, Senders, Editors
<1>1. PICK Op : Queues(Op)
  BY DEF ClientInv, Sequential
<1>2. /\ pc["writer"] = "pop"
      /\ pc'["writer"] = IF Len(local_ops) > 1 THEN "consume" ELSE "idle"
      /\ \A q \in Threads \ {"writer"} : pc'[q] = pc[q]
      /\ local_ops' = Tail(local_ops) /\ UNCHANGED <<edit_file, algorithm>>
  BY DEF PopLocal, Goes, ClientInv, Shape, Placed, Processes
<1>3. local_ops # <<>>
  BY <1>2 DEF ClientInv, InOrder
<1>4. Ungenerated' = Ungenerated
  BY <1>2 DEF Ungenerated
<1>5. pc'["writer"] # "idle" => local_ops' # <<>>
  <2>1. Tail(local_ops) \in Seq(Op) /\ Len(Tail(local_ops)) = Len(local_ops) - 1
    BY <1>1, <1>3, HeadTailProperties DEF Queues
  <2>2. Len(local_ops) \in Nat
    BY <1>1 DEF Queues
  <2> QED  BY <1>2, <2>1, <2>2
<1>6. \A q \in Threads : pc'[q] # "apply"
  BY <1>2, <1>3 DEF ClientInv, InOrder
<1> QED  BY <1>2, <1>4, <1>5, <1>6 DEF ClientInv, InOrder

\* FromNet: nothing waits for the writer and nobody edits, so the message
\* goes to the end of the text and of what the algorithm was given.
LEMMA OrderReceive ==
    ASSUME ClientInv, NEW t \in Receivers \cup {"reader"}, FromNet(t)
    PROVE  InOrder'
<1> DEFINE msg == IF t = "reader" THEN in_hand["reader"] ELSE <<Head(to_recv)>>
<1> Editors \subseteq Threads /\ t \in Threads /\ "writer" \in Threads /\ t # "writer"
  BY DEF Threads, Senders, Receivers, Editors
<1>1. PICK Op : Queues(Op)
  BY DEF ClientInv, Sequential
<1>2. PICK to \in {"read", "received"} :
        /\ pc[t] = "apply" /\ pc'[t] = to
        /\ \A q \in Threads \ {t} : pc'[q] = pc[q]
  BY DEF FromNet, Goes, ClientInv, Shape, Placed, Processes
<1>3. /\ algorithm' = algorithm \o msg /\ edit_file' = edit_file \o msg
      /\ UNCHANGED local_ops
  BY DEF FromNet
<1> HIDE DEF msg
<1>4. local_ops = <<>>
  BY <1>2 DEF ClientInv, InOrder
<1>5. pc["writer"] = "idle"
  BY <1>4 DEF ClientInv, InOrder
<1>6. \A q \in Editors : pc[q] # "queue" /\ pc'[q] # "queue"
  BY <1>2, Alone, HoldingPlaces DEF ClientInv
<1>7. Ungenerated = <<>> /\ Ungenerated' = <<>>
  BY <1>2, <1>3, <1>4, <1>5, <1>6 DEF Ungenerated
<1>8. edit_file = algorithm
  BY <1>1, <1>7, ConcatEmptySeq DEF Queues, ClientInv, InOrder
<1>9. algorithm' \in Seq(Op)
  <2>1. t # "reader" => to_recv # <<>>
    BY <1>2 DEF ClientInv, Shape
  <2>2. msg \in Seq(Op)
    BY <1>1, <2>1, HeadTailProperties DEF Queues, msg
  <2> QED  BY <1>1, <1>3, <2>2, ConcatProperties DEF Queues
<1>10. edit_file' = algorithm' \o Ungenerated'
  BY <1>3, <1>7, <1>8, <1>9, ConcatEmptySeq
<1>11. pc'["writer"] = "idle" /\ local_ops' = <<>>
  BY <1>2, <1>3, <1>4, <1>5
<1> QED  BY <1>10, <1>11 DEF InOrder

LEMMA OrderKept == ClientInv /\ [Next]_vars => InOrder'
<1> SUFFICES ASSUME ClientInv, [Next]_vars PROVE InOrder'
  OBVIOUS
<1> USE DEF ClientInv
<1>a. Threads \subseteq Processes /\ "server" \in Processes
  BY DEF Processes
<1>b. Editors \subseteq Senders /\ Senders \subseteq Threads /\ Receivers \subseteq Threads
  BY DEF Threads, Senders, Receivers
<1>c. /\ "writer" \in Threads /\ "reader" \in Threads
      /\ "writer" \notin Senders \cup Receivers
  BY DEF Threads, Senders, Receivers, Editors
<1> USE <1>a, <1>b, <1>c
<1>1. ASSUME NEW t \in Editors, Editing(t) PROVE InOrder'
  BY <1>1, OrderEdit, OrderQueue DEF Editing
<1>2. ASSUME NEW t \in Editors, Synchronize(t) PROVE InOrder'
  <2>1. PICK to \in {"send", "recv"} : Goes(t, "idle", to)
    BY <1>2 DEF Synchronize
  <2> QED  BY <1>2, <2>1, OrderStays DEF Synchronize
<1>3. ASSUME Timers PROVE InOrder'
  <2>1. PICK t \in Senders \cup Receivers, way \in {"send", "recv"} : Expire(t, way)
    BY <1>3 DEF Timers, Senders, Receivers
  <2> QED  BY <2>1, OrderStays DEF Expire
<1>4. ASSUME NEW t \in Senders, Sending(t) PROVE InOrder'
  <2>1. PICK from \in {"send", "sending", "sent"},
             to \in {"sending", "sent", "recv", "idle"} : Goes(t, from, to)
    BY <1>4 DEF Sending, BeginSend, SendFront, PopSent, EndSend
  <2>2. UNCHANGED dataVars
    BY <1>4 DEF Sending, BeginSend, SendFront, PopSent, EndSend
  <2> QED  BY <2>1, <2>2, OrderStays
<1>5. ASSUME NEW t \in Receivers,
             BeginRecv(t) \/ RecvFront(t) \/ PopRecv(t) \/ EndRecv(t)
      PROVE  InOrder'
  <2>1. PICK from \in {"recv", "receiving", "received"},
             to \in {"receiving", "spin", "idle"} : Goes(t, from, to)
    BY <1>5 DEF BeginRecv, RecvFront, PopRecv, EndRecv
  <2>2. UNCHANGED dataVars
    BY <1>5 DEF BeginRecv, RecvFront, PopRecv, EndRecv
  <2> QED  BY <2>1, <2>2, OrderStays
<1>6. ASSUME NEW t \in Receivers \cup {"reader"}, Applying(t) PROVE InOrder'
  <2>1. CASE EndSpin(t)
    BY <2>1, OrderStays DEF EndSpin
  <2>2. CASE FromNet(t)
    BY <2>2, OrderReceive
  <2> QED  BY <1>6, <2>1, <2>2 DEF Applying
<1>7. ASSUME Consume \/ EnterGenerate PROVE InOrder'
  <2>1. PICK from \in {"idle", "consume"}, to \in {"consume", "generate"} :
            Goes("writer", from, to)
    BY <1>7 DEF Consume, EnterGenerate
  <2>2. local_ops # <<>> /\ UNCHANGED dataVars
    BY <1>7 DEF Consume, EnterGenerate, Goes, InOrder
  <2> QED  BY <2>1, <2>2, OrderStays
<1>8. ASSUME Generate \/ PopLocal PROVE InOrder'
  BY <1>8, OrderGenerate, OrderPop
<1>9. ASSUME ReadMessage \/ LockForMessage PROVE InOrder'
  <2>1. PICK from \in {"read", "lock"}, to \in {"lock", "read", "spin"} :
            Goes("reader", from, to)
    BY <1>9 DEF ReadMessage, LockForMessage
  <2>2. UNCHANGED dataVars
    BY <1>9 DEF ReadMessage, LockForMessage
  <2> QED  BY <2>1, <2>2, OrderStays
<1>10. ASSUME RemoteProcess \/ GetFileLock \/ Commit PROVE InOrder'
  <2>1. PICK from \in {"poll", "remote", "commit"}, to \in {"remote", "commit", "poll"} :
            Goes("server", from, to)
    BY <1>10 DEF RemoteProcess, GetFileLock, Commit
  <2>2. UNCHANGED dataVars /\ "server" # "writer"
    BY <1>10 DEF RemoteProcess, GetFileLock, Commit
  <2> QED  BY <2>1, <2>2, OrderStays
<1>11. ASSUME LocalProcess \/ OthersCommit \/ UNCHANGED vars PROVE InOrder'
  <2>1. UNCHANGED <<pc, dataVars>>
    BY <1>11 DEF LocalProcess, OthersCommit, vars
  <2> QED  BY <2>1 DEF InOrder, Ungenerated, dataVars
<1> HIDE <1>a, <1>b, <1>c DEF ClientInv
<1> QED
  BY <1>1, <1>2, <1>3, <1>4, <1>5, <1>6, <1>7, <1>8, <1>9, <1>10, <1>11
  DEF Next, Receiving, Applying, Writer, Reader, Server

(***************************************************************************)
(* Some of the operations of a sequence.                                   *)
(***************************************************************************)

\* Those takes the operations one by one, and keeps the ones in S.
ThoseSteps(S, ops, found) ==
    /\ found \in [0..Len(ops) -> Seq(S)]
    /\ found[0] = <<>> /\ Those(S, ops) = found[Len(ops)]
    /\ \A n \in 1..Len(ops) :
         found[n] = IF ops[n] \in S THEN Append(found[n - 1], ops[n])
                    ELSE found[n - 1]

LEMMA ThoseByStep ==
    ASSUME NEW S, NEW T, NEW ops \in Seq(T)
    PROVE  \E found : ThoseSteps(S, ops, found)
<1> DEFINE N == Len(ops)
           Add(n, s) == IF ops[n] \in S THEN Append(s, ops[n]) ELSE s
           Eq(f) == f = [n \in 0..N |->
                            IF n = 0 THEN <<>> ELSE Add(n, f[n - 1])]
           found == CHOOSE f : Eq(f)
           Result == Seq(S)
<1>1. N \in Nat
  BY LenProperties
<1>2. \A s \in Result : \A n \in 1..N : Add(n, s) \in Result
  <2> SUFFICES ASSUME NEW s \in Result, NEW n \in 1..N, ops[n] \in S
               PROVE  Append(s, ops[n]) \in Result
    OBVIOUS
  <2> QED  BY AppendProperties
<1>3. <<>> \in Result
  BY EmptySeq
<1>4. Those(S, ops) = found[N]
  BY DEF Those
<1> HIDE DEF Result
<1>5. PICK f \in [0..N -> Result] :
        f[0] = <<>> /\ \A n \in 1..N : f[n] = Add(n, f[n - 1])
  <2> HIDE DEF Add
  <2> DEFINE step == [n \in 1..N |-> [s \in Result |-> Add(n, s)]]
  <2>1. step \in [1..N -> [Result -> Result]]
    BY <1>2
  <2>2. \A n \in 1..N : \A s \in Result : step[n][s] = Add(n, s)
    OBVIOUS
  <2> HIDE DEF step
  <2>3. PICK f \in [0..N -> Result] :
            f[0] = <<>> /\ \A n \in 1..N : f[n] = step[n][f[n - 1]]
    <3>1. Lemmas!Recursive(Result, <<>>, N, step)
      <4> HIDE DEF N
      <4> QED  BY <1>1, <1>3, <2>1, Lemmas!Recursion
    <3> QED  BY <3>1 DEF Lemmas!Recursive
  <2>4. \A n \in 1..N : f[n] = Add(n, f[n - 1])
    <3>1. \A n \in 1..N : f[n - 1] \in Result
      BY <1>1, <2>3
    <3> QED  BY <2>2, <2>3, <3>1
  <2> QED  BY <2>3, <2>4
<1> HIDE DEF Add
<1>6. Eq(found)
  <2>1. Eq(f)
    BY <1>1, <1>5
  <2> HIDE DEF Eq
  <2> QED  BY <2>1
<1>7. /\ found[0] = <<>> /\ \A n \in 1..N : found[n] = Add(n, found[n - 1])
      /\ found = [n \in 0..N |-> found[n]]
  <2>1. found = [n \in 0..N |-> IF n = 0 THEN <<>> ELSE Add(n, found[n - 1])]
    BY <1>6
  <2> HIDE DEF found, N
  <2>2. found[0] = <<>> /\ found = [n \in 0..N |-> found[n]]
    BY <1>1, <2>1
  <2>3. ASSUME NEW n \in 1..N
        PROVE  found[n] = Add(n, found[n - 1])
    <3>1. n \in 0..N /\ n # 0
      BY <1>1
    <3> QED  BY <2>1, <3>1
  <2> QED  BY <2>2, <2>3
<1> HIDE DEF found, Eq
<1>8. \A n \in 0..N : found[n] = f[n]
  <2>1. Lemmas!StepAlike(found, f, N)
    BY <1>5, <1>7 DEF Lemmas!StepAlike
  <2>2. Lemmas!Alike(found, f, N)
    BY <1>1, <2>1, Lemmas!SameSteps
  <2> QED  BY <2>2 DEF Lemmas!Alike
<1>9. found \in [0..N -> Result]
  BY <1>5, <1>7, <1>8
<1> QED  BY <1>4, <1>7, <1>9 DEF ThoseSteps, Add, Result

LEMMA ThoseType ==
    ASSUME NEW S, NEW T, NEW ops \in Seq(T)
    PROVE  Those(S, ops) \in Seq(S)
<1>1. PICK found : ThoseSteps(S, ops, found)
  BY ThoseByStep
<1>2. Len(ops) \in 0..Len(ops)
  BY LenProperties
<1> QED  BY <1>1, <1>2 DEF ThoseSteps

LEMMA ThoseEmpty ==
    ASSUME NEW S
    PROVE  Those(S, <<>>) = <<>>
<1>1. <<>> \in Seq({}) /\ Len(<<>>) = 0
  BY EmptySeq
<1>2. PICK found : ThoseSteps(S, <<>>, found)
  BY <1>1, ThoseByStep
<1> QED  BY <1>1, <1>2 DEF ThoseSteps

LEMMA ThoseAppend ==
    ASSUME NEW S, NEW T, NEW ops \in Seq(T), NEW e \in T
    PROVE  Those(S, Append(ops, e))
            = IF e \in S THEN Append(Those(S, ops), e) ELSE Those(S, ops)
<1> DEFINE N == Len(ops)
           more == Append(ops, e)
<1>1. /\ N \in Nat /\ more \in Seq(T) /\ Len(more) = N + 1
      /\ more[N + 1] = e /\ \A n \in 1..N : more[n] = ops[n]
  OBVIOUS
<1>2. PICK f : ThoseSteps(S, ops, f)
  BY ThoseByStep
<1>3. PICK g : ThoseSteps(S, more, g)
  BY <1>1, ThoseByStep
<1> HIDE DEF more
<1>4. /\ Those(S, ops) = f[N] /\ f[0] = g[0]
      /\ \A n \in 1..N : f[n] = IF ops[n] \in S THEN Append(f[n - 1], ops[n])
                                ELSE f[n - 1]
  BY <1>2, <1>3 DEF ThoseSteps
<1>5. /\ Those(S, more) = g[N + 1]
      /\ \A n \in 1..N + 1 : g[n] = IF more[n] \in S THEN Append(g[n - 1], more[n])
                                    ELSE g[n - 1]
  BY <1>1, <1>3 DEF ThoseSteps
<1> HIDE DEF N
<1>6. \A n \in 1..N : f[n - 1] = g[n - 1] => f[n] = g[n]
  <2> SUFFICES ASSUME NEW n \in 1..N, f[n - 1] = g[n - 1]
               PROVE  f[n] = g[n]
    OBVIOUS
  <2>1. n \in 1..N + 1 /\ more[n] = ops[n]
    BY <1>1
  <2> QED  BY <1>4, <1>5, <2>1
<1>7. f[N] = g[N]
  <2>1. Lemmas!StepAlike(f, g, N)
    BY <1>4, <1>6 DEF Lemmas!StepAlike
  <2>2. Lemmas!Alike(f, g, N)
    BY <1>1, <2>1, Lemmas!SameSteps
  <2> QED  BY <1>1, <2>2 DEF Lemmas!Alike
<1>8. N + 1 \in 1..N + 1 /\ N + 1 - 1 = N
  BY <1>1
<1>9. g[N + 1] = IF e \in S THEN Append(g[N], e) ELSE g[N]
  BY <1>1, <1>5, <1>8
<1> QED  BY <1>4, <1>5, <1>7, <1>9 DEF more

(***************************************************************************)
(* What is on its way, in both directions.  The invariant adds whose       *)
(* operations a queue may hold, and that a delay the client runs without   *)
(* leaves its queue unused and one it runs with the reader at its place.   *)
(***************************************************************************)

Mine == Nat \ {0}
Theirs == Int \ Nat

Signs ==
    /\ local_ops \in Seq(Mine) /\ to_send \in Seq(Mine)
    /\ to_server \in Seq(Mine) /\ committed \in Seq(Mine)
    /\ in_hand["server"] \in Seq(Mine)
    /\ to_recv \in Seq(Theirs) /\ to_client \in Seq(Theirs)
    /\ in_hand["reader"] \in Seq(Theirs)

NewestMine ==
    \A t \in Editors : pc[t] = "queue" => Last(edit_file) \in Mine

Idle ==
    /\ option.send = "none" => to_send = <<>>
    /\ option.recv = "none" => to_recv = <<>>
    /\ option.recv # "none" => pc["reader"] = "read"

\* What is still to be sent of to_send, and to be applied of to_recv.
Unsent == IF \E t \in Senders : pc[t] = "sent" THEN Tail(to_send) ELSE to_send
Unapplied ==
    IF \E t \in Receivers : pc[t] = "received" THEN Tail(to_recv) ELSE to_recv

\* Four queues in a row.
Row(a, b, c, d) == a \o b \o c \o d

Outward == Own(algorithm) = Row(committed, in_hand["server"], to_server, Unsent)
Inward ==
    [n \in 1..readfd |-> -n] =
        Row(Foreign(algorithm), in_hand["reader"], Unapplied, to_client)

DeliveryInv ==
    ClientInv /\ Signs /\ NewestMine /\ Idle /\ Outward /\ Inward

LEMMA InvIsLossless == DeliveryInv => NothingLost
BY DEF DeliveryInv, Outward, Inward, Row, Unsent, Unapplied, NothingLost

LEMMA DeliveryInit == Init => DeliveryInv
<1> SUFFICES ASSUME Init PROVE DeliveryInv
  OBVIOUS
<1>1. \A t \in Threads : pc[t] \in {"read", "idle"}
  BY DEF Init, Threads, Senders, Receivers, Editors
<1>2. pc["reader"] = "read" /\ Senders \cup Receivers \subseteq Threads
  BY DEF Init, Threads
<1>3. <<>> \in Seq(Mine) /\ <<>> \in Seq(Theirs)
  BY EmptySeq
<1>4. /\ edit_file = <<>> /\ local_ops = <<>> /\ algorithm = <<>>
      /\ to_send = <<>> /\ to_recv = <<>>
      /\ in_hand["reader"] = <<>> /\ in_hand["server"] = <<>>
      /\ to_server = <<>> /\ to_client = <<>> /\ committed = <<>> /\ readfd = 0
  BY DEF Init
<1>5. Signs /\ NewestMine
  BY <1>1, <1>2, <1>3, <1>4 DEF Signs, NewestMine, Senders
<1>6. Idle
  BY <1>2, <1>4 DEF Idle
<1>7. Unsent = <<>> /\ Unapplied = <<>>
  BY <1>1, <1>2, <1>4 DEF Unsent, Unapplied
<1>8. Row(<<>>, <<>>, <<>>, <<>>) = <<>>
  BY DEF Row
<1>9. Outward
  BY <1>4, <1>7, <1>8, ThoseEmpty DEF Outward, Own
<1>10. Inward
  <2>1. [n \in 1..0 |-> -n] = <<>>
    OBVIOUS
  <2> QED  BY <1>4, <1>7, <1>8, <2>1, ThoseEmpty DEF Inward, Foreign
<1> QED  BY <1>5, <1>6, <1>9, <1>10, ClientInit DEF DeliveryInv

\* Steps of a row of queues: an operation comes in at the end, goes on to
\* the next queue, is taken up by a reader who has nothing in hand, and comes
\* to the end of its way.
LEMMA AppendAfter ==
    ASSUME NEW S, NEW a \in Seq(S), NEW c \in Seq(S), NEW e \in S
    PROVE  a \o Append(c, e) = Append(a \o c, e)
OBVIOUS

\* Append, under a name of its own: the solver goes round in circles with a
\* fact about every sequence and its extensions.
Grow(s, e) == Append(s, e)

LEMMA ComeIn ==
    ASSUME NEW S, NEW a \in Seq(S), NEW b \in Seq(S), NEW c \in Seq(S),
           NEW d \in Seq(S), NEW e \in S
    PROVE  Row(a, b, c, Grow(d, e)) = Grow(Row(a, b, c, d), e)
<1>1. PICK abc \in Seq(S) : abc = a \o b \o c
  BY ConcatProperties
<1> QED  BY <1>1, AppendAfter DEF Row, Grow

LEMMA ComeBefore ==
    ASSUME NEW S, NEW a \in Seq(S), NEW b \in Seq(S), NEW c \in Seq(S), NEW e \in S
    PROVE  Row(a, b, Grow(c, e), <<>>) = Grow(Row(a, b, c, <<>>), e)
<1>1. PICK ab \in Seq(S) : ab = a \o b
  BY ConcatProperties
<1>2. PICK abc \in Seq(S) : abc = ab \o c
  BY <1>1, ConcatProperties
<1>3. ab \o Append(c, e) = Append(abc, e)
  BY <1>1, <1>2, AppendAfter
<1>4. Append(abc, e) \o <<>> = Append(abc, e) /\ abc \o <<>> = abc
  BY <1>2, AppendProperties, ConcatEmptySeq
<1> QED  BY <1>1, <1>2, <1>3, <1>4 DEF Row, Grow

LEMMA GoOn ==
    ASSUME NEW S, NEW a \in Seq(S), NEW b \in Seq(S), NEW c \in Seq(S),
           NEW d \in Seq(S), d # <<>>
    PROVE  Row(a, b, Append(c, Head(d)), Tail(d)) = Row(a, b, c, d)
<1>1. Head(d) \in S
  BY HeadAndTail
<1>2. PICK ab \in Seq(S) : ab = a \o b
  BY ConcatProperties
<1>3. PICK abc \in Seq(S) : abc = ab \o c
  BY <1>2, ConcatProperties
<1>4. ab \o Append(c, Head(d)) = Append(abc, Head(d))
  BY <1>1, <1>2, <1>3, AppendAfter
<1>5. Append(abc, Head(d)) \o Tail(d) = abc \o d
  BY <1>3, HandOver
<1> QED  BY <1>2, <1>3, <1>4, <1>5 DEF Row

LEMMA TakeUp ==
    ASSUME NEW S, NEW a \in Seq(S), NEW c \in Seq(S), NEW d \in Seq(S), c # <<>>
    PROVE  Row(a, <<Head(c)>>, Tail(c), d) = Row(a, <<>>, c, d)
<1>1. PICK h \in S, t \in Seq(S) : h = Head(c) /\ t = Tail(c) /\ c = <<h>> \o t
  BY HeadAndTail
<1>2. a \o <<>> = a /\ <<h>> \in Seq(S)
  BY ConcatEmptySeq
<1>3. (a \o <<h>>) \o t = a \o (<<h>> \o t)
  BY <1>2, ConcatAssociative
<1> QED  BY <1>1, <1>2, <1>3 DEF Row

LEMMA TakeLast ==
    ASSUME NEW S, NEW a \in Seq(S), NEW d \in Seq(S), d # <<>>
    PROVE  Row(a, <<Head(d)>>, <<>>, Tail(d)) = Row(a, <<>>, <<>>, d)
<1>1. PICK h \in S, t \in Seq(S) : h = Head(d) /\ t = Tail(d) /\ d = <<h>> \o t
  BY HeadAndTail
<1>2. a \o <<>> = a /\ <<h>> \in Seq(S) /\ a \o <<h>> \in Seq(S)
  BY ConcatEmptySeq, ConcatProperties
<1>3. (a \o <<h>>) \o t = a \o (<<h>> \o t) /\ (a \o <<h>>) \o <<>> = a \o <<h>>
  BY <1>2, ConcatAssociative, ConcatEmptySeq
<1> QED  BY <1>1, <1>2, <1>3 DEF Row

LEMMA Arrive ==
    ASSUME NEW S, NEW a \in Seq(S), NEW b \in Seq(S), NEW c \in Seq(S),
           NEW d \in Seq(S)
    PROVE  Row(a \o b, <<>>, c, d) = Row(a, b, c, d)
<1>1. a \o b \in Seq(S)
  BY ConcatProperties
<1>2. (a \o b) \o <<>> = a \o b
  BY <1>1, ConcatEmptySeq
<1> QED  BY <1>2 DEF Row

LEMMA ArriveAtOnce ==
    ASSUME NEW S, NEW a \in Seq(S), NEW c \in Seq(S), NEW d \in Seq(S), c # <<>>
    PROVE  Row(Append(a, Head(c)), <<>>, Tail(c), d) = Row(a, <<>>, c, d)
<1>1. Append(a, Head(c)) \in Seq(S)
  BY HeadAndTail, AppendProperties
<1>2. a \o <<>> = a /\ Append(a, Head(c)) \o <<>> = Append(a, Head(c))
  BY <1>1, ConcatEmptySeq
<1> QED  BY <1>2, HandOver DEF Row

LEMMA RowType ==
    ASSUME NEW S, NEW a \in Seq(S), NEW b \in Seq(S), NEW c \in Seq(S),
           NEW d \in Seq(S)
    PROVE  Row(a, b, c, d) \in Seq(S)
BY ConcatProperties DEF Row

LEMMA TailOfAppend ==
    ASSUME NEW S, NEW s \in Seq(S), NEW e \in S, s # <<>>
    PROVE  Tail(Append(s, e)) = Append(Tail(s), e) /\ Tail(s) \in Seq(S)
OBVIOUS

\* One more operation of others in the log.
LEMMA CountOn ==
    ASSUME NEW r \in Nat
    PROVE  [n \in 1..r + 1 |-> -n] = Append([n \in 1..r |-> -n], -(r + 1))
<1> DEFINE s == [n \in 1..r |-> -n]
           t == [n \in 1..r + 1 |-> -n]
<1>1. s \in Seq(Int) /\ t \in Seq(Int) /\ Len(s) = r /\ Len(t) = r + 1
  OBVIOUS
<1>2. /\ Append(s, -(r + 1)) \in Seq(Int) /\ Len(Append(s, -(r + 1))) = r + 1
      /\ Append(s, -(r + 1))[r + 1] = -(r + 1)
      /\ \A n \in 1..r : Append(s, -(r + 1))[n] = s[n]
  BY <1>1, AppendProperties
<1>3. \A n \in 1..r + 1 : Append(s, -(r + 1))[n] = t[n]
  BY <1>2
<1> QED  BY <1>1, <1>2, <1>3, SeqEqual

\* What every step may rely on.
LEMMA Names ==
    /\ Editors \subseteq Senders /\ Editors \subseteq Receivers
    /\ Senders \subseteq Threads /\ Receivers \subseteq Threads
    /\ Threads \subseteq Processes /\ "server" \in Processes
    /\ "writer" \in Threads /\ "reader" \in Threads
    /\ "writer" \notin Senders \cup Receivers
    /\ "reader" \notin Senders \cup Receivers
    /\ "server" \notin Threads
BY DEF Processes, Threads, Senders, Receivers, Editors

LEMMA GoesAlone ==
    ASSUME Shape, NEW p \in Processes, NEW from, NEW to, Goes(p, from, to)
    PROVE  /\ pc[p] = from /\ pc'[p] = to
           /\ \A q \in Processes \ {p} : pc'[q] = pc[q]
BY DEF Shape, Placed, Goes

\* While one thread takes from to_send, or from to_recv, no other does.
LEMMA SendsAlone ==
    ASSUME Mutual, NEW t \in Threads, pc[t] \in {"sending", "sent"}
    PROVE  \A q \in Threads \ {t} : pc[q] # "sent"
<1>1. owner["send_mtx"] = t
  BY Held, HoldingPlaces DEF Without
<1>2. ASSUME NEW q \in Threads, pc[q] = "sent" PROVE q = t
  BY <1>1, <1>2, Held, HoldingPlaces DEF Without
<1> QED  BY <1>2

LEMMA ReceivesAlone ==
    ASSUME Mutual, NEW t \in Receivers,
           pc[t] \in {"receiving", "spin", "apply", "received"}
    PROVE  \A q \in Receivers \ {t} : pc[q] # "received"
<1>1. \A q \in Receivers : q \in Threads /\ q # "reader"
  BY Names
<1>2. owner["recv_mtx"] = t
  BY <1>1, Held, HoldingPlaces DEF Without
<1>3. ASSUME NEW q \in Receivers, pc[q] = "received" PROVE q = t
  BY <1>1, <1>2, <1>3, Held, HoldingPlaces DEF Without
<1> QED  BY <1>3

\* Whose operations the queues hold.
LEMMA SignsKept == DeliveryInv /\ [Next]_vars => Signs'
<1> SUFFICES ASSUME DeliveryInv, [Next]_vars PROVE Signs'
  OBVIOUS
<1> USE Names
<1>a. /\ local_ops \in Seq(Mine) /\ to_send \in Seq(Mine)
      /\ to_server \in Seq(Mine) /\ committed \in Seq(Mine)
      /\ in_hand["server"] \in Seq(Mine)
      /\ to_recv \in Seq(Theirs) /\ to_client \in Seq(Theirs)
      /\ in_hand["reader"] \in Seq(Theirs)
  BY DEF DeliveryInv, Signs
<1>b. DOMAIN in_hand = {"reader", "server"}
  BY DEF DeliveryInv, ClientInv, Sequential, Queues
<1>c. /\ readfd \in Nat /\ Shape /\ NewestMine
      /\ pc["writer"] # "idle" => local_ops # <<>>
  BY MaxOthersAssumption DEF DeliveryInv, ClientInv, Bounds, Shape, InOrder
<1>d. <<>> \in Seq(Mine) /\ <<>> \in Seq(Theirs)
  BY EmptySeq
<1>1. ASSUME NEW t \in Editors, QueueEdit(t) PROVE Signs'
  <2>1. Last(edit_file) \in Mine
    BY <1>1, <1>c DEF QueueEdit, Goes, NewestMine
  <2>2. local_ops' \in Seq(Mine)
    BY <1>1, <1>a, <2>1, AppendProperties DEF QueueEdit
  <2> QED  BY <1>1, <1>a, <2>2 DEF QueueEdit, Signs, queueVars, netVars, logVars
<1>2. ASSUME Generate PROVE Signs'
  <2>1. Head(local_ops) \in Mine
    BY <1>2, <1>a, <1>c, HeadTailProperties DEF Generate, Goes
  <2>2. /\ Append(to_server, Head(local_ops)) \in Seq(Mine)
        /\ Append(to_send, Head(local_ops)) \in Seq(Mine)
    BY <1>a, <2>1, AppendProperties
  <2>3. to_server' \in Seq(Mine) /\ to_send' \in Seq(Mine)
    BY <1>2, <1>a, <2>2 DEF Generate
  <2> QED  BY <1>2, <1>a, <2>3 DEF Generate, Signs, logVars
<1>3. ASSUME PopLocal PROVE Signs'
  <2>1. local_ops' \in Seq(Mine)
    BY <1>3, <1>a, <1>c, HeadTailProperties DEF PopLocal, Goes
  <2> QED  BY <1>3, <1>a, <2>1 DEF PopLocal, Signs, queueVars, netVars, logVars
<1>4. ASSUME NEW t \in Senders, SendFront(t) PROVE Signs'
  <2>1. to_server' \in Seq(Mine)
    BY <1>4, <1>a, HeadTailProperties, AppendProperties DEF SendFront
  <2> QED  BY <1>4, <1>a, <2>1 DEF SendFront, Signs, dataVars, queueVars, logVars
<1>5. ASSUME NEW t \in Senders, PopSent(t) PROVE Signs'
  <2>1. to_send # <<>>
    BY <1>5, <1>c DEF PopSent, Goes, Shape
  <2>2. to_send' \in Seq(Mine)
    BY <1>5, <1>a, <2>1, HeadTailProperties DEF PopSent
  <2> QED  BY <1>5, <1>a, <2>2 DEF PopSent, Signs, dataVars, netVars, logVars
<1>6. ASSUME NEW t \in Receivers, PopRecv(t) PROVE Signs'
  <2>1. to_recv # <<>>
    BY <1>6, <1>c DEF PopRecv, Goes, Shape
  <2>2. to_recv' \in Seq(Theirs)
    BY <1>6, <1>a, <2>1, HeadTailProperties DEF PopRecv
  <2> QED  BY <1>6, <1>a, <2>2 DEF PopRecv, Signs, dataVars, netVars, logVars
<1>7. ASSUME ReadMessage PROVE Signs'
  <2>1. Head(to_client) \in Theirs /\ Tail(to_client) \in Seq(Theirs)
    BY <1>7, <1>a, HeadTailProperties DEF ReadMessage
  <2>2. /\ <<Head(to_client)>> \in Seq(Theirs)
        /\ Append(to_recv, Head(to_client)) \in Seq(Theirs)
    BY <1>a, <2>1, AppendProperties
  <2>3. /\ to_recv' \in Seq(Theirs) /\ in_hand'["reader"] \in Seq(Theirs)
        /\ in_hand'["server"] = in_hand["server"]
    BY <1>7, <1>a, <1>b, <2>2 DEF ReadMessage
  <2> QED  BY <1>7, <1>a, <2>1, <2>3 DEF ReadMessage, Signs, dataVars, logVars
<1>8. ASSUME NEW t \in Receivers \cup {"reader"}, FromNet(t) PROVE Signs'
  <2>1. in_hand'["reader"] \in Seq(Theirs) /\ in_hand'["server"] = in_hand["server"]
    BY <1>8, <1>a, <1>b, <1>d DEF FromNet
  <2> QED  BY <1>8, <1>a, <2>1 DEF FromNet, Signs, netVars, logVars
<1>9. ASSUME LocalProcess PROVE Signs'
  <2>1. -readfd' \in Theirs
    BY <1>9, <1>c DEF LocalProcess, Theirs
  <2>2. to_client' \in Seq(Theirs)
    BY <1>9, <1>a, <2>1, AppendProperties DEF LocalProcess
  <2> QED  BY <1>9, <1>a, <2>2 DEF LocalProcess, Signs, dataVars, queueVars
<1>10. ASSUME RemoteProcess PROVE Signs'
  <2>1. Head(to_server) \in Mine /\ Tail(to_server) \in Seq(Mine)
    BY <1>10, <1>a, HeadTailProperties DEF RemoteProcess
  <2>2. in_hand'["server"] \in Seq(Mine) /\ in_hand'["reader"] = in_hand["reader"]
    BY <1>10, <1>b, <2>1 DEF RemoteProcess
  <2> QED  BY <1>10, <1>a, <2>1, <2>2 DEF RemoteProcess, Signs, dataVars, logVars
<1>11. ASSUME Commit PROVE Signs'
  <2>1. in_hand'["server"] = <<>> /\ in_hand'["reader"] = in_hand["reader"]
    BY <1>11, <1>b DEF Commit
  <2>2. committed' \in Seq(Mine)
    BY <1>11, <1>a, ConcatProperties DEF Commit
  <2> QED  BY <1>11, <1>a, <1>d, <2>1, <2>2 DEF Commit, Signs, dataVars
<1>12. ASSUME UNCHANGED <<local_ops, queueVars, to_server, to_client, committed>>
       PROVE  Signs'
  BY <1>12, <1>a DEF Signs, queueVars
<1>13. ASSUME NEW t \in Threads,
              \/ ChangeText(t) \/ Synchronize(t) \/ BeginSend(t) \/ EndSend(t)
              \/ BeginRecv(t) \/ RecvFront(t) \/ EndRecv(t) \/ EndSpin(t)
       PROVE  Signs'
  BY <1>12, <1>13 DEF ChangeText, Synchronize, BeginSend, EndSend, BeginRecv,
     RecvFront, EndRecv, EndSpin, dataVars, netVars, logVars
<1>14. ASSUME Timers \/ Consume \/ EnterGenerate \/ LockForMessage PROVE Signs'
  BY <1>12, <1>14 DEF Timers, Expire, Consume, EnterGenerate, LockForMessage,
     dataVars, netVars, logVars
<1>15. ASSUME GetFileLock \/ OthersCommit \/ UNCHANGED vars PROVE Signs'
  BY <1>12, <1>15 DEF GetFileLock, OthersCommit, vars, dataVars, netVars, logVars
<1> QED
  BY <1>1, <1>2, <1>3, <1>4, <1>5, <1>6, <1>7, <1>8, <1>9, <1>10, <1>11,
     <1>13, <1>14, <1>15
  DEF Next, Editing, Sending, Receiving, Applying, Writer, Reader, Server

\* The edit that is not queued yet.
LEMMA NewestKept == DeliveryInv /\ [Next]_vars => NewestMine'
<1> SUFFICES ASSUME DeliveryInv, [Next]_vars PROVE NewestMine'
  OBVIOUS
<1> USE Names
<1>a. Shape /\ Mutual /\ NewestMine
  BY DEF DeliveryInv, ClientInv
<1>0. ASSUME NEW p \in Processes, NEW from, NEW to, Goes(p, from, to),
             to # "queue", UNCHANGED edit_file
      PROVE  NewestMine'
  <2>1. \A q \in Editors : pc'[q] = "queue" => pc[q] = "queue"
    BY <1>0, <1>a, GoesAlone
  <2> QED  BY <1>0, <1>a, <2>1 DEF NewestMine
<1>1. ASSUME NEW t \in Editors, ChangeText(t) PROVE NewestMine'
  <2>1. PICK Op : Queues(Op)
    BY DEF DeliveryInv, ClientInv, Sequential
  <2>2. Own(edit_file) \in Seq(Mine)
    BY <2>1, ThoseType DEF Queues, Own, Mine
  <2>3. PICK e \in Mine : e = Len(Own(edit_file)) + 1
    BY <2>2, LenProperties DEF Mine
  <2>4. PICK All : All = Op \cup {e}
    OBVIOUS
  <2>5. edit_file \in Seq(All) /\ e \in All
    BY <2>1, <2>4 DEF Queues
  <2>6. edit_file' = Append(edit_file, e)
    BY <1>1, <2>3 DEF ChangeText
  <2>7. Last(edit_file') = e
    BY <2>5, <2>6, AppendProperties DEF Last
  <2> QED  BY <2>3, <2>7 DEF NewestMine
<1>2. ASSUME NEW t \in Receivers \cup {"reader"}, FromNet(t) PROVE NewestMine'
  <2>1. pc[t] = "apply" /\ \E to \in {"read", "received"} : pc'[t] = to
    BY <1>2, <1>a, GoesAlone DEF FromNet
  <2>2. \A q \in Threads \ {t} : pc'[q] = pc[q]
    BY <1>2, <1>a, GoesAlone DEF FromNet
  <2>3. \A q \in Threads \ {t} : pc[q] # "queue"
    BY <2>1, <1>a, Alone, HoldingPlaces
  <2> QED  BY <2>1, <2>2, <2>3 DEF NewestMine
<1>3. ASSUME NEW t \in Threads,
             \/ QueueEdit(t) \/ Synchronize(t) \/ Sending(t) \/ BeginRecv(t)
             \/ RecvFront(t) \/ PopRecv(t) \/ EndRecv(t) \/ EndSpin(t)
      PROVE  NewestMine'
  <2>1. PICK from, to : Goes(t, from, to) /\ to # "queue"
    BY <1>3 DEF QueueEdit, Synchronize, Sending, BeginSend, SendFront, PopSent,
       EndSend, BeginRecv, RecvFront, PopRecv, EndRecv, EndSpin
  <2>2. UNCHANGED edit_file
    BY <1>3 DEF QueueEdit, Synchronize, Sending, BeginSend, SendFront, PopSent,
       EndSend, BeginRecv, RecvFront, PopRecv, EndRecv, EndSpin, dataVars
  <2> QED  BY <1>0, <2>1, <2>2
<1>4. ASSUME Timers PROVE NewestMine'
  <2>1. PICK t \in Threads, way \in {"send", "recv"} : Expire(t, way)
    BY <1>4 DEF Timers, Senders, Receivers
  <2> QED  BY <1>0, <2>1 DEF Expire, dataVars
<1>5. ASSUME Writer PROVE NewestMine'
  <2>1. PICK from, to \in {"consume", "generate", "pop", "idle"} :
            Goes("writer", from, to)
    BY <1>5 DEF Writer, Consume, EnterGenerate, Generate, PopLocal
  <2>2. UNCHANGED edit_file
    BY <1>5 DEF Writer, Consume, EnterGenerate, Generate, PopLocal, dataVars
  <2> QED  BY <1>0, <2>1, <2>2
<1>6. ASSUME ReadMessage \/ LockForMessage PROVE NewestMine'
  <2>1. PICK from, to \in {"lock", "read", "spin"} : Goes("reader", from, to)
    BY <1>6 DEF ReadMessage, LockForMessage
  <2> QED  BY <1>0, <1>6, <2>1 DEF ReadMessage, LockForMessage, dataVars
<1>7. ASSUME RemoteProcess \/ GetFileLock \/ Commit PROVE NewestMine'
  <2>1. PICK from, to \in {"remote", "commit", "poll"} : Goes("server", from, to)
    BY <1>7 DEF RemoteProcess, GetFileLock, Commit
  <2> QED  BY <1>0, <1>7, <2>1 DEF RemoteProcess, GetFileLock, Commit, dataVars
<1>8. ASSUME LocalProcess \/ OthersCommit \/ UNCHANGED vars PROVE NewestMine'
  BY <1>8, <1>a DEF LocalProcess, OthersCommit, vars, dataVars, NewestMine
<1> QED
  BY <1>1, <1>2, <1>3, <1>4, <1>5, <1>6, <1>7, <1>8
  DEF Next, Editing, Receiving, Applying, Reader, Server

\* The delays.
LEMMA IdleKept == DeliveryInv /\ [Next]_vars => Idle'
<1> SUFFICES ASSUME DeliveryInv, [Next]_vars PROVE Idle'
  OBVIOUS
<1> USE Names
<1>a. Shape /\ Idle
  BY DEF DeliveryInv, ClientInv
<1>0. ASSUME UNCHANGED <<option, to_send, to_recv>>,
             option.recv # "none" => pc'["reader"] = pc["reader"]
      PROVE  Idle'
  BY <1>0, <1>a DEF Idle
<1>b. ASSUME NEW p \in Processes \ {"reader"}, NEW from, NEW to, Goes(p, from, to)
      PROVE  pc'["reader"] = pc["reader"]
  BY <1>b, <1>a, GoesAlone
<1>1. ASSUME NEW t \in Senders, PopSent(t) PROVE Idle'
  <2>1. option.send # "none"
    BY <1>1, <1>a DEF PopSent, Goes, Shape, Idle
  <2> QED  BY <1>1, <1>a, <1>b, <2>1 DEF PopSent, Idle
<1>2. ASSUME NEW t \in Receivers, PopRecv(t) PROVE Idle'
  <2>1. option.recv # "none"
    BY <1>2, <1>a DEF PopRecv, Goes, Shape, Idle
  <2> QED  BY <1>2, <1>a, <1>b, <2>1 DEF PopRecv, Idle
<1>3. ASSUME Generate PROVE Idle'
  BY <1>3, <1>a, <1>b DEF Generate, Idle
<1>4. ASSUME ReadMessage PROVE Idle'
  <2>1. CASE option.recv = "none"
    BY <1>4, <1>a, <2>1 DEF ReadMessage, Idle
  <2>2. CASE option.recv # "none"
    <3>1. Goes("reader", "read", "read")
      BY <1>4, <2>2 DEF ReadMessage
    <3>2. pc'["reader"] = "read"
      BY <1>a, <3>1, GoesAlone
    <3> QED  BY <1>4, <1>a, <2>2, <3>2 DEF ReadMessage, Idle
  <2> QED  BY <2>1, <2>2
<1>5. ASSUME LockForMessage \/ EndSpin("reader") \/ FromNet("reader") PROVE Idle'
  <2>1. pc["reader"] # "read"
    BY <1>5 DEF LockForMessage, EndSpin, FromNet, Goes
  <2> QED
    BY <1>0, <1>5, <1>a, <2>1 DEF LockForMessage, EndSpin, FromNet, Idle, queueVars
<1>6. ASSUME NEW t \in Threads \ {"reader"},
             \/ Editing(t) \/ Synchronize(t) \/ BeginSend(t) \/ SendFront(t)
             \/ EndSend(t) \/ BeginRecv(t) \/ RecvFront(t) \/ EndRecv(t)
             \/ Applying(t)
      PROVE  Idle'
  <2>1. PICK from, to : Goes(t, from, to)
    BY <1>6 DEF Editing, ChangeText, QueueEdit, Synchronize, BeginSend, SendFront,
       EndSend, BeginRecv, RecvFront, EndRecv, Applying, EndSpin, FromNet
  <2>2. UNCHANGED <<option, to_send, to_recv>>
    BY <1>6 DEF Editing, ChangeText, QueueEdit, Synchronize, BeginSend, SendFront,
       EndSend, BeginRecv, RecvFront, EndRecv, Applying, EndSpin, FromNet, queueVars
  <2> QED  BY <1>0, <1>b, <2>1, <2>2
<1>7. ASSUME Timers PROVE Idle'
  <2>1. PICK t \in Threads \ {"reader"}, way \in {"send", "recv"} : Expire(t, way)
    BY <1>7 DEF Timers, Senders, Receivers
  <2> QED  BY <1>0, <1>b, <2>1 DEF Expire, queueVars
<1>8. ASSUME Consume \/ EnterGenerate \/ PopLocal PROVE Idle'
  <2>1. PICK from, to : Goes("writer", from, to)
    BY <1>8 DEF Consume, EnterGenerate, PopLocal
  <2>2. UNCHANGED <<option, to_send, to_recv>>
    BY <1>8 DEF Consume, EnterGenerate, PopLocal, queueVars
  <2> QED  BY <1>0, <1>b, <2>1, <2>2
<1>9. ASSUME RemoteProcess \/ GetFileLock \/ Commit PROVE Idle'
  <2>1. PICK from, to : Goes("server", from, to)
    BY <1>9 DEF RemoteProcess, GetFileLock, Commit
  <2>2. UNCHANGED <<option, to_send, to_recv>>
    BY <1>9 DEF RemoteProcess, GetFileLock, Commit, queueVars
  <2> QED  BY <1>0, <1>b, <2>1, <2>2
<1>10. ASSUME LocalProcess \/ OthersCommit \/ UNCHANGED vars PROVE Idle'
  BY <1>0, <1>10 DEF LocalProcess, OthersCommit, vars, queueVars
<1> QED
  BY <1>1, <1>2, <1>3, <1>4, <1>5, <1>6, <1>7, <1>8, <1>9, <1>10
  DEF Next, Sending, Receiving, Applying, Writer, Reader, Server

\* What Outward and Inward are made of, and what keeps them.
LEMMA OutwardStays ==
    ASSUME DeliveryInv, UNCHANGED <<algorithm, committed, to_server, to_send>>,
           in_hand'["server"] = in_hand["server"],
           \A t \in Senders : pc'[t] = "sent" <=> pc[t] = "sent"
    PROVE  Outward'
<1>1. Unsent' = Unsent
  BY DEF Unsent
<1> QED  BY <1>1 DEF DeliveryInv, Outward

LEMMA InwardStays ==
    ASSUME DeliveryInv, UNCHANGED <<algorithm, readfd, to_client, to_recv>>,
           in_hand'["reader"] = in_hand["reader"],
           \A t \in Receivers : pc'[t] = "received" <=> pc[t] = "received"
    PROVE  Inward'
<1>1. Unapplied' = Unapplied
  BY DEF Unapplied
<1> QED  BY <1>1 DEF DeliveryInv, Inward

\* What the algorithm is given is somebody's: an edit of this user, which
\* is none of the operations of others, or the other way round.
LEMMA OneMoreMine ==
    ASSUME DeliveryInv, NEW e \in Mine, algorithm' = Append(algorithm, e)
    PROVE  /\ Own(algorithm') = Append(Own(algorithm), e)
           /\ Foreign(algorithm') = Foreign(algorithm)
<1>1. PICK Op : Queues(Op)
  BY DEF DeliveryInv, ClientInv, Sequential
<1>2. PICK All : All = Op \cup {e}
  OBVIOUS
<1>3. algorithm \in Seq(All) /\ e \in All
  BY <1>1, <1>2 DEF Queues
<1>4. e \in Nat \ {0} /\ e \notin Int \ Nat
  BY DEF Mine
<1> QED  BY <1>3, <1>4, ThoseAppend DEF Own, Foreign

LEMMA OneMoreTheirs ==
    ASSUME DeliveryInv, NEW e \in Theirs, algorithm' = Append(algorithm, e)
    PROVE  /\ Own(algorithm') = Own(algorithm)
           /\ Foreign(algorithm') = Append(Foreign(algorithm), e)
<1>1. PICK Op : Queues(Op)
  BY DEF DeliveryInv, ClientInv, Sequential
<1>2. PICK All : All = Op \cup {e}
  OBVIOUS
<1>3. algorithm \in Seq(All) /\ e \in All
  BY <1>1, <1>2 DEF Queues
<1>4. e \notin Nat \ {0} /\ e \in Int \ Nat
  BY DEF Theirs
<1> QED  BY <1>3, <1>4, ThoseAppend DEF Own, Foreign

LEMMA AddsOne ==
    ASSUME DeliveryInv, NEW e \in Theirs
    PROVE  algorithm \o <<e>> = Append(algorithm, e)
<1>1. PICK Op : Queues(Op)
  BY DEF DeliveryInv, ClientInv, Sequential
<1>2. PICK All : All = Op \cup {e}
  OBVIOUS
<1>3. algorithm \in Seq(All) /\ e \in All
  BY <1>1, <1>2 DEF Queues
<1> QED  BY <1>3, AppendIsConcat

\* What is on its way is a sequence of operations of the right sign.
LEMMA OnTheWay ==
    ASSUME DeliveryInv
    PROVE  /\ committed \in Seq(Mine) /\ in_hand["server"] \in Seq(Mine)
           /\ to_server \in Seq(Mine) /\ Unsent \in Seq(Mine)
           /\ Foreign(algorithm) \in Seq(Theirs) /\ in_hand["reader"] \in Seq(Theirs)
           /\ Unapplied \in Seq(Theirs) /\ to_client \in Seq(Theirs)
           /\ to_send \in Seq(Mine) /\ to_recv \in Seq(Theirs)
<1> USE Names
<1>1. /\ \A t \in Threads : pc[t] = "sent" => to_send # <<>>
      /\ \A t \in Receivers : pc[t] = "received" => to_recv # <<>>
  BY DEF DeliveryInv, ClientInv, Shape
<1>2. to_send \in Seq(Mine) /\ to_recv \in Seq(Theirs)
  BY DEF DeliveryInv, Signs
<1>3. Unsent \in Seq(Mine) /\ Unapplied \in Seq(Theirs)
  BY <1>1, <1>2, HeadTailProperties DEF Unsent, Unapplied
<1>4. Foreign(algorithm) \in Seq(Theirs)
  <2>1. PICK Op : Queues(Op)
    BY DEF DeliveryInv, ClientInv, Sequential
  <2> QED  BY <2>1, ThoseType DEF Queues, Foreign, Theirs
<1> QED  BY <1>2, <1>3, <1>4 DEF DeliveryInv, Signs

\* Generate: the edit the writer is busy with is the last one on its way.
LEMMA GenerateDelivers ==
    ASSUME DeliveryInv, Generate
    PROVE  Outward' /\ Inward'
<1> USE Names
<1> PICK e : e = Head(local_ops)
  OBVIOUS
<1>a. Shape /\ Idle /\ Outward
  BY DEF DeliveryInv, ClientInv
<1>1. /\ pc["writer"] = "generate" /\ \A q \in Threads \ {"writer"} : pc'[q] = pc[q]
      /\ algorithm' = Append(algorithm, e)
      /\ UNCHANGED <<to_recv, in_hand, to_client, committed, readfd>>
  BY <1>a, GoesAlone DEF Generate, logVars
<1>2. e \in Mine
  <2>1. local_ops # <<>> /\ local_ops \in Seq(Mine)
    BY <1>1 DEF DeliveryInv, ClientInv, InOrder, Signs
  <2> QED  BY <2>1, HeadTailProperties
<1>3. /\ Own(algorithm') = Append(Own(algorithm), e)
      /\ Foreign(algorithm') = Foreign(algorithm)
  BY <1>1, <1>2, OneMoreMine
<1>4. Inward'
  <2>1. Unapplied' = Unapplied
    BY <1>1 DEF Unapplied
  <2> QED  BY <1>1, <1>3, <2>1 DEF DeliveryInv, Inward
<1>5. /\ committed \in Seq(Mine) /\ in_hand["server"] \in Seq(Mine)
      /\ to_server \in Seq(Mine) /\ Unsent \in Seq(Mine) /\ to_send \in Seq(Mine)
  BY OnTheWay
<1>6. CASE option.send = "none"
  <2>1. to_send = <<>> /\ to_send' = <<>> /\ to_server' = Append(to_server, e)
    BY <1>6, <1>a DEF Generate, Idle
  <2>2. \A q \in Senders : pc[q] # "sent" /\ pc'[q] # "sent"
    BY <1>1, <1>a, <2>1 DEF Shape
  <2>3. Unsent = <<>> /\ Unsent' = <<>>
    BY <2>1, <2>2 DEF Unsent
  <2>4. Row(committed, in_hand["server"], Grow(to_server, e), <<>>)
            = Grow(Row(committed, in_hand["server"], to_server, <<>>), e)
    BY <1>2, <1>5, ComeBefore
  <2> QED  BY <1>1, <1>3, <1>4, <1>a, <2>1, <2>3, <2>4 DEF Outward, Grow
<1>7. CASE option.send # "none"
  <2>1. UNCHANGED to_server /\ to_send' = Append(to_send, e)
    BY <1>7 DEF Generate
  <2>2. \A q \in Senders : /\ pc'[q] = "sent" <=> pc[q] = "sent"
                           /\ pc[q] = "sent" => to_send # <<>>
    BY <1>1, <1>a DEF Shape
  <2>3. Unsent' = Append(Unsent, e)
    BY <1>2, <1>5, <2>1, <2>2, TailOfAppend DEF Unsent
  <2>4. Row(committed, in_hand["server"], to_server, Grow(Unsent, e))
            = Grow(Row(committed, in_hand["server"], to_server, Unsent), e)
    BY <1>2, <1>5, ComeIn
  <2> QED  BY <1>1, <1>3, <1>4, <1>a, <2>1, <2>3, <2>4 DEF Outward, Grow
<1> QED  BY <1>6, <1>7

\* SendFront and PopSent: a message is in the connection before it is out
\* of to_send.
LEMMA SendDelivers ==
    ASSUME DeliveryInv, NEW t \in Senders, SendFront(t)
    PROVE  Outward' /\ Inward'
<1> USE Names
<1>a. Shape /\ Mutual /\ Outward
  BY DEF DeliveryInv, ClientInv
<1>1. /\ pc[t] = "sending" /\ pc'[t] = "sent"
      /\ \A q \in Processes \ {t} : pc'[q] = pc[q]
      /\ to_send # <<>> /\ to_server' = Append(to_server, Head(to_send))
      /\ UNCHANGED <<algorithm, to_send, to_recv, in_hand, to_client, committed, readfd>>
  BY <1>a, GoesAlone DEF SendFront, dataVars, queueVars, logVars
<1>2. Inward'
  <2>1. \A q \in Receivers : pc'[q] = "received" <=> pc[q] = "received"
    BY <1>1
  <2> QED  BY <1>1, <2>1, InwardStays
<1>3. Unsent = to_send /\ Unsent' = Tail(to_send)
  <2>1. \A q \in Senders : pc[q] # "sent"
    BY <1>1, <1>a, SendsAlone
  <2> QED  BY <1>1, <2>1 DEF Unsent
<1>4. Row(committed, in_hand["server"], Append(to_server, Head(to_send)), Tail(to_send))
        = Row(committed, in_hand["server"], to_server, to_send)
  BY <1>1, OnTheWay, GoOn
<1> QED  BY <1>1, <1>2, <1>3, <1>4, <1>a DEF Outward

LEMMA PopSentDelivers ==
    ASSUME DeliveryInv, NEW t \in Senders, PopSent(t)
    PROVE  Outward' /\ Inward'
<1> USE Names
<1>a. Shape /\ Mutual /\ Outward
  BY DEF DeliveryInv, ClientInv
<1>1. /\ pc[t] = "sent" /\ pc'[t] = "sending"
      /\ \A q \in Processes \ {t} : pc'[q] = pc[q]
      /\ to_send' = Tail(to_send)
      /\ UNCHANGED <<algorithm, to_recv, in_hand, to_server, to_client, committed, readfd>>
  BY <1>a, GoesAlone DEF PopSent, dataVars, netVars, logVars
<1>2. Inward'
  <2>1. \A q \in Receivers : pc'[q] = "received" <=> pc[q] = "received"
    BY <1>1
  <2> QED  BY <1>1, <2>1, InwardStays
<1>3. Unsent' = Unsent
  <2>1. \A q \in Senders : pc'[q] # "sent"
    BY <1>1, <1>a, SendsAlone
  <2> QED  BY <1>1, <2>1 DEF Unsent
<1> QED  BY <1>1, <1>2, <1>3, <1>a DEF Outward

\* PopRecv: a message is in the text before it is out of to_recv.
LEMMA PopRecvDelivers ==
    ASSUME DeliveryInv, NEW t \in Receivers, PopRecv(t)
    PROVE  Outward' /\ Inward'
<1> USE Names
<1>a. Shape /\ Mutual /\ Inward
  BY DEF DeliveryInv, ClientInv
<1>1. /\ pc[t] = "received" /\ pc'[t] = "receiving"
      /\ \A q \in Processes \ {t} : pc'[q] = pc[q]
      /\ to_recv' = Tail(to_recv)
      /\ UNCHANGED <<algorithm, to_send, in_hand, to_server, to_client, committed, readfd>>
  BY <1>a, GoesAlone DEF PopRecv, dataVars, netVars, logVars
<1>2. Outward'
  <2>1. \A q \in Senders : pc'[q] = "sent" <=> pc[q] = "sent"
    BY <1>1
  <2> QED  BY <1>1, <2>1, OutwardStays
<1>3. Unapplied' = Unapplied
  <2>1. \A q \in Receivers : pc'[q] # "received"
    BY <1>1, <1>a, ReceivesAlone
  <2> QED  BY <1>1, <2>1 DEF Unapplied
<1> QED  BY <1>1, <1>2, <1>3, <1>a DEF Inward

\* FromNet: what is applied is the oldest operation of others on its way.
LEMMA FromNetDelivers ==
    ASSUME DeliveryInv, NEW t \in Receivers \cup {"reader"}, FromNet(t)
    PROVE  Outward' /\ Inward'
<1> USE Names
<1>a. Shape /\ Mutual /\ Idle /\ Bounds /\ Outward /\ Inward
  BY DEF DeliveryInv, ClientInv
<1>b. DOMAIN in_hand = {"reader", "server"}
  BY DEF DeliveryInv, ClientInv, Sequential, Queues
<1>1. PICK to \in {"read", "received"} :
        /\ pc[t] = "apply" /\ pc'[t] = to /\ to = IF t = "reader" THEN "read" ELSE "received"
        /\ \A q \in Processes \ {t} : pc'[q] = pc[q]
  BY <1>a, GoesAlone DEF FromNet
<1>2. UNCHANGED <<to_send, to_recv, to_server, to_client, committed, readfd>>
  BY DEF FromNet, netVars, logVars
<1>3. Unsent' = Unsent
  <2>1. \A q \in Senders : pc'[q] = "sent" <=> pc[q] = "sent"
    BY <1>1
  <2> QED  BY <1>2, <2>1 DEF Unsent
<1>4. CASE t = "reader"
  <2>1. PICK e : in_hand["reader"] = <<e>> /\ e \in Theirs
    <3>1. Len(in_hand["reader"]) = 1 /\ in_hand["reader"] \in Seq(Theirs)
      BY <1>1, <1>4, <1>a, OnTheWay DEF Bounds
    <3>2. in_hand["reader"] = <<in_hand["reader"][1]>> /\ in_hand["reader"][1] \in Theirs
      BY <3>1
    <3> QED  BY <3>2
  <2>2. algorithm' = algorithm \o <<e>> /\ in_hand'["reader"] = <<>>
        /\ in_hand'["server"] = in_hand["server"]
    BY <1>4, <1>b, <2>1 DEF FromNet
  <2>3. algorithm' = Append(algorithm, e)
    BY <2>1, <2>2, AddsOne
  <2>4. /\ Own(algorithm') = Own(algorithm)
        /\ Foreign(algorithm') = Append(Foreign(algorithm), e)
    BY <2>1, <2>3, OneMoreTheirs
  <2>5. Unapplied' = Unapplied
    BY <1>1, <1>2, <1>4 DEF Unapplied
  <2>6. Foreign(algorithm') = Foreign(algorithm) \o in_hand["reader"]
    BY <2>1, <2>4, OnTheWay, AppendIsConcat
  <2>7. Row(Foreign(algorithm) \o in_hand["reader"], <<>>, Unapplied, to_client)
            = Row(Foreign(algorithm), in_hand["reader"], Unapplied, to_client)
    BY OnTheWay, Arrive
  <2>8. Inward'
    BY <1>2, <1>a, <2>2, <2>5, <2>6, <2>7 DEF Inward
  <2>9. Outward'
    BY <1>2, <1>3, <1>a, <2>2, <2>4 DEF Outward
  <2> QED  BY <2>8, <2>9
<1>5. CASE t # "reader"
  <2>1. to_recv # <<>> /\ t \in Receivers
    BY <1>1, <1>5, <1>a DEF Shape
  <2>2. in_hand["reader"] = <<>>
    <3>1. pc["reader"] = "read"
      BY <1>a, <2>1 DEF Idle
    <3>2. Len(in_hand["reader"]) = 0 /\ in_hand["reader"] \in Seq(Theirs)
      BY <1>a, <3>1, OnTheWay DEF Bounds
    <3> QED  BY <3>2
  <2>3. UNCHANGED in_hand /\ algorithm' = algorithm \o <<Head(to_recv)>>
    BY <1>5 DEF FromNet
  <2>4. Head(to_recv) \in Theirs /\ to_recv \in Seq(Theirs)
    BY <2>1, OnTheWay, HeadTailProperties
  <2>5. algorithm' = Append(algorithm, Head(to_recv))
    BY <2>3, <2>4, AddsOne
  <2>6. /\ Own(algorithm') = Own(algorithm)
        /\ Foreign(algorithm') = Append(Foreign(algorithm), Head(to_recv))
    BY <2>4, <2>5, OneMoreTheirs
  <2>7. Unapplied = to_recv /\ Unapplied' = Tail(to_recv)
    <3>1. \A q \in Receivers : pc[q] # "received"
      BY <1>1, <1>a, <2>1, ReceivesAlone
    <3>2. pc'[t] = "received"
      BY <1>1, <1>5
    <3> QED  BY <1>2, <2>1, <3>1, <3>2 DEF Unapplied
  <2>8. Row(Append(Foreign(algorithm), Head(to_recv)), <<>>, Tail(to_recv), to_client)
            = Row(Foreign(algorithm), <<>>, to_recv, to_client)
    BY <2>1, OnTheWay, ArriveAtOnce
  <2>9. Inward'
    BY <1>2, <1>a, <2>2, <2>3, <2>6, <2>7, <2>8 DEF Inward
  <2>10. Outward'
    BY <1>2, <1>3, <1>a, <2>3, <2>6 DEF Outward
  <2> QED  BY <2>9, <2>10
<1> QED  BY <1>4, <1>5

\* ReadMessage: a message goes from the connection to the hand of the reader
\* or to the end of to_recv.
LEMMA ReadDelivers ==
    ASSUME DeliveryInv, ReadMessage
    PROVE  Outward' /\ Inward'
<1> USE Names
<1>a. Shape /\ Idle /\ Bounds /\ Inward
  BY DEF DeliveryInv, ClientInv
<1>b. DOMAIN in_hand = {"reader", "server"}
  BY DEF DeliveryInv, ClientInv, Sequential, Queues
<1>1. /\ pc["reader"] = "read" /\ \A q \in Processes \ {"reader"} : pc'[q] = pc[q]
      /\ to_client # <<>> /\ to_client' = Tail(to_client)
      /\ UNCHANGED <<algorithm, to_send, to_server, committed, readfd>>
  BY <1>a, GoesAlone DEF ReadMessage, dataVars, logVars
<1>2. Outward'
  <2>1. in_hand'["server"] = in_hand["server"]
    BY <1>b DEF ReadMessage
  <2>2. \A q \in Senders : pc'[q] = "sent" <=> pc[q] = "sent"
    BY <1>1
  <2> QED  BY <1>1, <2>1, <2>2, OutwardStays
<1>3. in_hand["reader"] = <<>>
  <2>1. Len(in_hand["reader"]) = 0 /\ in_hand["reader"] \in Seq(Theirs)
    BY <1>1, <1>a, OnTheWay DEF Bounds
  <2> QED  BY <2>1
<1>4. \A q \in Receivers : pc'[q] = "received" <=> pc[q] = "received"
  BY <1>1
<1>5. CASE option.recv = "none"
  <2>1. /\ in_hand'["reader"] = <<Head(to_client)>>
        /\ to_recv = <<>> /\ to_recv' = <<>>
    BY <1>5, <1>a, <1>b DEF ReadMessage, Idle
  <2>2. \A q \in Receivers : pc[q] # "received"
    BY <1>a, <2>1 DEF Shape
  <2>3. Unapplied = <<>> /\ Unapplied' = <<>>
    BY <1>4, <2>1, <2>2 DEF Unapplied
  <2>4. Row(Foreign(algorithm), <<Head(to_client)>>, <<>>, Tail(to_client))
            = Row(Foreign(algorithm), <<>>, <<>>, to_client)
    BY <1>1, OnTheWay, TakeLast
  <2> QED  BY <1>1, <1>2, <1>3, <1>a, <2>1, <2>3, <2>4 DEF Inward
<1>6. CASE option.recv # "none"
  <2>1. UNCHANGED in_hand /\ to_recv' = Append(to_recv, Head(to_client))
    BY <1>6 DEF ReadMessage
  <2>2. to_recv \in Seq(Theirs) /\ Head(to_client) \in Theirs
    BY <1>1, OnTheWay, HeadTailProperties
  <2>3. \A q \in Receivers : pc[q] = "received" => to_recv # <<>>
    BY <1>a DEF Shape
  <2>4. Unapplied' = Append(Unapplied, Head(to_client))
    BY <1>4, <2>1, <2>2, <2>3, TailOfAppend DEF Unapplied
  <2>5. Row(Foreign(algorithm), in_hand["reader"],
            Append(Unapplied, Head(to_client)), Tail(to_client))
            = Row(Foreign(algorithm), in_hand["reader"], Unapplied, to_client)
    BY <1>1, OnTheWay, GoOn
  <2> QED  BY <1>1, <1>2, <1>a, <2>1, <2>4, <2>5 DEF Inward
<1> QED  BY <1>5, <1>6

\* The server process: LocalProcess sends the next operation of others to
\* the client, RemoteProcess and Commit pass on one of this user.
LEMMA LocalProcessDelivers ==
    ASSUME DeliveryInv, LocalProcess
    PROVE  Outward' /\ Inward'
<1>a. Bounds /\ Inward
  BY DEF DeliveryInv, ClientInv
<1>1. /\ readfd' = readfd + 1 /\ to_client' = Append(to_client, -(readfd + 1))
      /\ UNCHANGED <<pc, algorithm, to_send, to_recv, in_hand, to_server, committed>>
  BY DEF LocalProcess, dataVars, queueVars
<1>2. Outward'
  BY <1>1, OutwardStays
<1>3. readfd \in Nat
  BY <1>a, MaxOthersAssumption DEF Bounds
<1>4. PICK e \in Theirs : e = -(readfd + 1)
  BY <1>3 DEF Theirs
<1>5. [n \in 1..readfd + 1 |-> -n] = Append([n \in 1..readfd |-> -n], e)
  BY <1>3, <1>4, CountOn
<1>6. Unapplied' = Unapplied
  BY <1>1 DEF Unapplied
<1>7. Row(Foreign(algorithm), in_hand["reader"], Unapplied, Grow(to_client, e))
        = Grow(Row(Foreign(algorithm), in_hand["reader"], Unapplied, to_client), e)
  BY <1>4, OnTheWay, ComeIn
<1> QED  BY <1>1, <1>2, <1>4, <1>5, <1>6, <1>7, <1>a DEF Inward, Grow

LEMMA RemoteProcessDelivers ==
    ASSUME DeliveryInv, RemoteProcess
    PROVE  Outward' /\ Inward'
<1> USE Names
<1>a. Shape /\ Bounds /\ Outward
  BY DEF DeliveryInv, ClientInv
<1>b. DOMAIN in_hand = {"reader", "server"}
  BY DEF DeliveryInv, ClientInv, Sequential, Queues
<1>1. /\ pc["server"] = "poll" /\ \A q \in Processes \ {"server"} : pc'[q] = pc[q]
      /\ to_server # <<>> /\ to_server' = Tail(to_server)
      /\ in_hand'["server"] = <<Head(to_server)>>
      /\ in_hand'["reader"] = in_hand["reader"]
      /\ UNCHANGED <<algorithm, to_send, to_recv, to_client, committed, readfd>>
  BY <1>a, <1>b, GoesAlone DEF RemoteProcess, dataVars, logVars
<1>2. Inward'
  <2>1. \A q \in Receivers : pc'[q] = "received" <=> pc[q] = "received"
    BY <1>1
  <2> QED  BY <1>1, <2>1, InwardStays
<1>3. in_hand["server"] = <<>>
  <2>1. Len(in_hand["server"]) = 0 /\ in_hand["server"] \in Seq(Mine)
    BY <1>1, <1>a, OnTheWay DEF Bounds
  <2> QED  BY <2>1
<1>4. Unsent' = Unsent
  <2>1. \A q \in Senders : pc'[q] = "sent" <=> pc[q] = "sent"
    BY <1>1
  <2> QED  BY <1>1, <2>1 DEF Unsent
<1>5. Row(committed, <<Head(to_server)>>, Tail(to_server), Unsent)
        = Row(committed, <<>>, to_server, Unsent)
  BY <1>1, OnTheWay, TakeUp
<1> QED  BY <1>1, <1>2, <1>3, <1>4, <1>5, <1>a DEF Outward

LEMMA CommitDelivers ==
    ASSUME DeliveryInv, Commit
    PROVE  Outward' /\ Inward'
<1> USE Names
<1>a. Shape /\ Outward
  BY DEF DeliveryInv, ClientInv
<1>b. DOMAIN in_hand = {"reader", "server"}
  BY DEF DeliveryInv, ClientInv, Sequential, Queues
<1>1. /\ \A q \in Processes \ {"server"} : pc'[q] = pc[q]
      /\ committed' = committed \o in_hand["server"]
      /\ in_hand'["server"] = <<>> /\ in_hand'["reader"] = in_hand["reader"]
      /\ UNCHANGED <<algorithm, to_send, to_recv, to_server, to_client, readfd>>
  BY <1>a, <1>b, GoesAlone DEF Commit, dataVars
<1>2. Inward'
  <2>1. \A q \in Receivers : pc'[q] = "received" <=> pc[q] = "received"
    BY <1>1
  <2> QED  BY <1>1, <2>1, InwardStays
<1>3. Unsent' = Unsent
  <2>1. \A q \in Senders : pc'[q] = "sent" <=> pc[q] = "sent"
    BY <1>1
  <2> QED  BY <1>1, <2>1 DEF Unsent
<1>4. Row(committed \o in_hand["server"], <<>>, to_server, Unsent)
        = Row(committed, in_hand["server"], to_server, Unsent)
  BY OnTheWay, Arrive
<1> QED  BY <1>1, <1>2, <1>3, <1>4, <1>a DEF Outward

LEMMA NothingLostOnTheWay ==
    DeliveryInv /\ [Next]_vars => Outward' /\ Inward'
<1> SUFFICES ASSUME DeliveryInv, [Next]_vars PROVE Outward' /\ Inward'
  OBVIOUS
<1> USE Names
<1>a. Shape
  BY DEF DeliveryInv, ClientInv
\* A step of one thread, or of the server process, that moves nothing.
<1>0. ASSUME NEW p \in Processes, NEW from, NEW to, Goes(p, from, to),
             from \notin {"sent", "received"}, to \notin {"sent", "received"},
             UNCHANGED <<algorithm, to_send, to_recv, in_hand, to_server,
                         to_client, committed, readfd>>
      PROVE  Outward' /\ Inward'
  <2>1. \A q \in Threads : /\ pc'[q] = "sent" <=> pc[q] = "sent"
                           /\ pc'[q] = "received" <=> pc[q] = "received"
    BY <1>0, <1>a, GoesAlone
  <2> QED  BY <1>0, <2>1, OutwardStays, InwardStays
<1>1. ASSUME NEW t \in Threads,
             \/ Editing(t) \/ Synchronize(t) \/ BeginSend(t) \/ EndSend(t)
             \/ BeginRecv(t) \/ RecvFront(t) \/ EndRecv(t) \/ EndSpin(t)
      PROVE  Outward' /\ Inward'
  <2>1. PICK from, to : /\ Goes(t, from, to) /\ from \notin {"sent", "received"}
                        /\ to \notin {"sent", "received"}
    BY <1>1 DEF Editing, ChangeText, QueueEdit, Synchronize, BeginSend, EndSend,
       BeginRecv, RecvFront, EndRecv, EndSpin
  <2>2. UNCHANGED <<algorithm, to_send, to_recv, in_hand, to_server,
                    to_client, committed, readfd>>
    BY <1>1 DEF Editing, ChangeText, QueueEdit, Synchronize, BeginSend, EndSend,
       BeginRecv, RecvFront, EndRecv, EndSpin, dataVars, queueVars, netVars, logVars
  <2> QED  BY <1>0, <2>1, <2>2
<1>2. ASSUME Timers PROVE Outward' /\ Inward'
  <2>1. PICK t \in Threads, way \in {"send", "recv"} : Expire(t, way)
    BY <1>2 DEF Timers, Senders, Receivers
  <2> QED  BY <1>0, <2>1 DEF Expire, dataVars, queueVars, netVars, logVars
<1>3. ASSUME Consume \/ EnterGenerate \/ PopLocal PROVE Outward' /\ Inward'
  <2>1. PICK from, to : /\ Goes("writer", from, to) /\ from \notin {"sent", "received"}
                        /\ to \notin {"sent", "received"}
    BY <1>3 DEF Consume, EnterGenerate, PopLocal
  <2>2. UNCHANGED <<algorithm, to_send, to_recv, in_hand, to_server,
                    to_client, committed, readfd>>
    BY <1>3 DEF Consume, EnterGenerate, PopLocal, dataVars, queueVars, netVars, logVars
  <2> QED  BY <1>0, <2>1, <2>2
<1>4. ASSUME LockForMessage PROVE Outward' /\ Inward'
  BY <1>0, <1>4 DEF LockForMessage, dataVars, queueVars, netVars, logVars
<1>5. ASSUME GetFileLock PROVE Outward' /\ Inward'
  BY <1>0, <1>5 DEF GetFileLock, dataVars, queueVars, netVars, logVars
<1>6. ASSUME OthersCommit \/ UNCHANGED vars PROVE Outward' /\ Inward'
  <2>1. UNCHANGED <<pc, algorithm, to_send, to_recv, in_hand, to_server,
                    to_client, committed, readfd>>
    BY <1>6 DEF OthersCommit, vars, dataVars, queueVars, netVars, logVars
  <2> QED  BY <2>1, OutwardStays, InwardStays
<1> QED
  BY <1>1, <1>2, <1>3, <1>4, <1>5, <1>6, GenerateDelivers, SendDelivers,
     PopSentDelivers, PopRecvDelivers, FromNetDelivers, ReadDelivers,
     LocalProcessDelivers, RemoteProcessDelivers, CommitDelivers
  DEF Next, Sending, Receiving, Applying, Writer, Reader, Server

(***************************************************************************)
(* When everybody waits.                                                   *)
(***************************************************************************)

EverybodyWaits == (\A t \in Threads : Waits(t)) /\ ServerWaits

\* Where nobody ever waits, and what is waited for where one may.
LEMMA WaitingPlaces ==
    ASSUME NEW t \in Threads, Waits(t)
    PROVE  /\ pc[t] \notin {"apply", "sent", "received", "pop"}
           /\ pc[t] = "queue" => Taken("mtx")
           /\ pc[t] = "consume" => AlgoTaken
           /\ pc[t] = "generate" => option.send = "none" /\ Len(to_server) = Room
           /\ pc[t] = "send" => Taken("send_mtx")
           /\ pc[t] = "sending" => Len(to_server) = Room
           /\ pc[t] = "recv" => Taken("recv_mtx")
           /\ pc[t] = "receiving" => Taken("mtx2")
           /\ pc[t] = "read" => to_client = <<>>
           /\ pc[t] = "lock" => Taken("mtx2")
           /\ pc[t] = "spin" => local_ops # <<>> \/ AlgoTaken
BY DEF Waits

\* Who has taken a mutex is where it is held.
LEMMA TakenBy ==
    ASSUME Mutual, NEW m \in Mutexes, Taken(m)
    PROVE  \E t \in Threads : owner[m] = t /\ pc[t] \in Holding[m]
BY DEF Mutual, Taken

\* Nobody waits for the algorithm but for a writer that waits itself.
LEMMA AlgoFree ==
    ASSUME ClientInv, EverybodyWaits, AlgoTaken
    PROVE  pc["writer"] = "generate"
<1>1. PICK t \in Threads : pc[t] \in {"generate", "apply"}
  BY TakenBy, HoldingPlaces DEF ClientInv, AlgoTaken
<1>2. pc[t] = "generate"
  BY <1>1, WaitingPlaces DEF EverybodyWaits
<1>3. pc[t] \in Places(t)
  BY Names DEF ClientInv, Shape, Placed
<1> QED  BY <1>2, <1>3, Names DEF Places

\* The writer waits for an edit or for room on the connection.
LEMMA WriterWaits ==
    ASSUME ClientInv, EverybodyWaits
    PROVE  \/ /\ pc["writer"] = "idle" /\ local_ops = <<>>
              /\ ~Taken("mtx") /\ ~AlgoTaken
           \/ /\ pc["writer"] = "generate" /\ option.send = "none"
              /\ Len(to_server) = Room
<1> USE Names
<1>1. Waits("writer")
  BY DEF EverybodyWaits
<1>2. pc["writer"] \in {"idle", "consume", "generate", "pop"}
  BY DEF ClientInv, Shape, Placed, Places
<1>3. pc["writer"] # "consume" /\ pc["writer"] # "pop"
  BY <1>1, AlgoFree, WaitingPlaces
<1>4. CASE pc["writer"] = "idle"
  <2>1. ~Taken("mtx")
    <3>1. SUFFICES ASSUME Taken("mtx") PROVE FALSE
      OBVIOUS
    <3>2. PICK t \in Threads : pc[t] \in {"consume", "generate", "pop"}
      BY <3>1, TakenBy, HoldingPlaces DEF ClientInv
    <3>3. pc[t] \in Places(t)
      BY DEF ClientInv, Shape, Placed
    <3>4. t = "writer"
      BY <3>2, <3>3 DEF Places
    <3> QED  BY <1>4, <3>2, <3>4
  <2>2. local_ops = <<>>
    BY <1>1, <1>4, <2>1 DEF Waits
  <2> QED  BY <1>4, <2>1, <2>2, AlgoFree
<1>5. CASE pc["writer"] = "generate"
  BY <1>1, <1>5, WaitingPlaces
<1> QED  BY <1>2, <1>3, <1>4, <1>5

\* When the writer waits for an edit, no mutex is taken, nothing is on its
\* way and nobody waits but where he starts.
LEMMA AllIsDone ==
    ASSUME DeliveryInv, EverybodyWaits,
           pc["writer"] = "idle", local_ops = <<>>, ~Taken("mtx"), ~AlgoTaken
    PROVE  /\ \A m \in Mutexes : ~Taken(m)
           /\ to_client = <<>> /\ to_server = <<>>
           /\ pc["reader"] = "read" /\ pc["server"] = "poll" /\ readfd = others
           /\ \A t \in Threads : pc[t] \in {"idle", "read"}
<1> USE Names
<1>a. Shape /\ Mutual /\ Bounds
  BY DEF DeliveryInv, ClientInv
<1>b. \A t \in Threads : Waits(t) /\ pc[t] \in Places(t)
  BY <1>a DEF EverybodyWaits, Shape, Placed
<1>1. \A t \in Threads : pc[t] \notin {"queue", "spin", "apply", "sent", "received"}
  BY <1>b, WaitingPlaces
<1>2. ~Taken("mtx2") /\ ~Taken("algo_mtx")
  <2>1. ~Taken("mtx2")
    BY <1>1, <1>a, TakenBy, HoldingPlaces
  <2>2. \A t \in Threads : pc[t] # "generate"
    <3>1. \A t \in Threads : pc[t] = "generate" => t = "writer"
      BY <1>b DEF Places
    <3> QED  BY <3>1
  <2>3. ~Taken("algo_mtx")
    BY <1>1, <1>a, <2>2, TakenBy, HoldingPlaces
  <2> QED  BY <2>1, <2>3
<1>3. \A t \in Threads : pc[t] \notin {"lock", "receiving"}
  BY <1>2, <1>b, WaitingPlaces
<1>4. ~Taken("recv_mtx")
  BY <1>1, <1>3, <1>a, TakenBy, HoldingPlaces
<1>5. pc["reader"] = "read" /\ to_client = <<>>
  <2>1. pc["reader"] = "read"
    BY <1>1, <1>3, <1>b DEF Places
  <2> QED  BY <2>1, <1>b, WaitingPlaces
<1>6. pc["server"] = "poll" /\ readfd = others /\ to_server = <<>>
  <2>1. Len(to_client) # Room
    BY <1>5, RoomAssumption
  <2> QED  BY <2>1 DEF EverybodyWaits, ServerWaits
<1>7. \A t \in Threads : pc[t] # "sending"
  <2>1. Len(to_server) # Room
    BY <1>6, RoomAssumption
  <2> QED  BY <2>1, <1>b, WaitingPlaces
<1>8. ~Taken("send_mtx")
  BY <1>1, <1>7, <1>a, TakenBy, HoldingPlaces
<1>9. \A t \in Threads : pc[t] \notin {"send", "recv"}
  BY <1>4, <1>8, <1>b, WaitingPlaces
<1>10. \A t \in Threads : pc[t] \in {"idle", "read"}
  <2>1. ASSUME NEW t \in Threads PROVE pc[t] \in {"idle", "read"}
    <3>1. CASE t = "writer"
      BY <3>1
    <3>2. CASE t = "reader"
      BY <1>5, <3>2
    <3>3. CASE t \notin {"writer", "reader"}
      <4>1. pc[t] \in {"idle", "queue", "send", "sending", "sent", "recv",
                       "receiving", "spin", "apply", "received"}
        BY <1>b, <3>3 DEF Places
      <4> QED  BY <1>1, <1>3, <1>7, <1>9, <4>1
    <3> QED  BY <3>1, <3>2, <3>3
  <2> QED  BY <2>1
<1> QED  BY <1>2, <1>4, <1>5, <1>6, <1>8, <1>10, HoldingPlaces

\* Then every edit is in the log and every operation of others in the text,
\* but for what waits for a command of the user.
LEMMA DoneIsUpToDate ==
    ASSUME DeliveryInv, EverybodyWaits, local_ops = <<>>,
           to_client = <<>>, to_server = <<>>,
           pc["reader"] = "read", pc["server"] = "poll", readfd = others,
           \A t \in Threads : pc[t] \in {"idle", "read"}
    PROVE  UpToDate
<1> USE Names
<1>a. Bounds /\ InOrder /\ Idle /\ Outward /\ Inward /\ option \in Options
  BY DEF DeliveryInv, ClientInv, Shape
<1>1. edit_file = algorithm
  <2>1. PICK Op : Queues(Op)
    BY DEF DeliveryInv, ClientInv, Sequential
  <2>2. Ungenerated = <<>>
    BY DEF Ungenerated
  <2> QED  BY <1>a, <2>1, <2>2 DEF InOrder, Queues
<1>2. in_hand["server"] = <<>> /\ in_hand["reader"] = <<>>
  BY <1>a, OnTheWay DEF Bounds
<1>3. Unsent = to_send /\ Unapplied = to_recv
  BY DEF Unsent, Unapplied
<1>4. option.send # "manual" => to_send = <<>>
  <2>1. Waits("send_timer") /\ pc["send_timer"] = "idle"
    BY <1>a DEF EverybodyWaits, Threads, Senders, DeliveryInv, ClientInv, Shape,
       Placed, Processes, Places
  <2>2. option.send = "timer" => to_send = <<>>
    BY <2>1 DEF Waits, Editors
  <2>3. option.send \in {"none", "timer", "manual"}
    BY <1>a, OptionsAssumption DEF Delay
  <2> QED  BY <1>a, <2>2, <2>3 DEF Idle
<1>5. option.recv # "manual" => to_recv = <<>>
  <2>1. Waits("recv_timer") /\ pc["recv_timer"] = "idle"
    BY <1>a DEF EverybodyWaits, Threads, Receivers, DeliveryInv, ClientInv, Shape,
       Placed, Processes, Places
  <2>2. option.recv = "timer" => to_recv = <<>>
    BY <2>1 DEF Waits, Editors
  <2>3. option.recv \in {"none", "timer", "manual"}
    BY <1>a, OptionsAssumption DEF Delay
  <2> QED  BY <1>a, <2>2, <2>3 DEF Idle
<1>6. option.send # "manual" => Own(edit_file) = committed
  BY <1>1, <1>2, <1>3, <1>4, <1>a, OnTheWay DEF Outward, Row
<1>7. option.recv # "manual" => Len(Foreign(edit_file)) = others
  <2>1. SUFFICES ASSUME option.recv # "manual"
                 PROVE  Len(Foreign(algorithm)) = others
    BY <1>1
  <2>2. [n \in 1..others |-> -n] = Foreign(algorithm)
    <3>1. [n \in 1..readfd |-> -n] = Row(Foreign(algorithm), <<>>, <<>>, <<>>)
      BY <1>2, <1>3, <1>5, <1>a, <2>1 DEF Inward
    <3>2. Row(Foreign(algorithm), <<>>, <<>>, <<>>) = Foreign(algorithm)
      BY OnTheWay DEF Row
    <3> QED  BY <3>1, <3>2
  <2>3. others \in Nat
    BY <1>a, MaxOthersAssumption DEF Bounds
  <2> QED  BY <2>2, <2>3
<1> QED  BY <1>6, <1>7 DEF UpToDate

\* A writer that waits for room waits for the reader.
LEMMA WriterIsStuck ==
    ASSUME DeliveryInv, EverybodyWaits, pc["writer"] = "generate",
           option.send = "none", Len(to_server) = Room
    PROVE  Stuck
<1> USE Names
<1>a. Shape /\ Mutual /\ Idle
  BY DEF DeliveryInv, ClientInv
<1>1. pc["server"] # "remote" /\ readfd < others /\ Len(to_client) = Room
  <2>1. to_server # <<>>
    BY RoomAssumption
  <2> QED  BY <2>1 DEF EverybodyWaits, ServerWaits
<1>2. pc["reader"] \in {"lock", "spin"}
  <2>1. Waits("reader") /\ pc["reader"] \in {"read", "lock", "spin", "apply"}
    BY <1>a DEF EverybodyWaits, Shape, Placed, Places
  <2>2. to_client # <<>>
    BY <1>1, RoomAssumption
  <2> QED  BY <2>1, <2>2, WaitingPlaces
<1>3. to_recv = <<>>
  BY <1>2, <1>a, OptionsAssumption DEF Idle
<1>4. ASSUME pc["reader"] = "lock" PROVE \E t \in Editors : pc[t] = "queue"
  <2>1. Taken("mtx2")
    BY <1>4, WaitingPlaces DEF EverybodyWaits
  <2>2. PICK t \in Threads : pc[t] \in {"queue", "spin", "apply"}
    BY <1>a, <2>1, TakenBy, HoldingPlaces
  <2>3. pc[t] # "apply"
    BY WaitingPlaces DEF EverybodyWaits
  <2>4. pc[t] # "spin"
    BY <1>3, <1>4, <1>a DEF Shape
  <2>5. t \in Editors
    <3>1. pc[t] = "queue" /\ pc[t] \in Places(t)
      BY <1>a, <2>2, <2>3, <2>4 DEF Shape, Placed
    <3> QED  BY <3>1 DEF Places
  <2> QED  BY <2>2, <2>3, <2>4, <2>5
<1> QED  BY <1>1, <1>2, <1>4 DEF Stuck

LEMMA InvIsKnown == DeliveryInv => KnownDeadlocks
<1> SUFFICES ASSUME DeliveryInv, EverybodyWaits
             PROVE  \/ Stuck
                    \/ UpToDate /\ \A m \in Mutexes : owner[m] = Nobody
  BY DEF KnownDeadlocks, EverybodyWaits
<1>1. CASE pc["writer"] = "generate" /\ option.send = "none" /\ Len(to_server) = Room
  BY <1>1, WriterIsStuck
<1>2. CASE pc["writer"] = "idle" /\ local_ops = <<>> /\ ~Taken("mtx") /\ ~AlgoTaken
  BY <1>2, AllIsDone, DoneIsUpToDate DEF Taken
<1> QED  BY <1>1, <1>2, WriterWaits DEF DeliveryInv

(***************************************************************************)
(* The theorems.                                                           *)
(***************************************************************************)

LEMMA ClientStep == ClientInv /\ [Next]_vars => ClientInv'
BY ShapeKept, SequentialKept, BoundsKept, MutualKept, OrderKept DEF ClientInv

LEMMA ClientInvariant == Spec => []ClientInv
BY ClientStep, ClientInit, PTL DEF Spec

LEMMA DeliveryInvariant == Spec => []DeliveryInv
<1>1. DeliveryInv /\ [Next]_vars => DeliveryInv'
  BY ClientStep, SignsKept, NewestKept, IdleKept, NothingLostOnTheWay DEF DeliveryInv
<1> QED  BY <1>1, DeliveryInit, PTL DEF Spec

\* For every set of options and every bound, however the threads of the
\* client and the server process interleave, a mutex of init.cpp, of
\* textOpMutex and of the algorithm is held by the one thread that is at a
\* place where the code holds it, and neither direction of the connection
\* holds more than it has room for.
THEOREM ThreadsTyped == Spec => []TypeOK
<1> QED  BY ClientInvariant, InvIsType, PTL

\* For every set of options and every bound, the algorithm of the client is
\* given the operations in the order in which they changed the text, and by
\* one thread at a time: the edit lock and the loop of procServerWrapper are
\* enough, with and without the mutex that option -s takes away.
THEOREM ThreadsInOrder == Spec => []SameOrder
<1> QED  BY ClientInvariant, InvIsOrder, PTL

\* For every set of options and every bound, however the threads interleave:
\* every edit the algorithm was given is in exactly one place on its way from
\* to_send through the connection and the server process into the log, every
\* operation of others in exactly one on its way from the log to the text,
\* and none overtakes another, although to_send and to_recv are pushed
\* without the mutex under which another thread takes from them.
THEOREM ThreadsLoseNothing == Spec => []NothingLost
<1> QED  BY DeliveryInvariant, InvIsLossless, PTL

\* For every set of options, every bound and every room in the connection:
\* when all six threads and the server process wait, then either nothing is
\* left to do, every edit is in the log and no mutex is taken, or the writer,
\* the server process and the reader wait for each other in one of the two
\* ways of Stuck, which both need a client without the delay options.
THEOREM ThreadsDeadlockKnown == Spec => []KnownDeadlocks
<1> QED  BY DeliveryInvariant, InvIsKnown, PTL
=============================================================================
