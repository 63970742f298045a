--------------------------- MODULE JupiterProofs ---------------------------
(***************************************************************************)
(* The protocol for every number of users, every text and every bound on   *)
(* the edits.                                                              *)
(*                                                                         *)
(* First the two endpoints of a connection: the recursive functions of     *)
(* Cscw and Ops are what they look like, and Receive discards exactly the  *)
(* queued operations that the sender of a message had received.  Then all  *)
(* users: counters, queues and messages of a connection always fit         *)
(* together (Connected), whatever the interleaving.  Type correctness,     *)
(* ContextMatches and IDsDiffer follow.                                    *)
(*                                                                         *)
(* Then convergence: what is on its way between two endpoints lies on a    *)
(* grid of transformed operations, so a client with nothing of its own     *)
(* under way shows a text of the log, and neither a client nor the replay  *)
(* of the log ever performs an operation that is out of range or deletes   *)
(* another character than the one its author deleted.  From the same       *)
(* invariant, the protocol implements SharedText.                          *)
(***************************************************************************)
EXTENDS Jupiter, XformProofs, FiniteSetTheorems

\* What transformation can make of an operation: author and character stay.
Shifted(op) ==
    { v \in op_t : /\ v.id = op.id /\ v.data = op.data
                   /\ v.operation \in {op.operation, NOOP} }

\* Path(op, queue) is the operation op on its way through the queue.
LEMMA PathProperties ==
    ASSUME NEW op \in op_t, NEW queue \in Seq(trans_t)
    PROVE  LET path == Path(op, queue)
           IN  /\ path \in [0..Len(queue) -> Shifted(op)]
               /\ path[0] = op
               /\ \A n \in 1..Len(queue) :
                    path[n] = Shift(path[n - 1], queue[n].op)
<1> DEFINE N == Len(queue)
           Eq(p) == p = [n \in 0..N |->
                            IF n = 0 THEN op ELSE Shift(p[n - 1], queue[n].op)]
<1> DEFINE S == Shifted(op)
<1>a. op \in S
  BY DEF Shifted
<1>b. S \subseteq op_t
  BY DEF Shifted
<1>0. \A v \in S, other \in op_t : Shift(v, other) \in S
  <2> SUFFICES ASSUME NEW v \in S, NEW other \in op_t
               PROVE  Shift(v, other) \in S
    OBVIOUS
  <2> QED  BY ShiftType DEF Shifted
<1> HIDE DEF S
<1>1. N \in Nat /\ \A n \in 1..N : queue[n].op \in op_t
  <2>1. N \in Nat /\ \A n \in 1..N : queue[n] \in trans_t
    BY LenProperties, ElementOfSeq
  <2> QED  BY <2>1 DEF trans_t
<1>2. \E p : Eq(p)
  <2> DEFINE step == [n \in 1..N |-> [v \in S |-> Shift(v, queue[n].op)]]
  <2>1. step \in [1..N -> [S -> S]]
    BY <1>0, <1>1
  <2>2. \A n \in 1..N : \A v \in S : step[n][v] = Shift(v, queue[n].op)
    OBVIOUS
  <2> HIDE DEF step
  <2>3. PICK f \in [0..N -> S] :
            f[0] = op /\ \A n \in 1..N : f[n] = step[n][f[n - 1]]
    <3>1. Recursive(S, op, N, step)
      <4> HIDE DEF N
      <4> QED  BY <1>a, <1>1, <2>1, Recursion
    <3> QED  BY <3>1 DEF Recursive
  <2>4. \A n \in 1..N : f[n] = Shift(f[n - 1], queue[n].op)
    <3>1. \A n \in 1..N : n - 1 \in 0..N
      BY <1>1
    <3> QED  BY <2>2, <2>3, <3>1
  <2>5. Eq(f)
    BY <1>1, <2>3, <2>4
  <2> QED  BY <2>5
<1>3. Eq(Path(op, queue))
  <2>1. Path(op, queue) = CHOOSE p : Eq(p)
    BY DEF Path
  <2> HIDE DEF Eq
  <2> QED  BY <1>2, <2>1
<1> DEFINE path == Path(op, queue)
<1>4. path[0] = op /\ \A n \in 1..N : path[n] = Shift(path[n - 1], queue[n].op)
  BY <1>1, <1>3
<1> HIDE DEF path
<1>5. \A n \in 0..N : path[n] \in S
  <2> DEFINE T == { k \in Nat : k <= N => path[k] \in S }
  <2>1. 0 \in T
    BY <1>a, <1>4
  <2>2. ASSUME NEW k \in Nat, k \in T, k + 1 <= N
        PROVE  path[k + 1] \in S
    <3>1. k + 1 \in 1..N /\ k + 1 - 1 = k
      BY <1>1, <2>2
    <3>2. path[k] \in S
      BY <1>1, <2>2, <3>1
    <3>3. path[k + 1] = Shift(path[k], queue[k + 1].op)
      BY <1>4, <3>1
    <3>4. queue[k + 1].op \in op_t
      BY <1>1, <3>1
    <3> QED  BY <1>0, <3>2, <3>3, <3>4
  <2>3. \A k \in Nat : k \in T => k + 1 \in T
    BY <2>2
  <2> HIDE DEF T
  <2>4. \A k \in Nat : k \in T
    BY <2>1, <2>3, SetInduction
  <2> QED  BY <1>1, <2>4 DEF T
<1>6. path = [n \in 0..N |-> path[n]]
  BY <1>3 DEF path
<1> QED  BY <1>4, <1>5, <1>6 DEF path, S
-----------------------------------------------------------------------------
(***************************************************************************)
(* Generate and Receive.                                                   *)
(***************************************************************************)

\* The queue holds the latest operations, numbered without a gap.
Contiguous(e) ==
    /\ Len(e.outgoing) <= e.local
    /\ \A n \in 1..Len(e.outgoing) :
          e.outgoing[n].state = e.local - Len(e.outgoing) + n - 1

\* The first operation still in the queue.
Oldest(e) == e.local - Len(e.outgoing)

LEMMA GenerateProperties ==
    ASSUME NEW e \in Endpoint, Contiguous(e), NEW ops \in Seq(op_t)
    PROVE  LET new == Generate(e, ops)
               msgs == Messages(e, ops)
           IN  /\ new \in Endpoint /\ Contiguous(new)
               /\ new.local = e.local + Len(ops) /\ new.global = e.global
               /\ Oldest(new) = Oldest(e)
               /\ Len(new.outgoing) = Len(e.outgoing) + Len(ops)
               /\ \A n \in 1..Len(new.outgoing) :
                    new.outgoing[n] =
                        IF n <= Len(e.outgoing) THEN e.outgoing[n]
                        ELSE [op |-> ops[n - Len(e.outgoing)],
                              state |-> e.local + n - Len(e.outgoing) - 1]
               /\ msgs \in Seq(trans_t) /\ Len(msgs) = Len(ops)
               /\ \A n \in 1..Len(ops) :
                    msgs[n] = [op |-> ops[n], state |-> e.global]
<1> DEFINE N == Len(ops)
           M == Len(e.outgoing)
           queued == [n \in 1..N |-> [op |-> ops[n], state |-> e.local + n - 1]]
           msgs == Messages(e, ops)
           new == Generate(e, ops)
<1>1. /\ N \in Nat /\ M \in Nat /\ \A n \in 1..N : ops[n] \in op_t
      /\ e.local \in Nat /\ e.global \in Nat /\ e.outgoing \in Seq(trans_t)
  <2>1. e.local \in Nat /\ e.global \in Nat /\ e.outgoing \in Seq(trans_t)
    BY DEF Endpoint
  <2> QED  BY <2>1, LenProperties, ElementOfSeq
<1>2. queued \in Seq(trans_t) /\ Len(queued) = N
  <2>1. queued \in [1..N -> trans_t]
    BY <1>1 DEF trans_t
  <2> QED  BY <1>1, <2>1, SeqDef
<1>3. /\ msgs \in Seq(trans_t) /\ Len(msgs) = N
      /\ \A n \in 1..N : msgs[n] = [op |-> ops[n], state |-> e.global]
  <2>1. msgs = [n \in 1..N |-> [op |-> ops[n], state |-> e.global]]
    BY DEF Messages
  <2> HIDE DEF msgs
  <2>2. msgs \in [1..N -> trans_t]
    BY <1>1, <2>1 DEF trans_t
  <2>3. msgs \in Seq(trans_t) /\ Len(msgs) = N
    BY <1>1, <2>2, SeqDef
  <2> QED  BY <2>1, <2>3
<1>4. /\ new.local = e.local + N /\ new.global = e.global
      /\ new.outgoing = e.outgoing \o queued
      /\ new = [local |-> e.local + N, global |-> e.global,
                outgoing |-> e.outgoing \o queued]
  BY DEF Generate
<1> DEFINE out == e.outgoing
<1>5. /\ out \o queued \in Seq(trans_t) /\ Len(out \o queued) = M + N
      /\ \A n \in 1..M + N :
            (out \o queued)[n] = IF n <= M THEN out[n] ELSE queued[n - M]
  <2> HIDE DEF queued
  <2>1. out \in Seq(trans_t) /\ Len(out) = M
    BY <1>1
  <2> HIDE DEF out, M, N
  <2> QED  BY <1>2, <2>1, ConcatProperties
<1>6. \A n \in 1..M + N :
        new.outgoing[n] = IF n <= M THEN out[n]
                          ELSE [op |-> ops[n - M],
                                state |-> e.local + (n - M) - 1]
  <2>1. \A n \in 1..M + N : n > M => n - M \in 1..N
    BY <1>1
  <2> QED  BY <1>4, <1>5, <2>1
<1>7. new \in Endpoint
  <2>1. e.local + N \in Nat /\ e.global \in Nat
    BY <1>1
  <2> QED  BY <1>4, <1>5, <2>1 DEF Endpoint
<1>8. Len(new.outgoing) = M + N
  BY <1>4, <1>5
<1> DEFINE l == e.local
<1>9. l \in Nat /\ N \in Nat /\ M \in Nat /\ new.local = l + N
  BY <1>1, <1>4
<1> HIDE DEF new, msgs, queued, out
<1>10. Contiguous(new)
  <2>1. M <= l /\ \A n \in 1..M : out[n].state = l - M + n - 1
    BY DEF Contiguous, out
  <2>2. ASSUME NEW n \in 1..M + N
        PROVE  new.outgoing[n].state = l + N - (M + N) + n - 1
    <3>1. new.outgoing[n] = IF n <= M THEN out[n]
                            ELSE [op |-> ops[n - M], state |-> l + (n - M) - 1]
      BY <1>6
    <3> HIDE DEF l, M, N
    <3>2. CASE n <= M
      <4>1. n \in 1..M
        BY <1>9, <3>2
      <4> QED  BY <1>9, <2>1, <3>1, <3>2, <4>1
    <3>3. CASE n > M
      BY <1>9, <3>1, <3>3
    <3> QED  BY <1>9, <3>2, <3>3
  <2> HIDE DEF l, M, N
  <2>3. M + N <= l + N
    BY <1>9, <2>1
  <2> QED  BY <1>8, <1>9, <2>2, <2>3 DEF Contiguous
<1>11. Oldest(new) = Oldest(e)
  <2>1. l + N - (M + N) = l - M
    <3> HIDE DEF l, M, N
    <3> QED  BY <1>9
  <2> QED  BY <1>8, <1>9, <2>1 DEF Oldest
<1>12. \A n \in 1..M + N : e.local + (n - M) - 1 = e.local + n - M - 1
  BY <1>1
<1> QED  BY <1>3, <1>4, <1>6, <1>7, <1>8, <1>9, <1>10, <1>11, <1>12 DEF new, msgs, out

\* A message that the endpoint can get: its sender had received at least what
\* is no longer in the queue, and nothing that was not yet sent.
Receivable(e, msg) == Oldest(e) <= msg.state /\ msg.state <= e.local

\* What Receive keeps of the queue is what the sender had not received.
LEMMA ConcurrentProperties ==
    ASSUME NEW e \in Endpoint, Contiguous(e), NEW msg \in trans_t,
           Receivable(e, msg)
    PROVE  LET queue == Concurrent(e, msg)
           IN  /\ queue \in Seq(trans_t)
               /\ Len(queue) = e.local - msg.state
               /\ \A n \in 1..Len(queue) :
                    /\ n + (msg.state - Oldest(e)) \in 1..Len(e.outgoing)
                    /\ queue[n] = e.outgoing[n + (msg.state - Oldest(e))]
                    /\ queue[n].state = msg.state + n - 1
<1> DEFINE M == Len(e.outgoing)
           l == e.local
           s == msg.state
           out == e.outgoing
           k == s - (l - M)
           Chosen(n) == /\ \A i \in 1..n : out[i].state < s
                        /\ n < M => out[n + 1].state >= s
<1>1. /\ M \in Nat /\ l \in Nat /\ s \in Nat /\ out \in Seq(trans_t)
      /\ \A n \in 1..M : out[n] \in trans_t
  <2>1. out \in Seq(trans_t) /\ l \in Nat /\ s \in Nat
    BY DEF Endpoint, trans_t
  <2> QED  BY <2>1, LenProperties, ElementOfSeq
<1>2. \A n \in 1..M : out[n].state = l - M + n - 1
  BY DEF Contiguous
<1>3. l - M <= s /\ s <= l
  BY DEF Receivable, Oldest
<1>4. Acknowledged(out, s) = CHOOSE n \in 0..M : Chosen(n)
  BY DEF Acknowledged
<1> HIDE DEF M, l, s, out
<1>5. k \in 0..M
  BY <1>1, <1>3
<1>6. Chosen(k)
  <2>1. ASSUME NEW i \in 1..k
        PROVE  out[i].state < s
    <3>1. i \in 1..M /\ l - M + i - 1 < s
      BY <1>1, <1>5
    <3> QED  BY <1>2, <3>1
  <2>2. ASSUME k < M
        PROVE  out[k + 1].state >= s
    <3>1. k + 1 \in 1..M /\ l - M + (k + 1) - 1 = s
      BY <1>1, <1>5, <2>2
    <3> QED  BY <1>1, <1>2, <3>1
  <2> QED  BY <2>1, <2>2
<1>7. ASSUME NEW n \in 0..M, Chosen(n)
      PROVE  n = k
  <2>1. ~(n > k)
    <3>1. SUFFICES ASSUME n > k
                   PROVE  FALSE
      OBVIOUS
    <3>2. k + 1 \in 1..n /\ k + 1 \in 1..M /\ l - M + (k + 1) - 1 = s
      BY <1>1, <1>5, <3>1
    <3>3. out[k + 1].state = s
      BY <1>2, <3>2
    <3> QED  BY <1>1, <1>7, <3>2, <3>3
  <2>2. ~(n < k)
    <3>1. SUFFICES ASSUME n < k
                   PROVE  FALSE
      OBVIOUS
    <3>2. n < M /\ n + 1 \in 1..M /\ l - M + (n + 1) - 1 < s
      BY <1>1, <1>5, <3>1
    <3>3. out[n + 1].state < s
      BY <1>2, <3>2
    <3>4. out[n + 1].state >= s
      BY <1>7, <3>2
    <3>5. out[n + 1].state \in Nat
      BY <1>1, <3>2 DEF trans_t
    <3> QED  BY <1>1, <3>3, <3>4, <3>5
  <2> QED  BY <1>1, <1>5, <2>1, <2>2
<1>8. Acknowledged(out, s) = k
  <2> HIDE DEF Chosen, k
  <2> QED  BY <1>4, <1>5, <1>6, <1>7
<1> DEFINE queue == SubSeq(out, k + 1, M)
<1>9. /\ queue \in Seq(trans_t) /\ Len(queue) = l - s
      /\ \A n \in 1..l - s : n + k \in 1..M /\ queue[n] = out[n + k]
  <2>1. k + 1 \in Int /\ M \in Int /\ \A i \in k + 1..M : out[i] \in trans_t
    BY <1>1, <1>5
  <2>2. /\ queue \in Seq(trans_t)
        /\ Len(queue) = IF k + 1 <= M THEN M - (k + 1) + 1 ELSE 0
        /\ \A n \in 1..M - (k + 1) + 1 : queue[n] = out[k + 1 + n - 1]
    <3> DEFINE j == k + 1
    <3> HIDE DEF j
    <3>1. /\ SubSeq(out, j, M) \in Seq(trans_t)
          /\ Len(SubSeq(out, j, M)) = IF j <= M THEN M - j + 1 ELSE 0
          /\ \A n \in 1..M - j + 1 : SubSeq(out, j, M)[n] = out[j + n - 1]
      BY <2>1, SubSeqProperties DEF j
    <3> QED  BY <3>1 DEF j
  <2>3. M - (k + 1) + 1 = l - s /\ \A n \in Int : k + 1 + n - 1 = n + k
    BY <1>1
  <2>4. (IF k + 1 <= M THEN M - (k + 1) + 1 ELSE 0) = l - s
    BY <1>1, <1>3
  <2>5. \A n \in 1..l - s : n + k \in 1..M
    BY <1>1, <1>3, <1>5
  <2>6. ASSUME NEW n \in 1..l - s
        PROVE  queue[n] = out[n + k]
    <3>1. k + 1 + n - 1 = n + k
      BY <2>3
    <3>2. queue[n] = out[k + 1 + n - 1]
      BY <2>2, <2>3
    <3> QED  BY <3>1, <3>2
  <2> HIDE DEF queue, k
  <2> QED  BY <2>2, <2>4, <2>5, <2>6
<1>10. \A n \in 1..l - s : queue[n].state = s + n - 1
  <2>1. \A n \in 1..l - s : l - M + (n + k) - 1 = s + n - 1
    BY <1>1
  <2> HIDE DEF queue, k
  <2> QED  BY <1>2, <1>9, <2>1
<1>11. Concurrent(e, msg) = queue
  BY <1>8 DEF Concurrent, out, M, s
<1> QED
  <2> HIDE DEF queue
  <2> QED  BY <1>9, <1>10, <1>11 DEF Oldest, M, l, s, out

\* What Receive leaves: the queue it kept, transformed, and one operation for
\* writeLocal, which is the one in the message, moved or turned into a NOOP.
LEMMA ReceiveProperties ==
    ASSUME NEW e \in Endpoint, Contiguous(e), NEW msg \in trans_t,
           Receivable(e, msg)
    PROVE  LET new == Receive(e, msg)
               queue == Concurrent(e, msg)
           IN  /\ new \in Endpoint /\ Contiguous(new)
               /\ new.local = e.local /\ new.global = e.global + 1
               /\ Oldest(new) = msg.state
               /\ Len(new.outgoing) = Len(queue)
               /\ \A n \in 1..Len(queue) :
                    new.outgoing[n].op \in Shifted(queue[n].op)
               /\ Received(e, msg) \in Shifted(msg.op)
<1> DEFINE new == Receive(e, msg)
           queue == Concurrent(e, msg)
           N == Len(queue)
           path == Path(msg.op, queue)
           moved == [n \in 1..N |-> [op |-> Shift(queue[n].op, path[n - 1]),
                                     state |-> queue[n].state]]
<1>1. /\ queue \in Seq(trans_t) /\ N \in Nat /\ N = e.local - msg.state
      /\ \A n \in 1..N : queue[n].state = msg.state + n - 1
  BY ConcurrentProperties, LenProperties
<1>2. /\ e.local \in Nat /\ e.global \in Nat
      /\ msg.op \in op_t /\ msg.state \in Nat
  BY DEF Endpoint, trans_t
<1>3. /\ new.local = e.local /\ new.global = e.global + 1
      /\ new.outgoing = moved
      /\ new = [local |-> e.local, global |-> e.global + 1,
                outgoing |-> moved]
      /\ Received(e, msg) = path[N]
  BY DEF Receive, Received
<1>4. \A n \in 1..N : queue[n] \in trans_t
  <2> HIDE DEF queue
  <2> QED  BY <1>1, ElementOfSeq
<1>5. \A n \in 1..N : queue[n].op \in op_t /\ queue[n].state \in Nat
  BY <1>4 DEF trans_t
<1>6. path \in [0..N -> Shifted(msg.op)]
  <2> HIDE DEF queue
  <2> QED  BY <1>1, <1>2, PathProperties
<1>7. Shifted(msg.op) \subseteq op_t
  BY DEF Shifted
<1> HIDE DEF new, queue, path
<1>8. ASSUME NEW n \in 1..N
      PROVE  /\ Shift(queue[n].op, path[n - 1]) \in Shifted(queue[n].op)
             /\ Shift(queue[n].op, path[n - 1]) \in op_t
  <2>1. n - 1 \in 0..N
    BY <1>1
  <2>2. path[n - 1] \in op_t
    BY <1>6, <1>7, <2>1
  <2> QED  BY <1>5, <2>2, ShiftType DEF Shifted
<1>9. moved \in Seq(trans_t) /\ Len(moved) = N
  <2>1. moved \in [1..N -> trans_t]
    BY <1>5, <1>8 DEF trans_t
  <2> HIDE DEF moved
  <2> QED  BY <1>1, <2>1, SeqDef
<1>10. \A n \in 1..N : /\ moved[n].op = Shift(queue[n].op, path[n - 1])
                       /\ moved[n].state = queue[n].state
  OBVIOUS
<1> HIDE DEF moved
<1>11. new \in Endpoint
  BY <1>2, <1>3, <1>9 DEF Endpoint
<1>12. Contiguous(new) /\ Oldest(new) = msg.state
  <2>1. e.local - N = msg.state /\ N <= e.local
    BY <1>1, <1>2
  <2>2. Len(new.outgoing) = N /\ new.local = e.local
    BY <1>3, <1>9
  <2>3. \A n \in 1..N : new.outgoing[n].state = msg.state + n - 1
    BY <1>1, <1>3, <1>10
  <2> HIDE DEF N
  <2> QED  BY <2>1, <2>2, <2>3 DEF Contiguous, Oldest
<1>13. path[N] \in Shifted(msg.op)
  BY <1>1, <1>6
<1> QED
  BY <1>3, <1>8, <1>9, <1>10, <1>11, <1>12, <1>13 DEF new, queue
-----------------------------------------------------------------------------
(***************************************************************************)
(* One direction of a connection.                                          *)
(***************************************************************************)

\* The messages in chan are the latest ones sent; they carry what the sender
\* had received at the time, which only grows, and the receiver has discarded
\* nothing that a message in chan, or a later one, may still ask for.
Channel(sender, receiver, chan) ==
    /\ sender.local = receiver.global + Len(chan)
    /\ Oldest(receiver) <= sender.global
    /\ \A n \in 1..Len(chan) :
          Oldest(receiver) <= chan[n].state /\ chan[n].state <= sender.global
    /\ \A m, n \in 1..Len(chan) : m <= n => chan[m].state <= chan[n].state

\* Generate, at the sender.
LEMMA ChannelSend ==
    ASSUME NEW sender \in Endpoint, Contiguous(sender),
           NEW receiver \in Endpoint, Contiguous(receiver),
           NEW chan \in Seq(trans_t), Channel(sender, receiver, chan),
           NEW ops \in Seq(op_t)
    PROVE  /\ chan \o Messages(sender, ops) \in Seq(trans_t)
           /\ Channel(Generate(sender, ops), receiver,
                      chan \o Messages(sender, ops))
<1> DEFINE new == Generate(sender, ops)
           msgs == Messages(sender, ops)
           both == chan \o msgs
           M == Len(chan)
           N == Len(ops)
           old == Oldest(receiver)
           g == sender.global
<1>1. /\ new.local = sender.local + N /\ new.global = g
      /\ msgs \in Seq(trans_t) /\ Len(msgs) = N
      /\ \A n \in 1..N : msgs[n] = [op |-> ops[n], state |-> g]
  BY GenerateProperties
<1>2. /\ M \in Nat /\ N \in Nat /\ old \in Int /\ g \in Nat
      /\ sender.local \in Nat /\ receiver.global \in Nat
      /\ \A n \in 1..M : chan[n].state \in Nat
  <2>1. /\ sender.local \in Nat /\ g \in Nat /\ receiver.global \in Nat
        /\ receiver.local \in Nat /\ receiver.outgoing \in Seq(trans_t)
    BY DEF Endpoint
  <2>2. \A n \in 1..M : chan[n] \in trans_t
    BY ElementOfSeq
  <2> QED  BY <2>1, <2>2, LenProperties DEF Oldest, trans_t
<1>3. /\ sender.local = receiver.global + M /\ old <= g
      /\ \A n \in 1..M : old <= chan[n].state /\ chan[n].state <= g
      /\ \A m, n \in 1..M : m <= n => chan[m].state <= chan[n].state
  BY DEF Channel
<1> HIDE DEF msgs, new
<1>4. /\ both \in Seq(trans_t) /\ Len(both) = M + N
      /\ \A n \in 1..M + N : both[n] = IF n <= M THEN chan[n] ELSE msgs[n - M]
  <2>1. Len(chan) = M
    OBVIOUS
  <2> HIDE DEF M, N
  <2> QED  BY <1>1, <2>1, ConcatProperties
<1> HIDE DEF M, N, old, g, both
<1>5. \A n \in 1..M + N :
        /\ n <= M => n \in 1..M /\ both[n].state = chan[n].state
        /\ n > M => both[n].state = g
  BY <1>1, <1>2, <1>4
<1>6. ASSUME NEW n \in 1..M + N
      PROVE  old <= both[n].state /\ both[n].state <= g
  <2>1. CASE n <= M
    BY <1>3, <1>5, <2>1
  <2>2. CASE n > M
    BY <1>2, <1>3, <1>5, <2>2
  <2> QED  BY <1>2, <2>1, <2>2
<1>7. ASSUME NEW m \in 1..M + N, NEW n \in 1..M + N, m <= n
      PROVE  both[m].state <= both[n].state
  <2>1. CASE n <= M
    <3>1. m <= M /\ m \in 1..M /\ n \in 1..M
      BY <1>2, <1>7, <2>1
    <3> QED  BY <1>3, <1>5, <1>7, <2>1, <3>1
  <2>2. CASE n > M
    BY <1>5, <1>6, <2>2
  <2> QED  BY <1>2, <2>1, <2>2
<1>8. new.local = receiver.global + (M + N)
  BY <1>1, <1>2, <1>3
<1>9. old <= new.global /\ \A n \in 1..M + N : both[n].state <= new.global
  BY <1>1, <1>3, <1>6
<1> QED
  BY <1>4, <1>6, <1>7, <1>8, <1>9 DEF Channel, new, msgs, both, old

\* Generate, at the receiver.
LEMMA ChannelKeep ==
    ASSUME NEW sender \in Endpoint,
           NEW receiver \in Endpoint, Contiguous(receiver),
           NEW chan, Channel(sender, receiver, chan), NEW ops \in Seq(op_t)
    PROVE  Channel(sender, Generate(receiver, ops), chan)
BY GenerateProperties DEF Channel

\* Receive, at the receiver; the other direction bounds what was sent.
LEMMA ChannelReceive ==
    ASSUME NEW sender \in Endpoint, Contiguous(sender),
           NEW receiver \in Endpoint, Contiguous(receiver),
           NEW chan \in Seq(trans_t), Channel(sender, receiver, chan),
           NEW back \in Seq(trans_t), Channel(receiver, sender, back),
           chan # <<>>
    PROVE  /\ Head(chan) \in trans_t /\ Tail(chan) \in Seq(trans_t)
           /\ Receivable(receiver, Head(chan))
           /\ Channel(sender, Receive(receiver, Head(chan)), Tail(chan))
           /\ Channel(Receive(receiver, Head(chan)), sender, back)
<1> DEFINE M == Len(chan)
           msg == Head(chan)
           rest == Tail(chan)
           new == Receive(receiver, msg)
           old == Oldest(receiver)
           g == sender.global
<1>1. /\ M \in Nat /\ M >= 1 /\ msg = chan[1] /\ rest \in Seq(trans_t)
      /\ Len(rest) = M - 1 /\ \A n \in 1..M - 1 : rest[n] = chan[n + 1]
      /\ \A n \in 1..M : chan[n] \in trans_t
  BY HeadTailProperties, EmptySeq, LenProperties, ElementOfSeq
<1>2. /\ msg \in trans_t /\ g \in Nat /\ sender.local \in Nat
      /\ receiver.local \in Nat /\ receiver.global \in Nat /\ Len(back) \in Nat
  BY <1>1, LenProperties DEF Endpoint
<1>3. /\ sender.local = receiver.global + M /\ old <= g
      /\ \A n \in 1..M : old <= chan[n].state /\ chan[n].state <= g
      /\ \A m, n \in 1..M : m <= n => chan[m].state <= chan[n].state
      /\ receiver.local = g + Len(back)
  BY DEF Channel
<1>4. \A n \in 1..M : chan[n].state \in Nat
  BY <1>1 DEF trans_t
<1>5. 1 \in 1..M /\ old <= msg.state /\ msg.state <= g /\ msg.state \in Nat
  <2>1. 1 \in 1..M
    BY <1>1
  <2> QED  BY <1>1, <1>3, <1>4, <2>1
<1>6. Receivable(receiver, msg)
  BY <1>2, <1>3, <1>5 DEF Receivable
<1>7. /\ new.local = receiver.local /\ new.global = receiver.global + 1
      /\ Oldest(new) = msg.state
  BY <1>2, <1>6, ReceiveProperties
<1> HIDE DEF new, msg, rest, M, g, old
<1>8. \A n \in 1..M - 1 : n + 1 \in 1..M
  BY <1>1
<1>9. Channel(sender, new, rest)
  <2>1. sender.local = new.global + (M - 1)
    BY <1>1, <1>2, <1>3, <1>7
  <2>2. \A n \in 1..M - 1 : /\ msg.state <= rest[n].state
                            /\ rest[n].state <= g
    <3> SUFFICES ASSUME NEW n \in 1..M - 1
                 PROVE  msg.state <= rest[n].state /\ rest[n].state <= g
      OBVIOUS
    <3>1. rest[n] = chan[n + 1] /\ n + 1 \in 1..M /\ 1 <= n + 1
      BY <1>1, <1>8
    <3> QED  BY <1>1, <1>3, <1>5, <3>1
  <2>3. \A m, n \in 1..M - 1 : m <= n => rest[m].state <= rest[n].state
    <3> SUFFICES ASSUME NEW m \in 1..M - 1, NEW n \in 1..M - 1, m <= n
                 PROVE  rest[m].state <= rest[n].state
      OBVIOUS
    <3>1. /\ rest[m] = chan[m + 1] /\ rest[n] = chan[n + 1]
          /\ m + 1 \in 1..M /\ n + 1 \in 1..M /\ m + 1 <= n + 1
      BY <1>1, <1>8
    <3> QED  BY <1>3, <3>1
  <2> QED  BY <1>1, <1>5, <1>7, <2>1, <2>2, <2>3 DEF Channel, g
<1>10. Channel(new, sender, back)
  <2>1. /\ Oldest(sender) <= receiver.global /\ Oldest(sender) \in Int
        /\ \A n \in 1..Len(back) : /\ Oldest(sender) <= back[n].state
                                   /\ back[n].state <= receiver.global
                                   /\ back[n].state \in Nat
        /\ \A m, n \in 1..Len(back) : m <= n => back[m].state <= back[n].state
    <3>1. \A n \in 1..Len(back) : back[n].state \in Nat
      <4>1. \A n \in 1..Len(back) : back[n] \in trans_t
        BY ElementOfSeq
      <4> QED  BY <4>1 DEF trans_t
    <3>2. Oldest(sender) \in Int
      BY <1>2, LenProperties DEF Oldest, Endpoint
    <3> QED  BY <3>1, <3>2 DEF Channel
  <2>2. Oldest(sender) <= receiver.global + 1
    BY <1>2, <2>1
  <2>3. \A n \in 1..Len(back) : back[n].state <= receiver.global + 1
    BY <1>2, <2>1
  <2> QED  BY <1>3, <1>7, <2>1, <2>2, <2>3 DEF Channel, g
<1> QED
  BY <1>1, <1>2, <1>6, <1>9, <1>10 DEF new, msg, rest
-----------------------------------------------------------------------------
(***************************************************************************)
(* A connection: two endpoints and both directions between them.           *)
(***************************************************************************)

\* Operations, and messages with operations, of the given authors.
OpsBy(ids) == { op \in op_t : op.id \in ids }
MessagesBy(ids) == { msg \in trans_t : msg.op.id \in ids }

\* Endpoint x performs the operations of ids and y those of others; each has
\* in its queue, and sends, the operations performed on its side.
Connected(x, y, sent, back, ids, others) ==
    /\ x \in Endpoint /\ y \in Endpoint
    /\ Contiguous(x) /\ Contiguous(y)
    /\ Channel(x, y, sent) /\ Channel(y, x, back)
    /\ x.outgoing \in Seq(MessagesBy(ids)) /\ sent \in Seq(MessagesBy(ids))
    /\ y.outgoing \in Seq(MessagesBy(others))
    /\ back \in Seq(MessagesBy(others))

LEMMA SeqOfSubset ==
    ASSUME NEW T, NEW S, S \subseteq T, NEW s \in Seq(S)
    PROVE  s \in Seq(T)
<1>1. Len(s) \in Nat /\ s \in [1..Len(s) -> S]
  BY LenProperties
<1>2. s \in [1..Len(s) -> T]
  BY <1>1
<1> QED  BY <1>1, <1>2, SeqDef

LEMMA ConnectedSend ==
    ASSUME NEW x, NEW y, NEW sent, NEW back, NEW ids, NEW others,
           Connected(x, y, sent, back, ids, others),
           NEW ops \in Seq(OpsBy(ids))
    PROVE  Connected(Generate(x, ops), y, sent \o Messages(x, ops), back,
                     ids, others)
<1> DEFINE new == Generate(x, ops)
           msgs == Messages(x, ops)
           S == MessagesBy(ids)
<1>1. /\ x \in Endpoint /\ y \in Endpoint /\ Contiguous(x) /\ Contiguous(y)
      /\ Channel(x, y, sent) /\ Channel(y, x, back)
      /\ x.outgoing \in Seq(S) /\ sent \in Seq(S)
      /\ y.outgoing \in Seq(MessagesBy(others))
      /\ back \in Seq(MessagesBy(others))
  BY DEF Connected
<1>2. OpsBy(ids) \subseteq op_t /\ S \subseteq trans_t
  BY DEF OpsBy, MessagesBy
<1>3. ops \in Seq(op_t) /\ sent \in Seq(trans_t)
  <2> HIDE DEF S
  <2> QED  BY <1>1, <1>2, SeqOfSubset
<1>4. Channel(new, y, sent \o msgs) /\ Channel(y, new, back)
  <2>1. Channel(new, y, sent \o msgs)
    BY <1>1, <1>3, ChannelSend
  <2>2. Channel(y, new, back)
    BY <1>1, <1>3, ChannelKeep
  <2> QED  BY <2>1, <2>2
<1>5. /\ new \in Endpoint /\ Contiguous(new)
      /\ msgs \in Seq(trans_t) /\ Len(msgs) = Len(ops)
      /\ \A n \in 1..Len(ops) : msgs[n].op = ops[n]
      /\ Len(new.outgoing) = Len(x.outgoing) + Len(ops)
      /\ \A n \in 1..Len(new.outgoing) :
            IF n <= Len(x.outgoing) THEN new.outgoing[n] = x.outgoing[n]
            ELSE new.outgoing[n].op = ops[n - Len(x.outgoing)]
  <2>1. /\ new \in Endpoint /\ Contiguous(new)
        /\ Len(new.outgoing) = Len(x.outgoing) + Len(ops)
        /\ \A n \in 1..Len(new.outgoing) :
             new.outgoing[n] =
                IF n <= Len(x.outgoing) THEN x.outgoing[n]
                ELSE [op |-> ops[n - Len(x.outgoing)],
                      state |-> x.local + n - Len(x.outgoing) - 1]
        /\ msgs \in Seq(trans_t) /\ Len(msgs) = Len(ops)
        /\ \A n \in 1..Len(ops) :
             msgs[n] = [op |-> ops[n], state |-> x.global]
    BY <1>1, <1>3, GenerateProperties
  <2> HIDE DEF new, msgs
  <2>2. ASSUME NEW n \in 1..Len(ops)
        PROVE  msgs[n].op = ops[n]
    <3>1. msgs[n] = [op |-> ops[n], state |-> x.global]
      BY <2>1
    <3> QED  BY ONLY <3>1
  <2>3. ASSUME NEW n \in 1..Len(new.outgoing)
        PROVE  IF n <= Len(x.outgoing) THEN new.outgoing[n] = x.outgoing[n]
               ELSE new.outgoing[n].op = ops[n - Len(x.outgoing)]
    <3>1. CASE n <= Len(x.outgoing)
      BY <2>1, <3>1
    <3>2. CASE ~(n <= Len(x.outgoing))
      <4>1. new.outgoing[n] =
                [op |-> ops[n - Len(x.outgoing)],
                 state |-> x.local + n - Len(x.outgoing) - 1]
        BY <2>1, <3>2
      <4>2. new.outgoing[n].op = ops[n - Len(x.outgoing)]
        BY ONLY <4>1
      <4> QED  BY <3>2, <4>2
    <3> QED  BY <3>1, <3>2
  <2> QED  BY <2>1, <2>2, <2>3
<1>6. /\ Len(ops) \in Nat /\ Len(x.outgoing) \in Nat
      /\ \A n \in 1..Len(ops) : ops[n] \in OpsBy(ids)
      /\ \A n \in 1..Len(x.outgoing) : x.outgoing[n] \in S
  <2> HIDE DEF S
  <2> QED  BY <1>1, LenProperties, ElementOfSeq
<1> HIDE DEF new, msgs
<1>7. msgs \in Seq(S)
  <2>1. \A n \in 1..Len(ops) : msgs[n] \in trans_t
    BY <1>5, ElementOfSeq
  <2>2. \A n \in 1..Len(ops) : msgs[n] \in S
    BY <1>5, <1>6, <2>1 DEF MessagesBy, OpsBy
  <2> HIDE DEF S
  <2>3. msgs \in [1..Len(ops) -> S]
    BY <1>5, <2>2, LenProperties
  <2> QED  BY <1>6, <2>3, SeqDef
<1>8. sent \o msgs \in Seq(S)
  <2> HIDE DEF S
  <2> QED  BY <1>1, <1>7, ConcatProperties
<1>9. new.outgoing \in Seq(S)
  <2> DEFINE N == Len(new.outgoing)
             M == Len(x.outgoing)
             out == new.outgoing
  <2>1. out \in Seq(trans_t)
    BY <1>5 DEF Endpoint
  <2>2. N \in Nat /\ \A n \in 1..N : out[n] \in trans_t
    BY <2>1, LenProperties, ElementOfSeq
  <2>3. ASSUME NEW n \in 1..N
        PROVE  out[n] \in S
    <3>1. CASE n <= M
      <4>1. n \in 1..M /\ out[n] = x.outgoing[n]
        BY <1>5, <1>6, <3>1
      <4> HIDE DEF S, out
      <4> QED  BY <1>6, <4>1
    <3>2. CASE ~(n <= M)
      <4>1. n - M \in 1..Len(ops) /\ out[n].op = ops[n - M]
        BY <1>5, <1>6, <3>2
      <4>2. ops[n - M] \in OpsBy(ids)
        BY <1>6, <4>1
      <4>3. out[n].op.id \in ids
        BY <4>1, <4>2 DEF OpsBy
      <4> HIDE DEF out
      <4> QED  BY <2>2, <4>3 DEF MessagesBy
    <3> QED  BY <3>1, <3>2
  <2> HIDE DEF S
  <2>4. out \in [1..N -> S]
    BY <2>1, <2>3, LenProperties
  <2> QED  BY <2>2, <2>4, SeqDef
<1> QED
  BY <1>1, <1>4, <1>5, <1>8, <1>9 DEF Connected, new, msgs

LEMMA ConnectedReceive ==
    ASSUME NEW x, NEW y, NEW sent, NEW back, NEW ids, NEW others,
           Connected(x, y, sent, back, ids, others), back # <<>>
    PROVE  /\ Receivable(x, Head(back)) /\ Head(back) \in MessagesBy(others)
           /\ Received(x, Head(back)) \in OpsBy(others)
           /\ Connected(Receive(x, Head(back)), y, sent, Tail(back),
                        ids, others)
<1> DEFINE msg == Head(back)
           rest == Tail(back)
           new == Receive(x, msg)
           S == MessagesBy(ids)
           T == MessagesBy(others)
<1>1. /\ x \in Endpoint /\ y \in Endpoint /\ Contiguous(x) /\ Contiguous(y)
      /\ Channel(x, y, sent) /\ Channel(y, x, back)
      /\ x.outgoing \in Seq(S) /\ sent \in Seq(S)
      /\ y.outgoing \in Seq(T) /\ back \in Seq(T)
  BY DEF Connected
<1>2. T \subseteq trans_t /\ S \subseteq trans_t
  BY DEF MessagesBy
<1>3. msg \in T /\ rest \in Seq(T)
  <2> HIDE DEF T
  <2> QED  BY <1>1, HeadTailProperties, EmptySeq
<1>4. /\ sent \in Seq(trans_t) /\ back \in Seq(trans_t) /\ msg \in trans_t
  <2> HIDE DEF S, T, msg
  <2> QED  BY <1>1, <1>2, <1>3, SeqOfSubset
<1>5. /\ Receivable(x, msg) /\ Channel(y, new, rest) /\ Channel(new, y, sent)
  BY <1>1, <1>4, ChannelReceive
<1> DEFINE queue == Concurrent(x, msg)
<1>6. /\ new \in Endpoint /\ Contiguous(new)
      /\ Len(new.outgoing) = Len(queue)
      /\ \A n \in 1..Len(queue) : new.outgoing[n].op \in Shifted(queue[n].op)
      /\ Received(x, msg) \in Shifted(msg.op)
  BY <1>1, <1>4, <1>5, ReceiveProperties
<1>7. \A n \in 1..Len(queue) : queue[n] \in S
  <2>1. \A n \in 1..Len(queue) :
            \E m \in 1..Len(x.outgoing) : queue[n] = x.outgoing[m]
    BY <1>1, <1>4, <1>5, ConcurrentProperties
  <2> HIDE DEF queue, S
  <2> QED  BY <1>1, <2>1, ElementOfSeq
<1> DEFINE out == new.outgoing
           N == Len(out)
<1>8. out \in Seq(trans_t)
  BY <1>6 DEF Endpoint
<1>9. N \in Nat /\ \A n \in 1..N : out[n] \in trans_t
  BY <1>8, LenProperties, ElementOfSeq
<1>10. \A n \in 1..N : out[n] \in S
  <2>1. \A n \in 1..N : out[n].op.id = queue[n].op.id
    BY <1>6 DEF Shifted
  <2> HIDE DEF out, queue
  <2>2. \A n \in 1..N : queue[n].op.id \in ids
    BY <1>6, <1>7 DEF MessagesBy, out
  <2> QED  BY <1>9, <2>1, <2>2 DEF MessagesBy
<1>11. out \in Seq(S)
  <2> HIDE DEF S, new
  <2>1. out \in [1..N -> S]
    BY <1>8, <1>10, LenProperties
  <2> QED  BY <1>9, <2>1, SeqDef
<1>12. Received(x, msg) \in OpsBy(others)
  <2>1. msg.op.id \in others
    BY <1>3 DEF MessagesBy
  <2> QED  BY <1>6, <2>1 DEF Shifted, OpsBy
<1> HIDE DEF new, msg, rest
<1>13. Connected(new, y, sent, rest, ids, others)
  BY <1>1, <1>3, <1>5, <1>6, <1>11 DEF Connected
<1> QED  BY <1>3, <1>5, <1>12, <1>13 DEF new, msg, rest

-----------------------------------------------------------------------------
(* All users. *)

\* The connection of user u.
Link(u) ==
    /\ Connected(client[u], server[u], to_server[u], to_client[u],
                 {u}, UserId \ {u})
    /\ local_ops[u] \in Seq(OpsBy({u}))

JupiterInv == TypeOK /\ \A u \in UserId : Link(u)
-----------------------------------------------------------------------------
(* Facts about single operators. *)

LEMMA ConnectedSymmetric ==
    ASSUME NEW x, NEW y, NEW sent, NEW back, NEW ids, NEW others
    PROVE  Connected(x, y, sent, back, ids, others)
            <=> Connected(y, x, back, sent, others, ids)
BY DEF Connected

\* Foreign takes the entries one by one, and keeps those of the others.
ForeignSteps(u, entries, found) ==
    /\ found \in [0..Len(entries) -> Seq(OpsBy(UserId \ {u}))]
    /\ found[0] = <<>> /\ Foreign(u, entries) = found[Len(entries)]
    /\ \A n \in 1..Len(entries) :
         found[n] = IF entries[n].id = u THEN found[n - 1]
                    ELSE Append(found[n - 1], entries[n])

LEMMA ForeignByStep ==
    ASSUME NEW u \in UserId, NEW entries \in Seq(op_t)
    PROVE  \E found : ForeignSteps(u, entries, found)
<1> DEFINE N == Len(entries)
           S == Seq(OpsBy(UserId \ {u}))
           Add(n, s) == IF entries[n].id = u THEN s ELSE Append(s, entries[n])
           Eq(f) == f = [n \in 0..N |->
                            IF n = 0 THEN <<>> ELSE Add(n, f[n - 1])]
           found == CHOOSE f : Eq(f)
<1>1. N \in Nat /\ \A n \in 1..N : entries[n] \in op_t
  BY LenProperties, ElementOfSeq
<1>2. \A n \in 1..N : entries[n].id # u => entries[n] \in OpsBy(UserId \ {u})
  BY <1>1 DEF OpsBy, op_t
<1>3. \A s \in S : \A n \in 1..N : Add(n, s) \in S
  <2> SUFFICES ASSUME NEW s \in S, NEW n \in 1..N, entries[n].id # u
               PROVE  Append(s, entries[n]) \in S
    OBVIOUS
  <2> QED  BY <1>2, AppendProperties
<1>4. <<>> \in S
  BY EmptySeq
<1>5. Foreign(u, entries) = found[N]
  BY DEF Foreign
<1> HIDE DEF S
<1>6. PICK f \in [0..N -> S] : f[0] = <<>> /\ \A n \in 1..N : f[n] = Add(n, f[n - 1])
  <2> HIDE DEF Add
  <2> DEFINE step == [n \in 1..N |-> [s \in S |-> Add(n, s)]]
  <2>1. step \in [1..N -> [S -> S]]
    BY <1>3
  <2>2. \A n \in 1..N : \A s \in S : step[n][s] = Add(n, s)
    OBVIOUS
  <2> HIDE DEF step
  <2>3. PICK f \in [0..N -> S] :
            f[0] = <<>> /\ \A n \in 1..N : f[n] = step[n][f[n - 1]]
    <3>1. Recursive(S, <<>>, N, step)
      <4> HIDE DEF N
      <4> QED  BY <1>1, <1>4, <2>1, Recursion
    <3> QED  BY <3>1 DEF Recursive
  <2>4. \A n \in 1..N : f[n] = Add(n, f[n - 1])
    <3>1. \A n \in 1..N : f[n - 1] \in S
      BY <1>1, <2>3
    <3> QED  BY <2>2, <2>3, <3>1
  <2> QED  BY <2>3, <2>4
<1> HIDE DEF Add
<1>7. Eq(found)
  <2>1. Eq(f)
    BY <1>1, <1>6
  <2> HIDE DEF Eq
  <2> QED  BY <2>1
<1>8. /\ found[0] = <<>> /\ \A n \in 1..N : found[n] = Add(n, found[n - 1])
      /\ found = [n \in 0..N |-> found[n]]
  <2>1. found = [n \in 0..N |-> IF n = 0 THEN <<>> ELSE Add(n, found[n - 1])]
    BY <1>7
  <2> HIDE DEF found, N
  <2> QED  BY <1>1, <2>1
<1> HIDE DEF found, Eq
<1> DEFINE T == { k \in Nat : k <= N => found[k] \in S }
<1>9. 0 \in T
  BY <1>4, <1>8
<1>10. ASSUME NEW k \in Nat, k \in T, k + 1 <= N
       PROVE  found[k + 1] \in S
  <2>1. k + 1 \in 1..N /\ k + 1 - 1 = k
    BY <1>1, <1>10
  <2>2. found[k] \in S
    BY <1>1, <1>10, <2>1
  <2>3. found[k + 1] = Add(k + 1, found[k])
    BY <1>8, <2>1
  <2> QED  BY <1>3, <2>1, <2>2, <2>3 DEF Add
<1>11. \A k \in Nat : k \in T => k + 1 \in T
  BY <1>10
<1> HIDE DEF T
<1>12. \A k \in Nat : k \in T
  BY <1>9, <1>11, SetInduction
<1>13. found \in [0..N -> S]
  <2>1. \A k \in 0..N : found[k] \in S
    BY <1>1, <1>12 DEF T
  <2> QED  BY <1>8, <2>1
<1> QED  BY <1>5, <1>8, <1>13 DEF ForeignSteps, Add, S

\* Nothing that localProcess hands to the algorithm was written by its own
\* process, whatever is in the log.
LEMMA ForeignType ==
    ASSUME NEW u \in UserId, NEW entries \in Seq(op_t)
    PROVE  Foreign(u, entries) \in Seq(OpsBy(UserId \ {u}))
<1>1. PICK found : ForeignSteps(u, entries, found)
  BY ForeignByStep
<1>2. Len(entries) \in 0..Len(entries)
  BY LenProperties
<1> QED  BY <1>1, <1>2 DEF ForeignSteps

\* What is in a connection has the right type.
LEMMA ConnectedType ==
    ASSUME NEW x, NEW y, NEW sent, NEW back, NEW ids, NEW others,
           Connected(x, y, sent, back, ids, others)
    PROVE  /\ x \in Endpoint /\ y \in Endpoint
           /\ sent \in Seq(trans_t) /\ back \in Seq(trans_t)
<1>1. MessagesBy(ids) \subseteq trans_t /\ MessagesBy(others) \subseteq trans_t
  BY DEF MessagesBy
<1> QED  BY <1>1, SeqOfSubset DEF Connected

\* A message that can be received is transformed against exactly the
\* operations its sender had not received.
LEMMA ReceivableIsConcurrent ==
    ASSUME NEW x, NEW y, NEW sent, NEW back, NEW ids, NEW others,
           Connected(x, y, sent, back, ids, others), back # <<>>
    PROVE  IsConcurrent(x, Head(back))
<1>1. Receivable(x, Head(back)) /\ Head(back) \in trans_t
  BY ConnectedReceive DEF MessagesBy
<1>2. x \in Endpoint /\ Contiguous(x)
  BY DEF Connected
<1> QED  BY <1>1, <1>2, ConcurrentProperties DEF IsConcurrent
-----------------------------------------------------------------------------
LEMMA JupiterSafety == JupiterInv => TypeOK /\ ContextMatches /\ IDsDiffer
<1> SUFFICES ASSUME JupiterInv
             PROVE  ContextMatches /\ IDsDiffer
  BY DEF JupiterInv
<1> SUFFICES ASSUME NEW u \in UserId
             PROVE  /\ to_server[u] # <<>> =>
                        IsConcurrent(server[u], Head(to_server[u]))
                    /\ to_client[u] # <<>> =>
                        IsConcurrent(client[u], Head(to_client[u]))
                    /\ \A n \in 1..Len(server[u].outgoing) :
                        server[u].outgoing[n].op.id # u
                    /\ \A n \in 1..Len(to_client[u]) :
                        to_client[u][n].op.id # u
                    /\ \A n \in 1..Len(client[u].outgoing) :
                        client[u].outgoing[n].op.id = u
  BY DEF ContextMatches, IDsDiffer
<1>1. Connected(client[u], server[u], to_server[u], to_client[u],
                {u}, UserId \ {u})
  BY DEF JupiterInv, Link
<1>2. Connected(server[u], client[u], to_client[u], to_server[u],
                UserId \ {u}, {u})
  BY <1>1, ConnectedSymmetric
<1>3. ASSUME NEW s, NEW ids, s \in Seq(MessagesBy(ids))
      PROVE  \A n \in 1..Len(s) : s[n].op.id \in ids
  <2>1. \A n \in 1..Len(s) : s[n] \in MessagesBy(ids)
    BY <1>3, ElementOfSeq
  <2> QED  BY <2>1 DEF MessagesBy
<1>4. /\ server[u].outgoing \in Seq(MessagesBy(UserId \ {u}))
      /\ to_client[u] \in Seq(MessagesBy(UserId \ {u}))
      /\ client[u].outgoing \in Seq(MessagesBy({u}))
  BY <1>1 DEF Connected
<1>5. /\ \A n \in 1..Len(server[u].outgoing) :
            server[u].outgoing[n].op.id \in UserId \ {u}
      /\ \A n \in 1..Len(to_client[u]) :
            to_client[u][n].op.id \in UserId \ {u}
      /\ \A n \in 1..Len(client[u].outgoing) :
            client[u].outgoing[n].op.id \in {u}
  BY <1>3, <1>4
<1>6. /\ to_server[u] # <<>> => IsConcurrent(server[u], Head(to_server[u]))
      /\ to_client[u] # <<>> => IsConcurrent(client[u], Head(to_client[u]))
  BY <1>1, <1>2, ReceivableIsConcurrent
<1> QED  BY <1>5, <1>6

LEMMA JupiterInit == Init => JupiterInv
<1> SUFFICES ASSUME Init
             PROVE  JupiterInv
  OBVIOUS
<1>1. NewEndpoint \in Endpoint
  BY EmptySeq DEF NewEndpoint, Endpoint
<1>2. TypeOK
  <2>1. last_id \in 0..MaxUsers
    BY MaxUsersType DEF Init
  <2>2. buf \in Seq(op_t) /\ \A u \in UserId : readfd[u] <= Len(buf)
    BY EmptySeq DEF Init
  <2>3. /\ \A S : <<>> \in Seq(S)
        /\ serving = {} /\ editing = {}
        /\ readfd \in [UserId -> Nat]
        /\ server \in [UserId -> Endpoint] /\ client \in [UserId -> Endpoint]
        /\ edit_file \in [UserId -> Text]
    BY <1>1, InitialTextAssumption, EmptySeq DEF Init
  <2>4. /\ local_ops \in [UserId -> Seq(op_t)]
        /\ to_server \in [UserId -> Seq(trans_t)]
        /\ to_client \in [UserId -> Seq(trans_t)]
    BY <2>3 DEF Init
  <2> QED  BY <2>1, <2>2, <2>3, <2>4 DEF TypeOK
<1>3. ASSUME NEW u \in UserId
      PROVE  Link(u)
  <2>1. /\ client[u] = NewEndpoint /\ server[u] = NewEndpoint
        /\ to_server[u] = <<>> /\ to_client[u] = <<>> /\ local_ops[u] = <<>>
    BY DEF Init
  <2>2. /\ NewEndpoint.outgoing = <<>> /\ Len(NewEndpoint.outgoing) = 0
        /\ NewEndpoint.local = 0 /\ NewEndpoint.global = 0 /\ Len(<<>>) = 0
    BY DEF NewEndpoint
  <2>3. Contiguous(NewEndpoint) /\ Oldest(NewEndpoint) = 0
    <3>1. \A e : Len(e.outgoing) = 0 /\ e.local = 0
                    => Contiguous(e) /\ Oldest(e) = 0
      BY DEF Contiguous, Oldest
    <3> QED  BY <2>2, <3>1
  <2>4. Channel(NewEndpoint, NewEndpoint, <<>>)
    BY <2>2, <2>3 DEF Channel
  <2> QED  BY <1>1, <2>1, <2>2, <2>3, <2>4, EmptySeq DEF Link, Connected
<1> QED  BY <1>2, <1>3 DEF JupiterInv

\* What the steps of a connection leave alone.
LEMMA LinkKept ==
    ASSUME NEW u \in UserId, Link(u),
           client'[u] = client[u], server'[u] = server[u],
           to_server'[u] = to_server[u], to_client'[u] = to_client[u],
           local_ops'[u] = local_ops[u]
    PROVE  Link(u)'
BY DEF Link

LEMMA JupiterStep == JupiterInv /\ [Next]_vars => JupiterInv'
<1> SUFFICES ASSUME JupiterInv, [Next]_vars
             PROVE  JupiterInv'
  OBVIOUS
<1>1. /\ TypeOK /\ \A u \in UserId : Link(u)
  BY DEF JupiterInv
<1>2. /\ last_id \in 0..MaxUsers /\ buf \in Seq(op_t)
      /\ serving \subseteq 1..last_id /\ editing \subseteq 1..last_id
      /\ readfd \in [UserId -> Nat] /\ edit_file \in [UserId -> Text]
      /\ server \in [UserId -> Endpoint] /\ client \in [UserId -> Endpoint]
      /\ local_ops \in [UserId -> Seq(op_t)]
      /\ to_server \in [UserId -> Seq(trans_t)]
      /\ to_client \in [UserId -> Seq(trans_t)]
      /\ \A v \in UserId : readfd[v] <= Len(buf)
  BY <1>1 DEF TypeOK
<1>3. CASE UNCHANGED vars
  BY <1>1, <1>3 DEF vars, serverVars, clientVars, JupiterInv, TypeOK, Link
<1>4. ASSUME NEW u \in UserId, Login(u)
      PROVE  JupiterInv'
  <2>1. TypeOK'
    <3>1. /\ last_id' = u /\ u = last_id + 1 /\ serving' = serving \cup {u}
          /\ editing' = editing \cup {u}
          /\ UNCHANGED <<buf, readfd, server, edit_file, local_ops, client,
                         to_server, to_client>>
      BY <1>4 DEF Login
    <3>2. last_id' \in 0..MaxUsers
      BY <1>4, <3>1, MaxUsersType DEF UserId
    <3>3. 1..last_id \subseteq 1..last_id' /\ u \in 1..last_id'
      BY <1>2, <3>1
    <3>4. serving' \subseteq 1..last_id' /\ editing' \subseteq 1..last_id'
      BY <1>2, <3>1, <3>3
    <3> QED  BY <1>2, <3>1, <3>2, <3>4 DEF TypeOK
  <2>2. \A v \in UserId : Link(v)'
    BY <1>1, <1>4 DEF Login, Link
  <2> QED  BY <2>1, <2>2 DEF JupiterInv
<1>5. ASSUME NEW u \in UserId, Edit(u)
      PROVE  JupiterInv'
  <2>1. PICK op \in UserOps(u) :
            /\ edit_file' = [edit_file EXCEPT ![u] = writeLocal(@, op)]
            /\ local_ops' = [local_ops EXCEPT ![u] = Append(@, op)]
    BY <1>5 DEF Edit
  <2>2. UNCHANGED <<last_id, buf, serving, readfd, server, editing, client,
                    to_server, to_client>>
    BY <1>5 DEF Edit, serverVars
  <2>3. op \in op_t /\ op.id = u
    <3>1. Len(edit_file[u]) \in Nat
      BY <1>2, LenProperties DEF Text
    <3> QED  BY <3>1 DEF UserOps, op_t, NOOP, CH_INSERT, CH_DELETE
  <2>4. op \in OpsBy({u})
    BY <2>3 DEF OpsBy
  <2>5. writeLocal(edit_file[u], op) \in Text
    BY <1>2, <2>3, WriteType
  <2>6. Append(local_ops[u], op) \in Seq(OpsBy({u}))
    BY <1>1, <2>4, AppendProperties DEF Link
  <2>7. Append(local_ops[u], op) \in Seq(op_t)
    BY <1>2, <2>3, AppendProperties
  <2>8. TypeOK'
    BY <1>2, <2>1, <2>2, <2>5, <2>7 DEF TypeOK
  <2>9. \A v \in UserId : Link(v)'
    BY <1>1, <1>2, <2>1, <2>2, <2>6 DEF Link
  <2> QED  BY <2>8, <2>9 DEF JupiterInv
<1>6. ASSUME NEW u \in UserId, WriteOp(u)
      PROVE  JupiterInv'
  <2> DEFINE op == Head(local_ops[u])
             ops == <<op>>
             rest == Tail(local_ops[u])
             new == Generate(client[u], ops)
             sent == to_server[u] \o Messages(client[u], ops)
  <2>1. /\ to_server' = [to_server EXCEPT ![u] = sent]
        /\ client' = [client EXCEPT ![u] = new]
        /\ local_ops' = [local_ops EXCEPT ![u] = rest]
        /\ UNCHANGED <<last_id, buf, serving, readfd, server, editing,
                       edit_file, to_client>>
    BY <1>6 DEF WriteOp, serverVars
  <2>2. op \in OpsBy({u}) /\ rest \in Seq(OpsBy({u}))
    BY <1>1, <1>6, HeadTailProperties, EmptySeq DEF Link, WriteOp
  <2>3. ops \in Seq(OpsBy({u}))
    BY <2>2
  <2>4. Connected(new, server[u], sent, to_client[u], {u}, UserId \ {u})
    <3>1. Connected(client[u], server[u], to_server[u], to_client[u],
                    {u}, UserId \ {u})
      BY <1>1 DEF Link
    <3> HIDE DEF ops
    <3> QED  BY <2>3, <3>1, ConnectedSend
  <2>5. rest \in Seq(op_t)
    BY <2>2, SeqOfSubset DEF OpsBy
  <2>6. new \in Endpoint /\ sent \in Seq(trans_t)
    BY <2>4, ConnectedType
  <2> HIDE DEF rest, new, sent
  <2>7. TypeOK'
    BY <1>2, <2>1, <2>5, <2>6 DEF TypeOK
  <2>8. Link(u)'
    BY <1>2, <2>1, <2>2, <2>4 DEF Link
  <2>9. \A v \in UserId \ {u} : Link(v)'
    BY <1>1, <1>2, <2>1, LinkKept
  <2> QED  BY <2>7, <2>8, <2>9 DEF JupiterInv
<1>7. ASSUME NEW u \in UserId, ReadServer(u)
      PROVE  JupiterInv'
  <2> DEFINE msg == Head(to_client[u])
             op == Received(client[u], msg)
             new == Receive(client[u], msg)
             rest == Tail(to_client[u])
  <2>1. /\ edit_file' = [edit_file EXCEPT ![u] = writeLocal(@, op)]
        /\ client' = [client EXCEPT ![u] = new]
        /\ to_client' = [to_client EXCEPT ![u] = rest]
        /\ UNCHANGED <<last_id, buf, serving, readfd, server, editing,
                       local_ops, to_server>>
    BY <1>7 DEF ReadServer, serverVars
  <2>2. /\ Connected(new, server[u], to_server[u], rest, {u}, UserId \ {u})
        /\ op \in OpsBy(UserId \ {u})
    <3>1. Connected(client[u], server[u], to_server[u], to_client[u],
                    {u}, UserId \ {u})
      BY <1>1 DEF Link
    <3> QED  BY <1>7, <3>1, ConnectedReceive DEF ReadServer
  <2>3. new \in Endpoint /\ rest \in Seq(trans_t)
    BY <2>2, ConnectedType
  <2>4. writeLocal(edit_file[u], op) \in Text
    BY <1>2, <2>2, WriteType DEF OpsBy
  <2> HIDE DEF op, rest, new
  <2>5. TypeOK'
    BY <1>2, <2>1, <2>3, <2>4 DEF TypeOK
  <2>6. Link(u)'
    BY <1>1, <1>2, <2>1, <2>2 DEF Link
  <2>7. \A v \in UserId \ {u} : Link(v)'
    BY <1>1, <1>2, <2>1, LinkKept
  <2> QED  BY <2>5, <2>6, <2>7 DEF JupiterInv
<1>8. ASSUME NEW u \in UserId, LocalProcess(u)
      PROVE  JupiterInv'
  <2> DEFINE ops == Foreign(u, <<buf[readfd[u] + 1]>>)
             new == Generate(server[u], ops)
             sent == to_client[u] \o Messages(server[u], ops)
  <2>1. /\ readfd[u] < Len(buf)
        /\ to_client' = [to_client EXCEPT ![u] = sent]
        /\ server' = [server EXCEPT ![u] = new]
        /\ readfd' = [readfd EXCEPT ![u] = @ + 1]
        /\ UNCHANGED <<last_id, buf, serving, editing, edit_file, local_ops,
                       client, to_server>>
    BY <1>8 DEF LocalProcess, clientVars
  <2>2. readfd[u] \in Nat /\ Len(buf) \in Nat
    BY <1>2, LenProperties
  <2>3. ops \in Seq(OpsBy(UserId \ {u}))
    <3>1. readfd[u] + 1 \in 1..Len(buf)
      BY <2>1, <2>2
    <3>2. buf[readfd[u] + 1] \in op_t
      BY <1>2, <3>1, ElementOfSeq
    <3>3. <<buf[readfd[u] + 1]>> \in Seq(op_t)
      BY <3>2
    <3> QED  BY <3>3, ForeignType
  <2>4. Connected(client[u], new, to_server[u], sent, {u}, UserId \ {u})
    <3>1. Connected(server[u], client[u], to_client[u], to_server[u],
                    UserId \ {u}, {u})
      BY <1>1, ConnectedSymmetric DEF Link
    <3>2. Connected(new, client[u], sent, to_server[u], UserId \ {u}, {u})
      <4> HIDE DEF ops
      <4> QED  BY <2>3, <3>1, ConnectedSend
    <3> HIDE DEF new, sent
    <3> QED  BY <3>2, ConnectedSymmetric
  <2>5. new \in Endpoint /\ sent \in Seq(trans_t)
    BY <2>4, ConnectedType
  <2> HIDE DEF ops, new, sent
  <2>6. /\ readfd' \in [UserId -> Nat]
        /\ \A v \in UserId : readfd'[v] <= Len(buf)
    BY <1>2, <2>1, <2>2
  <2>7. TypeOK'
    BY <1>2, <2>1, <2>5, <2>6 DEF TypeOK
  <2>8. Link(u)'
    BY <1>1, <1>2, <2>1, <2>4 DEF Link
  <2>9. \A v \in UserId \ {u} : Link(v)'
    BY <1>1, <1>2, <2>1, LinkKept
  <2> QED  BY <2>7, <2>8, <2>9 DEF JupiterInv
<1>9. ASSUME NEW u \in UserId, RemoteProcess(u)
      PROVE  JupiterInv'
  <2> DEFINE msg == Head(to_server[u])
             ops == Foreign(u, Unread(u))
             current == Generate(server[u], ops)
             sent == to_client[u] \o Messages(server[u], ops)
             new == Receive(current, msg)
             op == Received(current, msg)
             rest == Tail(to_server[u])
  <2>1. /\ to_server[u] # <<>>
        /\ to_client' = [to_client EXCEPT ![u] = sent]
        /\ buf' = Append(buf, op)
        /\ server' = [server EXCEPT ![u] = new]
        /\ readfd' = [readfd EXCEPT ![u] = Len(buf)]
        /\ to_server' = [to_server EXCEPT ![u] = rest]
        /\ UNCHANGED <<last_id, serving, editing, edit_file, local_ops,
                       client>>
    BY <1>9 DEF RemoteProcess, clientVars
  <2>2. readfd[u] \in Nat /\ Len(buf) \in Nat
    BY <1>2, LenProperties
  <2>3. ops \in Seq(OpsBy(UserId \ {u}))
    <3>1. Unread(u) \in Seq(op_t)
      <4>1. \A n \in readfd[u] + 1..Len(buf) : buf[n] \in op_t
        <5>1. \A n \in readfd[u] + 1..Len(buf) : n \in 1..Len(buf)
          BY <2>2
        <5> QED  BY <1>2, <5>1, ElementOfSeq
      <4>2. readfd[u] + 1 \in Int /\ Len(buf) \in Int
        BY <2>2
      <4> QED  BY <1>2, <4>1, <4>2, SubSeqProperties DEF Unread
    <3> QED  BY <3>1, ForeignType
  <2>4. Connected(current, client[u], sent, to_server[u],
                  UserId \ {u}, {u})
    <3>1. Connected(server[u], client[u], to_client[u], to_server[u],
                    UserId \ {u}, {u})
      BY <1>1, ConnectedSymmetric DEF Link
    <3> HIDE DEF ops
    <3> QED  BY <2>3, <3>1, ConnectedSend
  <2> HIDE DEF ops, current, sent
  <2>5. /\ op \in OpsBy({u})
        /\ Connected(new, client[u], sent, rest, UserId \ {u}, {u})
    BY <2>1, <2>4, ConnectedReceive
  <2> HIDE DEF new, rest, op
  <2>6. Connected(client[u], new, rest, sent, {u}, UserId \ {u})
    BY <2>5, ConnectedSymmetric
  <2>7. /\ new \in Endpoint /\ sent \in Seq(trans_t)
        /\ rest \in Seq(trans_t)
    BY <2>6, ConnectedType
  <2>8. /\ Append(buf, op) \in Seq(op_t)
        /\ Len(Append(buf, op)) = Len(buf) + 1
    BY <1>2, <2>5, AppendProperties DEF OpsBy
  <2>9. /\ readfd' \in [UserId -> Nat]
        /\ \A v \in UserId : readfd'[v] <= Len(buf')
    BY <1>2, <2>1, <2>2, <2>8
  <2>10. TypeOK'
    BY <1>2, <2>1, <2>7, <2>8, <2>9 DEF TypeOK
  <2>11. Link(u)'
    BY <1>1, <1>2, <2>1, <2>6 DEF Link
  <2>12. \A v \in UserId \ {u} : Link(v)'
    BY <1>1, <1>2, <2>1, LinkKept
  <2> QED  BY <2>10, <2>11, <2>12 DEF JupiterInv
<1>10. ASSUME NEW u \in UserId, ClientExit(u) \/ ServerExit(u)
       PROVE  JupiterInv'
  <2>1. /\ editing' \subseteq editing /\ serving' \subseteq serving
        /\ UNCHANGED <<last_id, buf, readfd, server, edit_file, local_ops,
                       client, to_server, to_client>>
    BY <1>10 DEF ClientExit, ServerExit, clientVars, serverVars
  <2>2. TypeOK'
    BY <1>2, <2>1 DEF TypeOK
  <2>3. \A v \in UserId : Link(v)'
    BY <1>1, <2>1 DEF Link
  <2> QED  BY <2>2, <2>3 DEF JupiterInv
<1> QED
  BY <1>3, <1>4, <1>5, <1>6, <1>7, <1>8, <1>9, <1>10 DEF Next

LEMMA JupiterInvariant == Spec => []JupiterInv
BY JupiterInit, JupiterStep, PTL DEF Spec

\* Type correctness, and with it: every counter and offset is a natural.
THEOREM JupiterType == Spec => []TypeOK
BY JupiterInvariant, JupiterSafety, PTL

\* Receive discards exactly what the sender of a message had received, for
\* every number of users, every text and every interleaving.
THEOREM JupiterContext == Spec => []ContextMatches
BY JupiterInvariant, JupiterSafety, PTL

\* Two operations that xform compares never have the same author.
THEOREM JupiterIDs == Spec => []IDsDiffer
BY JupiterInvariant, JupiterSafety, PTL
-----------------------------------------------------------------------------
(***************************************************************************)
(* Two endpoints x and y perform operations concurrently.  Lay them out on *)
(* a grid: the point (i, j) is the situation after the first i operations  *)
(* of x and the first j of y.  a[i][j] is the operation i of x, counted    *)
(* from 0, as it reads at (i, j), and b[j][i] the operation j of y there.  *)
(* Around a square, each is transformed against the other.                 *)
(***************************************************************************)
Square(a, b, i, j) ==
    /\ a[i][j + 1] = Shift(a[i][j], b[j][i])
    /\ b[j][i + 1] = Shift(b[j][i], a[i][j])

\* The messages on their way from x to y and the queue of x are on the grid:
\* a message where its author had received as much as it says, and with the
\* squares from there to the last operation of y; the queue where x is now.
Rows(x, y, sent, a, b) ==
    /\ \A n \in 1..Len(sent) :
         /\ a[y.global + n - 1][sent[n].state] = sent[n].op
         /\ \A j \in sent[n].state..y.local - 1 :
                Square(a, b, y.global + n - 1, j)
    /\ \A n \in 1..Len(x.outgoing) :
         x.outgoing[n].op = a[Oldest(x) + n - 1][x.global]

\* Performing op on t is silent and leads to next.
Leads(t, op, ids, next) ==
    op \in OpsBy(ids) /\ Silent(t, op) /\ next = writeLocal(t, op)

\* The texts between what both endpoints have received and all that was
\* performed: T[i][j] is reached along every path.
Texts(x, y, ids, others, a, b, T) ==
    \A i \in y.global..x.local, j \in x.global..y.local :
        /\ T[i][j] \in Text
        /\ i < x.local => Leads(T[i][j], a[i][j], ids, T[i + 1][j])
        /\ j < y.local => Leads(T[i][j], b[j][i], others, T[i][j + 1])

Grid(x, y, sent, back, ids, others, a, b, T) ==
    /\ Connected(x, y, sent, back, ids, others)
    /\ Rows(x, y, sent, a, b) /\ Rows(y, x, back, b, a)
    /\ Texts(x, y, ids, others, a, b, T)

Flip(T) == [j \in Nat |-> [i \in Nat |-> T[i][j]]]

\* The grid seen from the other side.
LEMMA GridFlip ==
    ASSUME NEW x, NEW y, NEW sent, NEW back, NEW ids, NEW others,
           NEW a, NEW b, NEW T,
           Grid(x, y, sent, back, ids, others, a, b, T)
    PROVE  Grid(y, x, back, sent, others, ids, b, a, Flip(T))
<1>1. Connected(y, x, back, sent, others, ids)
  BY ConnectedSymmetric DEF Grid
<1>2. /\ x.local \in Nat /\ x.global \in Nat
      /\ y.local \in Nat /\ y.global \in Nat
  BY DEF Grid, Connected, Endpoint
<1>3. \A i, j \in Nat : Flip(T)[j][i] = T[i][j]
  BY DEF Flip
<1>4. Texts(y, x, others, ids, b, a, Flip(T))
  <2> SUFFICES ASSUME NEW j \in x.global..y.local, NEW i \in y.global..x.local
               PROVE  /\ Flip(T)[j][i] \in Text
                      /\ j < y.local => Leads(Flip(T)[j][i], b[j][i], others,
                                              Flip(T)[j + 1][i])
                      /\ i < x.local => Leads(Flip(T)[j][i], a[i][j], ids,
                                              Flip(T)[j][i + 1])
    BY DEF Texts
  <2>1. i \in Nat /\ j \in Nat /\ i + 1 \in Nat /\ j + 1 \in Nat
    BY <1>2
  <2>2. /\ Flip(T)[j][i] = T[i][j] /\ Flip(T)[j + 1][i] = T[i][j + 1]
        /\ Flip(T)[j][i + 1] = T[i + 1][j]
    BY <1>3, <2>1
  <2> QED  BY <2>2 DEF Grid, Texts
<1> QED  BY <1>1, <1>4 DEF Grid

\* Receive, at x, goes one step along the grid.
LEMMA RowsReceive ==
    ASSUME NEW x, NEW y, NEW sent, NEW back, NEW ids, NEW others,
           Connected(x, y, sent, back, ids, others), back # <<>>,
           NEW a, NEW b, Rows(x, y, sent, a, b), Rows(y, x, back, b, a)
    PROVE  LET new == Receive(x, Head(back))
           IN  /\ Received(x, Head(back)) = b[x.global][x.local]
               /\ new.local = x.local /\ new.global = x.global + 1
               /\ Rows(new, y, sent, a, b) /\ Rows(y, new, Tail(back), b, a)
<1> DEFINE msg == Head(back)
           new == Receive(x, msg)
           rest == Tail(back)
           queue == Concurrent(x, msg)
           N == Len(queue)
           path == Path(msg.op, queue)
           g == x.global
           s == msg.state
<1>1. /\ x \in Endpoint /\ y \in Endpoint /\ Contiguous(x)
      /\ msg \in trans_t /\ Receivable(x, msg)
      /\ back \in Seq(trans_t) /\ sent \in Seq(trans_t)
  <2>1. Receivable(x, msg) /\ msg \in trans_t
    BY ConnectedReceive DEF MessagesBy
  <2>2. x \in Endpoint /\ y \in Endpoint /\ Contiguous(x)
    BY DEF Connected
  <2> QED  BY <2>1, <2>2, ConnectedType
<1>2. /\ x.local \in Nat /\ g \in Nat /\ s \in Nat /\ msg.op \in op_t
      /\ y.local \in Nat /\ y.global \in Nat /\ x.outgoing \in Seq(trans_t)
      /\ s <= x.local /\ Oldest(x) \in Int
  <2>1. x.outgoing \in Seq(trans_t)
    BY <1>1 DEF Endpoint
  <2>2. Len(x.outgoing) \in Nat
    BY <2>1, LenProperties
  <2> QED  BY <1>1, <2>1, <2>2 DEF Endpoint, trans_t, Receivable, Oldest
<1>3. /\ queue \in Seq(trans_t) /\ N = x.local - s
      /\ \A n \in 1..N :
            /\ n + (s - Oldest(x)) \in 1..Len(x.outgoing)
            /\ queue[n] = x.outgoing[n + (s - Oldest(x))]
            /\ queue[n].state = s + n - 1
  BY <1>1, ConcurrentProperties
<1>4. /\ path[0] = msg.op
      /\ \A n \in 1..N : path[n] = Shift(path[n - 1], queue[n].op)
  BY <1>2, <1>3, PathProperties
<1>5. /\ new.local = x.local /\ new.global = g + 1 /\ Oldest(new) = s
      /\ Len(new.outgoing) = N
  BY <1>1, ReceiveProperties
<1>6. /\ Received(x, msg) = path[N]
      /\ \A n \in 1..N : new.outgoing[n].op = Shift(queue[n].op, path[n - 1])
  BY DEF Received, Receive
<1>7. /\ Len(back) \in Nat /\ Len(back) >= 1 /\ msg = back[1]
      /\ Len(rest) = Len(back) - 1
      /\ \A n \in 1..Len(rest) : rest[n] = back[n + 1] /\ n + 1 \in 1..Len(back)
  BY <1>1
<1>8. /\ b[g][s] = msg.op
      /\ \A i \in s..x.local - 1 : Square(b, a, g, i)
  <2>1. 1 \in 1..Len(back) /\ g + 1 - 1 = g
    BY <1>2, <1>7
  <2>2. /\ b[g + 1 - 1][back[1].state] = back[1].op
        /\ \A i \in back[1].state..x.local - 1 : Square(b, a, g + 1 - 1, i)
    BY <2>1 DEF Rows
  <2> QED  BY <1>7, <2>1, <2>2
<1> HIDE DEF new, path, queue, rest, msg, g, s
<1>9. \A n \in 1..N : queue[n].op = a[s + n - 1][g]
  <2> SUFFICES ASSUME NEW n \in 1..N
               PROVE  queue[n].op = a[s + n - 1][g]
    OBVIOUS
  <2> DEFINE m == n + (s - Oldest(x))
  <2>1. m \in 1..Len(x.outgoing) /\ queue[n] = x.outgoing[m]
    BY <1>3
  <2>2. Oldest(x) + m - 1 = s + n - 1
    BY <1>2, <1>3
  <2>3. x.outgoing[m].op = a[Oldest(x) + m - 1][g]
    BY <2>1 DEF Rows, g
  <2> QED  BY <2>1, <2>2, <2>3
<1>10. \A n \in 0..N : path[n] = b[g][s + n]
  <2> DEFINE S == { k \in Nat : k <= N => path[k] = b[g][s + k] }
  <2>1. 0 \in S
    BY <1>2, <1>4, <1>8
  <2>2. ASSUME NEW k \in Nat, k \in S, k + 1 <= N
        PROVE  path[k + 1] = b[g][s + (k + 1)]
    <3>1. /\ k + 1 \in 1..N /\ k + 1 - 1 = k /\ s + (k + 1) - 1 = s + k
          /\ s + k \in s..x.local - 1 /\ s + (k + 1) = s + k + 1
      BY <1>2, <1>3, <2>2
    <3>2. path[k] = b[g][s + k]
      BY <1>3, <2>2, <3>1
    <3>3. path[k + 1] = Shift(path[k], a[s + k][g])
      <4>1. queue[k + 1].op = a[s + (k + 1) - 1][g]
        BY <1>9, <3>1
      <4>2. path[k + 1] = Shift(path[k + 1 - 1], queue[k + 1].op)
        BY <1>4, <3>1
      <4> QED  BY <3>1, <4>1, <4>2
    <3>4. b[g][s + k + 1] = Shift(b[g][s + k], a[s + k][g])
      BY <1>8, <3>1 DEF Square
    <3> QED  BY <3>1, <3>2, <3>3, <3>4
  <2>3. \A k \in Nat : k \in S => k + 1 \in S
    BY <2>2
  <2> HIDE DEF S
  <2>4. \A k \in Nat : k \in S
    BY <2>1, <2>3, SetInduction
  <2> QED  BY <1>2, <1>3, <2>4 DEF S
<1>11. Received(x, msg) = b[g][x.local]
  <2>1. N \in 0..N /\ s + N = x.local
    BY <1>2, <1>3
  <2> QED  BY <1>6, <1>10, <2>1
<1>12. \A n \in 1..Len(new.outgoing) :
         new.outgoing[n].op = a[Oldest(new) + n - 1][new.global]
  <2> SUFFICES ASSUME NEW n \in 1..N
               PROVE  new.outgoing[n].op = a[s + n - 1][g + 1]
    BY <1>5
  <2>1. /\ n - 1 \in 0..N /\ s + (n - 1) = s + n - 1
        /\ s + n - 1 \in s..x.local - 1
    BY <1>2, <1>3
  <2>2. new.outgoing[n].op = Shift(a[s + n - 1][g], b[g][s + n - 1])
    BY <1>6, <1>9, <1>10, <2>1
  <2>3. a[s + n - 1][g + 1] = Shift(a[s + n - 1][g], b[g][s + n - 1])
    BY <1>8, <2>1 DEF Square
  <2> QED  BY <2>2, <2>3
<1>13. Rows(new, y, sent, a, b)
  BY <1>5, <1>12 DEF Rows
<1>14. Rows(y, new, rest, b, a)
  <2>1. ASSUME NEW n \in 1..Len(rest)
        PROVE  /\ b[new.global + n - 1][rest[n].state] = rest[n].op
               /\ \A i \in rest[n].state..new.local - 1 :
                      Square(b, a, new.global + n - 1, i)
    <3>1. /\ rest[n] = back[n + 1] /\ n + 1 \in 1..Len(back)
          /\ new.global + n - 1 = g + (n + 1) - 1
      BY <1>2, <1>5, <1>7
    <3>2. /\ b[g + (n + 1) - 1][back[n + 1].state] = back[n + 1].op
          /\ \A i \in back[n + 1].state..x.local - 1 :
                Square(b, a, g + (n + 1) - 1, i)
      BY <3>1 DEF Rows, g
    <3> QED  BY <1>5, <3>1, <3>2
  <2>2. \A n \in 1..Len(y.outgoing) :
            y.outgoing[n].op = b[Oldest(y) + n - 1][y.global]
    BY DEF Rows
  <2> QED  BY <2>1, <2>2 DEF Rows
<1> QED  BY <1>5, <1>11, <1>13, <1>14 DEF new, rest, msg, g

\* What x receives can be performed on its text, and leads on to a text of
\* the grid.
LEMMA GridReceive ==
    ASSUME NEW x, NEW y, NEW sent, NEW back, NEW ids, NEW others,
           NEW a, NEW b, NEW T,
           Grid(x, y, sent, back, ids, others, a, b, T), back # <<>>
    PROVE  LET new == Receive(x, Head(back))
               op == Received(x, Head(back))
               text == T[x.local][x.global]
           IN  /\ Grid(new, y, sent, Tail(back), ids, others, a, b, T)
               /\ new.local = x.local /\ new.global = x.global + 1
               /\ text \in Text /\ op \in OpsBy(others) /\ Silent(text, op)
               /\ T[new.local][new.global] = writeLocal(text, op)
<1> DEFINE new == Receive(x, Head(back))
           op == Received(x, Head(back))
<1>1. /\ Connected(x, y, sent, back, ids, others)
      /\ Rows(x, y, sent, a, b) /\ Rows(y, x, back, b, a)
      /\ Texts(x, y, ids, others, a, b, T)
  BY DEF Grid
<1>2. /\ op = b[x.global][x.local]
      /\ new.local = x.local /\ new.global = x.global + 1
      /\ Rows(new, y, sent, a, b) /\ Rows(y, new, Tail(back), b, a)
  BY <1>1, RowsReceive
<1>3. Connected(new, y, sent, Tail(back), ids, others)
  BY <1>1, ConnectedReceive
<1>4. /\ x.local \in Nat /\ x.global \in Nat
      /\ y.local \in Nat /\ y.global \in Nat
      /\ x.local >= y.global /\ y.local >= x.global + 1
  <2>1. /\ x.local = y.global + Len(sent) /\ y.local = x.global + Len(back)
        /\ x \in Endpoint /\ y \in Endpoint
    BY <1>1 DEF Connected, Channel
  <2>2. Len(sent) \in Nat /\ Len(back) \in Nat /\ Len(back) > 0
    <3>1. sent \in Seq(trans_t) /\ back \in Seq(trans_t)
      BY <1>1, ConnectedType
    <3> QED  BY <3>1
  <2> QED  BY <2>1, <2>2 DEF Endpoint
<1> HIDE DEF new, op
<1>5. Texts(new, y, ids, others, a, b, T)
  <2>1. /\ y.global..new.local = y.global..x.local
        /\ new.global..y.local \subseteq x.global..y.local
    BY <1>2, <1>4
  <2> QED  BY <1>1, <1>2, <2>1 DEF Texts
<1>6. /\ T[x.local][x.global] \in Text
      /\ Leads(T[x.local][x.global], b[x.global][x.local], others,
               T[x.local][x.global + 1])
  <2>1. /\ x.local \in y.global..x.local /\ x.global \in x.global..y.local
        /\ x.global < y.local
    BY <1>4
  <2> QED  BY <1>1, <2>1 DEF Texts
<1> QED
  BY <1>2, <1>3, <1>5, <1>6 DEF Grid, Leads, new, op

\* The operation op can be carried past the operations s[g], ..., s[h - 1] of
\* the other side, which lead from each of the texts t to the next one.
HasRow(g, h, ids, t, s, op) ==
    \E row :
        /\ row[g] = op
        /\ \A j \in g..h : row[j] \in OpsBy(ids) /\ Silent(t[j], row[j])
        /\ \A j \in g..h - 1 : row[j + 1] = Shift(row[j], s[j])

LEMMA NewRow ==
    ASSUME NEW g \in Nat, NEW h \in Nat, g <= h, NEW ids, NEW others,
           ids \cap others = {}, NEW t, NEW s,
           \A j \in g..h : t[j] \in Text,
           \A j \in g..h - 1 : Leads(t[j], s[j], others, t[j + 1]),
           NEW op \in OpsBy(ids), Silent(t[g], op)
    PROVE  HasRow(g, h, ids, t, s, op)
<1> DEFINE N == h - g
           queue == [n \in 1..N |-> [op |-> s[g + n - 1], state |-> 0]]
           path == Path(op, queue)
           row == [j \in Nat |-> path[j - g]]
<1>1. N \in Nat /\ op \in op_t /\ \A n \in 1..N : g + n - 1 \in g..h - 1
  BY DEF OpsBy
<1>2. \A j \in g..h - 1 : s[j] \in op_t
  BY DEF Leads, OpsBy
<1>3. queue \in Seq(trans_t) /\ Len(queue) = N
  <2>1. queue \in [1..N -> trans_t]
    BY <1>1, <1>2 DEF trans_t
  <2> HIDE DEF queue, N
  <2> QED  BY <1>1, <2>1, SeqDef
<1>4. \A n \in 1..N : queue[n].op = s[g + n - 1]
  OBVIOUS
<1> HIDE DEF queue
<1>5. /\ path \in [0..N -> Shifted(op)] /\ path[0] = op
      /\ \A n \in 1..N : path[n] = Shift(path[n - 1], queue[n].op)
  <2> HIDE DEF N
  <2> QED  BY <1>1, <1>3, PathProperties
<1>6. \A j \in Nat : row[j] = path[j - g]
  OBVIOUS
<1> HIDE DEF path, row
<1>7. row[g] = op
  BY <1>5, <1>6
<1>8. ASSUME NEW j \in g..h
      PROVE  row[j] \in OpsBy(ids)
  <2>1. j \in Nat /\ j - g \in 0..N
    OBVIOUS
  <2>2. row[j] \in Shifted(op)
    BY <1>5, <1>6, <2>1
  <2> QED  BY <2>2 DEF Shifted, OpsBy
<1>9. ASSUME NEW j \in g..h - 1
      PROVE  row[j + 1] = Shift(row[j], s[j])
  <2> DEFINE n == j - g + 1
  <2>1. /\ n \in 1..N /\ n - 1 = j - g /\ n = j + 1 - g /\ g + n - 1 = j
        /\ j \in Nat /\ j + 1 \in Nat
    OBVIOUS
  <2> HIDE DEF n
  <2>2. path[n] = Shift(path[n - 1], queue[n].op) /\ queue[n].op = s[g + n - 1]
    BY <1>4, <1>5, <2>1
  <2>3. row[j + 1] = path[n] /\ row[j] = path[n - 1]
    BY <1>6, <2>1
  <2> QED  BY <2>1, <2>2, <2>3
<1> DEFINE S == { k \in Nat : k <= N => Silent(t[g + k], row[g + k]) }
<1>10. 0 \in S
  BY <1>7
<1>11. ASSUME NEW k \in Nat, k \in S, k + 1 <= N
       PROVE  Silent(t[g + (k + 1)], row[g + (k + 1)])
  <2> DEFINE j == g + k
  <2>1. j \in g..h /\ j \in g..h - 1 /\ g + (k + 1) = j + 1 /\ k <= N
    BY <1>11
  <2>2. Silent(t[j], row[j])
    BY <1>11, <2>1
  <2> HIDE DEF j
  <2>3. /\ t[j] \in Text /\ row[j] \in OpsBy(ids)
        /\ Leads(t[j], s[j], others, t[j + 1])
    BY <1>8, <2>1
  <2>4. ConcurrentOn(t[j], row[j], s[j])
    BY <2>2, <2>3 DEF ConcurrentOn, Leads, OpsBy
  <2>5. Silent(writeLocal(t[j], s[j]), Shift(row[j], s[j]))
    BY <2>4, SilentAfterShift
  <2> QED  BY <1>9, <2>1, <2>3, <2>5 DEF Leads
<1>12. \A k \in Nat : k \in S => k + 1 \in S
  BY <1>11
<1> HIDE DEF S
<1>13. \A k \in Nat : k \in S
  BY <1>10, <1>12, SetInduction
<1>14. ASSUME NEW j \in g..h
       PROVE  Silent(t[j], row[j])
  <2>1. j - g \in Nat /\ j - g <= N /\ g + (j - g) = j
    OBVIOUS
  <2>2. j - g \in S
    BY <1>13, <2>1
  <2> QED  BY <2>1, <2>2 DEF S
<1> QED  BY <1>7, <1>8, <1>9, <1>14 DEF HasRow

\* The squares that a new row makes with the last one: the transformed
\* operation of the other side leads from each text of the new row to the
\* next one.
LEMMA NewSquare ==
    ASSUME NEW t, t \in Text, NEW ids, NEW others, ids \cap others = {},
           NEW op \in OpsBy(ids), Silent(t, op), NEW other, NEW next,
           Leads(t, other, others, next)
    PROVE  Leads(writeLocal(t, op), Shift(other, op), others,
                 writeLocal(next, Shift(op, other)))
<1>1. ConcurrentOn(t, op, other) /\ ConcurrentOn(t, other, op)
  BY DEF ConcurrentOn, Leads, OpsBy
<1>2. Shift(other, op) \in OpsBy(others)
  BY <1>1, ShiftType DEF ConcurrentOn, Leads, OpsBy
<1>3. /\ Silent(writeLocal(t, op), Shift(other, op))
      /\ writeLocal(writeLocal(t, op), Shift(other, op))
            = writeLocal(writeLocal(t, other), Shift(op, other))
  BY <1>1, SilentAfterShift, TransformationCommutes
<1> QED  BY <1>2, <1>3 DEF Leads

\* The grid with one more operation of x.
LEMMA GridSend ==
    ASSUME NEW x, NEW y, NEW sent, NEW back, NEW ids, NEW others,
           NEW a, NEW b, NEW T,
           Grid(x, y, sent, back, ids, others, a, b, T),
           ids \cap others = {}, NEW op \in OpsBy(ids),
           Silent(T[x.local][x.global], op)
    PROVE  LET new == Generate(x, <<op>>)
           IN  /\ new.local = x.local + 1 /\ new.global = x.global
               /\ \E a2, b2, T2 :
                    /\ Grid(new, y, sent \o Messages(x, <<op>>), back,
                            ids, others, a2, b2, T2)
                    /\ \A i \in 0..x.local : T2[i] = T[i]
                    /\ T2[x.local + 1][x.global]
                            = writeLocal(T[x.local][x.global], op)
<1> DEFINE new == Generate(x, <<op>>)
           sent2 == sent \o Messages(x, <<op>>)
           X == x.local
           g == x.global
           Y == y.local
           h == y.global
           M == Len(sent)
           L == Len(x.outgoing)
<1>1. /\ Connected(x, y, sent, back, ids, others)
      /\ Rows(x, y, sent, a, b) /\ Rows(y, x, back, b, a)
      /\ Texts(x, y, ids, others, a, b, T)
  BY DEF Grid
<1>2. /\ x \in Endpoint /\ y \in Endpoint /\ Contiguous(x) /\ Contiguous(y)
      /\ Channel(x, y, sent) /\ Channel(y, x, back)
      /\ sent \in Seq(trans_t) /\ back \in Seq(trans_t)
  <2>1. sent \in Seq(trans_t) /\ back \in Seq(trans_t)
    BY <1>1, ConnectedType
  <2> QED  BY <1>1, <2>1 DEF Connected
<1>3. /\ X \in Nat /\ g \in Nat /\ Y \in Nat /\ h \in Nat /\ M \in Nat
      /\ X = h + M /\ Y = g + Len(back) /\ Len(back) \in Nat
      /\ Oldest(x) = X - L /\ L <= X /\ L \in Nat
      /\ Oldest(y) \in Nat
      /\ \A n \in 1..M : sent[n].state \in Nat
      /\ \A n \in 1..Len(back) : back[n].state \in 0..h
  <2>1. /\ X \in Nat /\ g \in Nat /\ Y \in Nat /\ h \in Nat
        /\ x.outgoing \in Seq(trans_t) /\ y.outgoing \in Seq(trans_t)
    BY <1>2 DEF Endpoint
  <2>2. L \in Nat /\ M \in Nat /\ Len(back) \in Nat /\ Len(y.outgoing) \in Nat
    BY <1>2, <2>1, LenProperties
  <2>3. /\ X = h + M /\ Y = g + Len(back)
        /\ \A n \in 1..Len(back) : back[n].state <= h
    BY <1>2 DEF Channel
  <2>4. /\ \A n \in 1..M : sent[n] \in trans_t
        /\ \A n \in 1..Len(back) : back[n] \in trans_t
    BY <1>2, ElementOfSeq
  <2>5. /\ \A n \in 1..M : sent[n].state \in Nat
        /\ \A n \in 1..Len(back) : back[n].state \in Nat
    BY <2>4 DEF trans_t
  <2>6. L <= X /\ Len(y.outgoing) <= Y
    BY <1>2 DEF Contiguous
  <2>7. Oldest(x) = X - L /\ Oldest(y) \in Nat
    BY <2>1, <2>2, <2>6 DEF Oldest
  <2>8. \A n \in 1..Len(back) : back[n].state \in 0..h
    BY <2>1, <2>3, <2>5
  <2> QED  BY <2>1, <2>2, <2>3, <2>5, <2>6, <2>7, <2>8
<1>4. /\ new.local = X + 1 /\ new.global = g /\ Oldest(new) = Oldest(x)
      /\ Len(new.outgoing) = L + 1
      /\ \A n \in 1..L : new.outgoing[n] = x.outgoing[n]
      /\ new.outgoing[L + 1].op = op
      /\ sent2 = Append(sent, [op |-> op, state |-> g])
  <2> DEFINE ops == <<op>>
  <2>1. ops \in Seq(op_t) /\ Len(ops) = 1 /\ ops[1] = op
    BY DEF OpsBy
  <2> HIDE DEF ops
  <2>2. /\ new.local = X + 1 /\ new.global = g /\ Oldest(new) = Oldest(x)
        /\ Len(new.outgoing) = L + 1
        /\ \A n \in 1..L + 1 :
             new.outgoing[n] = IF n <= L THEN x.outgoing[n]
                               ELSE [op |-> ops[n - L],
                                     state |-> X + n - L - 1]
        /\ Messages(x, ops) \in Seq(trans_t) /\ Len(Messages(x, ops)) = 1
        /\ Messages(x, ops)[1] = [op |-> op, state |-> g]
    <3> DEFINE e == Generate(x, ops)
               msgs == Messages(x, ops)
    <3>1. /\ Oldest(e) = Oldest(x) /\ e.local = X + Len(ops) /\ e.global = g
          /\ Len(e.outgoing) = L + Len(ops)
          /\ \A n \in 1..Len(e.outgoing) :
               e.outgoing[n] = IF n <= L THEN x.outgoing[n]
                               ELSE [op |-> ops[n - L],
                                     state |-> X + n - L - 1]
          /\ msgs \in Seq(trans_t) /\ Len(msgs) = Len(ops)
          /\ \A n \in 1..Len(ops) : msgs[n] = [op |-> ops[n], state |-> g]
      BY <1>2, <2>1, GenerateProperties
    <3>2. e = new
      BY DEF ops
    <3> HIDE DEF e, msgs, new, X, g, L
    <3>3. msgs[1] = [op |-> op, state |-> g]
      BY <2>1, <3>1
    <3> QED  BY <2>1, <3>1, <3>2, <3>3 DEF msgs
  <2> HIDE DEF new, X, g, L, M
  <2> DEFINE out == new.outgoing
  <2>a. L \in Nat /\ X \in Nat
    BY <1>3
  <2>b. \A n \in 1..L + 1 :
            out[n] = IF n <= L THEN x.outgoing[n]
                     ELSE [op |-> ops[n - L], state |-> X + n - L - 1]
    BY <2>2
  <2> HIDE DEF out
  <2>3. \A n \in 1..L : out[n] = x.outgoing[n]
    <3> SUFFICES ASSUME NEW n \in 1..L
                 PROVE  out[n] = x.outgoing[n]
      OBVIOUS
    <3>1. n \in 1..L + 1 /\ n <= L
      BY <2>a
    <3>2. out[n] = IF n <= L THEN x.outgoing[n]
                   ELSE [op |-> ops[n - L], state |-> X + n - L - 1]
      BY <2>b, <3>1
    <3> QED  BY ONLY <3>1, <3>2
  <2>4. out[L + 1] = [op |-> ops[L + 1 - L], state |-> X + (L + 1) - L - 1]
    BY ONLY <2>a, <2>b
  <2>5. new.outgoing[L + 1].op = op
    <3>1. out[L + 1].op = ops[L + 1 - L]
      BY ONLY <2>4
    <3> QED  BY <2>a, <2>1, <3>1 DEF out
  <2> DEFINE msg == [op |-> op, state |-> g]
             msgs == Messages(x, ops)
  <2>6. msg \in trans_t
    BY <1>3 DEF trans_t, OpsBy
  <2>7. sent2 = sent \o msgs
    BY DEF ops
  <2> HIDE DEF msg, msgs, sent2
  <2>8. msgs \in Seq(trans_t) /\ Len(msgs) = 1 /\ msgs[1] = msg
    BY <2>2 DEF msg, msgs
  <2>9. sent \o msgs = Append(sent, msg)
    <3>1. msgs = <<msg>>
      BY <2>6, <2>8, SeqEqual
    <3> QED  BY <1>2, <2>6, <3>1
  <2> QED  BY <2>2, <2>3, <2>5, <2>7, <2>9 DEF msg, out
<1> DEFINE s == [j \in Nat |-> b[j][X]]
<1>5. PICK row :
        /\ row[g] = op
        /\ \A j \in g..Y : row[j] \in OpsBy(ids) /\ Silent(T[X][j], row[j])
        /\ \A j \in g..Y - 1 : row[j + 1] = Shift(row[j], s[j])
  <2>1. g <= Y /\ X \in h..X
    BY <1>3
  <2>2. \A j \in g..Y : T[X][j] \in Text
    BY <1>1, <2>1 DEF Texts
  <2>3. \A j \in g..Y - 1 : Leads(T[X][j], s[j], others, T[X][j + 1])
    <3> SUFFICES ASSUME NEW j \in g..Y - 1
                 PROVE  Leads(T[X][j], s[j], others, T[X][j + 1])
      OBVIOUS
    <3>1. j \in g..Y /\ j < Y /\ j \in Nat
      BY <1>3
    <3>2. s[j] = b[j][X]
      BY <3>1
    <3> QED  BY <1>1, <2>1, <3>1, <3>2 DEF Texts
  <2> DEFINE t == T[X]
  <2> HIDE DEF t, s
  <2>4. /\ \A j \in g..Y : t[j] \in Text
        /\ \A j \in g..Y - 1 : Leads(t[j], s[j], others, t[j + 1])
        /\ Silent(t[g], op)
    BY <2>2, <2>3 DEF t
  <2>5. HasRow(g, Y, ids, t, s, op)
    <3> HIDE DEF g, Y
    <3> QED  BY <1>3, <2>1, <2>4, NewRow
  <2> HIDE DEF X, g, Y
  <2> QED  BY <2>5 DEF t, HasRow
<1>6. \A j \in g..Y - 1 : row[j + 1] = Shift(row[j], b[j][X])
  <2>1. \A j \in g..Y - 1 : s[j] = b[j][X]
    BY <1>3
  <2> QED  BY <1>5, <2>1
<1> DEFINE a2 == [i \in Nat |-> IF i = X THEN row ELSE a[i]]
           b2 == [j \in Nat |-> [i \in Nat |->
                    IF i = X + 1 THEN Shift(b[j][X], row[j]) ELSE b[j][i]]]
           T2 == [i \in Nat |-> IF i = X + 1
                    THEN [j \in Nat |-> writeLocal(T[X][j], row[j])]
                    ELSE T[i]]
<1>7. /\ a2[X] = row /\ \A i \in 0..X - 1 : a2[i] = a[i]
      /\ \A j \in Nat : b2[j][X + 1] = Shift(b[j][X], row[j])
      /\ \A j \in Nat, i \in 0..X : b2[j][i] = b[j][i]
      /\ \A j \in Nat : T2[X + 1][j] = writeLocal(T[X][j], row[j])
      /\ \A i \in 0..X : T2[i] = T[i]
  <2> HIDE DEF X
  <2>0. X \in Nat
    BY <1>3
  <2> HIDE DEF a2, b2, T2, s, g, Y, h, M, L
  <2>1. /\ X \in Nat /\ X + 1 \in Nat /\ \A i \in 0..X : i \in Nat /\ i # X + 1
        /\ \A i \in 0..X - 1 : i \in Nat /\ i # X
    BY ONLY <2>0
  <2> USE DEF a2, b2, T2
  <2>2. a2[X] = row /\ \A i \in 0..X - 1 : a2[i] = a[i]
    BY <2>1
  <2>3. /\ \A j \in Nat : b2[j][X + 1] = Shift(b[j][X], row[j])
        /\ \A j \in Nat, i \in 0..X : b2[j][i] = b[j][i]
    BY <2>1
  <2>4. /\ \A j \in Nat : T2[X + 1][j] = writeLocal(T[X][j], row[j])
        /\ \A i \in 0..X : T2[i] = T[i]
    BY <2>1
  <2> QED  BY <2>2, <2>3, <2>4
<1> HIDE DEF a2, b2, T2, s, new, sent2, X, g, Y, h, M, L
<1>8. ASSUME NEW j \in g..Y - 1
      PROVE  Square(a2, b2, X, j) /\ Square(b2, a2, j, X)
  <2>1. j \in Nat /\ X \in 0..X
    BY <1>3
  <2>2. /\ a2[X][j + 1] = Shift(row[j], b[j][X]) /\ a2[X][j] = row[j]
        /\ b2[j][X] = b[j][X] /\ b2[j][X + 1] = Shift(b[j][X], row[j])
    BY <1>6, <1>7, <2>1
  <2> QED  BY <2>2 DEF Square
<1>9. ASSUME NEW i \in 0..X - 1, NEW j \in Nat
      PROVE  /\ Square(a, b, i, j) => Square(a2, b2, i, j)
             /\ Square(b, a, j, i) => Square(b2, a2, j, i)
  <2>1. i \in 0..X /\ i + 1 \in 0..X
    BY <1>3
  <2>2. a2[i] = a[i] /\ b2[j][i] = b[j][i] /\ b2[j][i + 1] = b[j][i + 1]
    BY <1>7, <2>1
  <2> QED  BY <2>2 DEF Square
<1>10. Rows(new, y, sent2, a2, b2)
  <2>1. ASSUME NEW n \in 1..Len(sent2)
        PROVE  /\ a2[h + n - 1][sent2[n].state] = sent2[n].op
               /\ \A j \in sent2[n].state..Y - 1 : Square(a2, b2, h + n - 1, j)
    <3>0. Len(sent2) = M + 1 /\ \A m \in 1..M : sent2[m] = sent[m]
      BY <1>2, <1>4 DEF M
    <3>1. CASE n <= M
      <4>0. n \in 1..M
        BY <1>3, <2>1, <3>0, <3>1
      <4>1. n \in 1..M /\ sent2[n] = sent[n] /\ h + n - 1 \in 0..X - 1
        BY <1>3, <3>0, <4>0
      <4>2. /\ a[h + n - 1][sent[n].state] = sent[n].op
            /\ \A j \in sent[n].state..Y - 1 : Square(a, b, h + n - 1, j)
        BY <1>1, <4>1 DEF Rows, h, M, Y
      <4>3. sent[n].state \in Nat
        BY <1>3, <4>1
      <4>4. \A j \in sent[n].state..Y - 1 : j \in Nat
        BY <4>3
      <4>5. a2[h + n - 1] = a[h + n - 1]
        BY <1>7, <4>1
      <4> QED  BY <1>9, <4>1, <4>2, <4>4, <4>5
    <3>2. CASE n = M + 1
      <4>1. sent2[n] = [op |-> op, state |-> g] /\ h + n - 1 = X
        BY <1>2, <1>3, <1>4, <3>2 DEF M
      <4>2. sent2[n].op = op /\ sent2[n].state = g
        BY ONLY <4>1
      <4> QED  BY <1>5, <1>7, <1>8, <4>1, <4>2
    <3> QED  BY <1>3, <3>0, <3>1, <3>2
  <2>2. ASSUME NEW n \in 1..Len(new.outgoing)
        PROVE  new.outgoing[n].op = a2[Oldest(new) + n - 1][new.global]
    <3>1. CASE n <= L
      <4>1. n \in 1..L /\ Oldest(x) + n - 1 \in 0..X - 1
        BY <1>3, <3>1
      <4>2. x.outgoing[n].op = a[Oldest(x) + n - 1][g]
        BY <1>1, <4>1 DEF Rows, L, g
      <4> QED  BY <1>4, <1>7, <4>1, <4>2
    <3>2. CASE n = L + 1
      <4>1. Oldest(x) + n - 1 = X
        BY <1>3, <3>2
      <4> QED  BY <1>4, <1>5, <1>7, <3>2, <4>1
    <3> QED  BY <1>3, <1>4, <3>1, <3>2
  <2> QED  BY <2>1, <2>2 DEF Rows, h, Y
<1>11. Rows(y, new, back, b2, a2)
  <2>1. ASSUME NEW n \in 1..Len(back)
        PROVE  /\ b2[g + n - 1][back[n].state] = back[n].op
               /\ \A i \in back[n].state..X + 1 - 1 :
                    Square(b2, a2, g + n - 1, i)
    <3>1. /\ g + n - 1 \in g..Y - 1 /\ g + n - 1 \in Nat
          /\ back[n].state \in 0..h /\ back[n].state \in 0..X
      BY <1>3
    <3>2. /\ b[g + n - 1][back[n].state] = back[n].op
          /\ \A i \in back[n].state..X - 1 : Square(b, a, g + n - 1, i)
      BY <1>1 DEF Rows, g, X
    <3>3. b2[g + n - 1][back[n].state] = back[n].op
      BY <1>7, <3>1, <3>2
    <3>4. ASSUME NEW i \in back[n].state..X + 1 - 1
          PROVE  Square(b2, a2, g + n - 1, i)
      <4>1. CASE i = X
        BY <1>8, <3>1, <4>1
      <4>2. CASE i # X
        <5>0. back[n].state \in Nat /\ X \in Nat /\ X + 1 - 1 = X
          BY <1>3, <3>1
        <5> HIDE DEF X, g, Y, h
        <5>1. i \in back[n].state..X - 1 /\ i \in 0..X - 1
          <6> DEFINE k == back[n].state
          <6>1. k \in Nat /\ X \in Nat /\ i \in k..X /\ i # X
            BY <3>4, <4>2, <5>0
          <6> HIDE DEF k
          <6>2. i \in k..X - 1 /\ i \in 0..X - 1
            BY ONLY <6>1
          <6> QED  BY <6>2 DEF k
        <5> QED  BY <1>9, <3>1, <3>2, <5>1
      <4> QED  BY <4>1, <4>2
    <3> QED  BY <3>3, <3>4
  <2>2. ASSUME NEW n \in 1..Len(y.outgoing)
        PROVE  y.outgoing[n].op = b2[Oldest(y) + n - 1][h]
    <3>1. Oldest(y) + n - 1 \in Nat /\ h \in 0..X
      BY <1>3
    <3>2. y.outgoing[n].op = b[Oldest(y) + n - 1][h]
      BY <1>1 DEF Rows, h
    <3> QED  BY <1>7, <3>1, <3>2
  <2>3. new.global = g /\ new.local = X + 1
    BY <1>4
  <2>4. Oldest(y) \in Nat /\ X \in Nat
    BY <1>3
  <2> QED  BY ONLY <2>1, <2>2, <2>3, <2>4 DEF Rows, h
<1>12. Texts(new, y, ids, others, a2, b2, T2)
  <2> SUFFICES ASSUME NEW i \in h..X + 1, NEW j \in g..Y
               PROVE  /\ T2[i][j] \in Text
                      /\ i < X + 1 => Leads(T2[i][j], a2[i][j], ids, T2[i + 1][j])
                      /\ j < Y => Leads(T2[i][j], b2[j][i], others, T2[i][j + 1])
    BY <1>4 DEF Texts, h, Y
  <2>1. j \in Nat /\ i \in Nat /\ X \in h..X /\ X \in 0..X
    BY <1>3
  <2>2. \A k \in h..X : /\ T[k][j] \in Text
                        /\ k < X => Leads(T[k][j], a[k][j], ids, T[k + 1][j])
                        /\ j < Y => Leads(T[k][j], b[j][k], others, T[k][j + 1])
    BY <1>1 DEF Texts, h, X, g, Y
  <2>3. CASE i < X
    <3>1. i \in h..X /\ i \in 0..X - 1 /\ i \in 0..X /\ i + 1 \in 0..X
      BY <1>3, <2>3
    <3>2. /\ T2[i] = T[i] /\ T2[i + 1] = T[i + 1] /\ a2[i] = a[i]
          /\ b2[j][i] = b[j][i]
      BY <1>7, <2>1, <3>1
    <3> QED  BY <2>2, <2>3, <3>1, <3>2
  <2>4. CASE i = X
    <3>1. /\ T2[i] = T[X] /\ T2[i + 1][j] = writeLocal(T[X][j], row[j])
          /\ a2[i][j] = row[j] /\ b2[j][i] = b[j][X]
      BY <1>7, <2>1, <2>4
    <3>2. Leads(T[X][j], row[j], ids, writeLocal(T[X][j], row[j]))
      BY <1>5 DEF Leads
    <3> QED  BY <2>1, <2>2, <2>4, <3>1, <3>2
  <2>5. CASE i = X + 1
    <3>1. T[X][j] \in Text /\ row[j] \in OpsBy(ids) /\ Silent(T[X][j], row[j])
      BY <1>5, <2>1, <2>2
    <3>2. T2[i][j] = writeLocal(T[X][j], row[j])
      BY <1>7, <2>1, <2>5
    <3>3. T2[i][j] \in Text
      BY <3>1, <3>2, WriteType DEF OpsBy
    <3>4. ASSUME j < Y
          PROVE  Leads(T2[i][j], b2[j][i], others, T2[i][j + 1])
      <4>1. j \in g..Y - 1 /\ j + 1 \in Nat
        BY <1>3, <2>1, <3>4
      <4>2. Leads(T[X][j], b[j][X], others, T[X][j + 1])
        BY <2>1, <2>2, <3>4
      <4>3. /\ b2[j][i] = Shift(b[j][X], row[j])
            /\ T2[i][j + 1] = writeLocal(T[X][j + 1], row[j + 1])
        BY <1>7, <2>1, <2>5, <4>1
      <4>4. row[j + 1] = Shift(row[j], b[j][X])
        BY <1>6, <4>1
      <4>5. Leads(writeLocal(T[X][j], row[j]), Shift(b[j][X], row[j]), others,
                  writeLocal(T[X][j + 1], Shift(row[j], b[j][X])))
        BY <3>1, <4>2, NewSquare
      <4> QED  BY <3>2, <4>3, <4>4, <4>5
    <3> QED  BY <2>5, <3>3, <3>4, <1>3
  <2> QED  BY <1>3, <2>1, <2>3, <2>4, <2>5
<1>13. Connected(new, y, sent2, back, ids, others)
  <2> DEFINE ops == <<op>>
  <2>1. ops \in Seq(OpsBy(ids))
    OBVIOUS
  <2> HIDE DEF ops
  <2>2. Connected(Generate(x, ops), y, sent \o Messages(x, ops), back,
                  ids, others)
    BY <1>1, <2>1, ConnectedSend
  <2> QED  BY <2>2 DEF ops, new, sent2
<1>14. T2[X + 1][g] = writeLocal(T[X][g], op)
  BY <1>3, <1>5, <1>7
<1>15. Grid(new, y, sent2, back, ids, others, a2, b2, T2)
  BY <1>10, <1>11, <1>12, <1>13 DEF Grid
<1> QED
  BY <1>4, <1>7, <1>14, <1>15 DEF new, sent2, X, g
-----------------------------------------------------------------------------
(***************************************************************************)
(* The operators of the model, on a sequence that grows.                   *)
(***************************************************************************)

LEMMA ForeignEmpty ==
    ASSUME NEW u \in UserId
    PROVE  Foreign(u, <<>>) = <<>>
<1>1. <<>> \in Seq(op_t) /\ Len(<<>>) = 0
  BY EmptySeq
<1>2. PICK found : ForeignSteps(u, <<>>, found)
  BY <1>1, ForeignByStep
<1> QED  BY <1>1, <1>2 DEF ForeignSteps

LEMMA ForeignAppend ==
    ASSUME NEW u \in UserId, NEW entries \in Seq(op_t), NEW e \in op_t
    PROVE  Foreign(u, Append(entries, e))
            = IF e.id = u THEN Foreign(u, entries)
              ELSE Append(Foreign(u, entries), e)
<1> DEFINE N == Len(entries)
           more == Append(entries, e)
<1>1. /\ N \in Nat /\ more \in Seq(op_t) /\ Len(more) = N + 1
      /\ more[N + 1] = e /\ \A n \in 1..N : more[n] = entries[n]
  OBVIOUS
<1>2. PICK f : ForeignSteps(u, entries, f)
  BY ForeignByStep
<1>3. PICK g : ForeignSteps(u, more, g)
  BY <1>1, ForeignByStep
<1> HIDE DEF more
<1>4. /\ Foreign(u, entries) = f[N] /\ f[0] = g[0]
      /\ \A n \in 1..N : f[n] = IF entries[n].id = u THEN f[n - 1]
                                ELSE Append(f[n - 1], entries[n])
  BY <1>2, <1>3 DEF ForeignSteps
<1>5. /\ Foreign(u, more) = g[N + 1]
      /\ \A n \in 1..N + 1 : g[n] = IF more[n].id = u THEN g[n - 1]
                                    ELSE Append(g[n - 1], more[n])
  BY <1>1, <1>3 DEF ForeignSteps
<1> HIDE DEF N
<1>6. \A n \in 1..N : f[n - 1] = g[n - 1] => f[n] = g[n]
  <2> SUFFICES ASSUME NEW n \in 1..N, f[n - 1] = g[n - 1]
               PROVE  f[n] = g[n]
    OBVIOUS
  <2>1. n \in 1..N + 1 /\ more[n] = entries[n]
    BY <1>1
  <2> QED  BY <1>4, <1>5, <2>1
<1>7. \A n \in 0..N : f[n] = g[n]
  <2>1. StepAlike(f, g, N)
    BY <1>4, <1>6 DEF StepAlike
  <2>2. Alike(f, g, N)
    BY <1>1, <2>1, SameSteps
  <2> QED  BY <2>2 DEF Alike
<1>8. N \in 0..N /\ N + 1 \in 1..N + 1 /\ N + 1 - 1 = N
  BY <1>1
<1>9. g[N + 1] = IF e.id = u THEN g[N] ELSE Append(g[N], e)
  BY <1>1, <1>5, <1>8
<1> QED  BY <1>4, <1>5, <1>7, <1>8, <1>9 DEF more

\* Reading the log in two parts.
LEMMA ForeignConcat ==
    ASSUME NEW u \in UserId, NEW s \in Seq(op_t), NEW t \in Seq(op_t)
    PROVE  Foreign(u, s \o t) = Foreign(u, s) \o Foreign(u, t)
<1> DEFINE Start(k) == SubSeq(t, 1, k)
           Same(k) == Foreign(u, s \o Start(k))
                        = Foreign(u, s) \o Foreign(u, Start(k))
           S == { k \in Nat : k <= Len(t) => Same(k) }
<1>1. Len(t) \in Nat /\ \A k \in 1..Len(t) : t[k] \in op_t
  BY LenProperties, ElementOfSeq
<1>2. /\ Start(0) = <<>> /\ Start(Len(t)) = t
      /\ \A k \in 0..Len(t) : Start(k) \in Seq(op_t)
      /\ \A k \in 0..Len(t) - 1 : Start(k + 1) = Append(Start(k), t[k + 1])
  <2>1. Start(0) = <<>> /\ Start(Len(t)) = t
    OBVIOUS
  <2>2. \A k \in 0..Len(t) : Start(k) \in Seq(op_t)
    OBVIOUS
  <2>3. \A k \in 0..Len(t) - 1 : Start(k + 1) = Append(Start(k), t[k + 1])
    OBVIOUS
  <2> QED  BY <2>1, <2>2, <2>3
<1> HIDE DEF Start
<1>3. 0 \in S
  <2>1. Foreign(u, s) \in Seq(OpsBy(UserId \ {u}))
    BY ForeignType
  <2>2. Foreign(u, s) \o <<>> = Foreign(u, s) /\ s \o <<>> = s
    BY <2>1
  <2> QED  BY <1>2, <2>2, ForeignEmpty
<1>4. ASSUME NEW k \in Nat, k \in S, k + 1 <= Len(t)
      PROVE  Same(k + 1)
  <2> DEFINE e == t[k + 1]
             f == Start(k)
             both == s \o f
             F == Foreign(u, s)
             G == Foreign(u, f)
  <2>1. e \in op_t /\ f \in Seq(op_t) /\ Start(k + 1) = Append(f, e)
    <3>1. k \in 0..Len(t) - 1 /\ k \in 0..Len(t) /\ k + 1 \in 1..Len(t)
      BY <1>1, <1>4
    <3> QED  BY <1>1, <1>2, <3>1
  <2>2. Foreign(u, both) = F \o G
    BY <1>1, <1>4
  <2> HIDE DEF e, f
  <2>3. both \in Seq(op_t) /\ s \o Append(f, e) = Append(both, e)
    BY <2>1
  <2>4. /\ F \in Seq(OpsBy(UserId \ {u})) /\ G \in Seq(OpsBy(UserId \ {u}))
    BY <2>1, ForeignType
  <2>5. /\ Foreign(u, Append(both, e)) = IF e.id = u THEN Foreign(u, both)
                                         ELSE Append(Foreign(u, both), e)
        /\ Foreign(u, Append(f, e)) = IF e.id = u THEN G ELSE Append(G, e)
    BY <2>1, <2>3, ForeignAppend
  <2>6. e.id # u => F \o Append(G, e) = Append(F \o G, e)
    <3>1. e.id # u => e \in OpsBy(UserId \ {u})
      BY <2>1 DEF OpsBy, op_t
    <3> HIDE DEF F, G
    <3> DEFINE O == OpsBy(UserId \ {u})
    <3> HIDE DEF O
    <3>2. F \in Seq(O) /\ G \in Seq(O) /\ (e.id # u => e \in O)
      BY <2>4, <3>1 DEF O
    <3> QED  BY ONLY <3>2
  <2> HIDE DEF both, F, G
  <2> QED  BY <2>1, <2>2, <2>3, <2>5, <2>6 DEF F
<1>5. \A k \in Nat : k \in S => k + 1 \in S
  <2> HIDE DEF Same
  <2> QED  BY <1>4
<1> HIDE DEF S
<1>6. \A k \in Nat : k \in S
  BY <1>3, <1>5, SetInduction
<1>7. Len(t) \in S
  BY <1>1, <1>6
<1> QED  BY <1>1, <1>2, <1>7 DEF S

\* Versions performs the operations one by one.
LEMMA VersionsByStep ==
    ASSUME NEW text \in Text, NEW ops \in Seq(op_t)
    PROVE  LET versions == Versions(text, ops)
           IN  /\ versions \in [0..Len(ops) -> Text] /\ versions[0] = text
               /\ \A n \in 1..Len(ops) :
                    versions[n] = writeLocal(versions[n - 1], ops[n])
<1> DEFINE N == Len(ops)
           Eq(f) == f = [n \in 0..N |-> IF n = 0 THEN text
                                        ELSE writeLocal(f[n - 1], ops[n])]
           versions == CHOOSE f : Eq(f)
<1>1. N \in Nat /\ \A n \in 1..N : ops[n] \in op_t
  BY LenProperties, ElementOfSeq
<1>2. PICK f \in [0..N -> Text] :
        f[0] = text /\ \A n \in 1..N : f[n] = writeLocal(f[n - 1], ops[n])
  <2> DEFINE step == [n \in 1..N |-> [t \in Text |-> writeLocal(t, ops[n])]]
  <2>1. step \in [1..N -> [Text -> Text]]
    BY <1>1, WriteType
  <2>2. \A n \in 1..N : \A t \in Text : step[n][t] = writeLocal(t, ops[n])
    OBVIOUS
  <2> HIDE DEF step
  <2>3. PICK f \in [0..N -> Text] :
            f[0] = text /\ \A n \in 1..N : f[n] = step[n][f[n - 1]]
    <3>1. Recursive(Text, text, N, step)
      <4> HIDE DEF N
      <4> QED  BY <1>1, <2>1, Recursion
    <3> QED  BY <3>1 DEF Recursive
  <2>4. \A n \in 1..N : f[n] = writeLocal(f[n - 1], ops[n])
    <3>1. \A n \in 1..N : f[n - 1] \in Text
      BY <1>1, <2>3
    <3> QED  BY <2>2, <2>3, <3>1
  <2> QED  BY <2>3, <2>4
<1>3. Eq(versions)
  <2>1. Eq(f)
    BY <1>1, <1>2
  <2> HIDE DEF Eq
  <2> QED  BY <2>1
<1>4. /\ versions[0] = text
      /\ \A n \in 1..N : versions[n] = writeLocal(versions[n - 1], ops[n])
      /\ versions = [n \in 0..N |-> versions[n]]
  <2>1. versions = [n \in 0..N |-> IF n = 0 THEN text
                                   ELSE writeLocal(versions[n - 1], ops[n])]
    BY <1>3
  <2> HIDE DEF versions, N
  <2>2. N \in Nat
    BY <1>1
  <2>3. 0 \in 0..N /\ \A n \in 1..N : n \in 0..N /\ n # 0
    BY ONLY <2>2
  <2>4. versions[0] = text
    BY ONLY <2>1, <2>3
  <2>5. \A n \in 1..N : versions[n] = writeLocal(versions[n - 1], ops[n])
    BY ONLY <2>1, <2>3
  <2>6. versions = [n \in 0..N |-> versions[n]]
    <3> DEFINE A(n) == IF n = 0 THEN text ELSE writeLocal(versions[n - 1], ops[n])
    <3>1. versions = [n \in 0..N |-> A(n)]
      BY ONLY <2>1
    <3> HIDE DEF A
    <3> QED  BY ONLY <3>1
  <2> QED  BY <2>4, <2>5, <2>6
<1>5. Versions(text, ops) = versions
  BY DEF Versions
<1> HIDE DEF versions, Eq
<1>6. \A n \in 1..N : f[n - 1] = versions[n - 1] => f[n] = versions[n]
  BY <1>2, <1>4
<1>7. \A n \in 0..N : f[n] = versions[n]
  <2> HIDE DEF N
  <2>1. StepAlike(f, versions, N)
    BY <1>2, <1>4, <1>6 DEF StepAlike
  <2>2. Alike(f, versions, N)
    BY <1>1, <2>1, SameSteps
  <2> QED  BY <2>2 DEF Alike
<1>8. versions \in [0..N -> Text]
  BY <1>2, <1>4, <1>7
<1> QED  BY <1>4, <1>5, <1>8

\* One more operation leaves the earlier texts as they are.
LEMMA VersionsAppend ==
    ASSUME NEW text \in Text, NEW ops \in Seq(op_t), NEW op \in op_t
    PROVE  LET before == Versions(text, ops)
               after == Versions(text, Append(ops, op))
           IN  /\ \A n \in 0..Len(ops) : after[n] = before[n]
               /\ after[Len(ops) + 1] = writeLocal(before[Len(ops)], op)
<1> DEFINE N == Len(ops)
           more == Append(ops, op)
           before == Versions(text, ops)
           after == Versions(text, more)
<1>1. /\ N \in Nat /\ more \in Seq(op_t) /\ Len(more) = N + 1
      /\ more[N + 1] = op /\ \A n \in 1..N : more[n] = ops[n]
  OBVIOUS
<1> HIDE DEF more
<1>2. /\ before[0] = text
      /\ \A n \in 1..N : before[n] = writeLocal(before[n - 1], ops[n])
  BY VersionsByStep
<1>3. /\ after[0] = text
      /\ \A n \in 1..N + 1 : after[n] = writeLocal(after[n - 1], more[n])
  BY <1>1, VersionsByStep
<1> HIDE DEF before, after, N
<1>4. \A n \in 1..N : after[n - 1] = before[n - 1] => after[n] = before[n]
  <2>1. \A n \in 1..N : n \in 1..N + 1
    BY <1>1
  <2> QED  BY <1>1, <1>2, <1>3, <2>1
<1>5. \A n \in 0..N : after[n] = before[n]
  <2>1. StepAlike(after, before, N)
    BY <1>2, <1>3, <1>4 DEF StepAlike
  <2>2. Alike(after, before, N)
    BY <1>1, <2>1, SameSteps
  <2> QED  BY <2>2 DEF Alike
<1>6. after[N + 1] = writeLocal(before[N], op)
  <2>1. N \in 0..N /\ N + 1 \in 1..N + 1 /\ N + 1 - 1 = N
    BY <1>1
  <2> QED  BY <1>1, <1>3, <1>5, <2>1
<1> QED  BY <1>5, <1>6 DEF before, after, N, more

\* Generate, in two parts or all at once.
LEMMA GenerateNothing ==
    ASSUME NEW e \in Endpoint
    PROVE  Generate(e, <<>>) = e /\ Messages(e, <<>>) = <<>>
<1>1. e.local \in Nat /\ e.global \in Nat /\ e.outgoing \in Seq(trans_t)
  BY DEF Endpoint
<1>2. Messages(e, <<>>) = <<>>
  BY DEF Messages
<1>3. e = [local |-> e.local, global |-> e.global, outgoing |-> e.outgoing]
  BY DEF Endpoint
<1>4. [n \in 1..Len(<<>>) |-> [op |-> <<>>[n], state |-> e.local + n - 1]] = <<>>
  OBVIOUS
<1>5. e.local + Len(<<>>) = e.local /\ e.outgoing \o <<>> = e.outgoing
  BY <1>1
<1>6. Generate(e, <<>>) = [local |-> e.local + Len(<<>>), global |-> e.global,
                           outgoing |-> e.outgoing \o <<>>]
  BY <1>4 DEF Generate
<1> QED  BY <1>2, <1>3, <1>5, <1>6

LEMMA MessagesType ==
    ASSUME NEW e \in Endpoint, NEW ops \in Seq(op_t)
    PROVE  Messages(e, ops) \in Seq(trans_t)
<1>1. e.global \in Nat /\ Len(ops) \in Nat /\ \A n \in 1..Len(ops) : ops[n] \in op_t
  BY LenProperties, ElementOfSeq DEF Endpoint
<1>2. Messages(e, ops) \in [1..Len(ops) -> trans_t]
  BY <1>1 DEF Messages, trans_t
<1> QED  BY <1>1, <1>2, SeqDef

LEMMA GenerateType ==
    ASSUME NEW e \in Endpoint, NEW ops \in Seq(op_t)
    PROVE  Generate(e, ops) \in Endpoint
<1> DEFINE queued == [n \in 1..Len(ops) |->
                        [op |-> ops[n], state |-> e.local + n - 1]]
<1>1. /\ e.local \in Nat /\ e.global \in Nat /\ e.outgoing \in Seq(trans_t)
      /\ Len(ops) \in Nat /\ \A n \in 1..Len(ops) : ops[n] \in op_t
  BY LenProperties, ElementOfSeq DEF Endpoint
<1>2. queued \in [1..Len(ops) -> trans_t]
  BY <1>1 DEF trans_t
<1> HIDE DEF queued
<1>3. queued \in Seq(trans_t)
  BY <1>1, <1>2, SeqDef
<1>4. e.outgoing \o queued \in Seq(trans_t)
  BY <1>1, <1>3
<1>5. Generate(e, ops) = [local |-> e.local + Len(ops), global |-> e.global,
                          outgoing |-> e.outgoing \o queued]
  BY DEF Generate, queued
<1> QED  BY <1>1, <1>4, <1>5 DEF Endpoint

LEMMA GenerateConcat ==
    ASSUME NEW e \in Endpoint, NEW s \in Seq(op_t), NEW t \in Seq(op_t)
    PROVE  /\ Generate(Generate(e, s), t) = Generate(e, s \o t)
           /\ Messages(e, s) \o Messages(Generate(e, s), t)
                = Messages(e, s \o t)
<1> DEFINE l == e.local
           g == e.global
           Queue(k, ops) == [n \in 1..Len(ops) |->
                                [op |-> ops[n], state |-> k + n - 1]]
           Msgs(ops) == [n \in 1..Len(ops) |-> [op |-> ops[n], state |-> g]]
           out == e.outgoing
<1>1. l \in Nat /\ g \in Nat /\ out \in Seq(trans_t)
  BY DEF Endpoint
<1>2. /\ Len(s) \in Nat /\ Len(t) \in Nat /\ s \o t \in Seq(op_t)
      /\ Len(s \o t) = Len(s) + Len(t)
      /\ \A n \in 1..Len(s) : (s \o t)[n] = s[n]
      /\ \A n \in 1..Len(t) : (s \o t)[Len(s) + n] = t[n]
      /\ \A n \in 1..Len(s) : s[n] \in op_t
      /\ \A n \in 1..Len(t) : t[n] \in op_t
  BY LenProperties, ElementOfSeq
<1>3. \A ops \in Seq(op_t), k \in Nat :
        /\ Queue(k, ops) \in Seq(trans_t) /\ Len(Queue(k, ops)) = Len(ops)
        /\ Msgs(ops) \in Seq(trans_t) /\ Len(Msgs(ops)) = Len(ops)
  <2> SUFFICES ASSUME NEW ops \in Seq(op_t), NEW k \in Nat
               PROVE  /\ Queue(k, ops) \in Seq(trans_t)
                      /\ Len(Queue(k, ops)) = Len(ops)
                      /\ Msgs(ops) \in Seq(trans_t)
                      /\ Len(Msgs(ops)) = Len(ops)
    OBVIOUS
  <2>1. Len(ops) \in Nat /\ \A n \in 1..Len(ops) : ops[n] \in op_t
    BY LenProperties, ElementOfSeq
  <2>2. /\ Queue(k, ops) \in [1..Len(ops) -> trans_t]
        /\ Msgs(ops) \in [1..Len(ops) -> trans_t]
    BY <1>1, <2>1 DEF trans_t
  <2> DEFINE N == Len(ops)
             q == Queue(k, ops)
             m == Msgs(ops)
  <2> HIDE DEF N, q, m
  <2>3. N \in Nat /\ q \in [1..N -> trans_t] /\ m \in [1..N -> trans_t]
    BY <2>1, <2>2 DEF N, q, m
  <2>4. /\ q \in Seq(trans_t) /\ Len(q) = N
        /\ m \in Seq(trans_t) /\ Len(m) = N
    BY <2>3, SeqDef
  <2> QED  BY <2>4 DEF N, q, m
<1>4. /\ \A ops, k : \A n \in 1..Len(ops) :
            Queue(k, ops)[n] = [op |-> ops[n], state |-> k + n - 1]
      /\ \A ops : \A n \in 1..Len(ops) :
            Msgs(ops)[n] = [op |-> ops[n], state |-> g]
  OBVIOUS
<1>5. \A x, ops :
        Generate(x, ops) = [local |-> x.local + Len(ops), global |-> x.global,
                            outgoing |-> x.outgoing \o
                                [n \in 1..Len(ops) |->
                                    [op |-> ops[n], state |-> x.local + n - 1]]]
  BY DEF Generate
<1>6. /\ Generate(e, s).local = l + Len(s) /\ Generate(e, s).global = g
      /\ Generate(e, s).outgoing = out \o Queue(l, s)
  BY <1>5
<1>7. /\ Generate(e, s \o t) = [local |-> l + (Len(s) + Len(t)), global |-> g,
                                outgoing |-> out \o Queue(l, s \o t)]
      /\ Generate(Generate(e, s), t)
            = [local |-> l + Len(s) + Len(t), global |-> g,
               outgoing |-> (out \o Queue(l, s)) \o Queue(l + Len(s), t)]
  BY <1>2, <1>5, <1>6
<1>8. /\ Messages(e, s) = Msgs(s) /\ Messages(e, s \o t) = Msgs(s \o t)
      /\ Messages(Generate(e, s), t) = Msgs(t)
  BY <1>6 DEF Messages
<1> HIDE DEF Queue, Msgs, l, g, out
<1>9. l + Len(s) \in Nat
  BY <1>1, <1>2
<1>10. Queue(l, s) \o Queue(l + Len(s), t) = Queue(l, s \o t)
  <2> DEFINE p == Queue(l, s)
             q == Queue(l + Len(s), t)
             r == Queue(l, s \o t)
             M == Len(s)
             N == Len(t)
  <2>1. /\ p \in Seq(trans_t) /\ Len(p) = M /\ q \in Seq(trans_t) /\ Len(q) = N
        /\ r \in Seq(trans_t) /\ Len(r) = M + N
    BY <1>1, <1>2, <1>3, <1>9
  <2>2. ASSUME NEW n \in 1..M + N
        PROVE  r[n] = IF n <= M THEN p[n] ELSE q[n - M]
    <3>1. r[n] = [op |-> (s \o t)[n], state |-> l + n - 1]
      <4>1. n \in 1..Len(s \o t)
        BY <1>2
      <4> QED  BY <1>4, <4>1
    <3>2. CASE n <= M
      <4>1. n \in 1..M
        BY <1>2, <3>2
      <4>2. p[n] = [op |-> s[n], state |-> l + n - 1] /\ (s \o t)[n] = s[n]
        BY <1>2, <1>4, <4>1
      <4> QED  BY <3>1, <3>2, <4>2
    <3>3. CASE ~(n <= M)
      <4>1. n - M \in 1..N /\ M + (n - M) = n /\ l + M + (n - M) - 1 = l + n - 1
        BY <1>1, <1>2, <3>3
      <4>2. /\ q[n - M] = [op |-> t[n - M], state |-> l + M + (n - M) - 1]
            /\ (s \o t)[M + (n - M)] = t[n - M]
        BY <1>2, <1>4, <4>1
      <4> QED  BY <3>1, <3>3, <4>1, <4>2
    <3> QED  BY <3>2, <3>3
  <2>3. \A n \in 1..M + N : (p \o q)[n] = IF n <= M THEN p[n] ELSE q[n - M]
    <3> HIDE DEF p, q, M, N
    <3> QED  BY <2>1, ConcatProperties
  <2>4. p \o q \in Seq(trans_t) /\ Len(p \o q) = M + N
    <3> HIDE DEF p, q, M, N
    <3> QED  BY <2>1, ConcatProperties
  <2> HIDE DEF p, q, r, M, N
  <2>5. p \o q = r
    BY <2>1, <2>2, <2>3, <2>4, SeqEqual
  <2> QED  BY <2>5 DEF p, q, r
<1>11. Msgs(s) \o Msgs(t) = Msgs(s \o t)
  <2> DEFINE p == Msgs(s)
             q == Msgs(t)
             r == Msgs(s \o t)
             M == Len(s)
             N == Len(t)
  <2>1. /\ p \in Seq(trans_t) /\ Len(p) = M /\ q \in Seq(trans_t) /\ Len(q) = N
        /\ r \in Seq(trans_t) /\ Len(r) = M + N
    BY <1>1, <1>2, <1>3
  <2>2. ASSUME NEW n \in 1..M + N
        PROVE  r[n] = IF n <= M THEN p[n] ELSE q[n - M]
    <3>1. r[n] = [op |-> (s \o t)[n], state |-> g]
      <4>1. n \in 1..Len(s \o t)
        BY <1>2
      <4> QED  BY <1>4, <4>1
    <3>2. CASE n <= M
      <4>1. n \in 1..M
        BY <1>2, <3>2
      <4>2. p[n] = [op |-> s[n], state |-> g] /\ (s \o t)[n] = s[n]
        BY <1>2, <1>4, <4>1
      <4> QED  BY <3>1, <3>2, <4>2
    <3>3. CASE ~(n <= M)
      <4>1. n - M \in 1..N /\ M + (n - M) = n
        BY <1>2, <3>3
      <4>2. /\ q[n - M] = [op |-> t[n - M], state |-> g]
            /\ (s \o t)[M + (n - M)] = t[n - M]
        BY <1>2, <1>4, <4>1
      <4> QED  BY <3>1, <3>3, <4>1, <4>2
    <3> QED  BY <3>2, <3>3
  <2>3. \A n \in 1..M + N : (p \o q)[n] = IF n <= M THEN p[n] ELSE q[n - M]
    <3> HIDE DEF p, q, M, N
    <3> QED  BY <2>1, ConcatProperties
  <2>4. p \o q \in Seq(trans_t) /\ Len(p \o q) = M + N
    <3> HIDE DEF p, q, M, N
    <3> QED  BY <2>1, ConcatProperties
  <2> HIDE DEF p, q, r, M, N
  <2>5. p \o q = r
    BY <2>1, <2>2, <2>3, <2>4, SeqEqual
  <2> QED  BY <2>5 DEF p, q, r
<1>12. Generate(Generate(e, s), t) = Generate(e, s \o t)
  <2>1. l + Len(s) + Len(t) = l + (Len(s) + Len(t))
    BY <1>1, <1>2
  <2>2. (out \o Queue(l, s)) \o Queue(l + Len(s), t)
            = out \o Queue(l, s \o t)
    <3> DEFINE p == Queue(l, s)
               q == Queue(l + Len(s), t)
    <3>1. p \in Seq(trans_t) /\ q \in Seq(trans_t)
      BY <1>1, <1>3, <1>9
    <3> HIDE DEF p, q
    <3>2. (out \o p) \o q = out \o (p \o q)
      <4>1. out \in Seq(trans_t)
        BY <1>1
      <4> HIDE DEF out
      <4> QED  BY ONLY <3>1, <4>1, ConcatAssociative
    <3> QED  BY <1>10, <3>2 DEF p, q
  <2> QED  BY <1>7, <2>1, <2>2
<1> QED  BY <1>8, <1>11, <1>12
-----------------------------------------------------------------------------
(***************************************************************************)
(* One user and the log.                                                   *)
(***************************************************************************)

Own(u, log) == Cardinality({ n \in 1..Len(log) : log[n].id = u })

LEMMA OwnType ==
    ASSUME NEW u, NEW log \in Seq(op_t)
    PROVE  Own(u, log) \in Nat
<1>1. IsFiniteSet(1..Len(log))
  BY LenProperties, FS_Interval
<1>2. { n \in 1..Len(log) : log[n].id = u } \subseteq 1..Len(log)
  OBVIOUS
<1> QED  BY <1>1, <1>2, FS_Subset, FS_CardinalityType DEF Own

LEMMA OwnAppend ==
    ASSUME NEW u, NEW log \in Seq(op_t), NEW op \in op_t
    PROVE  Own(u, Append(log, op)) = IF op.id = u THEN Own(u, log) + 1
                                     ELSE Own(u, log)
<1> DEFINE N == Len(log)
           more == Append(log, op)
           A == { n \in 1..N : log[n].id = u }
           B == { n \in 1..N + 1 : more[n].id = u }
<1>1. /\ N \in Nat /\ Len(more) = N + 1
      /\ more[N + 1] = op /\ \A n \in 1..N : more[n] = log[n]
  OBVIOUS
<1>2. Own(u, log) = Cardinality(A) /\ Own(u, more) = Cardinality(B)
  BY <1>1 DEF Own
<1>3. IsFiniteSet(A) /\ Cardinality(A) \in Nat
  <2>1. IsFiniteSet(1..N) /\ A \subseteq 1..N
    BY <1>1, FS_Interval
  <2> QED  BY <2>1, FS_Subset, FS_CardinalityType
<1> HIDE DEF more
<1>4. B = IF op.id = u THEN A \cup {N + 1} ELSE A
  <2>1. \A n \in 1..N + 1 : n \in 1..N \/ n = N + 1
    BY <1>1
  <2>2. 1..N \subseteq 1..N + 1 /\ N + 1 \in 1..N + 1 /\ N + 1 \notin 1..N
    BY <1>1
  <2> HIDE DEF N
  <2> QED  BY <1>1, <2>1, <2>2
<1>5. N + 1 \notin A
  BY <1>1
<1> HIDE DEF A, B, N
<1>6. Cardinality(A \cup {N + 1}) = Cardinality(A) + 1
  BY <1>3, <1>5, FS_AddElement
<1> QED  BY <1>2, <1>3, <1>4, <1>6 DEF more

\* No operation of u comes after the first n of the log.
NoneAfter(u, log, n) == \A m \in n + 1..Len(log) : log[m].id # u

\* Where user u has received all that its own operations meet in the log,
\* the grid shows the texts of the log.
Trace(u, x, y, T, log) ==
    \A n \in 0..Len(log) :
        n - Own(u, log) >= x.global /\ NoneAfter(u, log, n)
        => T[y.global][n - Own(u, log)] = Versions(InitialText, log)[n]

\* Endpoint x has reached text and y has reached the log.
Meet(u, x, y, sent, back, text, log) ==
    /\ log \in Seq(op_t)
    /\ \E a, b, T :
        /\ Grid(x, y, sent, back, {u}, UserId \ {u}, a, b, T)
        /\ T[x.local][x.global] = text
        /\ y.local + Own(u, log) = Len(log)
        /\ Trace(u, x, y, T, log)

\* Facts about the numbers of a grid.
LEMMA GridNumbers ==
    ASSUME NEW x, NEW y, NEW sent, NEW back, NEW ids, NEW others,
           NEW a, NEW b, NEW T,
           Grid(x, y, sent, back, ids, others, a, b, T)
    PROVE  /\ x.local \in Nat /\ x.global \in Nat
           /\ y.local \in Nat /\ y.global \in Nat
           /\ y.global <= x.local /\ x.global <= y.local
           /\ sent = <<>> => y.global = x.local
<1>1. /\ x \in Endpoint /\ y \in Endpoint
      /\ Channel(x, y, sent) /\ Channel(y, x, back)
      /\ sent \in Seq(trans_t) /\ back \in Seq(trans_t)
  BY ConnectedType DEF Grid, Connected
<1>2. /\ x.local \in Nat /\ x.global \in Nat
      /\ y.local \in Nat /\ y.global \in Nat
  BY <1>1 DEF Endpoint
<1>3. /\ Len(sent) \in Nat /\ Len(back) \in Nat
      /\ sent = <<>> => Len(sent) = 0
  BY <1>1
<1> QED  BY <1>1, <1>2, <1>3 DEF Channel

\* The user types: one more operation of x.
LEMMA MeetEdit ==
    ASSUME NEW u \in UserId, NEW x, NEW y, NEW sent, NEW back, NEW text,
           NEW log, Meet(u, x, y, sent, back, text, log),
           NEW op \in OpsBy({u}), Silent(text, op)
    PROVE  Meet(u, Generate(x, <<op>>), y, sent \o Messages(x, <<op>>), back,
                writeLocal(text, op), log)
<1>1. PICK a, b, T :
        /\ Grid(x, y, sent, back, {u}, UserId \ {u}, a, b, T)
        /\ T[x.local][x.global] = text
        /\ y.local + Own(u, log) = Len(log)
        /\ Trace(u, x, y, T, log)
  BY DEF Meet
<1> DEFINE new == Generate(x, <<op>>)
           sent2 == sent \o Messages(x, <<op>>)
           others == UserId \ {u}
<1>2. {u} \cap others = {}
  OBVIOUS
<1> HIDE DEF others
<1>3. Grid(x, y, sent, back, {u}, others, a, b, T)
  BY <1>1 DEF others
<1>4. /\ new.local = x.local + 1 /\ new.global = x.global
      /\ \E a2, b2, T2 :
           /\ Grid(new, y, sent2, back, {u}, others, a2, b2, T2)
           /\ \A i \in 0..x.local : T2[i] = T[i]
           /\ T2[x.local + 1][x.global] = writeLocal(T[x.local][x.global], op)
  BY <1>1, <1>2, <1>3, GridSend
<1>5. PICK a2, b2, T2 :
        /\ Grid(new, y, sent2, back, {u}, others, a2, b2, T2)
        /\ \A i \in 0..x.local : T2[i] = T[i]
        /\ T2[x.local + 1][x.global] = writeLocal(T[x.local][x.global], op)
  BY <1>4
<1> HIDE DEF new, sent2
<1>6. T2[y.global] = T[y.global]
  BY <1>1, <1>5, GridNumbers
<1>7. Trace(u, new, y, T2, log)
  BY <1>1, <1>4, <1>6 DEF Trace
<1>8. T2[new.local][new.global] = writeLocal(text, op)
  BY <1>1, <1>4, <1>5
<1>9. log \in Seq(op_t)
  BY DEF Meet
<1> QED  BY <1>1, <1>5, <1>7, <1>8, <1>9 DEF Meet, new, sent2, others

\* The client receives: x moves on.
LEMMA MeetRead ==
    ASSUME NEW u \in UserId, NEW x, NEW y, NEW sent, NEW back, NEW text,
           NEW log, Meet(u, x, y, sent, back, text, log), back # <<>>
    PROVE  LET op == Received(x, Head(back))
           IN  /\ Silent(text, op)
               /\ Meet(u, Receive(x, Head(back)), y, sent, Tail(back),
                       writeLocal(text, op), log)
<1>1. PICK a, b, T :
        /\ Grid(x, y, sent, back, {u}, UserId \ {u}, a, b, T)
        /\ T[x.local][x.global] = text
        /\ y.local + Own(u, log) = Len(log)
        /\ Trace(u, x, y, T, log)
  BY DEF Meet
<1> DEFINE new == Receive(x, Head(back))
           op == Received(x, Head(back))
<1>2. /\ Grid(new, y, sent, Tail(back), {u}, UserId \ {u}, a, b, T)
      /\ new.local = x.local /\ new.global = x.global + 1
      /\ Silent(text, op)
      /\ T[new.local][new.global] = writeLocal(text, op)
  BY <1>1, GridReceive
<1> HIDE DEF new, op
<1>3. log \in Seq(op_t)
  BY DEF Meet
<1>4. Trace(u, new, y, T, log)
  <2>1. \A k \in Int : k >= new.global => k >= x.global
    BY <1>1, <1>2, GridNumbers
  <2>2. Own(u, log) \in Nat
    BY <1>3, OwnType
  <2>3. \A n \in 0..Len(log) : n - Own(u, log) \in Int
    BY <2>2
  <2> QED  BY <1>1, <2>1, <2>3 DEF Trace
<1> QED  BY <1>1, <1>2, <1>3, <1>4 DEF Meet, new, op

\* The server process commits an operation of the user: y moves on, and the
\* log grows.
LEMMA MeetCommit ==
    ASSUME NEW u \in UserId, NEW x, NEW y, NEW sent, NEW back, NEW text,
           NEW log, Meet(u, x, y, sent, back, text, log), sent # <<>>
    PROVE  LET op == Received(y, Head(sent))
           IN  /\ op \in OpsBy({u})
               /\ Silent(Versions(InitialText, log)[Len(log)], op)
               /\ Meet(u, x, Receive(y, Head(sent)), Tail(sent), back, text,
                       Append(log, op))
<1>1. PICK a, b, T :
        /\ Grid(x, y, sent, back, {u}, UserId \ {u}, a, b, T)
        /\ T[x.local][x.global] = text
        /\ y.local + Own(u, log) = Len(log)
        /\ Trace(u, x, y, T, log)
  BY DEF Meet
<1> DEFINE new == Receive(y, Head(sent))
           op == Received(y, Head(sent))
           F == Flip(T)
           T2 == Flip(F)
           N == Len(log)
           more == Append(log, op)
           before == Versions(InitialText, log)
           after == Versions(InitialText, more)
           h == y.global
           Y == y.local
<1>2. /\ x.local \in Nat /\ x.global \in Nat /\ Y \in Nat /\ h \in Nat
      /\ x.global <= Y
  BY <1>1, GridNumbers
<1>3. /\ \A i, j \in Nat : F[j][i] = T[i][j]
      /\ \A i, j \in Nat : T2[i][j] = F[j][i]
  BY DEF Flip
<1>4. /\ Grid(new, x, back, Tail(sent), UserId \ {u}, {u}, b, a, F)
      /\ new.local = Y /\ new.global = h + 1
      /\ op \in OpsBy({u}) /\ Silent(F[Y][h], op)
      /\ F[new.local][new.global] = writeLocal(F[Y][h], op)
  <2>1. Grid(y, x, back, sent, UserId \ {u}, {u}, b, a, F)
    BY <1>1, GridFlip
  <2> HIDE DEF F
  <2> QED  BY <2>1, GridReceive
<1>5. Grid(x, new, Tail(sent), back, {u}, UserId \ {u}, a, b, T2)
  <2> HIDE DEF F, new
  <2> QED  BY <1>4, GridFlip
<1>6. log \in Seq(op_t) /\ op \in op_t /\ op.id = u
  BY <1>4 DEF Meet, OpsBy
<1> HIDE DEF new, op, F, T2, before, after, h, Y
<1>7. /\ N \in Nat /\ more \in Seq(op_t) /\ Len(more) = N + 1
      /\ more[N + 1] = op
  BY <1>6
<1>8. Own(u, log) \in Nat /\ Own(u, more) = Own(u, log) + 1
  BY <1>6, OwnType, OwnAppend
<1>9. after[N + 1] = writeLocal(before[N], op)
  BY <1>6, InitialTextAssumption, VersionsAppend DEF before, after
<1> HIDE DEF more, N
<1>10. N - Own(u, log) = Y
  BY <1>1, <1>2, <1>7, <1>8 DEF Y, N
<1>11. T[h][Y] = before[N]
  <2>1. N \in 0..N /\ Len(log) = N
    BY <1>7 DEF N
  <2>2. NoneAfter(u, log, N)
    BY <1>7, <2>1 DEF NoneAfter
  <2> QED  BY <1>1, <1>2, <1>10, <2>1, <2>2 DEF Trace, before, h
<1>12. F[Y][h] = before[N]
  BY <1>2, <1>3, <1>11
<1>13. Trace(u, x, new, T2, more)
  <2> SUFFICES ASSUME NEW n \in 0..N + 1, NoneAfter(u, more, n)
               PROVE  T2[new.global][n - Own(u, more)] = after[n]
    BY <1>7 DEF Trace, after
  <2>1. n = N + 1
    <3>1. SUFFICES ASSUME n # N + 1
                   PROVE  FALSE
      OBVIOUS
    <3>2. N + 1 \in n + 1..Len(more)
      BY <1>7, <3>1
    <3> QED  BY <1>6, <1>7, <3>2 DEF NoneAfter
  <2>2. n - Own(u, more) = Y
    BY <1>7, <1>8, <1>10, <2>1
  <2>3. new.global \in Nat
    BY <1>2, <1>4
  <2>4. T2[new.global][Y] = F[Y][new.global]
    BY <1>2, <1>3, <2>3
  <2> QED  BY <1>4, <1>9, <1>12, <2>1, <2>2, <2>4
<1>14. T2[x.local][x.global] = text
  BY <1>1, <1>2, <1>3
<1>15. new.local + Own(u, more) = Len(more)
  BY <1>2, <1>4, <1>7, <1>8, <1>10
<1>16. Meet(u, x, new, Tail(sent), back, text, more)
  BY <1>5, <1>7, <1>13, <1>14, <1>15 DEF Meet
<1> QED  BY <1>4, <1>12, <1>16 DEF new, op, more, before, N

\* Another server process commits an operation: one more operation of y.
LEMMA MeetOther ==
    ASSUME NEW u \in UserId, NEW x, NEW y, NEW sent, NEW back, NEW text,
           NEW log, Meet(u, x, y, sent, back, text, log),
           NEW op \in OpsBy(UserId \ {u}),
           Silent(Versions(InitialText, log)[Len(log)], op)
    PROVE  Meet(u, x, Generate(y, <<op>>), sent, back \o Messages(y, <<op>>),
                text, Append(log, op))
<1>1. PICK a, b, T :
        /\ Grid(x, y, sent, back, {u}, UserId \ {u}, a, b, T)
        /\ T[x.local][x.global] = text
        /\ y.local + Own(u, log) = Len(log)
        /\ Trace(u, x, y, T, log)
  BY DEF Meet
<1> DEFINE new == Generate(y, <<op>>)
           back2 == back \o Messages(y, <<op>>)
           F == Flip(T)
           N == Len(log)
           more == Append(log, op)
           before == Versions(InitialText, log)
           after == Versions(InitialText, more)
           h == y.global
           Y == y.local
           others == UserId \ {u}
<1>2. /\ x.local \in Nat /\ x.global \in Nat /\ Y \in Nat /\ h \in Nat
      /\ x.global <= Y
  BY <1>1, GridNumbers
<1>3. \A i, j \in Nat : F[j][i] = T[i][j]
  BY DEF Flip
<1>4. log \in Seq(op_t) /\ op \in op_t /\ op.id # u
  BY DEF Meet, OpsBy
<1>5. /\ N \in Nat /\ more \in Seq(op_t) /\ Len(more) = N + 1
      /\ more[N + 1] = op /\ \A n \in 1..N : more[n] = log[n]
  BY <1>4
<1>6. Own(u, log) \in Nat /\ Own(u, more) = Own(u, log)
  BY <1>4, OwnType, OwnAppend
<1>7. /\ after[N + 1] = writeLocal(before[N], op)
      /\ \A n \in 0..N : after[n] = before[n]
  BY <1>4, InitialTextAssumption, VersionsAppend
<1>8. {u} \cap others = {}
  OBVIOUS
<1>9. Grid(y, x, back, sent, others, {u}, b, a, F) /\ op \in OpsBy(others)
  BY <1>1, GridFlip
<1> HIDE DEF more, N, F, before, after, h, Y, others
<1>10. N - Own(u, log) = Y
  BY <1>1, <1>2, <1>5, <1>6 DEF Y, N
<1>11. T[h][Y] = before[N]
  <2>1. N \in 0..N /\ Len(log) = N
    BY <1>5 DEF N
  <2>2. NoneAfter(u, log, N)
    BY <1>5, <2>1 DEF NoneAfter
  <2> QED  BY <1>1, <1>2, <1>10, <2>1, <2>2 DEF Trace, before, h
<1>12. F[y.local][y.global] = before[N]
  BY <1>2, <1>3, <1>11 DEF Y, h
<1>13. Silent(F[y.local][y.global], op)
  BY <1>12 DEF before, N
<1>14. /\ new.local = y.local + 1 /\ new.global = y.global
       /\ \E b2, a2, T2 :
            /\ Grid(new, x, back2, sent, others, {u}, b2, a2, T2)
            /\ \A j \in 0..y.local : T2[j] = F[j]
            /\ T2[y.local + 1][y.global]
                    = writeLocal(F[y.local][y.global], op)
  BY <1>8, <1>9, <1>13, GridSend
<1>15. PICK b2, a2, T2 :
            /\ Grid(new, x, back2, sent, others, {u}, b2, a2, T2)
            /\ \A j \in 0..y.local : T2[j] = F[j]
            /\ T2[y.local + 1][y.global]
                    = writeLocal(F[y.local][y.global], op)
  BY <1>14
<1> DEFINE T3 == Flip(T2)
<1>16. Grid(x, new, sent, back2, {u}, others, a2, b2, T3)
  <2> HIDE DEF new, back2
  <2> QED  BY <1>15, GridFlip
<1>17. \A i, j \in Nat : T3[i][j] = T2[j][i]
  BY DEF Flip
<1> HIDE DEF T3, new, back2
<1>18. /\ \A i \in Nat, j \in 0..Y : T3[i][j] = T[i][j]
       /\ T3[h][Y + 1] = writeLocal(before[N], op)
  <2>1. \A j \in 0..Y : j \in Nat
    BY <1>2
  <2>2. \A i \in Nat, j \in 0..Y : T3[i][j] = T2[j][i] /\ T2[j] = F[j]
                                   /\ F[j][i] = T[i][j]
    BY <1>3, <1>15, <1>17, <2>1 DEF Y
  <2>3. T3[h][Y + 1] = T2[Y + 1][h]
    BY <1>2, <1>17
  <2> QED  BY <1>12, <1>15, <2>2, <2>3 DEF Y, h
<1>19. Trace(u, x, new, T3, more)
  <2> SUFFICES ASSUME NEW n \in 0..N + 1, n - Own(u, more) >= x.global,
                      NoneAfter(u, more, n)
               PROVE  T3[new.global][n - Own(u, more)] = after[n]
    BY <1>5 DEF Trace, after
  <2>1. new.global = h /\ Own(u, more) = Own(u, log)
    BY <1>6, <1>14 DEF h
  <2>2. CASE n = N + 1
    <3>1. n - Own(u, log) = Y + 1
      BY <1>2, <1>5, <1>6, <1>10, <2>2
    <3> QED  BY <1>7, <1>18, <2>1, <2>2, <3>1
  <2>3. CASE n # N + 1
    <3>1. n \in 0..N /\ n - Own(u, log) >= x.global /\ n - Own(u, log) \in 0..Y
      BY <1>2, <1>5, <1>6, <1>10, <2>1, <2>3
    <3>2. NoneAfter(u, log, n)
      <4> SUFFICES ASSUME NEW m \in n + 1..Len(log)
                   PROVE  log[m].id # u
        BY DEF NoneAfter
      <4>1. m \in 1..N /\ m \in n + 1..Len(more)
        BY <1>5, <3>1 DEF N
      <4> QED  BY <1>5, <4>1 DEF NoneAfter
    <3>3. T[h][n - Own(u, log)] = before[n]
      BY <1>1, <3>1, <3>2 DEF Trace, N, h, before
    <3> QED  BY <1>2, <1>7, <1>18, <2>1, <3>1, <3>3
  <2> QED  BY <2>2, <2>3
<1>20. T3[x.local][x.global] = text
  <2>1. x.global \in 0..Y
    BY <1>2
  <2> QED  BY <1>1, <1>2, <1>18, <2>1
<1>21. new.local + Own(u, more) = Len(more)
  BY <1>2, <1>5, <1>6, <1>10, <1>14 DEF Y
<1> QED
  BY <1>5, <1>16, <1>19, <1>20, <1>21 DEF Meet, new, back2, more, others
-----------------------------------------------------------------------------
(***************************************************************************)
(* The protocol.  Edits that wait in the client and entries of the log     *)
(* that its server process has not read yet are taken as already handed to *)
(* the algorithm and under way: handing them over then changes nothing.    *)
(***************************************************************************)
Ahead(u) == Generate(client[u], local_ops[u])
AheadSent(u) == to_server[u] \o Messages(client[u], local_ops[u])
Behind(u) == Generate(server[u], Foreign(u, Unread(u)))
BehindSent(u) == to_client[u] \o Messages(server[u], Foreign(u, Unread(u)))

Meets(u) == Meet(u, Ahead(u), Behind(u), AheadSent(u), BehindSent(u),
                 edit_file[u], buf)

ConvergenceInv == JupiterInv /\ LogSilent /\ \A u \in UserId : Meets(u)

\* What the type invariant says of one user.
LEMMA UserType ==
    ASSUME TypeOK, NEW u \in UserId
    PROVE  /\ client[u] \in Endpoint /\ server[u] \in Endpoint
           /\ local_ops[u] \in Seq(op_t) /\ edit_file[u] \in Text
           /\ to_server[u] \in Seq(trans_t) /\ to_client[u] \in Seq(trans_t)
           /\ buf \in Seq(op_t) /\ readfd[u] \in 0..Len(buf)
           /\ Unread(u) \in Seq(op_t) /\ Foreign(u, Unread(u)) \in Seq(op_t)
<1>1. /\ client[u] \in Endpoint /\ server[u] \in Endpoint
      /\ local_ops[u] \in Seq(op_t) /\ edit_file[u] \in Text
      /\ to_server[u] \in Seq(trans_t) /\ to_client[u] \in Seq(trans_t)
      /\ buf \in Seq(op_t) /\ readfd[u] \in Nat /\ readfd[u] <= Len(buf)
  BY DEF TypeOK
<1>2. readfd[u] \in 0..Len(buf) /\ Len(buf) \in Nat
  BY <1>1, LenProperties
<1>3. Unread(u) \in Seq(op_t)
  BY <1>1, <1>2 DEF Unread
<1>4. Foreign(u, Unread(u)) \in Seq(op_t)
  <2>1. OpsBy(UserId \ {u}) \subseteq op_t
    BY DEF OpsBy
  <2> QED  BY <1>3, <2>1, ForeignType, SeqOfSubset
<1> QED  BY <1>1, <1>2, <1>3, <1>4

\* With nothing waiting, the two sides are the endpoints themselves.
LEMMA AheadOfNothing ==
    ASSUME TypeOK, NEW u \in UserId, local_ops[u] = <<>>
    PROVE  Ahead(u) = client[u] /\ AheadSent(u) = to_server[u]
<1>1. client[u] \in Endpoint /\ to_server[u] \in Seq(trans_t)
  BY UserType
<1>2. to_server[u] \o <<>> = to_server[u]
  BY <1>1
<1> QED  BY <1>1, <1>2, GenerateNothing DEF Ahead, AheadSent

\* The properties follow from the invariant.
LEMMA ConvergenceSafety ==
    ConvergenceInv => Agreement /\ ClientSilent /\ LogSilent
<1> SUFFICES ASSUME ConvergenceInv
             PROVE  Agreement /\ ClientSilent
  BY DEF ConvergenceInv
<1>1. TypeOK /\ \A u \in UserId : Meets(u)
  BY DEF ConvergenceInv, JupiterInv
<1>2. Agreement
  <2> SUFFICES ASSUME NEW u \in UserId, local_ops[u] = <<>>,
                      to_server[u] = <<>>,
                      \A n \in Known(u) + 1..Len(buf) : buf[n].id # u
               PROVE  edit_file[u] = Committed[Known(u)]
    BY DEF Agreement
  <2> DEFINE x == client[u]
             y == Behind(u)
  <2>1. Ahead(u) = x /\ AheadSent(u) = <<>>
    BY <1>1, AheadOfNothing
  <2>2. Meet(u, x, y, <<>>, BehindSent(u), edit_file[u], buf)
    BY <1>1, <2>1 DEF Meets
  <2> HIDE DEF x, y
  <2>3. PICK a, b, T :
          /\ Grid(x, y, <<>>, BehindSent(u), {u}, UserId \ {u}, a, b, T)
          /\ T[x.local][x.global] = edit_file[u]
          /\ y.local + Own(u, buf) = Len(buf)
          /\ Trace(u, x, y, T, buf)
    BY <2>2 DEF Meet
  <2>4. /\ x.local \in Nat /\ x.global \in Nat /\ y.local \in Nat
        /\ y.global = x.local /\ x.global <= y.local
    BY <2>3, GridNumbers
  <2>5. Own(u, buf) \in Nat /\ Known(u) = x.global + Own(u, buf)
    <3>1. Own(u, buf) \in Nat
      BY <1>1, UserType, OwnType
    <3> QED  BY <3>1 DEF Known, OwnCommits, Own, x
  <2> DEFINE k == Known(u)
  <2>6. /\ k \in 0..Len(buf) /\ k - Own(u, buf) = x.global
        /\ x.global >= x.global
    BY <2>3, <2>4, <2>5
  <2>7. NoneAfter(u, buf, k)
    BY DEF NoneAfter
  <2> HIDE DEF k
  <2>8. T[y.global][x.global] = Versions(InitialText, buf)[k]
    BY <2>3, <2>6, <2>7 DEF Trace
  <2> QED  BY <2>3, <2>4, <2>8 DEF Committed, k
<1>3. ClientSilent
  <2> SUFFICES ASSUME NEW u \in UserId, to_client[u] # <<>>,
                      local_ops[u] = <<>>
               PROVE  Silent(edit_file[u],
                             Received(client[u], Head(to_client[u])))
    BY DEF ClientSilent
  <2> DEFINE msgs == Messages(server[u], Foreign(u, Unread(u)))
             back == to_client[u] \o msgs
  <2>1. Meet(u, client[u], Behind(u), to_server[u], back, edit_file[u], buf)
    BY <1>1, AheadOfNothing DEF Meets, BehindSent
  <2>2. msgs \in Seq(trans_t) /\ to_client[u] \in Seq(trans_t)
    BY <1>1, UserType, MessagesType
  <2> HIDE DEF msgs
  <2>3. back # <<>> /\ Head(back) = Head(to_client[u])
    BY <2>2
  <2> QED  BY <2>1, <2>3, MeetRead
<1> QED  BY <1>2, <1>3
-----------------------------------------------------------------------------
\* Initially nothing has been performed: the grid is one point.
LEMMA ConvergenceInit == Init => ConvergenceInv
<1> SUFFICES ASSUME Init
             PROVE  ConvergenceInv
  OBVIOUS
<1>1. JupiterInv /\ TypeOK
  BY JupiterInit DEF JupiterInv
<1>2. buf = <<>> /\ Len(buf) = 0 /\ buf \in Seq(op_t)
  BY EmptySeq DEF Init
<1>3. LogSilent
  BY <1>2 DEF LogSilent
<1>4. ASSUME NEW u \in UserId
      PROVE  Meets(u)
  <2> DEFINE e == NewEndpoint
             others == UserId \ {u}
             T == [i \in Nat |-> [j \in Nat |-> InitialText]]
  <2>1. /\ client[u] = e /\ server[u] = e /\ edit_file[u] = InitialText
        /\ to_server[u] = <<>> /\ to_client[u] = <<>> /\ local_ops[u] = <<>>
        /\ readfd[u] = 0
    BY DEF Init
  <2>2. /\ e \in Endpoint /\ e.local = 0 /\ e.global = 0
        /\ e.outgoing = <<>> /\ Len(e.outgoing) = 0
    <3>1. client[u] \in Endpoint
      BY <1>1, UserType
    <3> QED  BY <2>1, <3>1 DEF NewEndpoint
  <2>3. Connected(e, e, <<>>, <<>>, {u}, others)
    BY <1>1, <2>1 DEF JupiterInv, Link
  <2> HIDE DEF e, others
  <2>4. Foreign(u, Unread(u)) = <<>>
    <3>1. Unread(u) = <<>>
      BY <1>2, <2>1 DEF Unread
    <3> QED  BY <3>1, ForeignEmpty
  <2>5. /\ Ahead(u) = e /\ Behind(u) = e
        /\ AheadSent(u) = <<>> /\ BehindSent(u) = <<>>
    <3>1. Generate(e, <<>>) = e /\ Messages(e, <<>>) = <<>>
      BY <2>2, GenerateNothing
    <3> QED  BY <2>1, <2>4, <3>1 DEF Ahead, Behind, AheadSent, BehindSent
  <2>6. Own(u, buf) = 0
    <3>1. { n \in 1..Len(buf) : buf[n].id = u } = {}
      BY <1>2
    <3> QED  BY <3>1, FS_EmptySet DEF Own
  <2>7. T[0][0] = InitialText
    OBVIOUS
  <2> HIDE DEF T
  <2>8. Rows(e, e, <<>>, T, T)
    BY <2>2 DEF Rows
  <2>9. Texts(e, e, {u}, others, T, T, T)
    BY <2>2, <2>7, InitialTextAssumption DEF Texts
  <2>10. Grid(e, e, <<>>, <<>>, {u}, others, T, T, T)
    BY <2>3, <2>8, <2>9 DEF Grid
  <2>11. Trace(u, e, e, T, buf)
    <3>1. Versions(InitialText, buf)[0] = InitialText
      BY <1>2, InitialTextAssumption, VersionsByStep
    <3>2. \A n \in 0..Len(buf) : n = 0 /\ n - Own(u, buf) = 0
      BY <1>2, <2>6
    <3> QED  BY <2>2, <2>7, <3>1, <3>2 DEF Trace
  <2>12. Meet(u, e, e, <<>>, <<>>, InitialText, buf)
    BY <1>2, <2>2, <2>6, <2>7, <2>10, <2>11 DEF Meet, others
  <2> QED  BY <2>1, <2>5, <2>12 DEF Meets
<1> QED  BY <1>1, <1>3, <1>4 DEF ConvergenceInv

\* What a step leaves alone.
LEMMA AheadKept ==
    ASSUME NEW u \in UserId, client'[u] = client[u],
           local_ops'[u] = local_ops[u], to_server'[u] = to_server[u]
    PROVE  Ahead(u)' = Ahead(u) /\ AheadSent(u)' = AheadSent(u)
BY DEF Ahead, AheadSent

LEMMA BehindKept ==
    ASSUME NEW u \in UserId, server'[u] = server[u],
           to_client'[u] = to_client[u], Unread(u)' = Unread(u)
    PROVE  Behind(u)' = Behind(u) /\ BehindSent(u)' = BehindSent(u)
BY DEF Behind, BehindSent

LEMMA MeetsKept ==
    ASSUME NEW u \in UserId, Meets(u), client'[u] = client[u],
           local_ops'[u] = local_ops[u], to_server'[u] = to_server[u],
           server'[u] = server[u], to_client'[u] = to_client[u],
           edit_file'[u] = edit_file[u], readfd'[u] = readfd[u], buf' = buf
    PROVE  Meets(u)'
<1>1. Unread(u)' = Unread(u)
  BY DEF Unread
<1> QED  BY <1>1, AheadKept, BehindKept DEF Meets

LEMMA LogKept ==
    ASSUME LogSilent, buf' = buf
    PROVE  LogSilent'
BY DEF LogSilent, Committed

\* The user types.
LEMMA EditMeets ==
    ASSUME TypeOK, NEW u \in UserId, Meets(u), Edit(u)
    PROVE  Meets(u)'
<1>1. PICK op \in UserOps(u) :
          /\ edit_file' = [edit_file EXCEPT ![u] = writeLocal(@, op)]
          /\ local_ops' = [local_ops EXCEPT ![u] = Append(@, op)]
  BY DEF Edit
<1>2. UNCHANGED <<buf, readfd, server, client, to_server, to_client>>
  BY DEF Edit, serverVars
<1>3. /\ client[u] \in Endpoint /\ local_ops[u] \in Seq(op_t)
      /\ edit_file[u] \in Text /\ to_server[u] \in Seq(trans_t)
  BY UserType
<1>4. op \in op_t /\ op \in OpsBy({u}) /\ Silent(edit_file[u], op)
  <2>1. Len(edit_file[u]) \in Nat
    BY <1>3, LenProperties DEF Text
  <2> QED  BY <2>1 DEF UserOps, OpsBy, op_t, NOOP, CH_INSERT, CH_DELETE
<1> DEFINE ops == <<op>>
           queued == local_ops[u]
           x == Ahead(u)
           sent == AheadSent(u)
<1>5. local_ops'[u] = queued \o ops
  <2>1. local_ops'[u] = Append(local_ops[u], op)
    BY <1>1 DEF TypeOK
  <2> QED  BY <1>3, <1>4, <2>1
<1>6. edit_file'[u] = writeLocal(edit_file[u], op)
  BY <1>1 DEF TypeOK
<1>7. ops \in Seq(op_t)
  BY <1>4
<1> HIDE DEF ops
<1>8. /\ Generate(x, ops) = Generate(client[u], queued \o ops)
      /\ Messages(client[u], queued) \o Messages(x, ops)
            = Messages(client[u], queued \o ops)
  BY <1>3, <1>7, GenerateConcat DEF Ahead
<1>9. Ahead(u)' = Generate(x, ops)
  BY <1>2, <1>5, <1>8 DEF Ahead
<1>10. AheadSent(u)' = sent \o Messages(x, ops)
  <2>1. AheadSent(u)' = to_server[u] \o Messages(client[u], queued \o ops)
    BY <1>2, <1>5 DEF AheadSent
  <2>2. /\ Messages(client[u], queued) \in Seq(trans_t)
        /\ Messages(x, ops) \in Seq(trans_t)
    <3>1. Messages(client[u], queued) \in Seq(trans_t)
      BY <1>3, MessagesType
    <3>2. x \in Endpoint
      <4>1. Meet(u, x, Behind(u), sent, BehindSent(u), edit_file[u], buf)
        BY DEF Meets
      <4> HIDE DEF x, sent
      <4>2. \E a, b, T : Grid(x, Behind(u), sent, BehindSent(u), {u},
                              UserId \ {u}, a, b, T)
        BY <4>1 DEF Meet
      <4> QED  BY <4>2 DEF Grid, Connected
    <3> HIDE DEF x
    <3> QED  BY <1>7, <3>1, <3>2, MessagesType
  <2> DEFINE m == Messages(client[u], queued)
             n == Messages(x, ops)
  <2>3. Messages(client[u], queued \o ops) = m \o n /\ sent = to_server[u] \o m
    BY <1>8 DEF AheadSent
  <2> HIDE DEF m, n, sent
  <2>4. (to_server[u] \o m) \o n = to_server[u] \o (m \o n)
    <3> DEFINE c == to_server[u]
    <3>1. /\ c \in Seq(trans_t) /\ m \in Seq(trans_t)
          /\ n \in Seq(trans_t)
      BY <1>3, <2>2 DEF m, n
    <3> HIDE DEF c
    <3>2. (c \o m) \o n = c \o (m \o n)
      BY <3>1, ConcatAssociative
    <3> QED  BY <3>2 DEF c
  <2> QED  BY <2>1, <2>3, <2>4 DEF n
<1>11. Behind(u)' = Behind(u) /\ BehindSent(u)' = BehindSent(u)
  <2>1. Unread(u)' = Unread(u)
    BY <1>2 DEF Unread
  <2> QED  BY <1>2, <2>1, BehindKept
<1>12. Meet(u, Generate(x, ops), Behind(u), sent \o Messages(x, ops),
            BehindSent(u), writeLocal(edit_file[u], op), buf)
  <2>1. Meet(u, x, Behind(u), sent, BehindSent(u), edit_file[u], buf)
    BY DEF Meets
  <2> HIDE DEF x, sent
  <2> QED  BY <1>4, <2>1, MeetEdit DEF ops
<1> HIDE DEF x, sent
<1> QED  BY <1>2, <1>6, <1>9, <1>10, <1>11, <1>12 DEF Meets

\* Handing an edit to the algorithm.
LEMMA WriteOpMeets ==
    ASSUME TypeOK, NEW u \in UserId, Meets(u), WriteOp(u)
    PROVE  Meets(u)'
<1> DEFINE ops == <<Head(local_ops[u])>>
           rest == Tail(local_ops[u])
           e == client[u]
<1>1. /\ client[u] \in Endpoint /\ local_ops[u] \in Seq(op_t)
      /\ to_server[u] \in Seq(trans_t)
  BY UserType
<1>2. /\ local_ops[u] # <<>>
      /\ to_server' = [to_server EXCEPT ![u] = @ \o Messages(e, ops)]
      /\ client' = [client EXCEPT ![u] = Generate(@, ops)]
      /\ local_ops' = [local_ops EXCEPT ![u] = Tail(@)]
      /\ UNCHANGED <<buf, readfd, server, edit_file, to_client>>
  BY DEF WriteOp, serverVars
<1>3. /\ client'[u] = Generate(e, ops) /\ local_ops'[u] = rest
      /\ to_server'[u] = to_server[u] \o Messages(e, ops)
  BY <1>2 DEF TypeOK
<1>4. /\ ops \in Seq(op_t) /\ rest \in Seq(op_t)
      /\ local_ops[u] = ops \o rest
  BY <1>1, <1>2
<1> HIDE DEF ops, rest
<1>5. /\ Generate(Generate(e, ops), rest) = Generate(e, local_ops[u])
      /\ Messages(e, ops) \o Messages(Generate(e, ops), rest)
            = Messages(e, local_ops[u])
  BY <1>1, <1>4, GenerateConcat
<1>6. Ahead(u)' = Ahead(u)
  BY <1>3, <1>5 DEF Ahead
<1>7. AheadSent(u)' = AheadSent(u)
  <2> DEFINE m == Messages(e, ops)
             n == Messages(Generate(e, ops), rest)
  <2>1. m \in Seq(trans_t)
    BY <1>1, <1>4, MessagesType
  <2>2. n \in Seq(trans_t)
    <3>1. Generate(e, ops) \in Endpoint
      BY <1>1, <1>4, GenerateType
    <3> QED  BY <1>4, <3>1, MessagesType
  <2>3. AheadSent(u)' = (to_server[u] \o m) \o n
    BY <1>3 DEF AheadSent
  <2>4. AheadSent(u) = to_server[u] \o (m \o n)
    BY <1>5 DEF AheadSent
  <2> DEFINE c == to_server[u]
  <2>5. c \in Seq(trans_t)
    BY <1>1
  <2> HIDE DEF m, n, c
  <2>6. (c \o m) \o n = c \o (m \o n)
    BY <2>1, <2>2, <2>5, ConcatAssociative
  <2> QED  BY <2>3, <2>4, <2>6 DEF c
<1>8. Behind(u)' = Behind(u) /\ BehindSent(u)' = BehindSent(u)
  <2>1. Unread(u)' = Unread(u)
    BY <1>2 DEF Unread
  <2> QED  BY <1>2, <2>1, BehindKept
<1> QED  BY <1>2, <1>6, <1>7, <1>8 DEF Meets

\* Applying a message of the server process.
LEMMA ReadServerMeets ==
    ASSUME TypeOK, NEW u \in UserId, Meets(u), ReadServer(u)
    PROVE  /\ Meets(u)'
           /\ BehindSent(u) # <<>>
           /\ Head(BehindSent(u)) = Head(to_client[u])
           /\ BehindSent(u)' = Tail(BehindSent(u))
<1> DEFINE x == client[u]
           msgs == Messages(server[u], Foreign(u, Unread(u)))
           back == to_client[u] \o msgs
           msg == Head(to_client[u])
           op == Received(x, msg)
<1>1. /\ to_client[u] # <<>> /\ local_ops[u] = <<>>
      /\ edit_file' = [edit_file EXCEPT ![u] = writeLocal(@, op)]
      /\ client' = [client EXCEPT ![u] = Receive(@, msg)]
      /\ to_client' = [to_client EXCEPT ![u] = Tail(@)]
      /\ UNCHANGED <<buf, readfd, server, local_ops, to_server>>
  BY DEF ReadServer, serverVars
<1>2. /\ edit_file'[u] = writeLocal(edit_file[u], op)
      /\ client'[u] = Receive(x, msg) /\ to_client'[u] = Tail(to_client[u])
  BY <1>1 DEF TypeOK
<1>3. Ahead(u) = x /\ AheadSent(u) = to_server[u]
  BY <1>1, AheadOfNothing
<1>4. msgs \in Seq(trans_t) /\ to_client[u] \in Seq(trans_t)
  BY UserType, MessagesType
<1>5. Meet(u, x, Behind(u), to_server[u], back, edit_file[u], buf)
  BY <1>3 DEF Meets, BehindSent
<1>6. Unread(u)' = Unread(u)
  BY <1>1 DEF Unread
<1>7. Behind(u)' = Behind(u) /\ BehindSent(u)' = Tail(to_client[u]) \o msgs
  BY <1>1, <1>2, <1>6 DEF Behind, BehindSent
<1> HIDE DEF msgs
<1>8. /\ back # <<>> /\ Head(back) = msg
      /\ Tail(back) = Tail(to_client[u]) \o msgs
  <2> DEFINE c == to_client[u]
  <2>1. c # <<>> /\ c \in Seq(trans_t)
    BY <1>1, <1>4
  <2> HIDE DEF c
  <2>2. /\ c \o msgs # <<>> /\ Head(c \o msgs) = Head(c)
        /\ Tail(c \o msgs) = Tail(c) \o msgs
    BY ONLY <1>4, <2>1
  <2> QED  BY <2>2 DEF c
<1> HIDE DEF back
<1>9. Meet(u, Receive(x, msg), Behind(u), to_server[u], Tail(back),
           writeLocal(edit_file[u], op), buf)
  BY <1>5, <1>8, MeetRead
<1>10. Receive(x, msg) \in Endpoint
  <2>1. \E a, b, T : Grid(Receive(x, msg), Behind(u), to_server[u], Tail(back),
                          {u}, UserId \ {u}, a, b, T)
    BY <1>9 DEF Meet
  <2> QED  BY <2>1 DEF Grid, Connected
<1>11. Ahead(u)' = Receive(x, msg) /\ AheadSent(u)' = to_server[u]
  <2> DEFINE e == Receive(x, msg)
  <2>1. Ahead(u)' = Generate(e, <<>>)
    BY <1>1, <1>2 DEF Ahead
  <2>2. AheadSent(u)' = to_server[u] \o Messages(e, <<>>)
    BY <1>1, <1>2 DEF AheadSent
  <2>3. to_server[u] \o <<>> = to_server[u]
    <3>1. to_server[u] \in Seq(trans_t)
      BY UserType
    <3> QED  BY <3>1
  <2>4. Generate(e, <<>>) = e /\ Messages(e, <<>>) = <<>>
    <3> HIDE DEF e
    <3> QED  BY <1>10, GenerateNothing DEF e
  <2> QED  BY <2>1, <2>2, <2>3, <2>4
<1>12. BehindSent(u) = back
  BY DEF back, msgs, BehindSent
<1> HIDE DEF x, msg, op
<1>13. Meets(u)'
  BY <1>1, <1>2, <1>7, <1>8, <1>9, <1>11 DEF Meets
<1> QED  BY <1>7, <1>8, <1>12, <1>13 DEF msg

\* Reading one entry of the log.
LEMMA LocalProcessMeets ==
    ASSUME TypeOK, NEW u \in UserId, Meets(u), LocalProcess(u)
    PROVE  Meets(u)' /\ BehindSent(u)' = BehindSent(u)
<1> DEFINE first == <<buf[readfd[u] + 1]>>
           ops == Foreign(u, first)
           e == server[u]
           rest == SubSeq(buf, readfd[u] + 2, Len(buf))
           others == Foreign(u, rest)
<1>1. /\ readfd[u] < Len(buf)
      /\ to_client' = [to_client EXCEPT ![u] = @ \o Messages(e, ops)]
      /\ server' = [server EXCEPT ![u] = Generate(@, ops)]
      /\ readfd' = [readfd EXCEPT ![u] = @ + 1]
      /\ UNCHANGED <<buf, edit_file, local_ops, client, to_server>>
  BY DEF LocalProcess, clientVars
<1>2. /\ to_client'[u] = to_client[u] \o Messages(e, ops)
      /\ server'[u] = Generate(e, ops) /\ readfd'[u] = readfd[u] + 1
  BY <1>1 DEF TypeOK
<1>3. /\ e \in Endpoint /\ to_client[u] \in Seq(trans_t)
      /\ buf \in Seq(op_t) /\ readfd[u] \in 0..Len(buf) /\ Len(buf) \in Nat
  BY UserType, LenProperties
<1>4. /\ first \in Seq(op_t) /\ rest \in Seq(op_t)
      /\ Unread(u) = first \o rest
  <2> DEFINE r == readfd[u]
  <2> HIDE DEF r
  <2>1. r \in Nat /\ r + 1 \in 1..Len(buf) /\ r + 1 \in Nat
    BY <1>1, <1>3 DEF r
  <2>2. buf[r + 1] \in op_t
    BY <1>3, <2>1, ElementOfSeq
  <2>3. SubSeq(buf, r + 2, Len(buf)) \in Seq(op_t)
    BY <1>3, <2>1
  <2>4. SubSeq(buf, r + 1, Len(buf))
            = <<buf[r + 1]>> \o SubSeq(buf, r + 2, Len(buf))
    BY <1>3, <2>1, <2>2, <2>3
  <2>5. <<buf[r + 1]>> \in Seq(op_t)
    BY <2>2
  <2>6. /\ first = <<buf[r + 1]>> /\ rest = SubSeq(buf, r + 2, Len(buf))
        /\ Unread(u) = SubSeq(buf, r + 1, Len(buf))
    BY DEF r, Unread
  <2> HIDE DEF first, rest
  <2> QED  BY <2>3, <2>4, <2>5, <2>6
<1>5. Unread(u)' = rest
  <2>1. readfd[u] + 1 + 1 = readfd[u] + 2
    BY <1>3
  <2> QED  BY <1>1, <1>2, <2>1 DEF Unread
<1>6. ops \in Seq(op_t) /\ others \in Seq(op_t)
  <2>1. OpsBy(UserId \ {u}) \subseteq op_t
    BY DEF OpsBy
  <2> HIDE DEF first, rest
  <2>2. /\ ops \in Seq(OpsBy(UserId \ {u}))
        /\ others \in Seq(OpsBy(UserId \ {u}))
    BY <1>4, ForeignType
  <2> QED  BY <2>1, <2>2, SeqOfSubset
<1>7. Foreign(u, Unread(u)) = ops \o others
  <2> HIDE DEF first, rest
  <2> QED  BY <1>4, ForeignConcat
<1> HIDE DEF first, rest, ops, others
<1>8. /\ Generate(Generate(e, ops), others) = Generate(e, ops \o others)
      /\ Messages(e, ops) \o Messages(Generate(e, ops), others)
            = Messages(e, ops \o others)
  BY <1>3, <1>6, GenerateConcat
<1>9. Foreign(u, Unread(u))' = others
  BY <1>5 DEF others
<1>10. Behind(u)' = Behind(u)
  BY <1>2, <1>7, <1>8, <1>9 DEF Behind
<1>11. BehindSent(u)' = BehindSent(u)
  <2> DEFINE m == Messages(e, ops)
             n == Messages(Generate(e, ops), others)
  <2>1. m \in Seq(trans_t)
    BY <1>3, <1>6, MessagesType
  <2>2. n \in Seq(trans_t)
    <3>1. Generate(e, ops) \in Endpoint
      BY <1>3, <1>6, GenerateType
    <3> QED  BY <1>6, <3>1, MessagesType
  <2>3. BehindSent(u)' = (to_client[u] \o m) \o n
    BY <1>2, <1>9 DEF BehindSent
  <2>4. BehindSent(u) = to_client[u] \o (m \o n)
    BY <1>7, <1>8 DEF BehindSent
  <2> DEFINE c == to_client[u]
  <2>5. c \in Seq(trans_t)
    BY <1>3
  <2> HIDE DEF m, n, c
  <2>6. (c \o m) \o n = c \o (m \o n)
    BY <2>1, <2>2, <2>5, ConcatAssociative
  <2> QED  BY <2>3, <2>4, <2>6 DEF c
<1>12. Ahead(u)' = Ahead(u) /\ AheadSent(u)' = AheadSent(u)
  BY <1>1, AheadKept
<1> QED  BY <1>1, <1>10, <1>11, <1>12 DEF Meets

\* What is left to read of a log that grows.
LEMMA SubSeqAppend ==
    ASSUME NEW S, NEW s \in Seq(S), NEW x \in S, NEW r \in 0..Len(s)
    PROVE  SubSeq(Append(s, x), r + 1, Len(Append(s, x)))
            = Append(SubSeq(s, r + 1, Len(s)), x)
<1> DEFINE N == Len(s)
           more == Append(s, x)
           p == SubSeq(more, r + 1, N + 1)
           q == SubSeq(s, r + 1, N)
<1>1. /\ N \in Nat /\ r \in Nat /\ r <= N /\ more \in Seq(S)
      /\ Len(more) = N + 1
      /\ more[N + 1] = x /\ \A n \in 1..N : more[n] = s[n]
  OBVIOUS
<1> HIDE DEF more
<1>2. /\ p \in Seq(S) /\ Len(p) = N + 1 - r
      /\ \A n \in 1..N + 1 - r : p[n] = more[r + n]
  BY <1>1
<1>3. /\ q \in Seq(S) /\ Len(q) = N - r
      /\ \A n \in 1..N - r : q[n] = s[r + n]
  BY <1>1
<1> HIDE DEF p, q, N
<1>4. /\ Append(q, x) \in Seq(S) /\ Len(Append(q, x)) = N + 1 - r
      /\ Append(q, x)[N + 1 - r] = x
      /\ \A n \in 1..N - r : Append(q, x)[n] = q[n]
  BY <1>1, <1>3
<1>5. ASSUME NEW n \in 1..N + 1 - r
      PROVE  p[n] = Append(q, x)[n]
  <2>1. CASE n = N + 1 - r
    <3>1. r + n = N + 1
      BY <1>1, <2>1
    <3> QED  BY <1>1, <1>2, <1>4, <2>1, <3>1
  <2>2. CASE n # N + 1 - r
    <3>1. n \in 1..N - r /\ r + n \in 1..N
      BY <1>1, <2>2
    <3> QED  BY <1>1, <1>2, <1>3, <1>4, <3>1
  <2> QED  BY <2>1, <2>2
<1>6. p = Append(q, x)
  BY <1>2, <1>4, <1>5, SeqEqual
<1> QED  BY <1>1, <1>6 DEF p, q, more, N

\* Committing a message of the client: the user's own side ...
LEMMA CommitMeets ==
    ASSUME TypeOK, NEW u \in UserId, Meets(u), RemoteProcess(u)
    PROVE  LET op == Received(Behind(u), Head(to_server[u]))
           IN  /\ op \in OpsBy({u}) /\ Silent(Committed[Len(buf)], op)
               /\ buf' = Append(buf, op) /\ Meets(u)'
               /\ BehindSent(u)' = BehindSent(u)
<1> DEFINE y == Behind(u)
           msg == Head(to_server[u])
           op == Received(y, msg)
           new == Receive(y, msg)
           back == BehindSent(u)
           msgs == Messages(client[u], local_ops[u])
           sent == to_server[u] \o msgs
<1>1. /\ to_server[u] # <<>>
      /\ to_client' = [to_client EXCEPT ![u] =
                            @ \o Messages(server[u], Foreign(u, Unread(u)))]
      /\ buf' = Append(buf, op)
      /\ server' = [server EXCEPT ![u] = new]
      /\ readfd' = [readfd EXCEPT ![u] = Len(buf)]
      /\ to_server' = [to_server EXCEPT ![u] = Tail(@)]
      /\ UNCHANGED <<edit_file, local_ops, client>>
  BY DEF RemoteProcess, clientVars, Behind
<1>2. /\ to_client'[u] = back /\ server'[u] = new /\ readfd'[u] = Len(buf)
      /\ to_server'[u] = Tail(to_server[u])
  BY <1>1 DEF TypeOK, BehindSent
<1>3. /\ to_server[u] \in Seq(trans_t) /\ to_client[u] \in Seq(trans_t)
      /\ msgs \in Seq(trans_t) /\ buf \in Seq(op_t)
  BY UserType, MessagesType
<1>4. Meet(u, Ahead(u), y, sent, back, edit_file[u], buf)
  BY DEF Meets, AheadSent
<1>5. Ahead(u)' = Ahead(u) /\ AheadSent(u)' = Tail(to_server[u]) \o msgs
  BY <1>1, <1>2 DEF Ahead, AheadSent
<1> HIDE DEF msgs
<1>6. /\ sent # <<>> /\ Head(sent) = msg
      /\ Tail(sent) = Tail(to_server[u]) \o msgs
  <2> DEFINE c == to_server[u]
  <2>1. c # <<>> /\ c \in Seq(trans_t)
    BY <1>1, <1>3
  <2> HIDE DEF c
  <2>2. /\ c \o msgs # <<>> /\ Head(c \o msgs) = Head(c)
        /\ Tail(c \o msgs) = Tail(c) \o msgs
    BY ONLY <1>3, <2>1
  <2> QED  BY <2>2 DEF c
<1> HIDE DEF sent, y, back
<1>7. /\ op \in OpsBy({u}) /\ Silent(Versions(InitialText, buf)[Len(buf)], op)
      /\ Meet(u, Ahead(u), new, Tail(sent), back, edit_file[u],
              Append(buf, op))
  BY <1>4, <1>6, MeetCommit
<1>8. new \in Endpoint /\ back \in Seq(trans_t)
  <2> HIDE DEF new
  <2>1. \E a, b, T : Grid(Ahead(u), new, Tail(sent), back, {u}, UserId \ {u},
                          a, b, T)
    BY <1>7 DEF Meet
  <2>2. Connected(Ahead(u), new, Tail(sent), back, {u}, UserId \ {u})
    BY <2>1 DEF Grid
  <2> QED  BY <2>2, ConnectedType
<1> HIDE DEF op, new, msg
<1>9. Foreign(u, Unread(u))' = <<>>
  <2>1. op \in op_t /\ op.id = u
    BY <1>7 DEF OpsBy
  <2>2. SubSeq(Append(buf, op), Len(buf) + 1, Len(Append(buf, op)))
            = Append(<<>>, op)
    <3>1. Len(buf) \in 0..Len(buf) /\ SubSeq(buf, Len(buf) + 1, Len(buf)) = <<>>
      BY <1>3
    <3> QED  BY <1>3, <2>1, <3>1, SubSeqAppend
  <2>3. Unread(u)' = Append(<<>>, op)
    BY <1>1, <1>2, <2>2 DEF Unread
  <2>4. Foreign(u, Append(<<>>, op)) = <<>>
    BY <2>1, EmptySeq, ForeignAppend, ForeignEmpty
  <2> QED  BY <2>3, <2>4
<1>10. Behind(u)' = new /\ BehindSent(u)' = back
  <2>1. Behind(u)' = Generate(new, <<>>)
    BY <1>2, <1>9 DEF Behind
  <2>2. BehindSent(u)' = back \o Messages(new, <<>>)
    BY <1>2, <1>9 DEF BehindSent
  <2>3. Generate(new, <<>>) = new /\ Messages(new, <<>>) = <<>>
    BY <1>8, GenerateNothing
  <2>4. back \o <<>> = back
    BY <1>8
  <2> QED  BY <2>1, <2>2, <2>3, <2>4
<1>11. Meets(u)'
  BY <1>1, <1>5, <1>6, <1>7, <1>10 DEF Meets
<1> QED  BY <1>1, <1>7, <1>10, <1>11 DEF op, y, msg, back, Committed

\* ... and everyone else's.
LEMMA OtherMeets ==
    ASSUME TypeOK, NEW u \in UserId, Meets(u), RemoteProcess(u),
           NEW v \in UserId \ {u}, Meets(v)
    PROVE  LET op == Received(Behind(u), Head(to_server[u]))
           IN  /\ Meets(v)'
               /\ BehindSent(v)' = BehindSent(v) \o Messages(Behind(v), <<op>>)
<1> DEFINE op == Received(Behind(u), Head(to_server[u]))
           y == Behind(v)
           e == server[v]
           back == BehindSent(v)
           ops == <<op>>
           old == Foreign(v, Unread(v))
<1>1. /\ op \in OpsBy({u}) /\ Silent(Committed[Len(buf)], op)
      /\ buf' = Append(buf, op)
  BY CommitMeets
<1> HIDE DEF op
<1>2. op \in op_t /\ op.id = u /\ op \in OpsBy(UserId \ {v})
  BY <1>1 DEF OpsBy
<1>3. /\ to_client'[v] = to_client[v] /\ server'[v] = server[v]
      /\ readfd'[v] = readfd[v] /\ to_server'[v] = to_server[v]
      /\ UNCHANGED <<edit_file, local_ops, client>>
  BY DEF RemoteProcess, clientVars, TypeOK
<1>4. /\ buf \in Seq(op_t) /\ readfd[v] \in 0..Len(buf) /\ Len(buf) \in Nat
      /\ e \in Endpoint /\ Unread(v) \in Seq(op_t) /\ old \in Seq(op_t)
      /\ to_client[v] \in Seq(trans_t)
  BY UserType, LenProperties
<1>5. Ahead(v)' = Ahead(v) /\ AheadSent(v)' = AheadSent(v)
  BY <1>3, AheadKept
<1>6. Unread(v)' = Append(Unread(v), op)
  <2> DEFINE r == readfd[v]
  <2>1. r \in 0..Len(buf)
    BY <1>4
  <2> HIDE DEF r
  <2>2. SubSeq(Append(buf, op), r + 1, Len(Append(buf, op)))
            = Append(SubSeq(buf, r + 1, Len(buf)), op)
    BY <1>2, <1>4, <2>1, SubSeqAppend
  <2> QED  BY <1>1, <1>3, <2>2 DEF r, Unread
<1>7. Foreign(v, Unread(v))' = old \o ops
  <2>1. Foreign(v, Append(Unread(v), op)) = Append(old, op)
    BY <1>2, <1>4, ForeignAppend
  <2> HIDE DEF old
  <2>2. Append(old, op) = old \o ops
    BY <1>2, <1>4
  <2> QED  BY <1>6, <2>1, <2>2
<1>8. ops \in Seq(op_t)
  BY <1>2
<1> HIDE DEF ops
<1>9. /\ Generate(y, ops) = Generate(e, old \o ops)
      /\ Messages(e, old) \o Messages(y, ops) = Messages(e, old \o ops)
  <2>1. y = Generate(e, old)
    BY DEF Behind
  <2> HIDE DEF y, e, old
  <2> QED  BY <1>4, <1>8, <2>1, GenerateConcat
<1>10. Behind(v)' = Generate(y, ops)
  BY <1>3, <1>7, <1>9 DEF Behind
<1>11. BehindSent(v)' = back \o Messages(y, ops)
  <2> DEFINE c == to_client[v]
             m == Messages(e, old)
             n == Messages(y, ops)
  <2>1. m \in Seq(trans_t)
    BY <1>4, MessagesType
  <2>2. n \in Seq(trans_t)
    <3>1. y \in Endpoint
      BY <1>4, GenerateType DEF Behind
    <3> QED  BY <1>8, <3>1, MessagesType
  <2>3. BehindSent(v)' = c \o Messages(e, old \o ops)
    BY <1>3, <1>7 DEF BehindSent
  <2>4. Messages(e, old \o ops) = m \o n
    BY <1>9
  <2>5. back = c \o m
    BY DEF BehindSent
  <2>6. c \in Seq(trans_t)
    BY <1>4
  <2> HIDE DEF c, m, n, back
  <2>7. (c \o m) \o n = c \o (m \o n)
    BY <2>1, <2>2, <2>6, ConcatAssociative
  <2> QED  BY <2>3, <2>4, <2>5, <2>7 DEF n
<1>12. Meet(v, Ahead(v), y, AheadSent(v), back, edit_file[v], buf)
  BY DEF Meets
<1>13. Silent(Versions(InitialText, buf)[Len(buf)], op)
  BY <1>1 DEF Committed
<1> HIDE DEF y, back
<1>14. Meet(v, Ahead(v), Generate(y, ops), AheadSent(v),
            back \o Messages(y, ops), edit_file[v], Append(buf, op))
  BY <1>2, <1>12, <1>13, MeetOther DEF ops
<1>15. Meets(v)'
  BY <1>1, <1>3, <1>5, <1>10, <1>11, <1>14 DEF Meets
<1> QED  BY <1>11, <1>15 DEF ops, op, y, back

\* The log grows by an operation that can be performed on its last text.
LEMMA LogGrows ==
    ASSUME buf \in Seq(op_t), LogSilent, NEW op \in op_t,
           Silent(Committed[Len(buf)], op), buf' = Append(buf, op)
    PROVE  LogSilent'
<1> DEFINE before == Committed
           after == Versions(InitialText, Append(buf, op))
           N == Len(buf)
<1>1. /\ N \in Nat /\ Len(buf') = N + 1 /\ buf'[N + 1] = op
      /\ \A n \in 1..N : buf'[n] = buf[n]
  OBVIOUS
<1>2. \A n \in 0..N : after[n] = before[n]
  BY InitialTextAssumption, VersionsAppend DEF Committed
<1>3. Committed' = after
  BY DEF Committed
<1>4. \A n \in 1..N : Silent(before[n - 1], buf[n])
  BY DEF LogSilent
<1> HIDE DEF before, after, N
<1>5. ASSUME NEW n \in 1..N + 1
      PROVE  Silent(after[n - 1], buf'[n])
  <2>1. CASE n = N + 1
    <3>1. n - 1 = N /\ N \in 0..N
      BY <1>1, <2>1
    <3> QED  BY <1>1, <1>2, <2>1, <3>1 DEF before, N
  <2>2. CASE n # N + 1
    <3>1. n \in 1..N /\ n - 1 \in 0..N
      BY <1>1, <2>2
    <3> QED  BY <1>1, <1>2, <1>4, <3>1
  <2> QED  BY <2>1, <2>2
<1> QED  BY <1>1, <1>3, <1>5 DEF LogSilent

LEMMA ConvergenceStep == ConvergenceInv /\ [Next]_vars => ConvergenceInv'
<1> SUFFICES ASSUME ConvergenceInv, [Next]_vars
             PROVE  LogSilent' /\ \A v \in UserId : Meets(v)'
  BY JupiterStep DEF ConvergenceInv
<1>1. /\ TypeOK /\ LogSilent /\ \A v \in UserId : Meets(v)
  BY DEF ConvergenceInv, JupiterInv
<1>2. CASE UNCHANGED vars
  <2>1. UNCHANGED <<buf, readfd, server, edit_file, local_ops, client,
                    to_server, to_client>>
    BY <1>2 DEF vars, serverVars, clientVars
  <2> QED  BY <1>1, <2>1, MeetsKept, LogKept
<1>3. ASSUME NEW u \in UserId, Login(u) \/ ClientExit(u) \/ ServerExit(u)
      PROVE  LogSilent' /\ \A v \in UserId : Meets(v)'
  <2>1. UNCHANGED <<buf, readfd, server, edit_file, local_ops, client,
                    to_server, to_client>>
    BY <1>3 DEF Login, ClientExit, ServerExit, clientVars, serverVars
  <2> QED  BY <1>1, <2>1, MeetsKept, LogKept
<1>4. ASSUME NEW u \in UserId,
             Edit(u) \/ WriteOp(u) \/ ReadServer(u) \/ LocalProcess(u)
      PROVE  LogSilent' /\ \A v \in UserId : Meets(v)'
  <2>1. buf' = buf
    BY <1>4 DEF Edit, WriteOp, ReadServer, LocalProcess, serverVars
  <2>2. ASSUME NEW v \in UserId \ {u}
        PROVE  /\ client'[v] = client[v] /\ local_ops'[v] = local_ops[v]
               /\ to_server'[v] = to_server[v] /\ server'[v] = server[v]
               /\ to_client'[v] = to_client[v]
               /\ edit_file'[v] = edit_file[v] /\ readfd'[v] = readfd[v]
    <3>1. CASE Edit(u)
      BY <1>1, <3>1 DEF Edit, serverVars, TypeOK
    <3>2. CASE WriteOp(u)
      BY <1>1, <3>2 DEF WriteOp, serverVars, TypeOK
    <3>3. CASE ReadServer(u)
      BY <1>1, <3>3 DEF ReadServer, serverVars, TypeOK
    <3>4. CASE LocalProcess(u)
      BY <1>1, <3>4 DEF LocalProcess, clientVars, TypeOK
    <3> QED  BY <1>4, <3>1, <3>2, <3>3, <3>4
  <2>3. Meets(u)'
    BY <1>1, <1>4, EditMeets, WriteOpMeets, ReadServerMeets,
       LocalProcessMeets
  <2>4. \A v \in UserId \ {u} : Meets(v)'
    BY <1>1, <2>1, <2>2, MeetsKept
  <2> QED  BY <1>1, <2>1, <2>3, <2>4, LogKept
<1>5. ASSUME NEW u \in UserId, RemoteProcess(u)
      PROVE  LogSilent' /\ \A v \in UserId : Meets(v)'
  <2> DEFINE op == Received(Behind(u), Head(to_server[u]))
  <2>1. /\ op \in OpsBy({u}) /\ Silent(Committed[Len(buf)], op)
        /\ buf' = Append(buf, op) /\ Meets(u)'
    BY <1>1, <1>5, CommitMeets
  <2> HIDE DEF op
  <2>2. LogSilent'
    <3>1. op \in op_t /\ buf \in Seq(op_t)
      BY <1>1, <2>1 DEF OpsBy, TypeOK
    <3> QED  BY <1>1, <2>1, <3>1, LogGrows
  <2>3. \A v \in UserId \ {u} : Meets(v)'
    BY <1>1, <1>5, OtherMeets
  <2> QED  BY <2>1, <2>2, <2>3
<1> QED  BY <1>2, <1>3, <1>4, <1>5 DEF Next

LEMMA ConvergenceInvariant == Spec => []ConvergenceInv
BY ConvergenceInit, ConvergenceStep, PTL DEF Spec

\* Convergence: a client none of whose edits is under way shows exactly the
\* text that the part of the log it knows stands for, for every number of
\* users and edits, every initial text and every interleaving of clients and
\* server processes, some of which may have ended (cscw.cpp and xform.cpp on
\* both sides of each connection, and the message loop of server/main.cpp).
THEOREM JupiterAgreement == Spec => []Agreement
BY ConvergenceInvariant, ConvergenceSafety, PTL

\* No message makes writeLocal of a client complain: its offset is in range
\* there, and a deletion takes the character its author saw.
THEOREM JupiterClientSilent == Spec => []ClientSilent
BY ConvergenceInvariant, ConvergenceSafety, PTL

\* Replaying the log, as a late login and the viewer do, never complains.
THEOREM JupiterLogSilent == Spec => []LogSilent
BY ConvergenceInvariant, ConvergenceSafety, PTL

(***************************************************************************)
(* Refinement of SharedText.  Logging in is Join, an edit is Write, a      *)
(* commit of a server process is Commit and a message read by a client is  *)
(* Learn; handing an edit to the connection, moving a log entry to it and  *)
(* leaving are stutters.                                                   *)
(***************************************************************************)
\* What the abstract history is.
Commits(log) ==
    [n \in 1..Len(log) |-> [author |-> log[n].id, edit |-> EditOf(log[n])]]
TextsOf(log) == [n \in 1..Len(log) + 1 |-> Versions(InitialText, log)[n - 1]]

\* The substitution of Shared, spelled out.
LEMMA SharedInit ==
    Shared!Init <=>
        /\ 1..last_id = {} /\ Commits(buf) = <<>>
        /\ TextsOf(buf) = <<InitialText>>
        /\ edit_file = [u \in UserId |-> InitialText]
        /\ [u \in UserId |-> InFlight(u)] = [u \in UserId |-> <<>>]
        /\ [u \in UserId |-> client[u].global] = [u \in UserId |-> 0]
BY DEF Shared!Init, Commits, TextsOf, Committed

\* A login is somebody joining.
LEMMA SharedJoin ==
    ASSUME NEW u \in UserId, u \notin 1..last_id,
           1..last_id' = (1..last_id) \cup {u},
           UNCHANGED <<buf, edit_file, to_server, local_ops, client>>
    PROVE  Shared!Join(u)
BY DEF Shared!Join, Committed, InFlight

\* Nothing Shared knows of changes.
LEMMA SharedStutter ==
    ASSUME UNCHANGED <<last_id, buf, edit_file>>,
           \A u \in UserId : InFlight(u)' = InFlight(u),
           \A u \in UserId : client'[u].global = client[u].global
    PROVE  UNCHANGED Shared!vars
BY DEF Shared!vars, Committed

\* An edit of user u that makes its text one an edit can make.
LEMMA SharedWrite ==
    ASSUME NEW u \in UserId, u \in 1..last_id, NEW op \in op_t,
           op.operation \in {CH_INSERT, CH_DELETE},
           UNCHANGED <<last_id, buf, client>>,
           InFlight(u)' = Append(InFlight(u), EditOf(op)),
           \A v \in UserId \ {u} : InFlight(v)' = InFlight(v),
           NEW t \in Shared!Results(edit_file[u], EditOf(op)),
           edit_file' = [edit_file EXCEPT ![u] = t]
    PROVE  Shared!Write(u)
<1> DEFINE pending == [v \in UserId |-> InFlight(v)]
           edit == EditOf(op)
<1>1. edit \in Shared!Edit
  BY DEF Shared!Edit, EditOf, op_t, CH_INSERT, CH_DELETE
<1>2. pending' = [pending EXCEPT ![u] = Append(@, edit)]
  OBVIOUS
<1>3. Committed' = Committed
  BY DEF Committed
<1> QED  BY <1>1, <1>2, <1>3 DEF Shared!Write

\* A longer log is a longer history, of edits and of texts.
LEMMA CommitsAppend ==
    ASSUME NEW log \in Seq(op_t), NEW op \in op_t
    PROVE  /\ Commits(Append(log, op))
                = Append(Commits(log), [author |-> op.id, edit |-> EditOf(op)])
           /\ TextsOf(Append(log, op))
                = Append(TextsOf(log),
                         writeLocal(Versions(InitialText, log)[Len(log)], op))
           /\ Last(TextsOf(log)) = Versions(InitialText, log)[Len(log)]
<1> DEFINE N == Len(log)
           more == Append(log, op)
           entry == [author |-> op.id, edit |-> EditOf(op)]
           before == Versions(InitialText, log)
           after == Versions(InitialText, more)
           text == writeLocal(before[N], op)
<1>1. /\ N \in Nat /\ Len(more) = N + 1 /\ more[N + 1] = op
      /\ \A n \in 1..N : more[n] = log[n]
  OBVIOUS
<1>2. /\ \A n \in 0..N : after[n] = before[n]
      /\ after[N + 1] = text
  BY InitialTextAssumption, VersionsAppend
<1> HIDE DEF before, after, more, N, text, entry
<1> DEFINE c == Commits(log)
           d == Commits(more)
<1>3. /\ c = [n \in 1..N |-> [author |-> log[n].id, edit |-> EditOf(log[n])]]
      /\ d = [n \in 1..N + 1 |-> [author |-> more[n].id, edit |-> EditOf(more[n])]]
  BY <1>1 DEF Commits, N
<1>4. d = Append(c, entry)
  BY <1>1, <1>3 DEF entry
<1> DEFINE v == TextsOf(log)
           w == TextsOf(more)
<1>5. /\ v = [n \in 1..N + 1 |-> before[n - 1]]
      /\ w = [n \in 1..N + 2 |-> after[n - 1]]
  BY <1>1 DEF TextsOf, N, before, after
<1>6. /\ \A n \in 1..N + 1 : n - 1 \in 0..N
      /\ \A n \in 1..N + 2 : n \in 1..N + 1 \/ n = N + 2
      /\ N + 2 - 1 = N + 1 /\ N + 1 - 1 = N
  BY <1>1
<1>7. w = Append(v, text)
  BY <1>1, <1>2, <1>5, <1>6
<1>8. Last(v) = before[N]
  BY <1>1, <1>5, <1>6 DEF Last
<1> QED  BY <1>4, <1>7, <1>8 DEF more, before, N, text, entry

\* An operation performed silently is an edit performed somewhere.
LEMMA WriteResults ==
    ASSUME NEW t \in Text, NEW op \in op_t, Silent(t, op)
    PROVE  writeLocal(t, op) \in Shared!Results(t, EditOf(op))
<1> DEFINE k == op.char_offset + 1
<1>1. EditOf(op).operation = op.operation /\ EditOf(op).data = op.data
  BY DEF EditOf
<1>2. Len(t) \in Nat /\ op.char_offset \in Nat
  BY DEF Text, op_t
<1>3. CASE op.operation = CH_INSERT
  <2>1. op.char_offset \in 0..Len(t)
    BY <1>3 DEF Silent, InRange, CH_INSERT, CH_DELETE, NOOP
  <2>2. k \in 1..Len(t) + 1
    BY <1>2, <2>1
  <2>3. writeLocal(t, op) = InsertAt(t, k, op.data)
    BY <1>3, <2>1 DEF writeLocal, InRange, CH_INSERT, CH_DELETE
  <2> QED  BY <1>1, <1>3, <2>2, <2>3 DEF Shared!Results, CH_INSERT,
              InsertAt, Shared!InsertAt
<1>4. CASE op.operation = CH_DELETE
  <2>1. op.char_offset \in 0..Len(t) - 1 /\ t[k] = op.data
    BY <1>4 DEF Silent, InRange, CH_INSERT, CH_DELETE, NOOP
  <2>2. k \in 1..Len(t)
    BY <1>2, <2>1
  <2>3. writeLocal(t, op) = RemoveAt(t, k)
    BY <1>4, <2>1 DEF writeLocal, InRange, CH_INSERT, CH_DELETE
  <2> QED  BY <1>1, <1>4, <2>1, <2>2, <2>3 DEF Shared!Results, CH_DELETE,
              RemoveAt, Shared!RemoveAt
<1>5. CASE op.operation = NOOP
  <2>1. writeLocal(t, op) = t
    BY <1>5, WriteNoop
  <2> QED  BY <1>1, <1>5, <2>1 DEF Shared!Results, NOOP
<1> QED  BY <1>3, <1>4, <1>5 DEF op_t

\* A transformed operation performs the edit of the original, or nothing.
LEMMA ShiftedEdit ==
    ASSUME NEW op \in op_t, NEW v \in Shifted(op)
    PROVE  /\ EditOf(v) \in {EditOf(op), Shared!Absorbed(EditOf(op))}
           /\ EditOf(v) # EditOf(op) => v.operation = NOOP
BY DEF Shifted, EditOf, Shared!Absorbed, NOOP

\* How many of the first n entries are by others than u.
Foreigners(u, log, n) == Cardinality({ m \in 1..n : log[m].id # u })

\* The n-th entry of log is by another than u, and num of those before it
\* are.
IsForeign(u, log, num, n) ==
    n \in 1..Len(log) /\ log[n].id # u /\ Foreigners(u, log, n - 1) = num

\* What a process hands to the algorithm is in the log, in this order.
InLogOrder(u, log) ==
    \A k \in 1..Len(Foreign(u, log)) :
        \E n : IsForeign(u, log, k - 1, n) /\ log[n] = Foreign(u, log)[k]

\* The operations of others are handed over one by one, in the order of the
\* log: the k-th has k - 1 of others before it.
LEMMA ForeignPositions ==
    ASSUME NEW u \in UserId, NEW log \in Seq(op_t)
    PROVE  /\ InLogOrder(u, log)
           /\ Len(Foreign(u, log)) = Foreigners(u, log, Len(log))
<1> DEFINE N == Len(log)
           Start(k) == SubSeq(log, 1, k)
           Good(k) == InLogOrder(u, Start(k))
                      /\ Len(Foreign(u, Start(k)))
                            = Foreigners(u, Start(k), Len(Start(k)))
           S == { k \in Nat : k <= N => Good(k) }
<1>1. N \in Nat /\ \A k \in 1..N : log[k] \in op_t
  BY LenProperties, ElementOfSeq
<1>2. /\ Start(0) = <<>> /\ Start(N) = log
      /\ \A k \in 0..N : Start(k) \in Seq(op_t) /\ Len(Start(k)) = k
      /\ \A k \in 0..N - 1 : Start(k + 1) = Append(Start(k), log[k + 1])
  <2>1. Start(0) = <<>> /\ Start(N) = log
    OBVIOUS
  <2>2. \A k \in 0..N : Start(k) \in Seq(op_t) /\ Len(Start(k)) = k
    OBVIOUS
  <2>3. \A k \in 0..N - 1 : Start(k + 1) = Append(Start(k), log[k + 1])
    OBVIOUS
  <2> QED  BY <2>1, <2>2, <2>3
<1> HIDE DEF Start, N
<1>3. 0 \in S
  <2>1. Foreign(u, <<>>) = <<>>
    BY ForeignEmpty
  <2>2. Len(<<>>) = 0 /\ 1..0 = {}
    OBVIOUS
  <2>3. Foreigners(u, <<>>, Len(<<>>)) = 0
    <3>1. { m \in 1..Len(<<>>) : <<>>[m].id # u } = {}
      BY <2>2
    <3> QED  BY <3>1, FS_EmptySet DEF Foreigners
  <2> QED  BY <1>2, <2>1, <2>2, <2>3 DEF InLogOrder
<1>4. ASSUME NEW k \in Nat, k \in S, k + 1 <= N
      PROVE  Good(k + 1)
  <2> DEFINE s == Start(k)
             e == log[k + 1]
             more == Append(s, e)
             A == { m \in 1..k : s[m].id # u }
             f == Foreign(u, s)
  <2>1. /\ s \in Seq(op_t) /\ e \in op_t /\ Start(k + 1) = more /\ Len(s) = k
        /\ Good(k)
    <3>1. k \in 0..N - 1 /\ k \in 0..N /\ k + 1 \in 1..N
      BY <1>1, <1>4
    <3> QED  BY <1>1, <1>2, <1>4, <3>1
  <2>2. InLogOrder(u, s) /\ Len(f) = Cardinality(A)
    BY <2>1 DEF Foreigners
  <2> HIDE DEF s, e
  <2>3. /\ Len(more) = k + 1 /\ more[k + 1] = e
        /\ \A m \in 1..k : more[m] = s[m]
    BY <2>1
  <2>4. f \in Seq(op_t)
    <3>1. OpsBy(UserId \ {u}) \subseteq op_t
      BY DEF OpsBy
    <3> QED  BY <2>1, <3>1, ForeignType, SeqOfSubset
  <2>5. Foreign(u, more) = IF e.id = u THEN f ELSE Append(f, e)
    BY <2>1, ForeignAppend
  <2>6. IsFiniteSet(A) /\ Cardinality(A) \in Nat
    <3>1. IsFiniteSet(1..k) /\ A \subseteq 1..k
      BY <1>4, FS_Interval
    <3> QED  BY <3>1, FS_Subset, FS_CardinalityType
  <2> DEFINE B == { m \in 1..k + 1 : more[m].id # u }
  <2>7. B = IF e.id = u THEN A ELSE A \cup {k + 1}
    <3>1. \A m \in 1..k + 1 : m \in 1..k \/ m = k + 1
      BY <1>4
    <3>2. 1..k \subseteq 1..k + 1 /\ k + 1 \in 1..k + 1 /\ k + 1 \notin 1..k
      BY <1>4
    <3> HIDE DEF more
    <3> QED  BY <2>3, <3>1, <3>2
  <2>8. { m \in 1..k : more[m].id # u } = A
    <3> HIDE DEF more
    <3> QED  BY <2>3
  <2>9. k + 1 \notin A
    BY <1>4
  <2> HIDE DEF more, A, B, f
  <2>10. Cardinality(A \cup {k + 1}) = Cardinality(A) + 1
    BY <2>6, <2>9, FS_AddElement
  <2>11. /\ Foreigners(u, more, k + 1) = Cardinality(B)
         /\ Foreigners(u, more, k) = Cardinality(A)
    BY <2>8 DEF B, Foreigners
  <2>12. Len(Foreign(u, more)) = Foreigners(u, more, Len(more))
    BY <2>1, <2>2, <2>3, <2>4, <2>5, <2>6, <2>7, <2>10, <2>11
  <2>13. ASSUME NEW i \in 1..Len(f)
         PROVE  \E n : IsForeign(u, more, i - 1, n) /\ more[n] = f[i]
    <3>1. PICK n : IsForeign(u, s, i - 1, n) /\ s[n] = f[i]
      BY <2>2, <2>13 DEF InLogOrder, f
    <3>2. n \in 1..k
      BY <2>1, <3>1 DEF IsForeign
    <3>3. { m \in 1..n - 1 : more[m].id # u } = { m \in 1..n - 1 : s[m].id # u }
      <4>1. \A m \in 1..n - 1 : m \in 1..k
        BY <1>4, <3>2
      <4> QED  BY <2>3, <4>1
    <3>4. n \in 1..k + 1 /\ more[n] = s[n]
      BY <1>4, <2>3, <3>2
    <3>5. Foreigners(u, more, n - 1) = Foreigners(u, s, n - 1)
      BY <3>3 DEF Foreigners
    <3> QED  BY <2>3, <3>1, <3>4, <3>5 DEF IsForeign
  <2>14. InLogOrder(u, more)
    <3>1. CASE e.id = u
      BY <2>5, <2>13, <3>1 DEF InLogOrder
    <3>2. CASE e.id # u
      <4>1. /\ Foreign(u, more) = Append(f, e) /\ Len(f) \in Nat
            /\ Len(Append(f, e)) = Len(f) + 1 /\ Append(f, e)[Len(f) + 1] = e
            /\ \A i \in 1..Len(f) : Append(f, e)[i] = f[i]
        BY <2>1, <2>4, <2>5, <3>2
      <4>2. \E n : IsForeign(u, more, Len(f), n) /\ more[n] = e
        <5>1. k + 1 - 1 = k /\ k + 1 \in 1..k + 1
          BY <1>4
        <5>2. more[k + 1].id # u /\ k + 1 \in 1..Len(more)
          BY <2>3, <3>2, <5>1
        <5>3. Foreigners(u, more, k + 1 - 1) = Len(f)
          BY <2>2, <2>11, <5>1
        <5>4. IsForeign(u, more, Len(f), k + 1)
          BY <5>2, <5>3 DEF IsForeign
        <5> QED  BY <2>3, <5>4
      <4> DEFINE g == Append(f, e)
      <4> HIDE DEF g
      <4>3. ASSUME NEW i \in 1..Len(g)
            PROVE  \E n : IsForeign(u, more, i - 1, n) /\ more[n] = g[i]
        <5>1. CASE i \in 1..Len(f)
          BY <2>13, <4>1, <5>1 DEF g
        <5>2. CASE i \notin 1..Len(f)
          <6>1. i = Len(f) + 1 /\ i - 1 = Len(f)
            BY <4>1, <5>2 DEF g
          <6> QED  BY <4>1, <4>2, <6>1 DEF g
        <5> QED  BY <5>1, <5>2
      <4> QED  BY <4>1, <4>3 DEF InLogOrder, g
    <3> QED  BY <3>1, <3>2
  <2> QED  BY <2>1, <2>12, <2>14
<1>5. \A k \in Nat : k \in S => k + 1 \in S
  BY <1>4
<1> HIDE DEF S
<1>6. \A k \in Nat : k \in S
  BY <1>3, <1>5, SetInduction
<1> QED  BY <1>1, <1>2, <1>6 DEF S

(***************************************************************************)
(* What is on its way to a client: exactly what others wrote to the log    *)
(* and the client has not applied, in the order of the log.  Convergence   *)
(* speaks of contents and says nothing of this order.                      *)
(***************************************************************************)
\* The messages msgs are what is left to deliver of others after the first g.
Delivers(g, msgs, others) ==
    /\ Len(others) = g + Len(msgs)
    /\ \A i \in 1..Len(msgs) : msgs[i].op = others[g + i]

\* Client u has applied, in the order of the log, what others wrote there,
\* but for what is on its way.
Delivered(u) == Delivers(client[u].global, BehindSent(u), Foreign(u, buf))

SharedInv == ConvergenceInv /\ \A u \in UserId : Delivered(u)

\* Taking the first message off, and receiving it.
LEMMA DeliversOne ==
    ASSUME NEW g \in Nat, NEW msgs \in Seq(trans_t), msgs # <<>>, NEW others,
           Delivers(g, msgs, others)
    PROVE  /\ Delivers(g + 1, Tail(msgs), others)
           /\ g + 1 \in 1..Len(others) /\ others[g + 1] = Head(msgs).op
<1>1. /\ Len(msgs) \in Nat /\ Len(msgs) >= 1 /\ Head(msgs) = msgs[1]
      /\ Len(Tail(msgs)) = Len(msgs) - 1
      /\ \A i \in 1..Len(msgs) - 1 : Tail(msgs)[i] = msgs[i + 1]
  OBVIOUS
<1>2. /\ Len(others) = g + Len(msgs)
      /\ \A i \in 1..Len(msgs) : msgs[i].op = others[g + i]
  BY DEF Delivers
<1> DEFINE rest == Tail(msgs)
           N == Len(msgs)
<1> HIDE DEF rest, N
<1>3. Len(others) = g + 1 + Len(rest)
  BY <1>1, <1>2 DEF rest
<1>4. \A i \in 1..Len(rest) : rest[i].op = others[g + 1 + i]
  <2> SUFFICES ASSUME NEW i \in 1..Len(rest)
               PROVE  rest[i].op = others[g + 1 + i]
    OBVIOUS
  <2>1. i \in 1..Len(msgs) - 1 /\ i + 1 \in 1..Len(msgs) /\ g + 1 + i = g + (i + 1)
    BY <1>1 DEF rest
  <2>2. rest[i] = msgs[i + 1] /\ msgs[i + 1].op = others[g + (i + 1)]
    BY <1>1, <1>2, <2>1 DEF rest
  <2> QED  BY <2>1, <2>2
<1>5. 1 \in 1..Len(msgs) /\ g + 1 \in 1..Len(others)
  BY <1>1, <1>2
<1> QED  BY <1>1, <1>2, <1>3, <1>4, <1>5 DEF Delivers, rest

\* A sequence and one more element.
LEMMA OneMore ==
    ASSUME NEW S, NEW s \in Seq(S), NEW one \in Seq(S), Len(one) = 1
    PROVE  /\ Len(s \o one) = Len(s) + 1 /\ (s \o one)[Len(s) + 1] = one[1]
           /\ \A i \in 1..Len(s) : (s \o one)[i] = s[i]
<1> DEFINE all == s \o one
           N == Len(s)
<1>1. /\ Len(all) = N + Len(one) /\ N \in Nat
      /\ \A i \in 1..N + Len(one) :
           all[i] = IF i <= N THEN s[i] ELSE one[i - N]
  BY ConcatProperties, LenProperties
<1> HIDE DEF all, N
<1>2. /\ N + 1 - N = 1 /\ ~(N + 1 <= N) /\ N + 1 \in 1..N + 1
      /\ \A i \in 1..N : i \in 1..N + 1 /\ i <= N
  BY <1>1
<1>3. Len(all) = N + 1 /\ all[N + 1] = one[1] /\ \A i \in 1..N : all[i] = s[i]
  BY <1>1, <1>2
<1> QED  BY <1>3 DEF all, N

\* One operation is one message.
LEMMA OneMessage ==
    ASSUME NEW e \in Endpoint, NEW op \in op_t
    PROVE  LET one == Messages(e, <<op>>)
           IN  one \in Seq(trans_t) /\ Len(one) = 1 /\ one[1].op = op
<1> DEFINE ops == <<op>>
           one == Messages(e, ops)
<1>1. ops \in Seq(op_t) /\ Len(ops) = 1 /\ ops[1] = op
  OBVIOUS
<1> HIDE DEF ops
<1>2. one \in Seq(trans_t)
  BY <1>1, MessagesType
<1>3. one = [n \in 1..Len(ops) |-> [op |-> ops[n], state |-> e.global]]
  BY DEF Messages
<1> HIDE DEF one
<1>4. Len(one) = 1 /\ one[1] = [op |-> ops[1], state |-> e.global]
  BY <1>1, <1>2, <1>3
<1> QED  BY <1>1, <1>2, <1>4 DEF one, ops

\* Sending what the log has just received.
LEMMA DeliversMore ==
    ASSUME NEW g \in Nat, NEW msgs \in Seq(trans_t), NEW others \in Seq(op_t),
           Delivers(g, msgs, others), NEW op \in op_t, NEW e \in Endpoint
    PROVE  Delivers(g, msgs \o Messages(e, <<op>>), Append(others, op))
<1> DEFINE one == Messages(e, <<op>>)
           all == msgs \o one
           more == Append(others, op)
<1>1. one \in Seq(trans_t) /\ Len(one) = 1 /\ one[1].op = op
  BY OneMessage
<1>2. /\ Len(msgs) \in Nat /\ Len(others) = g + Len(msgs)
      /\ \A i \in 1..Len(msgs) : msgs[i].op = others[g + i]
  BY DEF Delivers
<1> HIDE DEF one
<1>3. /\ Len(all) = Len(msgs) + 1 /\ all[Len(msgs) + 1] = one[1]
      /\ \A i \in 1..Len(msgs) : all[i] = msgs[i]
  BY <1>1, OneMore
<1>4. /\ Len(more) = Len(others) + 1 /\ more[Len(others) + 1] = op
      /\ \A i \in 1..Len(others) : more[i] = others[i]
  OBVIOUS
<1> HIDE DEF all, more
<1>5. ASSUME NEW i \in 1..Len(all)
      PROVE  all[i].op = more[g + i]
  <2>1. CASE i = Len(msgs) + 1
    <3>1. g + i = Len(others) + 1
      BY <1>2, <2>1
    <3> QED  BY <1>1, <1>3, <1>4, <2>1, <3>1
  <2>2. CASE i # Len(msgs) + 1
    <3>1. i \in 1..Len(msgs) /\ g + i \in 1..Len(others)
      BY <1>2, <1>3, <2>2
    <3> QED  BY <1>2, <1>3, <1>4, <3>1
  <2> QED  BY <2>1, <2>2
<1>6. Len(more) = g + Len(all)
  BY <1>2, <1>3, <1>4
<1> QED  BY <1>5, <1>6 DEF Delivers, all, more, one

LEMMA BehindSentType ==
    ASSUME TypeOK, NEW u \in UserId
    PROVE  /\ BehindSent(u) \in Seq(trans_t) /\ Behind(u) \in Endpoint
           /\ client[u].global \in Nat /\ Foreign(u, buf) \in Seq(op_t)
<1>1. /\ server[u] \in Endpoint /\ client[u] \in Endpoint
      /\ to_client[u] \in Seq(trans_t) /\ buf \in Seq(op_t)
      /\ Foreign(u, Unread(u)) \in Seq(op_t)
  BY UserType
<1>2. Messages(server[u], Foreign(u, Unread(u))) \in Seq(trans_t)
  BY <1>1, MessagesType
<1>3. BehindSent(u) \in Seq(trans_t)
  <2> DEFINE m == Messages(server[u], Foreign(u, Unread(u)))
             c == to_client[u]
  <2>1. m \in Seq(trans_t) /\ c \in Seq(trans_t)
    BY <1>1, <1>2
  <2> HIDE DEF m, c
  <2>2. c \o m \in Seq(trans_t)
    BY <2>1
  <2> QED  BY <2>2 DEF c, m, BehindSent
<1>4. Behind(u) \in Endpoint
  BY <1>1, GenerateType DEF Behind
<1>5. Foreign(u, buf) \in Seq(op_t)
  <2>1. OpsBy(UserId \ {u}) \subseteq op_t
    BY DEF OpsBy
  <2> QED  BY <1>1, <2>1, ForeignType, SeqOfSubset
<1> QED  BY <1>1, <1>3, <1>4, <1>5 DEF Endpoint

\* Initially there is nothing to deliver.
LEMMA DeliveredInit == Init => \A u \in UserId : Delivered(u)
<1> SUFFICES ASSUME Init, NEW u \in UserId
             PROVE  Delivered(u)
  OBVIOUS
<1>1. TypeOK
  BY JupiterInit DEF JupiterInv
<1>2. buf = <<>> /\ to_client[u] = <<>> /\ client[u].global = 0
  BY DEF Init, NewEndpoint
<1>3. Unread(u) = <<>>
  BY <1>2 DEF Unread, Init
<1>4. Foreign(u, buf) = <<>> /\ Foreign(u, Unread(u)) = <<>>
  BY <1>2, <1>3, ForeignEmpty
<1>5. BehindSent(u) = <<>>
  <2>1. server[u] \in Endpoint
    BY <1>1, UserType
  <2>2. Messages(server[u], <<>>) = <<>>
    BY <2>1, GenerateNothing
  <2> QED  BY <1>2, <1>4, <2>2 DEF BehindSent
<1> QED  BY <1>2, <1>4, <1>5 DEF Delivered, Delivers

LEMMA DeliveredKept ==
    ASSUME NEW u \in UserId, Delivered(u), BehindSent(u)' = BehindSent(u),
           client'[u].global = client[u].global, buf' = buf
    PROVE  Delivered(u)'
BY DEF Delivered

\* Every step keeps it: one message is received, or one is sent for each
\* operation the log receives.
LEMMA DeliveredStep ==
    ConvergenceInv /\ [Next]_vars =>
        \A v \in UserId : Delivered(v) => Delivered(v)'
<1> SUFFICES ASSUME ConvergenceInv, [Next]_vars, NEW v \in UserId, Delivered(v)
             PROVE  Delivered(v)'
  OBVIOUS
<1>1. TypeOK /\ \A u \in UserId : Meets(u)
  BY DEF ConvergenceInv, JupiterInv
<1>2. /\ BehindSent(v) \in Seq(trans_t) /\ Behind(v) \in Endpoint
      /\ client[v].global \in Nat /\ Foreign(v, buf) \in Seq(op_t)
      /\ buf \in Seq(op_t)
  BY <1>1, BehindSentType, UserType
<1>3. ASSUME server'[v] = server[v], to_client'[v] = to_client[v],
             buf' = buf, readfd'[v] = readfd[v],
             client'[v].global = client[v].global
      PROVE  Delivered(v)'
  <2>1. BehindSent(v)' = BehindSent(v)
    <3>1. Unread(v)' = Unread(v)
      BY <1>3 DEF Unread
    <3> QED  BY <1>3, <3>1, BehindKept
  <2> QED  BY <1>3, <2>1, DeliveredKept
<1>4. CASE UNCHANGED vars
  BY <1>3, <1>4 DEF vars, serverVars, clientVars
<1>5. ASSUME NEW u \in UserId,
             Login(u) \/ ClientExit(u) \/ ServerExit(u) \/ Edit(u)
      PROVE  Delivered(v)'
  <2>1. UNCHANGED <<buf, readfd, server, client, to_client>>
    BY <1>5 DEF Login, ClientExit, ServerExit, Edit, clientVars, serverVars
  <2> QED  BY <1>3, <2>1
<1>6. ASSUME NEW u \in UserId, WriteOp(u)
      PROVE  Delivered(v)'
  <2>1. UNCHANGED <<buf, readfd, server, to_client>>
    BY <1>6 DEF WriteOp, serverVars
  <2>2. client'[v].global = client[v].global
    <3>1. \A e, ops : Generate(e, ops).global = e.global
      BY DEF Generate
    <3>2. client'[u] = Generate(client[u], <<Head(local_ops[u])>>)
      BY <1>1, <1>6 DEF WriteOp, TypeOK
    <3>3. u # v => client'[v] = client[v]
      BY <1>1, <1>6 DEF WriteOp, TypeOK
    <3> QED  BY <3>1, <3>2, <3>3
  <2> QED  BY <1>3, <2>1, <2>2
<1>7. ASSUME NEW u \in UserId \ {v}, ReadServer(u) \/ LocalProcess(u)
      PROVE  Delivered(v)'
  <2>1. CASE ReadServer(u)
    BY <1>1, <1>3, <2>1 DEF ReadServer, serverVars, TypeOK
  <2>2. CASE LocalProcess(u)
    BY <1>1, <1>3, <2>2 DEF LocalProcess, clientVars, TypeOK
  <2> QED  BY <1>7, <2>1, <2>2
<1>8. CASE ReadServer(v)
  <2>1. /\ BehindSent(v) # <<>> /\ BehindSent(v)' = Tail(BehindSent(v))
    BY <1>1, <1>8, ReadServerMeets
  <2>2. client'[v].global = client[v].global + 1 /\ buf' = buf
    <3>1. \A e, msg : Receive(e, msg).global = e.global + 1
      BY DEF Receive
    <3>2. client'[v] = Receive(client[v], Head(to_client[v])) /\ buf' = buf
      BY <1>1, <1>8 DEF ReadServer, serverVars, TypeOK
    <3> QED  BY <3>1, <3>2
  <2>3. Delivers(client[v].global + 1, Tail(BehindSent(v)), Foreign(v, buf))
    BY <1>2, <2>1, DeliversOne DEF Delivered
  <2> QED  BY <2>1, <2>2, <2>3 DEF Delivered
<1>9. CASE LocalProcess(v)
  <2>1. BehindSent(v)' = BehindSent(v)
    BY <1>1, <1>9, LocalProcessMeets
  <2> QED  BY <1>9, <2>1, DeliveredKept DEF LocalProcess, clientVars
<1>10. CASE RemoteProcess(v)
  <2> DEFINE op == Received(Behind(v), Head(to_server[v]))
  <2>1. /\ op \in OpsBy({v}) /\ buf' = Append(buf, op)
        /\ BehindSent(v)' = BehindSent(v)
    BY <1>1, <1>10, CommitMeets
  <2> HIDE DEF op
  <2>2. op \in op_t /\ op.id = v
    BY <2>1 DEF OpsBy
  <2>3. Foreign(v, buf)' = Foreign(v, buf)
    BY <1>2, <2>1, <2>2, ForeignAppend
  <2> QED  BY <1>10, <2>1, <2>3 DEF Delivered, RemoteProcess, clientVars
<1>11. ASSUME NEW u \in UserId, u # v, RemoteProcess(u)
       PROVE  Delivered(v)'
  <2> DEFINE op == Received(Behind(u), Head(to_server[u]))
  <2>1. op \in OpsBy({u}) /\ buf' = Append(buf, op)
    BY <1>1, <1>11, CommitMeets
  <2>2. BehindSent(v)' = BehindSent(v) \o Messages(Behind(v), <<op>>)
    BY <1>1, <1>11, OtherMeets
  <2> HIDE DEF op
  <2>3. op \in op_t /\ op.id # v
    BY <1>11, <2>1 DEF OpsBy
  <2>4. Foreign(v, buf)' = Append(Foreign(v, buf), op)
    BY <1>2, <2>1, <2>3, ForeignAppend
  <2>5. Delivers(client[v].global,
                 BehindSent(v) \o Messages(Behind(v), <<op>>),
                 Append(Foreign(v, buf), op))
    BY <1>2, <2>3, DeliversMore DEF Delivered
  <2>6. client' = client
    BY <1>11 DEF RemoteProcess, clientVars
  <2> QED  BY <2>2, <2>4, <2>5, <2>6 DEF Delivered
<1> QED
  BY <1>4, <1>5, <1>6, <1>7, <1>8, <1>9, <1>10, <1>11 DEF Next

LEMMA SharedInvariant == Spec => []SharedInv
<1>1. Init => SharedInv
  BY ConvergenceInit, DeliveredInit DEF SharedInv
<1>2. SharedInv /\ [Next]_vars => SharedInv'
  BY ConvergenceStep, DeliveredStep DEF SharedInv
<1> QED  BY <1>1, <1>2, PTL DEF Spec

(***************************************************************************)
(* What is on its way from a client: the edits sent and the edits queued.  *)
(***************************************************************************)
\* The edits of a user that are under way: sent, and waiting to be sent.
EditType == [operation : {NOOP, CH_DELETE, CH_INSERT}, data : Char]
Sent(msgs) == [n \in 1..Len(msgs) |-> EditOf(msgs[n].op)]
Waiting(ops) == [n \in 1..Len(ops) |-> EditOf(ops[n])]

LEMMA InFlightParts ==
    ASSUME NEW u \in UserId
    PROVE  /\ InFlight(u) = Sent(to_server[u]) \o Waiting(local_ops[u])
           /\ InFlight(u)' = Sent(to_server'[u]) \o Waiting(local_ops'[u])
BY DEF InFlight, Sent, Waiting

LEMMA EditsType ==
    /\ \A msgs \in Seq(trans_t) :
            Sent(msgs) \in Seq(EditType) /\ Len(Sent(msgs)) = Len(msgs)
    /\ \A ops \in Seq(op_t) :
            Waiting(ops) \in Seq(EditType) /\ Len(Waiting(ops)) = Len(ops)
<1>1. \A op \in op_t : EditOf(op) \in EditType
  BY DEF EditOf, EditType, op_t
<1>2. ASSUME NEW msgs \in Seq(trans_t)
      PROVE  Sent(msgs) \in Seq(EditType) /\ Len(Sent(msgs)) = Len(msgs)
  <2>1. Len(msgs) \in Nat /\ \A n \in 1..Len(msgs) : msgs[n] \in trans_t
    BY LenProperties, ElementOfSeq
  <2>2. Sent(msgs) \in [1..Len(msgs) -> EditType]
    BY <1>1, <2>1 DEF Sent, trans_t
  <2> QED  BY <2>1, <2>2, SeqDef, LenProperties
<1>3. ASSUME NEW ops \in Seq(op_t)
      PROVE  Waiting(ops) \in Seq(EditType) /\ Len(Waiting(ops)) = Len(ops)
  <2>1. Len(ops) \in Nat /\ \A n \in 1..Len(ops) : ops[n] \in op_t
    BY LenProperties, ElementOfSeq
  <2>2. Waiting(ops) \in [1..Len(ops) -> EditType]
    BY <1>1, <2>1 DEF Waiting
  <2> QED  BY <2>1, <2>2, SeqDef, LenProperties
<1> QED  BY <1>2, <1>3

\* An edit more waits at the end; the first to leave is the first; what is
\* sent is sent last and received first.
LEMMA WaitingAppend ==
    ASSUME NEW ops \in Seq(op_t), NEW op \in op_t
    PROVE  Waiting(Append(ops, op)) = Append(Waiting(ops), EditOf(op))
<1> DEFINE more == Append(ops, op)
           N == Len(ops)
<1>1. /\ N \in Nat /\ Len(more) = N + 1 /\ more[N + 1] = op
      /\ \A n \in 1..N : more[n] = ops[n]
  OBVIOUS
<1> HIDE DEF more, N
<1>2. /\ Waiting(ops) = [n \in 1..N |-> EditOf(ops[n])]
      /\ Waiting(more) = [n \in 1..N + 1 |-> EditOf(more[n])]
  BY <1>1 DEF Waiting, N
<1>3. Waiting(more) = Append(Waiting(ops), EditOf(op))
  BY <1>1, <1>2
<1> QED  BY <1>3 DEF more

LEMMA WaitingHead ==
    ASSUME NEW ops \in Seq(op_t), ops # <<>>
    PROVE  Waiting(ops) = <<EditOf(Head(ops))>> \o Waiting(Tail(ops))
<1> DEFINE rest == Tail(ops)
           N == Len(ops)
<1>1. /\ N \in Nat /\ N >= 1 /\ Head(ops) = ops[1] /\ Len(rest) = N - 1
      /\ \A n \in 1..N - 1 : rest[n] = ops[n + 1]
  OBVIOUS
<1> HIDE DEF rest, N
<1>2. /\ Waiting(ops) = [n \in 1..N |-> EditOf(ops[n])]
      /\ Waiting(rest) = [n \in 1..N - 1 |-> EditOf(rest[n])]
  BY <1>1 DEF Waiting, N
<1> DEFINE first == EditOf(ops[1])
           w == Waiting(rest)
<1>3. /\ w \in Seq(EditType) /\ Len(w) = N - 1
      /\ \A n \in 1..N - 1 : w[n] = EditOf(ops[n + 1])
      /\ Waiting(ops) \in Seq(EditType) /\ Len(Waiting(ops)) = N
  <2>1. rest \in Seq(op_t)
    BY DEF rest
  <2> QED  BY <1>1, <1>2, <2>1, EditsType DEF N
<1>4. first \in EditType /\ \A n \in 1..N : Waiting(ops)[n] = EditOf(ops[n])
  <2>1. ops[1] \in op_t
    BY <1>1
  <2> QED  BY <1>2, <2>1 DEF EditOf, EditType, op_t
<1> HIDE DEF first, w
<1>5. /\ <<first>> \o w \in Seq(EditType) /\ Len(<<first>> \o w) = N
      /\ (<<first>> \o w)[1] = first
      /\ \A n \in 2..N : (<<first>> \o w)[n] = w[n - 1]
  BY <1>1, <1>3, <1>4
<1>6. ASSUME NEW n \in 1..N
      PROVE  Waiting(ops)[n] = (<<first>> \o w)[n]
  <2>1. CASE n = 1
    BY <1>1, <1>4, <1>5, <2>1 DEF first
  <2>2. CASE n # 1
    <3>1. n \in 2..N /\ n - 1 \in 1..N - 1 /\ n - 1 + 1 = n
      BY <1>1, <2>2
    <3> QED  BY <1>3, <1>4, <1>5, <3>1
  <2> QED  BY <2>1, <2>2
<1>7. Waiting(ops) = <<first>> \o w
  BY <1>3, <1>5, <1>6, SeqEqual
<1> QED  BY <1>1, <1>7 DEF first, w, rest

LEMMA SentMore ==
    ASSUME NEW msgs \in Seq(trans_t), NEW e \in Endpoint, NEW op \in op_t
    PROVE  Sent(msgs \o Messages(e, <<op>>)) = Sent(msgs) \o <<EditOf(op)>>
<1> DEFINE one == Messages(e, <<op>>)
           all == msgs \o one
           N == Len(msgs)
           edit == EditOf(op)
<1>1. one \in Seq(trans_t) /\ Len(one) = 1 /\ one[1].op = op
  BY OneMessage
<1>2. N \in Nat
  OBVIOUS
<1> HIDE DEF one
<1>4. Len(all) = N + 1 /\ all[N + 1] = one[1] /\ \A n \in 1..N : all[n] = msgs[n]
  BY <1>1, OneMore
<1> HIDE DEF all, N
<1>5. /\ Sent(msgs) = [n \in 1..N |-> EditOf(msgs[n].op)]
      /\ Sent(all) = [n \in 1..N + 1 |-> EditOf(all[n].op)]
  BY <1>4 DEF Sent, N
<1>6. Sent(msgs) \in Seq(EditType) /\ edit \in EditType
  BY EditsType DEF EditOf, EditType, op_t
<1> HIDE DEF edit
<1>7. Sent(all) = Append(Sent(msgs), edit)
  BY <1>1, <1>2, <1>4, <1>5 DEF edit
<1>8. Append(Sent(msgs), edit) = Sent(msgs) \o <<edit>>
  BY <1>6
<1> QED  BY <1>7, <1>8 DEF all, one, edit

LEMMA SentHead ==
    ASSUME NEW msgs \in Seq(trans_t), msgs # <<>>
    PROVE  /\ Sent(msgs) \in Seq(EditType) /\ Sent(msgs) # <<>>
           /\ Head(Sent(msgs)) = EditOf(Head(msgs).op)
           /\ Tail(Sent(msgs)) = Sent(Tail(msgs))
<1> DEFINE rest == Tail(msgs)
           N == Len(msgs)
<1>1. /\ N \in Nat /\ N >= 1 /\ Head(msgs) = msgs[1] /\ Len(rest) = N - 1
      /\ rest \in Seq(trans_t)
      /\ \A n \in 1..N - 1 : rest[n] = msgs[n + 1]
  OBVIOUS
<1> HIDE DEF rest, N
<1>2. /\ Sent(msgs) = [n \in 1..N |-> EditOf(msgs[n].op)]
      /\ Sent(rest) = [n \in 1..N - 1 |-> EditOf(rest[n].op)]
  BY <1>1 DEF Sent, N
<1> DEFINE s == Sent(msgs)
           r == Sent(rest)
<1>3. s \in Seq(EditType) /\ Len(s) = N /\ r \in Seq(EditType) /\ Len(r) = N - 1
  BY <1>1, EditsType DEF N
<1>4. /\ s[1] = EditOf(msgs[1].op)
      /\ \A n \in 1..N - 1 : s[n + 1] = r[n]
  BY <1>1, <1>2
<1> HIDE DEF s, r
<1>5. s # <<>> /\ Head(s) = s[1] /\ Tail(s) \in Seq(EditType)
      /\ Len(Tail(s)) = N - 1 /\ \A n \in 1..N - 1 : Tail(s)[n] = s[n + 1]
  BY <1>1, <1>3
<1>6. Tail(s) = r
  BY <1>3, <1>4, <1>5, SeqEqual
<1> QED  BY <1>1, <1>3, <1>4, <1>5, <1>6 DEF s, r, rest

(***************************************************************************)
(* The steps of SharedText, in terms of the log and the clients.           *)
(***************************************************************************)
\* The operators SharedText takes from the library are those of this module.
LEMMA SharedCardinality == \A S : Shared!Cardinality(S) = Cardinality(S)
BY Zenon DEF Shared!Cardinality, Cardinality

LEMMA TextsAt ==
    ASSUME NEW log, Len(log) \in Nat, NEW k \in 0..Len(log)
    PROVE  TextsOf(log)[k + 1] = Versions(InitialText, log)[k]
<1> DEFINE v == Versions(InitialText, log)
           N == Len(log)
<1>1. TextsOf(log) = [n \in 1..N + 1 |-> v[n - 1]]
  BY DEF TextsOf
<1>2. N \in Nat /\ k \in 0..N
  OBVIOUS
<1> HIDE DEF v, N
<1>3. k + 1 \in 1..N + 1 /\ k + 1 - 1 = k
  BY <1>2
<1>4. TextsOf(log)[k + 1] = v[k + 1 - 1]
  BY <1>1, <1>3
<1> QED  BY <1>3, <1>4 DEF v

\* What user u knows of the log lies within it, and the abstract
\* specification counts it alike.
LEMMA SharedKnown ==
    ASSUME ConvergenceInv, NEW u \in UserId
    PROVE  Known(u) \in 0..Len(buf) /\ Shared!Known(u) = Known(u)
<1>1. TypeOK /\ Meets(u)
  BY DEF ConvergenceInv, JupiterInv
<1> DEFINE x == Ahead(u)
           y == Behind(u)
<1>2. Meet(u, x, y, AheadSent(u), BehindSent(u), edit_file[u], buf)
  BY <1>1 DEF Meets
<1>3. x.global = client[u].global
  BY DEF Ahead, Generate
<1> HIDE DEF x, y
<1>4. PICK a, b, T :
        /\ Grid(x, y, AheadSent(u), BehindSent(u), {u}, UserId \ {u}, a, b, T)
        /\ y.local + Own(u, buf) = Len(buf)
  BY <1>2 DEF Meet
<1>5. x.global \in Nat /\ y.local \in Nat /\ x.global <= y.local
  BY <1>4, GridNumbers
<1>6. Own(u, buf) \in Nat /\ Known(u) = x.global + Own(u, buf)
  <2>1. Own(u, buf) \in Nat
    BY <1>1, UserType, OwnType
  <2> QED  BY <1>3, <2>1 DEF Known, OwnCommits, Own
<1>7. Known(u) \in 0..Len(buf)
  BY <1>4, <1>5, <1>6
<1>8. buf \in Seq(op_t) /\ Len(buf) \in Nat
  BY <1>1, UserType, LenProperties
<1>9. Shared!Known(u) = client[u].global
        + Cardinality({ m \in 1..Len(Commits(buf)) : Commits(buf)[m].author = u })
  <2>1. Shared!Own(u, Len(Commits(buf)))
            = Cardinality({ m \in 1..Len(Commits(buf)) :
                                Commits(buf)[m].author = u })
    BY SharedCardinality, Zenon DEF Shared!Own, Commits
  <2>2. Shared!Known(u) = [v \in UserId |-> client[v].global][u]
                            + Shared!Own(u, Len(Commits(buf)))
    BY Zenon DEF Shared!Known, Commits
  <2> QED  BY <2>1, <2>2
<1>10. { m \in 1..Len(Commits(buf)) : Commits(buf)[m].author = u }
        = { m \in 1..Len(buf) : buf[m].id = u }
  BY <1>8 DEF Commits
<1> QED  BY <1>7, <1>9, <1>10 DEF Known, OwnCommits

\* Whoever has nothing under way shows a text of the history.
SharedSync == \A u \in UserId : Shared!InSync(u)

\* Agreement is what SharedText says of a document.
LEMMA InvIsSync == ConvergenceInv => SharedSync
<1> SUFFICES ASSUME ConvergenceInv, NEW u \in UserId
             PROVE  Shared!InSync(u)
  BY DEF SharedSync
<1>1. TypeOK /\ Agreement
  BY ConvergenceSafety DEF ConvergenceInv, JupiterInv
<1>2. /\ buf \in Seq(op_t) /\ Len(buf) \in Nat
      /\ to_server[u] \in Seq(trans_t) /\ local_ops[u] \in Seq(op_t)
  BY <1>1, UserType, LenProperties
<1> DEFINE k == Known(u)
<1>3. k \in 0..Len(buf) /\ Shared!Known(u) = k
  BY SharedKnown
<1>4. InFlight(u) = <<>> => to_server[u] = <<>> /\ local_ops[u] = <<>>
  <2> DEFINE s == Sent(to_server[u])
             w == Waiting(local_ops[u])
  <2>1. /\ s \in Seq(EditType) /\ Len(s) = Len(to_server[u])
        /\ w \in Seq(EditType) /\ Len(w) = Len(local_ops[u])
    BY <1>2, EditsType
  <2>2. InFlight(u) = s \o w
    BY InFlightParts
  <2> HIDE DEF s, w
  <2>3. s \o w = <<>> => Len(s) = 0 /\ Len(w) = 0
    BY <2>1
  <2>4. /\ Len(to_server[u]) = 0 => to_server[u] = <<>>
        /\ Len(local_ops[u]) = 0 => local_ops[u] = <<>>
    BY <1>2, EmptySeq
  <2> QED  BY <2>1, <2>2, <2>3, <2>4
<1>5. /\ Len(Commits(buf)) = Len(buf)
      /\ \A n \in 1..Len(buf) : Commits(buf)[n].author = buf[n].id
      /\ TextsOf(buf)[k + 1] = Committed[k]
  <2> HIDE DEF k
  <2>2. TextsOf(buf)[k + 1] = Versions(InitialText, buf)[k]
    BY <1>2, <1>3, TextsAt
  <2>3. /\ Len(Commits(buf)) = Len(buf)
        /\ \A n \in 1..Len(buf) : Commits(buf)[n].author = buf[n].id
    BY <1>2 DEF Commits
  <2> QED  BY <2>2, <2>3 DEF Committed
<1>6. Shared!InSync(u) <=>
        (InFlight(u) = <<>>
            /\ (\A n \in Shared!Known(u) + 1..Len(Commits(buf)) :
                    Commits(buf)[n].author # u)
         => edit_file[u] = TextsOf(buf)[Shared!Known(u) + 1])
  BY DEF Shared!InSync, Commits, TextsOf, Committed
<1> HIDE DEF k
<1>7. (\A n \in k + 1..Len(buf) : Commits(buf)[n].author # u)
        => (\A n \in k + 1..Len(buf) : buf[n].id # u)
  <2>1. \A n \in k + 1..Len(buf) : n \in 1..Len(buf)
    BY <1>2, <1>3
  <2> QED  BY <1>5, <2>1
<1> QED  BY <1>1, <1>3, <1>4, <1>5, <1>6, <1>7 DEF Agreement, k

LEMMA SyncAfter == SharedInv' => SharedSync'
<1>1. SharedInv => SharedSync
  BY InvIsSync DEF SharedInv
<1> QED  BY <1>1, InvIsSync, PTL

\* An edit under way enters the history, as it is or absorbed.
LEMMA SharedCommit ==
    ASSUME NEW u \in UserId, UNCHANGED <<last_id, edit_file, client>>,
           buf \in Seq(op_t), NEW op \in op_t, op.id = u,
           Silent(Committed[Len(buf)], op), buf' = Append(buf, op),
           InFlight(u) # <<>>, InFlight(u)' = Tail(InFlight(u)),
           \A v \in UserId \ {u} : InFlight(v)' = InFlight(v),
           EditOf(op) \in {Head(InFlight(u)),
                           Shared!Absorbed(Head(InFlight(u)))},
           Shared!InSync(u)'
    PROVE  Shared!Commit(u)
<1> DEFINE pending == [v \in UserId |-> InFlight(v)]
           text == Committed[Len(buf)]
           commits == Commits(buf)
           versions == TextsOf(buf)
<1>1. pending' = [pending EXCEPT ![u] = Tail(@)]
  OBVIOUS
<1>2. /\ commits' = Append(commits, [author |-> u, edit |-> EditOf(op)])
      /\ versions' = Append(versions, writeLocal(text, op))
      /\ Last(versions) = text
  BY CommitsAppend DEF Committed, Commits, TextsOf
<1>3. text \in Text
  <2>1. Len(buf) \in 0..Len(buf)
    BY LenProperties
  <2> QED  BY <2>1, InitialTextAssumption, VersionsByStep DEF Committed
<1>4. writeLocal(text, op) \in Shared!Results(text, EditOf(op))
  BY <1>3, WriteResults
<1>5. Shared!Commit(u) <=>
        /\ pending[u] # <<>>
        /\ pending' = [pending EXCEPT ![u] = Tail(@)]
        /\ \E edit \in {Head(pending[u]), Shared!Absorbed(Head(pending[u]))} :
            /\ commits' = Append(commits, [author |-> u, edit |-> edit])
            /\ \E t \in Shared!Results(Last(versions), edit) :
                versions' = Append(versions, t)
        /\ 1..last_id' = 1..last_id /\ edit_file' = edit_file
        /\ [v \in UserId |-> client'[v].global]
            = [v \in UserId |-> client[v].global]
        /\ Shared!InSync(u)'
  BY DEF Shared!Commit, Commits, TextsOf, Committed, Last, Shared!Last
<1>6. pending[u] = InFlight(u)
  OBVIOUS
<1> HIDE DEF pending, commits, versions, text
<1> QED  BY <1>1, <1>2, <1>4, <1>5, <1>6

\* The next edit of others in the history is learned.
LEMMA SharedLearn ==
    ASSUME NEW u \in UserId, u \in 1..last_id,
           UNCHANGED <<last_id, buf>>,
           \A v \in UserId : InFlight(v)' = InFlight(v),
           buf \in Seq(op_t), client[u].global \in Nat, NEW n,
           IsForeign(u, buf, client[u].global, n),
           client'[u].global = client[u].global + 1,
           \A v \in UserId \ {u} : client'[v].global = client[v].global,
           NEW t \in Shared!Results(edit_file[u], EditOf(buf[n]))
                     \cup {edit_file[u]},
           edit_file' = [edit_file EXCEPT ![u] = t],
           Shared!InSync(u)'
    PROVE  Shared!Learn(u)
<1> DEFINE learned == [v \in UserId |-> client[v].global]
           commits == Commits(buf)
           versions == TextsOf(buf)
           pending == [v \in UserId |-> InFlight(v)]
<1>1. learned' = [learned EXCEPT ![u] = @ + 1] /\ learned[u] = client[u].global
  OBVIOUS
<1>2. pending' = pending /\ commits' = commits /\ versions' = versions
  BY DEF Commits, TextsOf
<1>3. n \in 1..Len(buf) /\ buf[n].id # u
  BY DEF IsForeign
<1>4. /\ Len(buf) \in Nat /\ Len(commits) = Len(buf)
      /\ \A m \in 1..Len(buf) :
            commits[m].author = buf[m].id /\ commits[m].edit = EditOf(buf[m])
  BY DEF Commits
<1>5. Shared!Others(u, n - 1) = client[u].global
  <2>1. Shared!Others(u, n - 1)
            = Cardinality({ m \in 1..n - 1 : Commits(buf)[m].author # u })
    BY SharedCardinality, Zenon DEF Shared!Others, Commits
  <2>2. { m \in 1..n - 1 : Commits(buf)[m].author # u }
            = { m \in 1..n - 1 : buf[m].id # u }
    <3>1. \A m \in 1..n - 1 : m \in 1..Len(buf)
      BY <1>3, <1>4
    <3> QED  BY <1>4, <3>1
  <2> QED  BY <2>1, <2>2 DEF IsForeign, Foreigners
<1>6. Shared!Learn(u) <=>
        /\ u \in 1..last_id
        /\ \E m \in 1..Len(commits) :
            /\ commits[m].author # u /\ Shared!Others(u, m - 1) = learned[u]
            /\ \E w \in Shared!Results(edit_file[u], commits[m].edit)
                        \cup {edit_file[u]} :
                edit_file' = [edit_file EXCEPT ![u] = w]
        /\ learned' = [learned EXCEPT ![u] = @ + 1]
        /\ 1..last_id' = 1..last_id /\ commits' = commits
        /\ versions' = versions /\ pending' = pending
        /\ Shared!InSync(u)'
  BY DEF Shared!Learn, Commits, TextsOf, Committed
<1> HIDE DEF pending, commits, versions, learned
<1> QED  BY <1>1, <1>2, <1>3, <1>4, <1>5, <1>6

(***************************************************************************)
(* The steps of the protocol.                                              *)
(***************************************************************************)
\* Initially there is no history but the file everybody opened.
LEMMA SharedStarts == Init => Shared!Init
<1> SUFFICES ASSUME Init
             PROVE  Shared!Init
  OBVIOUS
<1>1. buf = <<>> /\ Len(buf) = 0 /\ buf \in Seq(op_t) /\ 1..last_id = {}
  BY EmptySeq DEF Init
<1>2. Commits(buf) = <<>>
  BY <1>1 DEF Commits
<1>3. TextsOf(buf) = <<InitialText>>
  <2>1. Versions(InitialText, buf)[0] = InitialText
    BY <1>1, InitialTextAssumption, VersionsByStep
  <2>2. TextsOf(buf) = [n \in 1..1 |-> InitialText]
    <3>1. \A n \in 1..1 : n - 1 = 0
      OBVIOUS
    <3> QED  BY <1>1, <2>1, <3>1 DEF TextsOf
  <2> QED  BY <2>2
<1>4. \A u \in UserId : InFlight(u) = <<>> /\ client[u].global = 0
  <2> SUFFICES ASSUME NEW u \in UserId
               PROVE  InFlight(u) = <<>> /\ client[u].global = 0
    OBVIOUS
  <2>1. to_server[u] = <<>> /\ local_ops[u] = <<>> /\ client[u].global = 0
    BY DEF Init, NewEndpoint
  <2>2. Sent(<<>>) = <<>> /\ Waiting(<<>>) = <<>> /\ <<>> \o <<>> = <<>>
    BY DEF Sent, Waiting
  <2> QED  BY <2>1, <2>2, InFlightParts
<1>5. edit_file = [u \in UserId |-> InitialText]
  BY DEF Init
<1>6. /\ [u \in UserId |-> InFlight(u)] = [u \in UserId |-> <<>>]
      /\ [u \in UserId |-> client[u].global] = [u \in UserId |-> 0]
  BY <1>4
<1> QED  BY <1>1, <1>2, <1>3, <1>5, <1>6, SharedInit

LEMMA InFlightKept ==
    ASSUME NEW u \in UserId, to_server'[u] = to_server[u],
           local_ops'[u] = local_ops[u]
    PROVE  InFlight(u)' = InFlight(u)
BY InFlightParts

\* An edit is an edit, and goes under way.
LEMMA EditWrites ==
    ASSUME TypeOK, NEW u \in UserId, Edit(u)
    PROVE  Shared!Write(u)
<1>1. PICK op \in UserOps(u) :
          /\ edit_file' = [edit_file EXCEPT ![u] = writeLocal(@, op)]
          /\ local_ops' = [local_ops EXCEPT ![u] = Append(@, op)]
  BY DEF Edit
<1>2. UNCHANGED <<last_id, buf, client, to_server>> /\ u \in editing
  BY DEF Edit, serverVars
<1>3. /\ local_ops[u] \in Seq(op_t) /\ edit_file[u] \in Text
      /\ to_server[u] \in Seq(trans_t) /\ u \in 1..last_id
  BY <1>2, UserType DEF TypeOK
<1>4. /\ op \in op_t /\ Silent(edit_file[u], op)
      /\ op.operation \in {CH_INSERT, CH_DELETE}
  <2>1. Len(edit_file[u]) \in Nat
    BY <1>3, LenProperties DEF Text
  <2> QED  BY <2>1 DEF UserOps, op_t, NOOP, CH_INSERT, CH_DELETE
<1>5. InFlight(u)' = Append(InFlight(u), EditOf(op))
  <2> DEFINE s == Sent(to_server[u])
             w == Waiting(local_ops[u])
             e == EditOf(op)
  <2>1. local_ops'[u] = Append(local_ops[u], op)
    BY <1>1 DEF TypeOK
  <2>2. InFlight(u) = s \o w /\ InFlight(u)' = s \o Append(w, e)
    BY <1>2, <1>3, <1>4, <2>1, InFlightParts, WaitingAppend
  <2>3. s \in Seq(EditType) /\ w \in Seq(EditType) /\ e \in EditType
    <3>1. e \in EditType
      BY <1>4 DEF EditOf, EditType, op_t
    <3> QED  BY <1>3, <3>1, EditsType
  <2> HIDE DEF s, w, e
  <2>4. s \o Append(w, e) = Append(s \o w, e)
    BY <2>3
  <2> QED  BY <2>2, <2>4 DEF e
<1>6. \A v \in UserId \ {u} : InFlight(v)' = InFlight(v)
  <2>1. \A v \in UserId \ {u} : local_ops'[v] = local_ops[v]
    BY <1>1 DEF TypeOK
  <2> QED  BY <1>2, <2>1, InFlightKept
<1> DEFINE t == writeLocal(edit_file[u], op)
<1>7. t \in Shared!Results(edit_file[u], EditOf(op))
  BY <1>3, <1>4, WriteResults
<1>8. edit_file' = [edit_file EXCEPT ![u] = t]
  BY <1>1
<1> HIDE DEF t
<1> QED  BY <1>2, <1>3, <1>4, <1>5, <1>6, <1>7, <1>8, SharedWrite

\* Handing an edit on leaves it under way.
LEMMA WriteOpStutters ==
    ASSUME TypeOK, NEW u \in UserId, WriteOp(u)
    PROVE  UNCHANGED Shared!vars
<1> DEFINE op == Head(local_ops[u])
           rest == Tail(local_ops[u])
           e == client[u]
<1>1. /\ local_ops[u] # <<>>
      /\ to_server' = [to_server EXCEPT ![u] = @ \o Messages(e, <<op>>)]
      /\ client' = [client EXCEPT ![u] = Generate(@, <<op>>)]
      /\ local_ops' = [local_ops EXCEPT ![u] = rest]
      /\ UNCHANGED <<last_id, buf, edit_file>>
  BY DEF WriteOp, serverVars
<1>2. /\ to_server[u] \in Seq(trans_t) /\ local_ops[u] \in Seq(op_t)
      /\ e \in Endpoint
  BY UserType
<1>3. op \in op_t /\ rest \in Seq(op_t)
  BY <1>1, <1>2
<1>4. /\ to_server'[u] = to_server[u] \o Messages(e, <<op>>)
      /\ local_ops'[u] = rest /\ client'[u].global = e.global
  <2>1. /\ to_server'[u] = to_server[u] \o Messages(e, <<op>>)
        /\ local_ops'[u] = rest /\ client'[u] = Generate(e, <<op>>)
    BY <1>1 DEF TypeOK
  <2>2. Generate(e, <<op>>).global = e.global
    BY DEF Generate
  <2> QED  BY <2>1, <2>2
<1>5. InFlight(u)' = InFlight(u)
  <2> DEFINE s == Sent(to_server[u])
             f == <<EditOf(op)>>
             w == Waiting(rest)
  <2>1. InFlight(u)' = (s \o f) \o w
    BY <1>2, <1>3, <1>4, InFlightParts, SentMore
  <2>2. InFlight(u) = s \o (f \o w)
    BY <1>1, <1>2, InFlightParts, WaitingHead
  <2>3. s \in Seq(EditType) /\ f \in Seq(EditType) /\ w \in Seq(EditType)
    <3> HIDE DEF op, rest
    <3>1. s \in Seq(EditType)
      BY <1>2, EditsType
    <3>2. w \in Seq(EditType)
      BY <1>3, EditsType
    <3>3. PICK e1 \in EditType : e1 = EditOf(op)
      BY <1>3 DEF EditOf, EditType, op_t
    <3>4. <<e1>> \in Seq(EditType)
      OBVIOUS
    <3>5. f = <<e1>>
      BY <3>3
    <3> QED  BY <3>1, <3>2, <3>4, <3>5
  <2> HIDE DEF s, f, w
  <2>4. (s \o f) \o w = s \o (f \o w)
    BY <2>3, ConcatAssociative
  <2> QED  BY <2>1, <2>2, <2>4
<1>6. \A v \in UserId \ {u} :
        InFlight(v)' = InFlight(v) /\ client'[v] = client[v]
  <2>1. \A v \in UserId \ {u} : /\ to_server'[v] = to_server[v]
                                /\ local_ops'[v] = local_ops[v]
                                /\ client'[v] = client[v]
    BY <1>1 DEF TypeOK
  <2> QED  BY <2>1, InFlightKept
<1> HIDE DEF op, rest
<1> QED  BY <1>1, <1>4, <1>5, <1>6, SharedStutter

\* Committing: the oldest edit under way enters the history.
LEMMA RemoteProcessCommits ==
    ASSUME SharedInv, SharedInv', NEW u \in UserId, RemoteProcess(u)
    PROVE  Shared!Commit(u)
<1>1. TypeOK /\ Meets(u)
  BY DEF SharedInv, ConvergenceInv, JupiterInv
<1> DEFINE y == Behind(u)
           msg == Head(to_server[u])
           op == Received(y, msg)
           rest == Tail(to_server[u])
<1>2. /\ op \in OpsBy({u}) /\ Silent(Committed[Len(buf)], op)
      /\ buf' = Append(buf, op)
  BY <1>1, CommitMeets
<1>3. /\ to_server[u] # <<>>
      /\ to_server' = [to_server EXCEPT ![u] = rest]
      /\ UNCHANGED <<last_id, edit_file, local_ops, client>>
  BY DEF RemoteProcess, clientVars
<1>4. /\ to_server[u] \in Seq(trans_t) /\ local_ops[u] \in Seq(op_t)
      /\ buf \in Seq(op_t) /\ msg \in trans_t /\ msg.op \in op_t
      /\ rest \in Seq(trans_t)
  <2>1. /\ to_server[u] \in Seq(trans_t) /\ local_ops[u] \in Seq(op_t)
        /\ buf \in Seq(op_t)
    BY <1>1, UserType
  <2>2. msg \in trans_t /\ rest \in Seq(trans_t)
    BY <1>3, <2>1
  <2> QED  BY <2>1, <2>2 DEF trans_t
<1>5. op \in Shifted(msg.op)
  <2> DEFINE x == Ahead(u)
             msgs == Messages(client[u], local_ops[u])
             sent == to_server[u] \o msgs
  <2>1. Meet(u, x, y, sent, BehindSent(u), edit_file[u], buf)
    BY <1>1 DEF Meets, AheadSent
  <2>2. msgs \in Seq(trans_t)
    BY <1>1, UserType, MessagesType
  <2> HIDE DEF x, y, msgs
  <2>3. sent # <<>> /\ Head(sent) = msg
    <3> DEFINE c == to_server[u]
    <3>1. c # <<>> /\ c \in Seq(trans_t)
      BY <1>3, <1>4
    <3> HIDE DEF c
    <3>2. c \o msgs # <<>> /\ Head(c \o msgs) = Head(c)
      BY ONLY <2>2, <3>1
    <3> QED  BY <3>2 DEF c
  <2> HIDE DEF sent
  <2>4. \E a, b, T : Grid(x, y, sent, BehindSent(u), {u}, UserId \ {u}, a, b, T)
    BY <2>1 DEF Meet
  <2>5. Connected(x, y, sent, BehindSent(u), {u}, UserId \ {u})
    BY <2>4 DEF Grid
  <2>6. Connected(y, x, BehindSent(u), sent, UserId \ {u}, {u})
    BY <2>5, ConnectedSymmetric
  <2>7. Receivable(y, Head(sent)) /\ y \in Endpoint /\ Contiguous(y)
    BY <2>3, <2>6, ConnectedReceive DEF Connected
  <2> QED  BY <1>4, <2>3, <2>7, ReceiveProperties
<1> HIDE DEF y, op, msg, rest
<1>6. op \in op_t /\ op.id = u
  BY <1>2 DEF OpsBy
<1>7. /\ InFlight(u) # <<>> /\ Head(InFlight(u)) = EditOf(msg.op)
      /\ InFlight(u)' = Tail(InFlight(u))
  <2> DEFINE s == Sent(to_server[u])
             w == Waiting(local_ops[u])
  <2>1. to_server'[u] = rest
    BY <1>1, <1>3 DEF TypeOK
  <2>2. s # <<>> /\ Head(s) = EditOf(msg.op) /\ Tail(s) = Sent(rest)
    BY <1>3, <1>4, SentHead DEF msg, rest
  <2>3. InFlight(u) = s \o w /\ InFlight(u)' = Tail(s) \o w
    BY <1>3, <2>1, <2>2, InFlightParts
  <2>4. s \in Seq(EditType) /\ w \in Seq(EditType)
    BY <1>4, EditsType
  <2> HIDE DEF s, w
  <2>5. /\ s \o w # <<>> /\ Head(s \o w) = Head(s)
        /\ Tail(s \o w) = Tail(s) \o w
    BY ONLY <2>2, <2>4
  <2> QED  BY <2>2, <2>3, <2>5
<1>8. \A v \in UserId \ {u} : InFlight(v)' = InFlight(v)
  <2>1. \A v \in UserId \ {u} : to_server'[v] = to_server[v]
    BY <1>1, <1>3 DEF TypeOK
  <2> QED  BY <1>3, <2>1, InFlightKept
<1>9. EditOf(op) \in {Head(InFlight(u)), Shared!Absorbed(Head(InFlight(u)))}
  BY <1>4, <1>5, <1>7, ShiftedEdit
<1>10. Shared!InSync(u)'
  BY SyncAfter DEF SharedSync
<1> QED
  BY <1>2, <1>3, <1>4, <1>6, <1>7, <1>8, <1>9, <1>10, SharedCommit

\* Receiving: the next edit of others in the history is performed, or was
\* already.
LEMMA ReadServerLearns ==
    ASSUME SharedInv, SharedInv', NEW u \in UserId, ReadServer(u)
    PROVE  Shared!Learn(u)
<1>1. TypeOK /\ Meets(u) /\ Delivered(u) /\ ClientSilent
  BY ConvergenceSafety DEF SharedInv, ConvergenceInv, JupiterInv
<1> DEFINE msg == Head(to_client[u])
           x == client[u]
           op == Received(x, msg)
           others == Foreign(u, buf)
<1>2. /\ u \in editing /\ to_client[u] # <<>> /\ local_ops[u] = <<>>
      /\ edit_file' = [edit_file EXCEPT ![u] = writeLocal(@, op)]
      /\ client' = [client EXCEPT ![u] = Receive(@, msg)]
      /\ UNCHANGED <<last_id, buf, local_ops, to_server>>
  BY DEF ReadServer, serverVars
<1>3. /\ x \in Endpoint /\ x.global \in Nat /\ buf \in Seq(op_t)
      /\ edit_file[u] \in Text /\ u \in 1..last_id
      /\ to_client[u] \in Seq(trans_t)
  BY <1>1, <1>2, UserType, BehindSentType DEF TypeOK
<1>4. msg \in trans_t /\ msg.op \in op_t
  <2>1. msg \in trans_t
    BY <1>2, <1>3
  <2> QED  BY <2>1 DEF trans_t
<1>5. op \in Shifted(msg.op)
  <2>1. Link(u)
    BY DEF SharedInv, ConvergenceInv, JupiterInv
  <2>2. Receivable(x, msg) /\ Contiguous(x)
    BY <1>2, <2>1, ConnectedReceive DEF Link, Connected
  <2> QED  BY <1>3, <1>4, <2>2, ReceiveProperties
<1>6. Silent(edit_file[u], op)
  BY <1>1, <1>2 DEF ClientSilent
<1>7. PICK n : IsForeign(u, buf, x.global, n) /\ buf[n] = msg.op
  <2> DEFINE back == BehindSent(u)
  <2>1. back # <<>> /\ Head(back) = msg
    BY <1>1, ReadServerMeets
  <2>2. back \in Seq(trans_t)
    BY <1>1, BehindSentType
  <2> HIDE DEF back, msg, x
  <2>3. x.global + 1 \in 1..Len(others) /\ others[x.global + 1] = msg.op
    BY <1>1, <1>3, <2>1, <2>2, DeliversOne DEF Delivered, back, x
  <2>4. InLogOrder(u, buf)
    BY <1>3, ForeignPositions
  <2>5. PICK k : k = x.global + 1
    OBVIOUS
  <2>6. k - 1 = x.global
    BY <1>3, <2>5
  <2>7. \E n : IsForeign(u, buf, k - 1, n) /\ buf[n] = others[k]
    <3>1. k \in 1..Len(Foreign(u, buf))
      BY <2>3, <2>5
    <3> QED  BY <2>4, <3>1 DEF InLogOrder
  <2> HIDE DEF others
  <2>8. others[k] = msg.op
    BY <2>3, <2>5
  <2> QED  BY <2>6, <2>7, <2>8
<1>8. client'[u].global = x.global + 1
  <2>1. client'[u] = Receive(x, msg)
    BY <1>1, <1>2 DEF TypeOK
  <2>2. Receive(x, msg).global = x.global + 1
    BY DEF Receive
  <2> QED  BY <2>1, <2>2
<1>9. \A v \in UserId \ {u} : client'[v].global = client[v].global
  BY <1>1, <1>2 DEF TypeOK
<1>10. \A v \in UserId : InFlight(v)' = InFlight(v)
  BY <1>2, InFlightKept
<1> DEFINE t == writeLocal(edit_file[u], op)
<1>11. t \in Shared!Results(edit_file[u], EditOf(buf[n])) \cup {edit_file[u]}
  <2> HIDE DEF op, msg
  <2>1. op \in op_t
    BY <1>5 DEF Shifted
  <2>2. CASE EditOf(op) = EditOf(msg.op)
    BY <1>3, <1>6, <1>7, <2>1, <2>2, WriteResults
  <2>3. CASE EditOf(op) # EditOf(msg.op)
    BY <1>4, <1>5, <2>3, ShiftedEdit, WriteNoop
  <2> QED  BY <2>2, <2>3
<1>12. edit_file' = [edit_file EXCEPT ![u] = t]
  BY <1>2
<1>13. Shared!InSync(u)'
  BY SyncAfter DEF SharedSync
<1> HIDE DEF t, op, msg
<1> QED
  BY <1>2, <1>3, <1>7, <1>8, <1>9, <1>10, <1>11, <1>12, <1>13, SharedLearn

\* Every step of the protocol is a step of SharedText or a stutter.
LEMMA SharedStep ==
    SharedInv /\ SharedInv' /\ [Next]_vars => [Shared!Next]_(Shared!vars)
<1> SUFFICES ASSUME SharedInv, SharedInv', [Next]_vars
             PROVE  Shared!Next \/ UNCHANGED Shared!vars
  OBVIOUS
<1>1. TypeOK
  BY DEF SharedInv, ConvergenceInv, JupiterInv
<1>2. ASSUME UNCHANGED <<last_id, buf, edit_file, to_server, local_ops, client>>
      PROVE  UNCHANGED Shared!vars
  <2>1. \A u \in UserId : InFlight(u)' = InFlight(u)
    BY <1>2, InFlightKept
  <2> QED  BY <1>2, <2>1, SharedStutter
<1>3. CASE UNCHANGED vars
  BY <1>2, <1>3 DEF vars, serverVars, clientVars
<1>4. ASSUME NEW u \in UserId, Login(u)
      PROVE  Shared!Next
  <2>1. /\ u = last_id + 1 /\ last_id' = u /\ last_id \in Nat
        /\ UNCHANGED <<buf, edit_file, to_server, local_ops, client>>
    BY <1>1, <1>4, MaxUsersType DEF Login, TypeOK
  <2>2. u \notin 1..last_id /\ 1..last_id' = (1..last_id) \cup {u}
    BY <2>1
  <2>3. Shared!Join(u)
    BY <2>1, <2>2, SharedJoin
  <2> QED  BY <2>3 DEF Shared!Next
<1>5. ASSUME NEW u \in UserId, ClientExit(u) \/ ServerExit(u) \/ LocalProcess(u)
      PROVE  UNCHANGED Shared!vars
  BY <1>2, <1>5 DEF ClientExit, ServerExit, LocalProcess, clientVars, serverVars
<1>6. ASSUME NEW u \in UserId, Edit(u)
      PROVE  Shared!Next
  BY <1>1, <1>6, EditWrites DEF Shared!Next
<1>7. ASSUME NEW u \in UserId, WriteOp(u)
      PROVE  UNCHANGED Shared!vars
  BY <1>1, <1>7, WriteOpStutters
<1>8. ASSUME NEW u \in UserId, ReadServer(u)
      PROVE  Shared!Next
  BY <1>8, ReadServerLearns DEF Shared!Next
<1>9. ASSUME NEW u \in UserId, RemoteProcess(u)
      PROVE  Shared!Next
  BY <1>9, RemoteProcessCommits DEF Shared!Next
<1> QED
  BY <1>3, <1>4, <1>5, <1>6, <1>7, <1>8, <1>9 DEF Next

\* Refinement: every behaviour of clients, server processes and connections is
\* one of SharedText.
THEOREM JupiterImplements == Spec => Implements
<1>1. Init => Shared!Init
  BY SharedStarts
<1>2. SharedInv /\ SharedInv' /\ [Next]_vars => [Shared!Next]_(Shared!vars)
  BY SharedStep
<1> QED  BY <1>1, <1>2, SharedInvariant, PTL DEF Spec, Implements, Shared!Spec
=============================================================================
