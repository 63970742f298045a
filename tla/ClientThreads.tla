--------------------------- MODULE ClientThreads ---------------------------
(***************************************************************************)
(* The inside of one client and of the server process it is connected to:  *)
(* the threads, the mutexes, the queues between the threads and the two    *)
(* directions of the connection, which hold only so much.  Jupiter treats  *)
(* an edit, the sending of an edit and the arrival of a message as one     *)
(* step each; here they are the calls they are made of.                    *)
(*                                                                         *)
(* What an operation does to the text is not the subject: an operation is  *)
(* a number, positive for the edits of this user in the order in which     *)
(* they changed the text, negative for those of the others in the order of *)
(* the log, and a text is the sequence of the operations applied to it.    *)
(* An edit that the text refuses takes and releases its locks and is left  *)
(* out.                                                                    *)
(***************************************************************************)
EXTENDS Integers, Sequences, SequencesExt

CONSTANTS Options,    \* the options -t, -T and -s the client may run with
          MaxEdits,   \* MaxEdits[o]: bound on the edits of this user
          MaxOthers,  \* MaxOthers[o]: bound on what other users commit
          Room        \* how many messages a direction of the connection holds

ASSUME MaxEditsAssumption == MaxEdits \in [Options -> Nat]
ASSUME MaxOthersAssumption == MaxOthers \in [Options -> Nat]
ASSUME RoomAssumption == Room \in Nat \ {0}

\* sleep_before_send and sleep_before_recv: zero, positive or negative.
Delay == {"none", "timer", "manual"}
ASSUME OptionsAssumption ==
    Options \subseteq [send : Delay, recv : Delay, can_sim : BOOLEAN]

VARIABLES
    option,     \* the options of the client
    pc,         \* pc[t]: where thread t, or the server process, is
    job,        \* job[t]: the synchronisation that thread t is busy with
    owner,      \* owner[m]: the thread that holds mutex m
    edit_file,  \* the text: the operations applied to it
    local_ops,  \* edits waiting for the writer
    algorithm,  \* the operations the algorithm has been given
    to_send,    \* messages waiting for synSend
    to_recv,    \* messages waiting for synRecv
    in_hand,    \* in_hand[p]: the message the reader, or the server process,
                \* has read from the connection and not dealt with
    to_server, to_client,  \* the two directions of the connection
    committed,  \* the edits of this user in the log
    others,     \* how many operations of other users are in the log
    readfd      \* how many of these the server process has read

dataVars == <<edit_file, local_ops, algorithm>>
queueVars == <<to_send, to_recv, in_hand>>
logVars == <<committed, others, readfd>>
netVars == <<to_server, to_client, logVars>>
vars == <<option, pc, job, owner, dataVars, queueVars, netVars>>

Editors == {"screen", "cli"}
Senders == Editors \cup {"send_timer"}
Receivers == Editors \cup {"recv_timer"}
Threads == Senders \cup Receivers \cup {"writer", "reader"}
Nobody == "nobody"

\* Of the two mutexes of textOpMutex, mtx2 is the edit lock.  The other one
\* is taken by holders of mtx2 and, for the time of a call, by the screen.
\* mtx is that of init.cpp: it belongs to local_ops.
Mutexes == {"mtx2", "mtx", "algo_mtx", "send_mtx", "recv_mtx"}

SYN == {"send", "recv"}
SEND_SYN == {"send"}
RECV_SYN == {"recv"}

Init ==
    /\ option \in Options
    /\ pc = [p \in Threads \cup {"server"} |->
                CASE p = "reader" -> "read" [] p = "server" -> "poll"
                  [] OTHER -> "idle"]
    /\ job = [t \in Senders \cup Receivers |-> {}]
    /\ owner = [m \in Mutexes |-> Nobody]
    /\ edit_file = <<>> /\ local_ops = <<>> /\ algorithm = <<>>
    /\ to_send = <<>> /\ to_recv = <<>>
    /\ in_hand = [p \in {"reader", "server"} |-> <<>>]
    /\ to_server = <<>> /\ to_client = <<>>
    /\ committed = <<>> /\ others = 0 /\ readfd = 0
-----------------------------------------------------------------------------
(* Steps between places of a thread, and mutexes. *)

Goes(p, from, to) == pc[p] = from /\ pc' = [pc EXCEPT ![p] = to]

Lock(t, m) == owner[m] = Nobody /\ owner' = [owner EXCEPT ![m] = t]

\* Release what t holds of the mutexes ms.
Unlock(t, ms) ==
    owner' = [m \in Mutexes |->
                IF m \in ms /\ owner[m] = t THEN Nobody ELSE owner[m]]

\* The mutex of the algorithm is taken only without option -s.
LockAlgo(t) ==
    IF option.can_sim THEN UNCHANGED owner ELSE Lock(t, "algo_mtx")

\* The operations among ops that are in the set S.
Those(S, ops) ==
    LET found[n \in 0..Len(ops)] ==
            IF n = 0 THEN <<>>
            ELSE IF ops[n] \in S THEN Append(found[n - 1], ops[n])
            ELSE found[n - 1]
    IN  found[Len(ops)]

Own(ops) == Those(Nat \ {0}, ops)
Foreign(ops) == Those(Int \ Nat, ops)
-----------------------------------------------------------------------------
(* An edit: textOpMutex::insertChar and its three siblings. *)

\* The text changes under the edit lock.  The screen only tries that lock,
\* and repeats its call later when it is taken; the command line waits.
ChangeText(t) ==
    /\ Len(Own(edit_file)) < MaxEdits[option]
    /\ Goes(t, "idle", "queue")
    /\ Lock(t, "mtx2")
    /\ edit_file' = Append(edit_file, Len(Own(edit_file)) + 1)
    /\ UNCHANGED <<option, job, local_ops, algorithm, queueVars, netVars>>

\* Mutant of QueueEdit: an edit made while the queue is being emptied is not
\* queued.
QueueEditOrDrop(t) ==
    /\ Goes(t, "queue", "idle")
    /\ local_ops' = IF owner["mtx"] = Nobody
                    THEN Append(local_ops, Last(edit_file)) ELSE local_ops
    /\ Unlock(t, {"mtx2"})
    /\ UNCHANGED <<option, job, edit_file, algorithm, queueVars, netVars>>

\* writeOpFifo, still under the locks of the text.
QueueEdit(t) ==
    /\ Goes(t, "queue", "idle")
    /\ owner["mtx"] = Nobody
    /\ local_ops' = Append(local_ops, Last(edit_file))
    /\ Unlock(t, {"mtx2"})
    /\ UNCHANGED <<option, job, edit_file, algorithm, queueVars, netVars>>
-----------------------------------------------------------------------------
(* writeOp_Thread, which holds mtx from the first operation to the last. *)

Consume ==
    /\ local_ops # <<>>
    /\ Goes("writer", "idle", "consume")
    /\ Lock("writer", "mtx")
    /\ UNCHANGED <<option, job, dataVars, queueVars, netVars>>

EnterGenerate ==
    /\ Goes("writer", "consume", "generate")
    /\ LockAlgo("writer")
    /\ UNCHANGED <<option, job, dataVars, queueVars, netVars>>

\* Generate, with writeRemote.  A write to the connection waits for room;
\* to_send is pushed without its mutex.
Generate ==
    /\ Goes("writer", "generate", "pop")
    /\ IF option.send = "none"
       THEN /\ Len(to_server) < Room
            /\ to_server' = Append(to_server, Head(local_ops))
            /\ UNCHANGED to_send
       ELSE /\ to_send' = Append(to_send, Head(local_ops))
            /\ UNCHANGED to_server
    /\ algorithm' = Append(algorithm, Head(local_ops))
    /\ Unlock("writer", {"algo_mtx"})
    /\ UNCHANGED <<option, job, edit_file, local_ops, to_recv, in_hand,
                   to_client, logVars>>

PopLocal ==
    /\ Goes("writer", "pop", IF Len(local_ops) > 1 THEN "consume" ELSE "idle")
    /\ local_ops' = Tail(local_ops)
    /\ IF Len(local_ops) > 1 THEN UNCHANGED owner ELSE Unlock("writer", {"mtx"})
    /\ UNCHANGED <<option, job, edit_file, algorithm, queueVars, netVars>>
-----------------------------------------------------------------------------
(* writeOpFifo with SYN, SEND_SYN and RECV_SYN, and the timers. *)

\* Something waits for one of the ways of syn.  Without, a synchronisation
\* comes and goes without an effect.
Queued(syn) ==
    \/ "send" \in syn /\ to_send # <<>>
    \/ "recv" \in syn /\ to_recv # <<>>

\* ^S, ^U and ^K on the screen; l, u and r on the command line.
Synchronize(t) ==
    /\ \E syn \in {SYN, SEND_SYN, RECV_SYN} :
        /\ Queued(syn)
        /\ job' = [job EXCEPT ![t] = syn]
        /\ Goes(t, "idle", IF "send" \in syn THEN "send" ELSE "recv")
    /\ UNCHANGED <<option, owner, dataVars, queueVars, netVars>>

\* sendTimer_Thread and recvTimer_Thread.
Expire(t, way) ==
    /\ option[way] = "timer"
    /\ Queued({way})
    /\ job' = [job EXCEPT ![t] = {way}]
    /\ Goes(t, "idle", way)
    /\ UNCHANGED <<option, owner, dataVars, queueVars, netVars>>

\* Mutant of BeginSend: without send_mtx.
BeginSendUnlocked(t) ==
    /\ Goes(t, "send", "sending")
    /\ UNCHANGED <<option, job, owner, dataVars, queueVars, netVars>>

BeginSend(t) ==
    /\ Goes(t, "send", "sending")
    /\ Lock(t, "send_mtx")
    /\ UNCHANGED <<option, job, dataVars, queueVars, netVars>>

\* doWriteRemote of the oldest message.
SendFront(t) ==
    /\ to_send # <<>>
    /\ Goes(t, "sending", "sent")
    /\ Len(to_server) < Room
    /\ to_server' = Append(to_server, Head(to_send))
    /\ UNCHANGED <<option, job, owner, dataVars, queueVars, to_client, logVars>>

PopSent(t) ==
    /\ Goes(t, "sent", "sending")
    /\ to_send' = Tail(to_send)
    /\ UNCHANGED <<option, job, owner, dataVars, to_recv, in_hand, netVars>>

\* Mutant of EndSend: send_mtx is kept on the way to synRecv.
EndSendLocked(t) ==
    /\ to_send = <<>>
    /\ Goes(t, "sending", IF "recv" \in job[t] THEN "recv" ELSE "idle")
    /\ IF "recv" \in job[t] THEN UNCHANGED owner ELSE Unlock(t, {"send_mtx"})
    /\ UNCHANGED <<option, job, dataVars, queueVars, netVars>>

EndSend(t) ==
    /\ to_send = <<>>
    /\ Goes(t, "sending", IF "recv" \in job[t] THEN "recv" ELSE "idle")
    /\ Unlock(t, {"send_mtx"})
    /\ UNCHANGED <<option, job, dataVars, queueVars, netVars>>

BeginRecv(t) ==
    /\ Goes(t, "recv", "receiving")
    /\ Lock(t, "recv_mtx")
    /\ UNCHANGED <<option, job, dataVars, queueVars, netVars>>

\* procServerWrapper of the oldest message, up to the edit lock.
RecvFront(t) ==
    /\ to_recv # <<>>
    /\ Goes(t, "receiving", "spin")
    /\ Lock(t, "mtx2")
    /\ UNCHANGED <<option, job, dataVars, queueVars, netVars>>

PopRecv(t) ==
    /\ Goes(t, "received", "receiving")
    /\ to_recv' = Tail(to_recv)
    /\ UNCHANGED <<option, job, owner, dataVars, to_send, in_hand, netVars>>

EndRecv(t) ==
    /\ to_recv = <<>>
    /\ Goes(t, "receiving", "idle")
    /\ Unlock(t, {"recv_mtx"})
    /\ UNCHANGED <<option, job, dataVars, queueVars, netVars>>
-----------------------------------------------------------------------------
(* readServer_Thread, and procServerWrapper in every thread that calls it. *)

\* readn: the message is applied at once or goes, without the mutex of
\* synRecv, into to_recv.
ReadMessage ==
    /\ to_client # <<>>
    /\ to_client' = Tail(to_client)
    /\ IF option.recv = "none"
       THEN /\ Goes("reader", "read", "lock")
            /\ in_hand' = [in_hand EXCEPT !["reader"] = <<Head(to_client)>>]
            /\ UNCHANGED to_recv
       ELSE /\ Goes("reader", "read", "read")
            /\ to_recv' = Append(to_recv, Head(to_client))
            /\ UNCHANGED in_hand
    /\ UNCHANGED <<option, job, owner, dataVars, to_send, to_server, logVars>>

LockForMessage ==
    /\ Goes("reader", "lock", "spin")
    /\ Lock("reader", "mtx2")
    /\ UNCHANGED <<option, job, dataVars, queueVars, netVars>>

\* Mutant of EndSpin: without the loop.
EndSpinAtOnce(t) ==
    /\ Goes(t, "spin", "apply")
    /\ LockAlgo(t)
    /\ UNCHANGED <<option, job, dataVars, queueVars, netVars>>

\* while (!local_ops.empty());
EndSpin(t) ==
    /\ local_ops = <<>>
    /\ Goes(t, "spin", "apply")
    /\ LockAlgo(t)
    /\ UNCHANGED <<option, job, dataVars, queueVars, netVars>>

\* Mutant of FromNet: the thread that applied the message keeps the edit lock.
FromNetKeepingLock(t) ==
    LET msg == IF t = "reader" THEN in_hand["reader"] ELSE <<Head(to_recv)>>
    IN  /\ Goes(t, "apply", IF t = "reader" THEN "read" ELSE "received")
        /\ algorithm' = algorithm \o msg
        /\ edit_file' = edit_file \o msg
        /\ in_hand' = IF t = "reader"
                      THEN [in_hand EXCEPT !["reader"] = <<>>] ELSE in_hand
        /\ Unlock(t, {"algo_mtx"})
        /\ UNCHANGED <<option, job, local_ops, to_send, to_recv, netVars>>

\* Receive, with writeLocal.
FromNet(t) ==
    LET msg == IF t = "reader" THEN in_hand["reader"] ELSE <<Head(to_recv)>>
    IN  /\ Goes(t, "apply", IF t = "reader" THEN "read" ELSE "received")
        /\ algorithm' = algorithm \o msg
        /\ edit_file' = edit_file \o msg
        /\ in_hand' = IF t = "reader"
                      THEN [in_hand EXCEPT !["reader"] = <<>>] ELSE in_hand
        /\ Unlock(t, {"mtx2", "algo_mtx"})
        /\ UNCHANGED <<option, job, local_ops, to_send, to_recv, netVars>>
-----------------------------------------------------------------------------
(* The server process, one thread, and the other users.  Its own entries   *)
(* of the log make no difference to localProcess and are not counted.      *)

\* Every user appends to the log under the file lock, which this process
\* holds where its place is "commit".
OthersCommit ==
    /\ pc["server"] # "commit"
    /\ others < MaxOthers[option]
    /\ others' = others + 1
    /\ UNCHANGED <<option, pc, job, owner, dataVars, queueVars, to_server,
                   to_client, committed, readfd>>

\* localProcess, in the loop or in remoteProcess, passes one entry on to the
\* client.  The write waits for room.
LocalProcess ==
    /\ pc["server"] \in {"poll", "commit"}
    /\ readfd < others
    /\ readfd' = readfd + 1
    /\ Len(to_client) < Room
    /\ to_client' = Append(to_client, -readfd')
    /\ UNCHANGED <<option, pc, job, owner, dataVars, queueVars, to_server,
                   committed, others>>

\* The loop looks at the client when the log has nothing new.  The message
\* is read before the file lock is taken.
RemoteProcess ==
    /\ readfd = others /\ to_server # <<>>
    /\ Goes("server", "poll", "remote")
    /\ in_hand' = [in_hand EXCEPT !["server"] = <<Head(to_server)>>]
    /\ to_server' = Tail(to_server)
    /\ UNCHANGED <<option, job, owner, dataVars, to_send, to_recv, to_client,
                   logVars>>

GetFileLock ==
    /\ Goes("server", "remote", "commit")
    /\ UNCHANGED <<option, job, owner, dataVars, queueVars, netVars>>

\* fromNet, with writeLocal, when localProcess has read the whole log.
Commit ==
    /\ readfd = others
    /\ Goes("server", "commit", "poll")
    /\ committed' = committed \o in_hand["server"]
    /\ in_hand' = [in_hand EXCEPT !["server"] = <<>>]
    /\ UNCHANGED <<option, job, owner, dataVars, to_send, to_recv, to_server,
                   to_client, others, readfd>>
-----------------------------------------------------------------------------
Editing(t) == ChangeText(t) \/ QueueEdit(t)
Sending(t) == BeginSend(t) \/ SendFront(t) \/ PopSent(t) \/ EndSend(t)
Applying(t) == EndSpin(t) \/ FromNet(t)
Receiving(t) ==
    BeginRecv(t) \/ RecvFront(t) \/ Applying(t) \/ PopRecv(t) \/ EndRecv(t)
Timers == Expire("send_timer", "send") \/ Expire("recv_timer", "recv")
Writer == Consume \/ EnterGenerate \/ Generate \/ PopLocal
Reader == ReadMessage \/ LockForMessage \/ Applying("reader")
Server == LocalProcess \/ RemoteProcess \/ GetFileLock \/ Commit

Next ==
    \/ \E t \in Editors : Editing(t) \/ Synchronize(t)
    \/ \E t \in Senders : Sending(t)
    \/ \E t \in Receivers : Receiving(t)
    \/ Timers \/ Writer \/ Reader \/ Server \/ OthersCommit

Spec == Init /\ [][Next]_vars

\* Threads and the server process run when they can, and timers expire.  No
\* user need do anything, the one at this client not even press ^S.
Fairness ==
    /\ \A t \in Editors : WF_vars(QueueEdit(t))
    /\ \A t \in Senders : WF_vars(Sending(t))
    /\ \A t \in Receivers : WF_vars(Receiving(t))
    /\ WF_vars(Expire("send_timer", "send"))
    /\ WF_vars(Expire("recv_timer", "recv"))
    /\ WF_vars(Writer) /\ WF_vars(Reader) /\ WF_vars(Server)

FairSpec == Spec /\ Fairness
-----------------------------------------------------------------------------
(* Properties. *)

\* The places where a thread holds each mutex.
Holding ==
    [mtx2 |-> {"queue", "spin", "apply"}, mtx |-> {"consume", "generate", "pop"},
     algo_mtx |-> {"generate", "apply"}, send_mtx |-> {"sending", "sent"},
     recv_mtx |-> {"receiving", "spin", "apply", "received"}]

\* Type invariant.  A mutex is held where the code holds it and, but for
\* option -s and the reader, which is not under recv_mtx, nowhere else.
TypeOK ==
    /\ option \in Options
    /\ job \in [Senders \cup Receivers -> SUBSET SYN]
    /\ owner \in [Mutexes -> Threads \cup {Nobody}]
    /\ \A m \in Mutexes : owner[m] # Nobody => pc[owner[m]] \in Holding[m]
    /\ \A t \in Threads :
        \A m \in Mutexes \ ({"algo_mtx"} \cup IF t = "reader" THEN {"recv_mtx"} ELSE {}) :
            pc[t] \in Holding[m] => owner[m] = t
    /\ pc["server"] \in {"poll", "remote", "commit"}
    /\ \A p \in {"reader", "server"} :
        Len(in_hand[p]) = IF pc[p] \in {"read", "poll"} THEN 0 ELSE 1
    /\ Len(to_server) <= Room /\ Len(to_client) <= Room
    /\ readfd \in 0..others /\ others \in 0..MaxOthers[option]

\* What the text holds and the algorithm does not know of: edits that wait
\* for the writer, and one that is not queued yet.
Ungenerated ==
    (IF pc["writer"] = "pop" THEN Tail(local_ops) ELSE local_ops)
    \o IF \E t \in Editors : pc[t] = "queue" THEN <<Last(edit_file)>> ELSE <<>>

\* The algorithm is given the operations in the order in which they changed
\* the text, those of the network among those of the user, and by one thread
\* at a time even when option -s takes its mutex away.  It is what the loop
\* of procServerWrapper is for, and what allows Jupiter to take an edit and
\* a message as one step each.
SameOrder ==
    /\ edit_file = algorithm \o Ungenerated
    /\ \A t \in Threads \ {"writer"} :
        pc[t] = "apply" => pc["writer"] # "generate"

\* to_send and to_recv are pushed without the mutex under which another
\* thread takes from them.  All the same every edit the algorithm was given
\* is in exactly one place on its way to the log, every operation of others
\* in one on its way to the text, and none overtakes another.
NothingLost ==
    /\ Own(algorithm) =
        committed \o in_hand["server"] \o to_server
        \o IF \E t \in Senders : pc[t] = "sent" THEN Tail(to_send) ELSE to_send
    /\ [n \in 1..readfd |-> -n] =
        Foreign(algorithm) \o in_hand["reader"]
        \o (IF \E t \in Receivers : pc[t] = "received"
            THEN Tail(to_recv) ELSE to_recv)
        \o to_client

\* The writer waits for room on the connection, for a server process that
\* waits for room on the connection, for a reader that waits for the writer:
\* with the edit lock until local_ops is empty, or for the edit lock, which an
\* editor keeps until it gets mtx.
Stuck ==
    /\ option.send = "none" /\ pc["writer"] = "generate"
    /\ Len(to_server) = Room
    /\ pc["server"] # "remote" /\ readfd < others /\ Len(to_client) = Room
    /\ \/ pc["reader"] = "spin"
       \/ pc["reader"] = "lock" /\ \E t \in Editors : pc[t] = "queue"

\* What thread t waits for where it is, and what the server process does.
\* No user need do anything, so that an editor may be idle for ever.
Taken(m) == owner[m] # Nobody
AlgoTaken == ~option.can_sim /\ Taken("algo_mtx")

Waits(t) ==
    \/ pc[t] = "idle" /\ \/ t \in Editors
                         \/ t = "writer" /\ (local_ops = <<>> \/ Taken("mtx"))
                         \/ t = "send_timer" /\ ~(option.send = "timer" /\ to_send # <<>>)
                         \/ t = "recv_timer" /\ ~(option.recv = "timer" /\ to_recv # <<>>)
    \/ pc[t] = "queue" /\ Taken("mtx")
    \/ pc[t] = "consume" /\ AlgoTaken
    \/ pc[t] = "generate" /\ option.send = "none" /\ Len(to_server) = Room
    \/ pc[t] = "send" /\ Taken("send_mtx")
    \/ pc[t] = "sending" /\ to_send # <<>> /\ Len(to_server) = Room
    \/ pc[t] = "recv" /\ Taken("recv_mtx")
    \/ pc[t] = "receiving" /\ to_recv # <<>> /\ Taken("mtx2")
    \/ pc[t] = "read" /\ to_client = <<>>
    \/ pc[t] = "lock" /\ Taken("mtx2")
    \/ pc[t] = "spin" /\ (local_ops # <<>> \/ AlgoTaken)

ServerWaits ==
    \/ pc["server"] = "poll" /\ readfd = others /\ to_server = <<>>
    \/ pc["server"] # "remote" /\ readfd < others /\ Len(to_client) = Room

\* Every edit is in the log, and what the others did in the text, but for what
\* waits for a command of the user.
UpToDate ==
    /\ option.send # "manual" => Own(edit_file) = committed
    /\ option.recv # "manual" => Len(Foreign(edit_file)) = others

\* When everybody waits, it is because nothing is left to do, with every mutex
\* given back and nothing on its way, or because of one of the two deadlocks
\* of Stuck: six threads with five mutexes, three queues and two directions of
\* a connection have no third (src/src/init.cpp:275-420).
KnownDeadlocks ==
    (\A t \in Threads : Waits(t)) /\ ServerWaits =>
        \/ Stuck
        \/ UpToDate /\ \A m \in Mutexes : owner[m] = Nobody

\* Every thread comes to the end of what it does and gives its mutexes back,
\* the server process the file lock that every other user needs; the loop
\* of procServerWrapper, of which src/init.cpp:305 says "compiler thinks it
\* is an infinite loop!!!", ends.  The only exceptions are those of Stuck, for
\* good; either delay option rules them out.
ComesToRest ==
    \/ <>[](/\ \A m \in Mutexes : owner[m] = Nobody
            /\ pc["server"] = "poll")
    \/ <>[](Stuck /\ option.send = "none" /\ option.recv = "none")

Reaches(seq, op) == \E n \in 1..Len(seq) : seq[n] = op

\* Every edit gets into the log, and what the others do into the text: at
\* once, or when the timer expires, or, of what is queued when ^S (or l, u, r
\* on the command line) is given, with that command ("Synchronize all queued
\* operations immediately").  Or the client is stuck.
Delivered ==
    /\ <>[](Stuck \/ UpToDate)
    /\ \A n \in 1..2 :
        /\ (\E t \in Editors : pc[t] = "send") /\ Reaches(to_send, n)
            ~> Reaches(committed, n)
        /\ (\E t \in Editors : pc[t] = "recv") /\ Reaches(to_recv, -n)
            ~> Reaches(edit_file, -n)
=============================================================================
