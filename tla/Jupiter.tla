------------------------------ MODULE Jupiter ------------------------------
(***************************************************************************)
(* The whole editor as a protocol.  Every user runs one client, served by  *)
(* one server process; the processes share the log file (the algorithm's   *)
(* "local" medium on that side) and each pair talks over one TCP           *)
(* connection.  A client and its server process run the same algorithm,    *)
(* Cscw.                                                                   *)
(*                                                                         *)
(* The client's two threads and its user interface are separate actions.   *)
(* A server process is one thread; it reads the log one entry at a time,   *)
(* and handles a message of its client while it holds the file lock, so    *)
(* RemoteProcess is one step.                                              *)
(***************************************************************************)
EXTENDS Cscw, FiniteSets

CONSTANTS InitialText, \* the file every user opened: logging in compares MD5s
          MaxEdits,    \* MaxEdits[u]: bound on the edits of user u
          Leavers      \* the users who may leave

ASSUME InitialTextAssumption == InitialText \in Text
ASSUME MaxEditsAssumption == MaxEdits \in [UserId -> Nat]
ASSUME LeaversAssumption == Leavers \subseteq UserId

VARIABLES
    last_id,    \* header of the log file: the last user id given out
    buf,        \* the log file: committed operations, oldest first
    serving,    \* users whose server process runs
    readfd,     \* readfd[u]: how many entries of the log process u has read
    server,     \* server[u]: the endpoint in server process u
    editing,    \* users whose client runs
    edit_file,  \* edit_file[u]: the text in client u
    local_ops,  \* local_ops[u]: edits waiting for writeOp_Thread of client u
    client,     \* client[u]: the endpoint in client u
    to_server,  \* to_server[u]: messages from client u to server process u
    to_client   \* to_client[u]: messages from server process u to client u

serverVars == <<last_id, buf, serving, readfd, server>>
clientVars == <<editing, edit_file, local_ops, client>>
vars == <<serverVars, clientVars, to_server, to_client>>

Init ==
    /\ last_id = 0 /\ buf = <<>>
    /\ serving = {} /\ editing = {}
    /\ readfd = [u \in UserId |-> 0]
    /\ server = [u \in UserId |-> NewEndpoint]
    /\ client = [u \in UserId |-> NewEndpoint]
    /\ edit_file = [u \in UserId |-> InitialText]
    /\ local_ops = [u \in UserId |-> <<>>]
    /\ to_server = [u \in UserId |-> <<>>]
    /\ to_client = [u \in UserId |-> <<>>]
-----------------------------------------------------------------------------
(* The client. *)

\* What the front end can ask the text for: an insertion anywhere, or the
\* deletion of a character that is there.
UserOps(u) ==
    { op \in [operation : {CH_DELETE, CH_INSERT}, data : Char, id : {u},
              char_offset : 0..Len(edit_file[u])] : Silent(edit_file[u], op) }

\* How many edits user u has made.
EditsOf(u) == client[u].local + Len(local_ops[u])

\* textOpMutex changes the text and writeOpFifo queues the operation, under
\* the edit lock: no remote operation is applied in between.
Edit(u) ==
    /\ u \in editing
    /\ EditsOf(u) < MaxEdits[u]
    /\ \E op \in UserOps(u) :
        /\ edit_file' = [edit_file EXCEPT ![u] = writeLocal(@, op)]
        /\ local_ops' = [local_ops EXCEPT ![u] = Append(@, op)]
    /\ UNCHANGED <<serverVars, editing, client, to_server, to_client>>

\* Mutant of WriteOp: the rest of the queue is dropped with the operation.
WriteOpDropping(u) ==
    /\ u \in editing
    /\ local_ops[u] # <<>>
    /\ LET ops == <<Head(local_ops[u])>>
       IN  /\ to_server' = [to_server EXCEPT
                                ![u] = @ \o Messages(client[u], ops)]
           /\ client' = [client EXCEPT ![u] = Generate(@, ops)]
    /\ local_ops' = [local_ops EXCEPT ![u] = <<>>]
    /\ UNCHANGED <<serverVars, editing, edit_file, to_client>>

\* writeOp_Thread: hand the oldest queued edit to the algorithm, which sends
\* it, and only then pop it.
WriteOp(u) ==
    /\ u \in editing
    /\ local_ops[u] # <<>>
    /\ LET ops == <<Head(local_ops[u])>>
       IN  /\ to_server' = [to_server EXCEPT
                                ![u] = @ \o Messages(client[u], ops)]
           /\ client' = [client EXCEPT ![u] = Generate(@, ops)]
    /\ local_ops' = [local_ops EXCEPT ![u] = Tail(@)]
    /\ UNCHANGED <<serverVars, editing, edit_file, to_client>>

\* Mutant of ReadServer: without the wait for local_ops to be empty.
ReadServerAtOnce(u) ==
    /\ u \in editing
    /\ to_client[u] # <<>>
    /\ LET msg == Head(to_client[u])
       IN  /\ edit_file' = [edit_file EXCEPT
                                ![u] = writeLocal(@, Received(client[u], msg))]
           /\ client' = [client EXCEPT ![u] = Receive(@, msg)]
    /\ to_client' = [to_client EXCEPT ![u] = Tail(@)]
    /\ UNCHANGED <<serverVars, editing, local_ops, to_server>>

\* readServer_Thread: procServerWrapper holds the edit lock, waits until
\* every edit has been sent, and applies one message.
ReadServer(u) ==
    /\ u \in editing
    /\ to_client[u] # <<>>
    /\ local_ops[u] = <<>>
    /\ LET msg == Head(to_client[u])
       IN  /\ edit_file' = [edit_file EXCEPT
                                ![u] = writeLocal(@, Received(client[u], msg))]
           /\ client' = [client EXCEPT ![u] = Receive(@, msg)]
    /\ to_client' = [to_client EXCEPT ![u] = Tail(@)]
    /\ UNCHANGED <<serverVars, editing, local_ops, to_server>>

\* The client ends.  What it has sent can still reach its server process.
ClientExit(u) ==
    /\ u \in editing \cap Leavers
    /\ editing' = editing \ {u}
    /\ UNCHANGED <<serverVars, edit_file, local_ops, client, to_server,
                   to_client>>
-----------------------------------------------------------------------------
(* The server processes. *)

\* Login gives out ids in order.  A session ends with its last process: a
\* later login starts a new log and is outside this module.
Login(u) ==
    /\ u = last_id + 1
    /\ last_id > 0 => serving # {}
    /\ last_id' = u
    /\ serving' = serving \cup {u}
    /\ editing' = editing \cup {u}
    /\ UNCHANGED <<buf, readfd, server, edit_file, local_ops, client,
                   to_server, to_client>>

\* Mutant of Foreign: without the comparison with the process's own id.
ForeignOrOwn(u, entries) == entries

\* The loop of localProcess over some entries of the log: what it hands to
\* the algorithm, a process skipping what it wrote itself.
Foreign(u, entries) ==
    LET found[n \in 0..Len(entries)] ==
            IF n = 0 THEN <<>>
            ELSE IF entries[n].id = u THEN found[n - 1]
            ELSE Append(found[n - 1], entries[n])
    IN  found[Len(entries)]

Unread(u) == SubSeq(buf, readfd[u] + 1, Len(buf))

\* One round of the loop in localProcess, when inotify has reported a change.
LocalProcess(u) ==
    /\ u \in serving
    /\ readfd[u] < Len(buf)
    /\ LET ops == Foreign(u, <<buf[readfd[u] + 1]>>)
       IN  /\ to_client' = [to_client EXCEPT
                                ![u] = @ \o Messages(server[u], ops)]
           /\ server' = [server EXCEPT ![u] = Generate(@, ops)]
    /\ readfd' = [readfd EXCEPT ![u] = @ + 1]
    /\ UNCHANGED <<last_id, buf, serving, clientVars, to_server>>

\* Mutant of RemoteProcess: the log is not read before the message is
\* transformed.
RemoteProcessBlind(u) ==
    /\ u \in serving
    /\ to_server[u] # <<>>
    /\ LET msg == Head(to_server[u])
       IN  /\ buf' = Append(buf, Received(server[u], msg))
           /\ server' = [server EXCEPT ![u] = Receive(@, msg)]
    /\ to_server' = [to_server EXCEPT ![u] = Tail(@)]
    /\ UNCHANGED <<last_id, serving, readfd, to_client, clientVars>>

\* Mutant of RemoteProcess: what it reads from the log is not sent on.
RemoteProcessSkipping(u) ==
    /\ u \in serving
    /\ to_server[u] # <<>>
    /\ LET msg == Head(to_server[u])
       IN  /\ buf' = Append(buf, Received(server[u], msg))
           /\ server' = [server EXCEPT ![u] = Receive(@, msg)]
    /\ readfd' = [readfd EXCEPT ![u] = Len(buf)]
    /\ to_server' = [to_server EXCEPT ![u] = Tail(@)]
    /\ UNCHANGED <<last_id, serving, to_client, clientVars>>

\* remoteProcess: lock the file, read the rest of the log, let the algorithm
\* transform the message and append the result to the log, unlock.
RemoteProcess(u) ==
    /\ u \in serving
    /\ to_server[u] # <<>>
    /\ LET msg == Head(to_server[u])
           ops == Foreign(u, Unread(u))
           current == Generate(server[u], ops)
       IN  /\ to_client' = [to_client EXCEPT
                                ![u] = @ \o Messages(server[u], ops)]
           /\ buf' = Append(buf, Received(current, msg))
           /\ server' = [server EXCEPT ![u] = Receive(current, msg)]
    /\ readfd' = [readfd EXCEPT ![u] = Len(buf)]
    /\ to_server' = [to_server EXCEPT ![u] = Tail(@)]
    /\ UNCHANGED <<last_id, serving, clientVars>>

\* A signal, a closed connection: the process ends between two of its steps.
ServerExit(u) ==
    /\ u \in serving \cap Leavers
    /\ serving' = serving \ {u}
    /\ UNCHANGED <<last_id, buf, readfd, server, clientVars, to_server,
                   to_client>>
-----------------------------------------------------------------------------
Next ==
    \E u \in UserId :
        \/ Login(u) \/ Edit(u) \/ WriteOp(u) \/ ReadServer(u)
        \/ LocalProcess(u) \/ RemoteProcess(u)
        \/ ClientExit(u) \/ ServerExit(u)

Spec == Init /\ [][Next]_vars

\* Threads and processes that have something to do get to do it; users need
\* not do anything.
Fairness ==
    \A u \in UserId : WF_vars(WriteOp(u)) /\ WF_vars(ReadServer(u))
                      /\ WF_vars(LocalProcess(u)) /\ WF_vars(RemoteProcess(u))

FairSpec == Spec /\ Fairness
-----------------------------------------------------------------------------
(* Properties. *)

\* Type invariant, with the bounds that hold of the counters.
TypeOK ==
    /\ last_id \in 0..MaxUsers
    /\ buf \in Seq(op_t)
    /\ serving \subseteq 1..last_id /\ editing \subseteq 1..last_id
    /\ readfd \in [UserId -> Nat]
    /\ server \in [UserId -> Endpoint] /\ client \in [UserId -> Endpoint]
    /\ edit_file \in [UserId -> Text]
    /\ local_ops \in [UserId -> Seq(op_t)]
    /\ to_server \in [UserId -> Seq(trans_t)]
    /\ to_client \in [UserId -> Seq(trans_t)]
    /\ \A u \in UserId : readfd[u] <= Len(buf)

\* The texts the log stands for, one after each committed operation.
Committed == Versions(InitialText, buf)

OwnCommits(u) == Cardinality({ n \in 1..Len(buf) : buf[n].id = u })

\* How much of the log the text of user u stands for once all edits of u are
\* in it: the operations of others that client u has applied, and its own.
Known(u) == client[u].global + OwnCommits(u)

\* Convergence.  A client none of whose edits is under way, and which has
\* received at least what was in the log before its last one, holds exactly
\* the text that part of the log stands for, whatever it and the others did
\* concurrently (cscw.cpp and xform.cpp on both sides of each connection).
Agreement ==
    \A u \in UserId :
        /\ local_ops[u] = <<>> /\ to_server[u] = <<>>
        /\ \A n \in Known(u) + 1..Len(buf) : buf[n].id # u
        => edit_file[u] = Committed[Known(u)]

\* A message a client is about to apply is in range there and deletes the
\* character its author deleted: writeLocal of src/data_trans.cpp prints
\* neither "offset out of range" nor "delete: different".
ClientSilent ==
    \A u \in UserId :
        to_client[u] # <<>> /\ local_ops[u] = <<>>
        => Silent(edit_file[u], Received(client[u], Head(to_client[u])))

\* The log alone rebuilds the text: a user who logs in late, or the viewer
\* started with -S (moniterServer_Thread), replays it without a complaint.
LogSilent ==
    \A n \in 1..Len(buf) : Silent(Committed[n - 1], buf[n])

\* Receive discards neither too much nor too little: what is left in the
\* queue is every operation that the sender of the message had not received,
\* from the first such one on, none missing.
IsConcurrent(e, msg) ==
    LET queue == Concurrent(e, msg)
    IN  /\ Len(queue) = e.local - msg.state
        /\ \A n \in 1..Len(queue) : queue[n].state = msg.state + n - 1

ContextMatches ==
    \A u \in UserId :
        /\ to_server[u] # <<>> => IsConcurrent(server[u], Head(to_server[u]))
        /\ to_client[u] # <<>> => IsConcurrent(client[u], Head(to_client[u]))

\* The tie-break of _xform is decided by ids that differ ("should never
\* happen!", lib/xform.cpp:77): a process never sends a client its own
\* operations back, on whichever side two operations meet.
IDsDiffer ==
    \A u \in UserId :
        /\ \A n \in 1..Len(server[u].outgoing) :
                server[u].outgoing[n].op.id # u
        /\ \A n \in 1..Len(to_client[u]) : to_client[u][n].op.id # u
        /\ \A n \in 1..Len(client[u].outgoing) :
                client[u].outgoing[n].op.id = u

\* Every edit of a user who stays connected reaches the log.
EditsCommitted ==
    \A u \in UserId : \A n \in 1..MaxEdits[u] :
        EditsOf(u) >= n ~> OwnCommits(u) >= n \/ u \notin editing \cap serving

\* Users who stay connected end up with one text: the whole log's.
EventuallyAgree ==
    <>[](\A u \in editing \cap serving : edit_file[u] = Committed[Len(buf)])
-----------------------------------------------------------------------------
(* The protocol implements SharedText. *)

EditOf(op) == [operation |-> op.operation, data |-> op.data]

InFlight(u) ==
    [n \in 1..Len(to_server[u]) |-> EditOf(to_server[u][n].op)]
    \o [n \in 1..Len(local_ops[u]) |-> EditOf(local_ops[u][n])]

Shared == INSTANCE SharedText WITH
    User <- UserId,
    joined <- 1..last_id,
    commits <- [n \in 1..Len(buf) |->
                    [author |-> buf[n].id, edit |-> EditOf(buf[n])]],
    versions <- LET texts == Committed
                IN  [n \in 1..Len(buf) + 1 |-> texts[n - 1]],
    doc <- edit_file,
    pending <- [u \in UserId |-> InFlight(u)],
    learned <- [u \in UserId |-> client[u].global]

\* Refinement.  Edits enter one history in the order of their author, each at
\* most once, moved or absorbed but never altered; every client learns that
\* history in its order, and shows a text of it whenever it has nothing of
\* its own under way.
Implements == Shared!Spec
=============================================================================
