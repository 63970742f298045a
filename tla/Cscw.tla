-------------------------------- MODULE Cscw --------------------------------
(***************************************************************************)
(* The Jupiter algorithm of algorithms/cscw.cpp, loaded as a library by    *)
(* the client and by every server process.  Its three static variables are *)
(* one endpoint record; procLocal and procRemote are Generate, procServer  *)
(* and procClient are Receive.                                             *)
(***************************************************************************)
EXTENDS Xform

\* trans_t: an operation and one counter of its sender, global in a message
\* on the wire and local in the queue.
trans_t == [op : op_t, state : Nat]

Endpoint == [local : Nat, global : Nat, outgoing : Seq(trans_t)]

NewEndpoint == [local |-> 0, global |-> 0, outgoing |-> <<>>]
-----------------------------------------------------------------------------
\* Generate, called once for each of ops in order: what writeRemote sends ...
Messages(e, ops) ==
    [n \in 1..Len(ops) |-> [op |-> ops[n], state |-> e.global]]

\* ... and what is queued to be transformed against.
Generate(e, ops) ==
    LET queued == [n \in 1..Len(ops) |->
                        [op |-> ops[n], state |-> e.local + n - 1]]
    IN  [local |-> e.local + Len(ops), global |-> e.global,
         outgoing |-> e.outgoing \o queued]
-----------------------------------------------------------------------------
\* Mutant of Acknowledged: the loop that discards is missing.
AcknowledgedNothing(outgoing, state) == 0

\* Mutant of Acknowledged: the loop stops at > instead of >=.
AcknowledgedOneMore(outgoing, state) ==
    CHOOSE n \in 0..Len(outgoing) :
        /\ \A i \in 1..n : outgoing[i].state <= state
        /\ n < Len(outgoing) => outgoing[n + 1].state > state

\* How many messages at the front of the queue the sender of state had seen.
Acknowledged(outgoing, state) ==
    CHOOSE n \in 0..Len(outgoing) :
        /\ \A i \in 1..n : outgoing[i].state < state
        /\ n < Len(outgoing) => outgoing[n + 1].state >= state

\* The queue without them: the operations concurrent with the message.
Concurrent(e, msg) ==
    SubSeq(e.outgoing, Acknowledged(e.outgoing, msg.state) + 1,
           Len(e.outgoing))

\* Path(op, queue)[n] is op after it was transformed against the first n
\* operations of the queue.  The code leaves the loop when op has become a
\* NOOP, which transforms nothing any more.
Path(op, queue) ==
    LET path[n \in 0..Len(queue)] ==
            IF n = 0 THEN op ELSE Shift(path[n - 1], queue[n].op)
    IN  path

\* Receive: the operation handed to writeLocal ...
Received(e, msg) ==
    LET queue == Concurrent(e, msg)
    IN  Path(msg.op, queue)[Len(queue)]

\* ... and the endpoint it leaves, each queued operation transformed against
\* the message as it arrived there.
Receive(e, msg) ==
    LET queue == Concurrent(e, msg)
        path == Path(msg.op, queue)
        transformed == [n \in 1..Len(queue) |->
                          [op |-> Shift(queue[n].op, path[n - 1]),
                           state |-> queue[n].state]]
    IN  [local |-> e.local, global |-> e.global + 1, outgoing |-> transformed]
=============================================================================
