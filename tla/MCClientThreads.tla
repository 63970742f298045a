-------------------------- MODULE MCClientThreads --------------------------
(* The threads of one client, with four choices of its options.  Without   *)
(* delays the bounds let both directions of the connection fill up, and a  *)
(* third edit wait behind the writer that is blocked with the second. On   *)
(* request two messages wait in one queue, and with two timers each queue  *)
(* has three threads that may empty it.                                    *)
EXTENDS ClientThreads

Undelayed == [send |-> "none", recv |-> "none", can_sim |-> FALSE]
SendOnRequest == [send |-> "manual", recv |-> "none", can_sim |-> FALSE]
RecvOnRequest == [send |-> "none", recv |-> "manual", can_sim |-> TRUE]
OnTimers == [send |-> "timer", recv |-> "timer", can_sim |-> FALSE]

SomeOptions == {Undelayed, SendOnRequest, RecvOnRequest, OnTimers}
FewEdits ==
    [o \in SomeOptions |->
        CASE o = Undelayed -> 3 [] o = SendOnRequest -> 2 [] OTHER -> 1]
FewOthers ==
    [o \in SomeOptions |->
        CASE o = Undelayed -> 3 [] o = RecvOnRequest -> 2 [] OTHER -> 1]
=============================================================================
