------------------------------ MODULE Session ------------------------------
(***************************************************************************)
(* How a user enters and leaves a session: login and logout of the server  *)
(* processes (server/main.cpp), and initServerMode and decreaseSem of the  *)
(* viewers (src/init.cpp), one action per system call.                     *)
(*                                                                         *)
(* All of them share the log file, whose header is the last id given out,  *)
(* and a named semaphore that counts who is online.  After sem_unlink a    *)
(* semaphore lives on for the processes that have it open, and the name    *)
(* may become that of another one.  The login that creates the semaphore   *)
(* starts a new session: it empties the log.  Only the id is taken under   *)
(* the file lock.                                                          *)
(***************************************************************************)
EXTENDS Integers, Sequences, FiniteSets

CONSTANTS Server,   \* server processes, one login each
          Viewer,   \* clients started with -S
          Mortal    \* the processes a signal may end without their logout

ASSUME ViewerAssumption == Server \cap Viewer = {}
ASSUME MortalAssumption == Mortal \subseteq Server \cup Viewer
ASSUME FiniteAssumption == IsFiniteSet(Server) /\ IsFiniteSet(Viewer)

VARIABLES
    orderly, \* whether a login or logout ends before another one starts
    log,     \* the log file: its header, and how often it was emptied
    name,    \* the semaphore the name stands for, or NoSem
    value,   \* the semaphores created so far, and their values
    holder,  \* the processes that hold the file lock
    pc,      \* pc[p]: the next call of p
    sem,     \* sem[p]: the semaphore p has open
    id,      \* id[p]: the user id of p, 0 before it has one
    joined,  \* joined[p]: which log p is in: how often it had been emptied
    sval     \* sval[p]: what sem_getvalue told p

vars == <<orderly, log, name, value, holder, pc, sem, id, joined, sval>>

Process == Server \cup Viewer

NoSem == 0
NoFile == -2    \* there is no log file
NoHeader == -1  \* the file is empty

\* Where a process is neither in a login nor in a logout.
Settled == {"start", "online", "gone", "killed", "failed"}

Init ==
    /\ orderly \in BOOLEAN
    /\ log = [header |-> NoFile, emptied |-> 0]
    /\ name = NoSem /\ value = <<>>
    /\ holder = {}
    /\ pc = [p \in Process |-> "start"]
    /\ sem = [p \in Process |-> NoSem]
    /\ id = [p \in Process |-> 0]
    /\ joined = [p \in Process |-> 0]
    /\ sval = [p \in Process |-> 0]

At(p, call) == pc[p] = call
Goto(p, call) == pc' = [pc EXCEPT ![p] = call]

\* p ends, and what it knew with it.
Exit(p, how) ==
    /\ Goto(p, how)
    /\ holder' = holder \ {p}
    /\ sem' = [sem EXCEPT ![p] = NoSem]
    /\ id' = [id EXCEPT ![p] = 0]
    /\ joined' = [joined EXCEPT ![p] = 0]
    /\ sval' = [sval EXCEPT ![p] = 0]

\* A login or logout starts.
Starts == orderly => \A p \in Process : pc[p] \in Settled
-----------------------------------------------------------------------------
(* login of a server process. *)

\* open with O_CREAT | O_EXCL tells who makes the file; the semaphore of an
\* earlier one is then stale.
OpenLog(p) ==
    /\ At(p, "start") /\ Starts
    /\ IF log.header = NoFile
       THEN log' = [log EXCEPT !.header = NoHeader] /\ Goto(p, "unlink_stale")
       ELSE Goto(p, "create_sem") /\ UNCHANGED log
    /\ UNCHANGED <<orderly, name, value, holder, sem, id, joined, sval>>

UnlinkStale(p) ==
    /\ At(p, "unlink_stale")
    /\ name' = NoSem
    /\ Goto(p, "create_sem")
    /\ UNCHANGED <<orderly, log, value, holder, sem, id, joined, sval>>

\* A new semaphore has value 0 and takes the name.
NewSem(p) ==
    LET new == Len(value) + 1
    IN  /\ value' = Append(value, 0)
        /\ name' = new /\ sem' = [sem EXCEPT ![p] = new]

OldSem(p) ==
    /\ sem' = [sem EXCEPT ![p] = name]
    /\ UNCHANGED <<name, value>>

\* sem_open with O_CREAT | O_EXCL, and without when the semaphore is there.
CreateSem(p) ==
    /\ At(p, "create_sem")
    /\ IF name = NoSem THEN NewSem(p) /\ Goto(p, "empty")
       ELSE Goto(p, "reopen_sem") /\ UNCHANGED <<name, value, sem>>
    /\ UNCHANGED <<orderly, log, holder, id, joined, sval>>

ReopenSem(p) ==
    /\ At(p, "reopen_sem")
    /\ IF name = NoSem THEN Exit(p, "failed") /\ UNCHANGED <<name, value>>
       ELSE /\ OldSem(p) /\ Goto(p, "post")
            /\ UNCHANGED <<holder, id, joined, sval>>
    /\ UNCHANGED <<orderly, log>>

\* Mutant of Empty: the header is not written again.
EmptyOnly(p) ==
    /\ At(p, "empty")
    /\ log' = [header |-> NoHeader, emptied |-> log.emptied + 1]
    /\ Goto(p, "post")
    /\ UNCHANGED <<orderly, name, value, holder, sem, id, joined, sval>>

\* The two calls of ftruncate: nothing is left, then a header of zeros, unless
\* a header has been written in between.
Empty(p) ==
    /\ At(p, "empty")
    /\ log' = [header |-> NoHeader, emptied |-> log.emptied + 1]
    /\ Goto(p, "zero_header")
    /\ UNCHANGED <<orderly, name, value, holder, sem, id, joined, sval>>

ZeroHeader(p) ==
    /\ At(p, "zero_header")
    /\ log' = [log EXCEPT !.header = IF @ = NoHeader THEN 0 ELSE @]
    /\ Goto(p, "post")
    /\ UNCHANGED <<orderly, name, value, holder, sem, id, joined, sval>>

Post(p) ==
    /\ At(p, "post")
    /\ value' = [value EXCEPT ![sem[p]] = @ + 1]
    /\ Goto(p, "lock")
    /\ UNCHANGED <<orderly, log, name, holder, sem, id, joined, sval>>

\* Mutant of Lock: nobody waits.
LockAtOnce(p) ==
    /\ At(p, "lock")
    /\ holder' = holder \cup {p}
    /\ Goto(p, "read_header")
    /\ UNCHANGED <<orderly, log, name, value, sem, id, joined, sval>>

Lock(p) ==
    /\ At(p, "lock") /\ holder = {}
    /\ holder' = {p}
    /\ Goto(p, "read_header")
    /\ UNCHANGED <<orderly, log, name, value, sem, id, joined, sval>>

\* Without a header the process exits: logout is not registered yet.
ReadHeader(p) ==
    /\ At(p, "read_header")
    /\ IF log.header = NoHeader THEN Exit(p, "failed")
       ELSE /\ Goto(p, "write_header")
            /\ id' = [id EXCEPT ![p] = log.header + 1]
            /\ joined' = [joined EXCEPT ![p] = log.emptied]
            /\ UNCHANGED <<holder, sem, sval>>
    /\ UNCHANGED <<orderly, log, name, value>>

WriteHeader(p) ==
    /\ At(p, "write_header")
    /\ log' = [log EXCEPT !.header = id[p]]
    /\ Goto(p, "unlock")
    /\ UNCHANGED <<orderly, name, value, holder, sem, id, joined, sval>>

Unlock(p) ==
    /\ At(p, "unlock")
    /\ holder' = holder \ {p}
    /\ Goto(p, "online")
    /\ UNCHANGED <<orderly, log, name, value, sem, id, joined, sval>>
-----------------------------------------------------------------------------
(* A viewer takes part in the count, and gets no id. *)

OpenViewer(p) ==
    /\ At(p, "start") /\ Starts
    /\ IF log.header = NoFile THEN Goto(p, "failed") /\ UNCHANGED joined
       ELSE /\ Goto(p, "view_sem")
            /\ joined' = [joined EXCEPT ![p] = log.emptied]
    /\ UNCHANGED <<orderly, log, name, value, holder, sem, id, sval>>

\* sem_open with O_CREAT: the log of a session that is over stays as it is.
ViewSem(p) ==
    /\ At(p, "view_sem")
    /\ IF name = NoSem THEN NewSem(p) ELSE OldSem(p)
    /\ Goto(p, "view_post")
    /\ UNCHANGED <<orderly, log, holder, id, joined, sval>>

ViewPost(p) ==
    /\ At(p, "view_post")
    /\ value' = [value EXCEPT ![sem[p]] = @ + 1]
    /\ Goto(p, "online")
    /\ UNCHANGED <<orderly, log, name, holder, sem, id, joined, sval>>
-----------------------------------------------------------------------------
(* logout and decreaseSem, run by exit. *)

GetValue(p) ==
    /\ At(p, "online") /\ Starts
    /\ sval' = [sval EXCEPT ![p] = value[sem[p]]]
    /\ Goto(p, "trywait")
    /\ UNCHANGED <<orderly, log, name, value, holder, sem, id, joined>>

\* Mutant of TryWait: the last but one is taken for the last.
TryWaitEarly(p) ==
    /\ At(p, "trywait")
    /\ value' = [value EXCEPT ![sem[p]] = IF @ = 0 THEN 0 ELSE @ - 1]
    /\ IF sval[p] <= 2
       THEN Goto(p, "unlink") /\ UNCHANGED <<holder, sem, id, joined, sval>>
       ELSE Exit(p, "gone")
    /\ UNCHANGED <<orderly, log, name>>

\* Mutant of TryWait: the value read is taken for the one after the call.
TryWaitLate(p) ==
    /\ At(p, "trywait")
    /\ value' = [value EXCEPT ![sem[p]] = IF @ = 0 THEN 0 ELSE @ - 1]
    /\ IF sval[p] = 0
       THEN Goto(p, "unlink") /\ UNCHANGED <<holder, sem, id, joined, sval>>
       ELSE Exit(p, "gone")
    /\ UNCHANGED <<orderly, log, name>>

\* sem_trywait fails on a semaphore of value 0.
TryWait(p) ==
    /\ At(p, "trywait")
    /\ value' = [value EXCEPT ![sem[p]] = IF @ = 0 THEN 0 ELSE @ - 1]
    /\ IF value[sem[p]] = 0 \/ sval[p] = 1
       THEN Goto(p, "unlink") /\ UNCHANGED <<holder, sem, id, joined, sval>>
       ELSE Exit(p, "gone")
    /\ UNCHANGED <<orderly, log, name>>

\* sem_unlink takes the name away from whatever semaphore has it now.
Unlink(p) ==
    /\ At(p, "unlink")
    /\ name' = NoSem
    /\ Exit(p, "gone")
    /\ UNCHANGED <<orderly, log, value>>

\* SIGKILL, or any signal before logout is registered, ends a process as it
\* is.  The kernel releases its lock.
Kill(p) ==
    /\ p \in Mortal /\ pc[p] \notin {"start", "gone", "killed", "failed"}
    /\ orderly => At(p, "online")
    /\ Exit(p, "killed")
    /\ UNCHANGED <<orderly, log, name, value>>
-----------------------------------------------------------------------------
Login(p) ==
    \/ OpenLog(p) \/ UnlinkStale(p) \/ CreateSem(p) \/ ReopenSem(p)
    \/ Empty(p) \/ ZeroHeader(p) \/ Post(p)
    \/ Lock(p) \/ ReadHeader(p) \/ WriteHeader(p) \/ Unlock(p)

View(p) == OpenViewer(p) \/ ViewSem(p) \/ ViewPost(p)

Logout(p) == GetValue(p) \/ TryWait(p) \/ Unlink(p)

Next ==
    \/ \E p \in Server : Login(p)
    \/ \E p \in Viewer : View(p)
    \/ \E p \in Process : Logout(p) \/ Kill(p)

Spec == Init /\ [][Next]_vars
-----------------------------------------------------------------------------
(* Properties. *)

Calls == {"unlink_stale", "create_sem", "reopen_sem", "empty", "zero_header",
          "post", "lock", "read_header", "write_header", "unlock",
          "view_sem", "view_post", "trywait", "unlink"}

\* Type invariant; the file lock has one holder at most.
TypeOK ==
    /\ orderly \in BOOLEAN
    /\ log \in [header : {NoFile, NoHeader} \cup Nat, emptied : Nat]
    /\ value \in Seq(Nat) /\ name \in 0..Len(value)
    /\ holder \subseteq Process /\ \A p, q \in holder : p = q
    /\ pc \in [Process -> Settled \cup Calls]
    /\ sem \in [Process -> 0..Len(value)]
    /\ id \in [Process -> Nat] /\ joined \in [Process -> Nat]
    /\ sval \in [Process -> Nat]

Online == { p \in Process : pc[p] = "online" }

\* The lock does its work in every interleaving: two users who took their ids
\* from one log, emptied no further time in between, have different ones, even
\* if the log is emptied, or a process killed, between reading and writing the
\* header (server/main.cpp:104-111).
OneIDPerLog ==
    \A p, q \in Server :
        p # q /\ id[p] # 0 /\ id[q] # 0 /\ joined[p] = joined[q] => id[p] # id[q]

\* If users take turns, nobody's session is ended by others: whoever is
\* online has the semaphore the name stands for, so that nobody empties the
\* log, and the log is still the one that was joined, although killed
\* processes and viewers come and go (server/main.cpp:89-101).
SessionKept ==
    orderly => \A p \in Online : sem[p] = name /\ joined[p] = log.emptied

\* "remove sem if no online user" (server/main.cpp:64): when everybody has
\* left through logout, so that nobody counts any more, the next user starts
\* with an empty log.
AllLeft == \A p \in Process : pc[p] \in {"start", "gone"}
SemRemoved == AllLeft => name = NoSem
SemRemovedInTurn == orderly => SemRemoved

\* If users take turns, every login succeeds: it finds the semaphore it was
\* told of, and a header in the log, also after others were killed
\* (server/main.cpp:90-95, 106).
LoginSucceeds == orderly => \A p \in Server : pc[p] # "failed"

\* "should never happen!" (xform.cpp:77): no two users online have one id.
OnlineIDsDiffer ==
    \A p, q \in Online \cap Server : p # q => id[p] # id[q]
=============================================================================
