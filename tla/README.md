# Coeditor, specified and proved

Coeditor is a collaborative editor: several users edit one text file, each on
a copy of its own, and operational transformation (the Jupiter algorithm)
brings the copies together. This directory holds TLA+ modules that follow the
C++ source of the repository, TLC configurations that check them on small
instances, and proofs that TLAPS checks for all instances.

## 1. The system

| Component | Source | State | Operations |
|---|---|---|---|
| Operational transformation | `lib/xform.cpp`, `include/op.h` | none | `xform` rewrites two concurrent operations so that each can follow the other |
| Jupiter endpoint (CSCW) | `algorithms/cscw.cpp` | `local`, `global`, `outgoing` | `Generate` (own side), `Receive` (a message) |
| Server process, one per user | `server/main.cpp` | endpoint, `readfd` offset | `localProcess` (log -> client), `remoteProcess` (client -> log, under `flock`) |
| Log file, shared by the server processes | `/tmp/jupiter-server-...` | last user id, operations | append, read, truncate at the first login |
| Server session | `server/main.cpp` | semaphore, header of the log | `login`, `logout`, exit by signal or end of file |
| Client data path | `src/init.cpp`, `src/data_trans.cpp`, `src/text_mutex.cpp` | `local_ops`, `to_send`, `to_recv`, mutexes | `writeOpFifo`, `writeOp_Thread`, `readServer_Thread`, timers, SYN commands |
| Text buffer | `src/text.cpp` | list of lines, cached line, counters | insert, delete, locate, translate, load, save |
| Front ends | `src/front_end_curses.cpp`, `src/front_end_cli.cpp` | cursor, search, queue of positions | keys and commands, redraw, cursor transformation, saving |
| Viewer (`-S`) | `src/init.cpp` | log offset | replays the log |
| Not core | `lib/inet_sockets.cpp`, `lib/rdwrn.cpp`, `generator/`, `script/`, `algorithms/css.cpp` (empty TODOs), start-up | | |

How they interact. A front end edits the text through `textOpMutex`, which
changes the buffer and queues the operation under one lock. `writeOp_Thread`
hands queued operations to the algorithm, which numbers them and sends them
over TCP to the user's server process. That process transforms a message
against what other processes appended to the log meanwhile, and appends the
result, all under the file lock. inotify tells the other processes, which send
the new entries to their clients; there `readServer_Thread` transforms them
against the operations still under way and changes the buffer.

What is hard: edits of several users cross in flight at two places (in each
TCP connection and at the log); threads of one client share the buffer, the
queue and the algorithm; processes are killed at any point; the tie-breaks of
`xform` must come out the same at every place; the screen draws, and moves its
cursor, behind changes that two other threads make; a save takes no lock.

`PROJECT.json` lists the hazards with their lines and the properties that
would catch them.

## 2. Modules

| Module | Models | Extends |
|---|---|---|
| `Ops` | operations, and what `writeLocal` does with one to the text | |
| `Xform` | `lib/xform.cpp`: `Shift(op, other)` is what one call of `_xform` makes of either of its arguments | `Ops` |
| `Diamond` | two sites, one operation each, each performing the other's transformed: what the protocol needs from `xform` | `Xform` |
| `Cscw` | `algorithms/cscw.cpp`: an endpoint is the record of the three static variables | `Xform` |
| `Jupiter` | the protocol: clients, server processes, log, connections | `Cscw` |
| `SharedText` | the abstract specification: one history of texts that everybody follows | |
| `TextBuffer` | `src/text.cpp`: the list of lines with the cached line | `Ops` |
| `FlatText` | what the text buffer promises: a sequence of characters and the operations on it | `Ops` |
| `ClientThreads` | the threads, mutexes, queues, timers and SYN commands of one client, its server process, and a connection that fills up | |
| `Screen` | the curses front end: cursor, scrolling, which rows are up to date, every key that moves or edits, next to the other two threads that edit | |
| `Saving` | `saveFile`, `writeOut`, `backupFile`, `exitEditor`, the command `s`: name, modified flag, files and backups | |
| `Session` | `login` and `logout` of `server/main.cpp`, `initServerMode` and `decreaseSem` of `src/init.cpp` | |
| `MCDiamond`, `MCJupiter`, `MCClientThreads`, `MCScreen`, `MCSaving`, `MCTextBuffer`, `MCSession` | the instances TLC checks | |
| `XformProofs`, `DiamondProofs`, `JupiterProofs`, `SessionProofs`, `ClientThreadsProofs`, `SavingProofs`, `TextBufferProofs`, `ScreenProofs` | theorems | |

In these modules a text is the sequence of its characters, line breaks
included, and offset `n` of the code is index `n + 1`. `Xform` has one operator
where the code has four cases because the effect on one operation does not
depend on which side of the call it is; the early returns for NOOPs are its
first alternative.

`Jupiter` has one action per thread step:

| Action | Code | Why it is one step |
|---|---|---|
| `Edit(u)` | `textOpMutex::insertChar/deleteChar`, `writeOpFifo` | the edit lock covers the change and the queueing |
| `WriteOp(u)` | one round of `writeOp_Thread` | the operation is popped only after `Generate` has sent it, and nobody else looks into the endpoint before `local_ops` is empty |
| `ReadServer(u)` | `procServerWrapper` | holds the edit lock and waits for `local_ops` to be empty |
| `LocalProcess(u)` | one round of the loop of `localProcess` | a process is one thread |
| `RemoteProcess(u)` | `remoteProcess` | the whole body holds the file lock, which every writer takes |
| `Login(u)` | `login`, as seen by the protocol | ids in order, a new log only when nobody is left |
| `ClientExit(u)`, `ServerExit(u)` | end of a process between two steps | |

Connections are FIFO sequences of whole messages. A late user starts from the
file everybody opened (the log's name has its MD5) and reads the log from its
start. `MaxEdits` bounds the edits of each user; nothing else bounds the state.

`TextBuffer` has the record of class `textOp` and one operator per member
function: `locateLine`, `translatePos`, `translateOffset` (with `LocateOffset`
for what it does to the cache), `Deleted` and `Inserted` for what follows once
the line is located. The iterator `cur_line_it` is an index; that it stays on
its line when lines are inserted or erased is part of the operators. The
actions are the calls of the program: edits by position and by offset, each
with or without `off`, and the calls of the front end that only move the cache.
One thread at a time calls the buffer (`editLock`), so a call is a step.
Erasing `line[-1]`, or inserting there, is undefined behaviour or throws; the
model then clears `defined` and stops, as nothing more can be said.

`ClientThreads` opens the steps of `Jupiter` that belong to one client. Every
thread has a place (`pc`), and its steps are the calls between which another
thread may come: taking a mutex, pushing, sending the front of a queue, popping
it. An operation is a number and a text the sequence of the operations applied
to it, as only their order counts. Each editor thread may ask for any of the
three synchronisations (`Synchronize`: ^S, ^U, ^K and `l`, `u`, `r`), and the
timers expire at any time. `Generate` and `SendFront` wait for room in the
connection, `LocalProcess` for room in the other direction: that is what a
blocking `write` does. Of the two mutexes of `textOpMutex` the model has the
edit lock, `mtx2`. The writer's wait on its condition variable is the guard of
`Consume`. `algo_mtx` is taken only without option `-s`, as in the code. What
the standard library does when one thread pushes while another pops is not
modelled; each push, look and pop is one step.

`Screen` knows of the text only the lengths of its lines. `cur_pos`,
`cur_line_size`, `screen_start_line` and `screen_line` (counted from 0, the
title left out) are the code's variables; a step is one call of the text, one
round of the loop of `calPos`, one drawing, or one key between them. The
position queue and the flag `buf_changed` are written in the order of
`writeLocal` (text, queue, flag, under the lock) and of `enqueuePos` (text
under the lock; then flag, then queue, without it). Beside these the module
keeps what the properties talk about: `anchor`, the place in the text where the
cursor means to be, moved with every change; `stale`, the rows that no longer
show their line; and three marks of races, `astray` (the cursor was used before
it had heard of all changes, or had no place to be moved from, or was moved for
two changes in the wrong order), `torn` (the text was edited by a key that came
too early) and `refused` (an edit made by a key had no effect). Drawing is one
step: between the lines of one drawing no other thread comes, though in the
code it may. A drawing that reads the line of `end()` is undefined; the
behaviour ends there.

`Saving` counts the changes of the text and calls the count the text; a file is
the sequence of texts written to it. Opening, writing the lines and clearing
`modified` are steps of their own, for each of the two threads that may save.
Every call that can fail may fail, and a write may be cut off without anybody
noticing. The questions of `writeOut` are not steps: what counts is the name,
mode and backup the user settles on. `OpenMode` is the mode in which `saveFile`
is called: only the plain `out` of `^W` clears `modified`, and the command `s`,
which leaves it to the default `out | trunc`, never does, so that `^X` asks
about a text that `s` has saved. `spoiled` marks that `modified` was cleared
although the file need not be the text (below).

`Session` has one action per system call, since the processes share the log
file and the semaphore without a common lock. A semaphore keeps existing for
those who have it open after `sem_unlink`, so `name` and `value` are separate
and the semaphores made so far are numbered. `log.emptied` counts how often the
log was emptied; a user has joined the log whose header it read. `Kill` is a
signal that runs no `exit` handler. `orderly` is chosen in the initial state:
when it holds, a login or logout begins only after all others have ended, and a
process is killed only when online. Some properties hold in every interleaving,
others only for users who take turns, and say so. Processes run one login each;
a user who comes back is another process.

`Jupiter` and `Session` meet in the ids: `Jupiter` gives them out in order
and starts a new log when nobody is left, which is what `Session` shows of
orderly logins (`OneIDPerLog`, `SessionKept`, `SemRemovedInTurn`).
`Jupiter` and `TextBuffer` meet in `writeLocal` of `Ops`: `FlatText` is built on
it, and `TextBuffer` implements `FlatText`. `Jupiter` and `ClientThreads` meet in
`SameOrder` and `NothingLost`: the algorithm is given all operations in the
order in which they changed the text, and the connection delivers each exactly
once, which is why `Jupiter` may take an edit, a round of the writer and an
arrival as one step each.

## 3. Properties and runs

Deadlock is not checked in these runs. In `Jupiter` the system is quiescent
when nobody types, and `EventuallyAgree` and `EditsCommitted` say that it does
not stop early; two sites of `Diamond` are done after one exchange; a text
buffer may be undefined; in `Session` everybody has left in the end; a client
is at rest when nobody types, and `KnownDeadlocks` says that before that it
stops in two ways only; a screen may be undefined, and `DrawsText` says when;
`Saving` ends when the screen is left or the bounds are used up.

| Run | Instance | Shows |
|---|---|---|
| `diamond` | all texts up to 3 characters over {a, b}, all pairs of operations | `Confluence`, `TransformedSilent`, `TypeOK` (no offset below 0) |
| `two_users` | 2 users, 2 edits each, empty file, 512,101 states | `Agreement`, `ClientSilent`, `LogSilent`, `ContextMatches`, `IDsDiffer`, `TypeOK` |
| `three_users` | 3 users, 1 edit each, one-character file, 1,468,718 states | `Agreement`, `ClientSilent` |
| `leaving` | 2 users, 2 and 1 edits, one character to insert, any process may end, fairness, 35,329 states | `Agreement`, `LogSilent`, `Implements` (refinement of `SharedText`), `EditsCommitted`, `EventuallyAgree` |
| `client_threads` | one client with four choices of options (no delay; sending on request; receiving on request, with `-s`; two timers), up to 3 edits and 3 operations of others, room for one message each way, fairness, 121,555 states | `SameOrder`, `NothingLost`, `KnownDeadlocks`, `ComesToRest`, `Delivered`, `TypeOK` |
| `screen` | 5 rows; a file of 6 lines that scrolls, three short ones, one of them with `-l`; 1 or 2 edits by others, up to 1 by keys, any number of other keys; fairness, 659,846 states | `CursorKept`, `ScreenFresh`, `DrawsText`, `CaughtUp`, `TypeOK` |
| `saving` | 2 files, 2 changes, one save of each thread or two of the screen, 516,521 states | `UnmodifiedSaved`, `ExitKeeps`, `OldKept` |
| `text_buffer` | texts up to 5 characters over {a, line break}, every call with every position in the text and just outside, 1,723 states | `CacheMatches`, `OffsetsFound`, `SamePlace`, `TypeOK`, and `Implements`: refinement of `FlatText` |
| `session` | 3 users and a viewer, one user and the viewer may be killed, orderly and not, 2,029,606 states | `OneIDPerLog`, `SessionKept`, `SemRemovedInTurn`, `LoginSucceeds`, `TypeOK` |
| `column_zero` | as `text_buffer` | violates `JoinsAtZero` |
| `left_behind` | 2 users | violates `SemRemoved` |
| `same_id` | 2 users | violates `OnlineIDsDiffer` |

The bounds are enough for the cases that matter. Two edits each make queues of
two cross queues of two, so an operation is transformed along a path and the
queue it crosses is left transformed for the next message; three users are the
least with which two operations meet at a process of which neither author is
the user; two characters are enough for equal and different insertions. Five
characters make up to six lines, so that a line is found from the cached one,
from its neighbours, from the first and from the last. Three users are the
least with which a login meets a logout while somebody is online. In `session`
the two users that are not killed are interchangeable, and the configuration
says so; the properties treat them alike.

With room for one message each way the connection of `client_threads` is full
as soon as a message waits; without delays it takes two edits and three
operations of others to fill everything between writer and reader, and a third
edit to have an editor wait behind the blocked writer. With both
timers each queue has three threads that may empty it. In `screen`, two changes
are the least that can be queued in another order than made (the file with
`-l` has two lines, so that these may be apart or not), or be taken one
by calPos before and one after the drawing; six lines on five rows are the
fewest that scroll in both directions. In `saving` the two files are alike until
one is that of the text, and the configuration says so.

Three runs show where the code does not do what its comments say:

- `column_zero`: `text.h:43` says that deleting at offset 0 joins lines. With
  `off`, as a connected client calls it, `deleteChar` lets column 0 of a line
  pass and indexes `line[-1]`. `d 2 0` at the command-line front end gets there.
- `left_behind`: `logout` reads the count and decrements it in two calls. Two
  users who leave together both read 2 and nobody unlinks the semaphore, so the
  next session continues the log of the last.
- `same_id`: the login that creates the log file unlinks a stale semaphore
  without a lock. Another login may have made a fresh one and taken id 1; the
  first then empties the log again and takes id 1 too, and `xform` has no
  tie-break for two authors with one id. The two are in logs emptied at
  different times, so `OneIDPerLog` holds.

Three runs show what the code keeps only with exceptions, and the properties
name these exceptions:

- `client_threads`: without delay options a client can get `Stuck` for good.
  The writer waits for room on the connection; the server process, holding the
  file lock, waits for room in the other direction; the reader does not empty
  that. It may hold the edit lock and spin until the writer is done. Or it may
  wait for the edit lock, which an editor holds who has changed the text and
  waits, to queue the operation, for the mutex that the writer holds while it
  sends. Then no user's edit reaches the log any more. `KnownDeadlocks` says
  that there is no third way for everybody to wait with work left,
  `ComesToRest` and `Delivered` that nothing else keeps anyone waiting for
  ever: with a delay in either direction, or without that coincidence,
  everything comes to rest. `^S` sends what is queued by then; an edit the
  writer has not reached yet waits for the next one.
- `screen`: an edit that comes after `calPos` and before a key is taken makes
  the key act on another place than the user saw, and a drawing that moves the
  cursor in that window, or a change while the cursor stands beyond its line,
  leaves it without a known place (`astray`). The command thread lets go of the
  edit lock before it queues the position of its change, so that a remote
  change may be queued first; the cursor follows them in that order and may end
  elsewhere. `CursorKept` says nothing after any of these, until a key is taken
  in step with the text; of changes queued in the wrong order it says that the
  cursor is kept if they are in different lines and at most the lower one has
  to do with a line break (`Apart`), and without this exception TLC finds the
  cursor elsewhere. An edit by a key that came too early may leave rows that
  are not drawn again (`torn`), since `keyDelete` and `calPos` decide what to
  draw from lengths that are out of date. Lines joined between `calPos` and the
  drawing make `calCurLine` read the line of `end()`. With `-l` the loop may
  clear `buf_changed` before the position is queued, and the position then
  waits for the next change.
- `saving`: a change made while the lines are written counts as saved, since
  `modified` is cleared afterwards; a write that is cut off counts as done; the
  two threads may write one file at once. An unmodified text appended to its own
  file writes nothing and says it did. A prepend that fails half-way has lost
  the old content unless a backup was made; a plain write is backed up only
  under the text's own name.

Fairness. In `Jupiter`, weak fairness of every thread and process step: a
thread that can run keeps being able to (`WriteOp` waits for nobody,
`ReadServer` waits for `local_ops` to empty, and the bound on edits lets it
empty; a process polls both its sources). Users need do nothing; login and
exits have no fairness. In `ClientThreads`, weak fairness of each thread's own
steps, of the server process and of a timer that has something to do; nobody
need edit or press ^S. In `Screen`, of the loop, which returns from `getch`
after 150 ms, and of the ends of what the other threads began; nobody need
press a key. The scheduler runs every thread, and a mutex that is let go of again and
again goes to who waits for it: within the bounds nobody else takes it for ever.

Every property has a mutant in its module, a definition changed as a plausible
bug would change it, with which TLC finds the property violated.

## 4. Proofs

- `XformProofs`: first what the other modules need and is not about `xform`.
  That is induction over the naturals for a property given as a set; that a
  function defined step by step exists, and that its steps determine it. What a
  recursive function of a model computes follows from these in the module that
  needs it (`ClientThreadsProofs` and `ScreenProofs`, which are about no text of
  characters, take them by `INSTANCE`). Then lemmas on insertion into and
  removal from a sequence, on `writeLocal`, on `Shift`, and the two theorems the
  protocol stands on, `TransformationCommutes` (the diamond property, TP1) and
  `SilentAfterShift`, for every text and every two operations of different users
  silent on it.
- `DiamondProofs`: the invariants of `Diamond` for every bound on the length.
- `JupiterProofs`: first one connection. What the recursive function of `Receive`
  computes; what `Generate` and `Receive` do to the counters and the queue; and
  `Connected`, the relation of two endpoints and the messages between them that
  every step of either keeps. Then `JupiterInv`, that every client is
  `Connected` to its process. It is inductive; the properties themselves are
  not, since whether `Receive` discards the right operations depends on the
  messages that are still under way: their states never decrease, and lie
  between the oldest operation in the receiver's queue and what the sender has
  received. `JupiterType`, `JupiterContext` and `JupiterIDs` follow.

  Its second part is the text. `Agreement` speaks of clients at rest, and the
  invariant has to speak of all others too. It lays the operations of a client
  and of its process out on a grid (`Grid`): the point (i, j) is the situation
  after i operations of the one and j of the other; the texts at the points are
  consistent along every path, by `TransformationCommutes` and
  `SilentAfterShift`; messages and queues are rows and columns of the grid. One
  more operation adds a row, which needs the induction of `GridSend`; a message
  received goes one step along the grid (`GridReceive`). So that the texts of
  the log appear on the grid, edits still in `local_ops` and entries of the log
  not read yet are taken as already handed to the algorithm (`Ahead`, `Behind`):
  handing them over later then changes nothing. That an operation is silent
  where it is committed, `LogSilent`, is part of the invariant, as the grids of
  the other users need it. `JupiterAgreement`, `JupiterClientSilent` and
  `JupiterLogSilent` follow.

  The third part is the refinement, `JupiterImplements`. `Edit` maps to
  `Write`, `RemoteProcess` to `Commit`, `ReadServer` to `Learn`, `Login` to
  `Join`, and the other actions to a stutter. The grids speak of what the
  messages contain and say nothing of the order in which a client hears of
  others, so the invariant grows by `Delivered`: what is on its way to a client,
  sent or not read from the log yet, is exactly what others wrote there and the
  client has not applied, in the order of the log. `ForeignPositions` says where
  in the log the next of these stands; that a document at rest is a text of the
  history (`InSync`) is `Agreement` after the step.
- `SessionProofs`: `SessionInv`, for every set of users and viewers and whoever
  is killed. `OneIDPerLog` is not inductive: that a new id is new follows from
  the header being the last id of the log's users, which in turn fails between
  reading and writing the header, and again when the log is emptied in that
  gap. `HeaderIsLast` states what holds at each of these moments, and
  `CallsInOrder` that the gap is under the lock and that whoever is at a call
  has made the ones before it. `SessionType` and `SessionIDs` follow. That the
  value of a semaphore is at least the number of those who have posted it and
  not left (`SemCounts`) is inductive with it. For users who take turns
  `TurnInv` adds what a process relies on at each call and that, unless
  somebody is killed, the count is exact; `SessionStays`, `SessionEnds` and
  `SessionLogin` follow.
- `ClientThreadsProofs`: `ClientInv`, for every set of options, every bound and
  every room in the connection. `SameOrder` is not inductive: that a message
  which reaches the algorithm is not in the midst of edits that the algorithm
  has yet to be given follows from three facts about places far apart. The
  writer is busy only with an edit that is still queued; a message is applied
  only while no edit is queued (`InOrder`); and none can be queued then, for
  whoever would is kept out by the edit lock (`Mutual`, which says of every
  mutex at which places it is held). `Shape` and `Sequential` say where
  everybody can be and that no queue is taken from when it is empty. The same
  facts give mutual exclusion on the algorithm with option `-s`, when it has
  no mutex. `ThreadsTyped` and `ThreadsInOrder` follow. `DeliveryInv` adds the
  queues between the algorithm and the log: in each direction they make one row
  (`Outward`, `Inward`), which a step may only shift. It needs that the
  operations of either side stay on their side, that a queue without a delay
  stays empty, and that the reader is at rest when a timer takes its place.
  `ThreadsLoseNothing` follows. `ThreadsDeadlockKnown` goes along the chain of
  who waits for whom: a mutex that is taken is held by a thread at one of the
  places of `Mutual`, which waits in turn, and the chain ends at the writer before
  a full connection (`WriterWaits`) or with nobody. With nobody, all queues
  are empty and `DeliveryInv` says that nothing is on its way (`DoneIsUpToDate`);
  with the writer, the server process must wait for the reader, which can only be
  at one of the two places of `Stuck` (`WriterIsStuck`).
- `SavingProofs`: `SavingInv`, for every set of files, any number of changes and
  saves. `UnmodifiedSaved` is not inductive: whether the text is in its file when
  `modified` is cleared depends on what was there before and in which mode it
  was written (`Rewritten`, `Prepared`, `Kept`), on whether the other thread
  wrote the same file meanwhile (`Rivals`), and on nobody being about to empty a
  file that counts as saved (`Unmodified`). A save by the command `s` matters
  only as such a rival: it clears nothing. `SavedUnmodified`, `SavedOnExit` and
  `SavedOld` follow.
- `TextBufferProofs`: `BufferInv`, for every set of characters and every bound
  on the text. Its main part, `Cached`, is about one object `textOp`: the
  cached iterator, number and offset name one line of the list, and
  `total_chars` is the size of the file. First, what the recursive functions
  `Span`, `Flat` and `Lines` compute, one line after the other (`SpanByStep`,
  `FlatByStep`, `BeforeLine`, `LinesFlat`). `Gains` says that two lists stand
  for texts which differ by one character at one place, and each of the ways
  the code edits the list is shown to be that: typing into a line, breaking a
  line, breaking before a line, joining two lines. Then the loops of
  `locateLine` and `translateOffset`, from either side and from either end, are
  shown to arrive at a `Cached` object that holds the same text (`LineLocated`,
  `LocateOffsetFinds`), and each call to edit it by the character it reports or
  to leave it alone (`StepIs`). `BufferTypeOK`, `BufferCacheMatches`,
  `BufferOffsetsFound` and `BufferSamePlace` follow. In `BufferImplements` every
  call maps to the insertion or the deletion of one character at its offset in
  `FlatText`, or to a stutter.
- `ScreenProofs`: `ScreenInv`, for every text, every height of the screen, and
  any number of edits by the three threads. First, what an operation does to the
  offsets of a text (`UptoLonger`, `UptoBroken`), and that the case distinction
  of `calPos` moves a cursor in the text with the text around it
  (`CursorFollows`). With `FollowedNext` and `FollowedAppend`, which take the
  queue apart at either end, that is `CursorKept`, once the invariant says in
  addition that a queue that is not empty moves the cursor into its line, not
  beyond it (`Kept`). Of positions queued out of order, `OneOrTwo` says that there
  are at most two that can be, and `ApartCommute` that the cursor may follow
  changes that are apart in either order (`Overtaken`); for others the theorem
  claims nothing.

  The picture needs more. `ScreenFresh` speaks of a loop that has heard of
  everything, and calPos decides what to draw position by position, with the
  screen as it was before and the cursor half-way. The invariant says of every
  moment what the changes still to be heard of explain: a row that is not up to
  date, unless it is the cursor's, is explained by one of them for which calPos
  will draw everything (`Fresh`); so is a cursor whose row or line is not the
  one that is known (`RowKnown`, `LineThere`, `LineKnown`), and then calPos will
  scroll no further than that row (`RowKnown`, with `HALF_HEIGHT`). For these
  `Loud`, `Tame` and `Calm` name the changes for which calPos will draw
  everything, at most the line of the cursor, and nothing. `ToDraw` and
  `CanDraw` say the same of what a key has asked to draw and is not drawn yet;
  the keys that scroll are shown to leave the cursor in a row, or to ask for a
  drawing that puts it in one (`StepUp`, `StepDown`, `StepTo`). `MoveKeeps` and
  `EditKeeps` reduce every key to where it puts the cursor and what it asks to
  draw; in step with the text an edit is not refused and moves the cursor as
  calPos would. `ScreenTypeOK`, `ScreenCursorKept`, `ScreenShowsText` and
  `ScreenDrawsText` follow.

The proofs assume of the constants only `0 < MaxUsers < 2^15`, that the
initial text is a text, that the bounds are naturals and that leavers are
users; about `Session` that there are finitely many processes (without which
the count of a semaphore means nothing); about `ClientThreads` that options are
options, bounds are naturals and the connection has room for a message; about
`Saving` that there is a file and that the empty name names none; about
`TextBuffer` that the line break is a character, that the bound is a natural
and that `Nothing` is not a report; about `Screen` that the text has a line,
that the screen has the five rows `redraw` insists on, that columns count from
1, and that the text stays shorter than `INT_MAX` (without which `keyEnd`, which
goes to that column, would stop short of the end of a line).

Only model-checked: the liveness properties (temporal reasoning under fairness
is out of the prover's reach), which are `EditsCommitted` and `EventuallyAgree`
of `Jupiter`, `ComesToRest` and `Delivered` of `ClientThreads` and `CaughtUp` of
`Screen`, and the properties that a run shows to be violated.

## 5. Not modelled, and the plan

1. Framing of messages: `readn` with partial reads and a peer that ends in the
   middle of a message (`rdwrn.cpp`, `init.cpp:406`). The models take a
   connection as a FIFO of whole messages.
2. The file of recent positions, the viewer's replay of the log as a module of
   its own, and drawing line by line.

Left out for good: how long lines are folded, the status bar and its dialogues,
the help text, suspending, option parsing, the sockets' set-up, the generator,
scripts, `css.cpp` (no code), and the 32-bit counters' wrap-around after 2^32
operations.
