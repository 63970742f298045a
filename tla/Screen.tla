------------------------------- MODULE Screen -------------------------------
(***************************************************************************)
(* The curses front end: the cursor, the part of the text on the screen    *)
(* and the loop that takes keys, next to the two other threads that edit   *)
(* the text: the one that applies remote operations and the one that reads *)
(* commands (option -l).  These leave the positions of what they did in a  *)
(* queue, by which the loop moves the cursor before it takes a key.        *)
(*                                                                         *)
(* Of the text only the lengths of its lines count.  The place the cursor  *)
(* means to be at is kept beside the code's own variables as an offset     *)
(* into the text, moved with every change of it: anchor.  Of the picture,  *)
(* only which rows no longer show the line they stand for: stale.  How a   *)
(* long line is folded is left out, and a line is drawn by itself.         *)
(***************************************************************************)
EXTENDS Integers, Sequences, SequencesExt, FiniteSets

CONSTANTS Starts,         \* what the program may be started with: the lengths
                          \* of the lines of the file, option -l, and how many
                          \* edits the other threads and the keys make
          CONTENT_LINES,  \* the rows between title and status bar
          Columns         \* the columns that a click or ^T may name

ASSUME StartsAssumption ==
    \A start \in Starts :
        /\ start.lines \in Seq(Nat) \ {<<>>}
        /\ start.cli \in BOOLEAN
        /\ start.others \in Nat /\ start.own \in Nat
\* MIN_ROW less the title and the status bar: redraw refuses less.
ASSUME ContentLinesAssumption == CONTENT_LINES \in Nat /\ CONTENT_LINES >= 5
ASSUME ColumnsAssumption == Columns \subseteq Nat \ {0}

VARIABLES
    lines,              \* the text: the lengths of its lines
    cli,                \* option -l: there is a thread that reads commands
    untold,             \* changes of the text whose positions are not queued
    reading,            \* place of the command thread in enqueuePos
    queue,              \* pos_to_transform: positions for the cursor
    buf_changed,        \* the flag that tells the loop of them
    pc,                 \* where the loop is
    need,               \* need_redraw of calPos, or what a key asks to draw
    cur_pos,            \* the cursor
    cur_line_size,      \* length of its line when it was drawn last
    screen_start_line,  \* the line in the first row
    screen_line,        \* the row of the cursor, from 0
    stale,              \* rows that no longer show their line
    anchor,             \* where in the text the cursor means to be
    astray,             \* the cursor means nothing: it was used before it had
                        \* been moved for all changes, or not moved in order
    torn,               \* ... and the text was changed by such a key
    refused,            \* the last edit made by a key was refused
    others, own         \* edits still to come: the bounds

textVars == <<lines, others, own>>
queueVars == <<cli, untold, reading, queue, buf_changed>>
cursorVars == <<cur_pos, cur_line_size, screen_start_line, screen_line>>
meaningVars == <<anchor, astray>>
raceVars == <<meaningVars, torn, refused>>
vars == <<textVars, queueVars, pc, need, cursorVars, stale, raceVars>>

Rows == 0..CONTENT_LINES - 1
HALF_HEIGHT == CONTENT_LINES \div 2
Redraw == "content"
RedrawLine == "line"

Min2(x, y) == IF x < y THEN x ELSE y
Max2(x, y) == IF x > y THEN x ELSE y
-----------------------------------------------------------------------------
(* Positions in the text. *)

InText(ls, pos) ==
    pos.lineno \in 1..Len(ls) /\ pos.offset \in 1..ls[pos.lineno] + 1

Positions(ls) ==
    UNION { [lineno : {n}, offset : 1..ls[n] + 1] : n \in 1..Len(ls) }

\* Upto(ls)[n] is the length of the first n lines with their line breaks.
Upto(ls) ==
    LET size[n \in 0..Len(ls)] == IF n = 0 THEN 0 ELSE size[n - 1] + ls[n] + 1
    IN  size

\* A position as an offset into the text.
Flat(ls, pos) == Upto(ls)[pos.lineno - 1] + (pos.offset - 1)

\* calCurLine does not let the cursor stand beyond the end of its line.
Clamped(ls, pos) ==
    [pos EXCEPT !.offset = Min2(@, ls[pos.lineno] + 1)]

INSERT == "insert"
DELETE == "delete"
EndOfText(ls) == [lineno |-> Len(ls), offset |-> Last(ls) + 1]

INT_MAX == 2147483647

\* keyEnd goes to column INT_MAX, and finds the end of the line there.
ASSUME SizeAssumption ==
    \A start \in Starts :
        Flat(start.lines, EndOfText(start.lines)) + start.others + start.own
            < INT_MAX

\* An insertion or deletion at pos; a line break is deleted at the end of
\* its line.
Operations(ls) ==
    [operation : {INSERT}, newline : BOOLEAN, pos : Positions(ls)]
    \cup { op \in [operation : {DELETE}, newline : BOOLEAN,
                   pos : Positions(ls) \ {EndOfText(ls)}] :
            op.newline <=> op.pos.offset = ls[op.pos.lineno] + 1 }

Changed(ls, op) ==
    LET n == op.pos.lineno
        head == op.pos.offset - 1
    IN  IF op.newline
        THEN IF op.operation = INSERT
             THEN InsertAt(ReplaceAt(ls, n, ls[n] - head), n, head)
             ELSE RemoveAt(ReplaceAt(ls, n, ls[n] + ls[n + 1]), n + 1)
        ELSE ReplaceAt(ls, n, IF op.operation = INSERT THEN ls[n] + 1
                              ELSE ls[n] - 1)

\* An offset of the text after the change: what is inserted at the place of
\* the cursor goes before it.
Moved(place, off, operation) ==
    IF operation = INSERT THEN IF off <= place THEN place + 1 ELSE place
    ELSE IF off < place THEN place - 1 ELSE place

\* The rows that no longer show their line after op.
Outdated(op) ==
    { row \in Rows :
        IF op.newline THEN screen_start_line + row >= op.pos.lineno
        ELSE screen_start_line + row = op.pos.lineno }
-----------------------------------------------------------------------------
(* calPos. *)

\* Mutant of Transformed: a line break before the cursor moves it one column
\* too far to the left.
TransformedTooFar(p, op) ==
    LET above == op.newline /\ op.pos.lineno < p.lineno
        here == op.pos.lineno = p.lineno /\ op.pos.offset <= p.offset
    IN  CASE above /\ op.operation = INSERT -> [p EXCEPT !.lineno = @ + 1]
          [] above /\ op.operation = DELETE ->
                [lineno |-> p.lineno - 1,
                 offset |-> IF op.pos.lineno = p.lineno - 1
                            THEN p.offset + op.pos.offset - 1 ELSE p.offset]
          [] here /\ op.operation = INSERT /\ op.newline ->
                [lineno |-> p.lineno + 1, offset |-> p.offset - op.pos.offset]
          [] here /\ op.operation = INSERT /\ ~op.newline ->
                [p EXCEPT !.offset = @ + 1]
          [] here /\ op.operation = DELETE /\ op.pos.offset # p.offset ->
                [p EXCEPT !.offset = @ - 1]
          [] OTHER -> p

\* Mutant of Transformed: the line break of the line above is taken away
\* and the cursor keeps its column.
TransformedSameColumn(p, op) ==
    LET above == op.newline /\ op.pos.lineno < p.lineno
        here == op.pos.lineno = p.lineno /\ op.pos.offset <= p.offset
    IN  CASE above ->
                [p EXCEPT !.lineno = IF op.operation = INSERT THEN @ + 1 ELSE @ - 1]
          [] here /\ op.operation = INSERT /\ op.newline ->
                [lineno |-> p.lineno + 1,
                 offset |-> p.offset - (op.pos.offset - 1)]
          [] here /\ op.operation = INSERT /\ ~op.newline ->
                [p EXCEPT !.offset = @ + 1]
          [] here /\ op.operation = DELETE /\ op.pos.offset # p.offset ->
                [p EXCEPT !.offset = @ - 1]
          [] OTHER -> p

\* The cursor after op has been taken from the queue.
Transformed(p, op) ==
    LET above == op.newline /\ op.pos.lineno < p.lineno
        here == op.pos.lineno = p.lineno /\ op.pos.offset <= p.offset
    IN  CASE above /\ op.operation = INSERT -> [p EXCEPT !.lineno = @ + 1]
          [] above /\ op.operation = DELETE ->
                [lineno |-> p.lineno - 1,
                 offset |-> IF op.pos.lineno = p.lineno - 1
                            THEN p.offset + op.pos.offset - 1 ELSE p.offset]
          [] here /\ op.operation = INSERT /\ op.newline ->
                [lineno |-> p.lineno + 1,
                 offset |-> p.offset - (op.pos.offset - 1)]
          [] here /\ op.operation = INSERT /\ ~op.newline ->
                [p EXCEPT !.offset = @ + 1]
          [] here /\ op.operation = DELETE /\ op.pos.offset # p.offset ->
                [p EXCEPT !.offset = @ - 1]
          [] OTHER -> p

\* The cursor after all of ops.
Followed(p, ops) ==
    LET pos[n \in 0..Len(ops)] ==
            IF n = 0 THEN p ELSE Transformed(pos[n - 1], ops[n])
    IN  pos[Len(ops)]

\* Mutant of NeedAfter: a change of the cursor's line, the last one heard of,
\* makes calPos forget that more is to be drawn.
NeedAfterLine(op, p) ==
    LET n == op.pos.lineno
        below == n > screen_start_line + CONTENT_LINES
        shown == ~below /\ n >= screen_start_line
    IN  CASE op.newline /\ ~below -> {Redraw}
          [] ~op.newline /\ shown /\ n = p.lineno -> {RedrawLine}
          [] ~op.newline /\ shown /\ n # p.lineno -> {Redraw}
          [] OTHER -> need

\* need_redraw after op, which moved the cursor to p.
NeedAfter(op, p) ==
    LET n == op.pos.lineno
        below == n > screen_start_line + CONTENT_LINES
        shown == ~below /\ n >= screen_start_line
    IN  CASE op.newline /\ ~below -> {Redraw}
          [] ~op.newline /\ shown /\ n = p.lineno -> need \cup {RedrawLine}
          [] ~op.newline /\ shown /\ n # p.lineno -> {Redraw}
          [] OTHER -> need

\* Half screens from one line to another.
Halves(distance) == (distance + HALF_HEIGHT - 1) \div HALF_HEIGHT

\* The first line on the screen, scrolled to show line n.
Scrolled(n, start, total) ==
    LET down == start + HALF_HEIGHT * Halves(Max2(0, n - start - CONTENT_LINES + 1))
        inside == IF down > total THEN total - HALF_HEIGHT ELSE down
        up == inside - HALF_HEIGHT * Halves(Max2(0, inside - n))
    IN  Max2(up, 1)
-----------------------------------------------------------------------------
(* The other threads. *)

Init ==
    /\ \E start \in Starts :
        /\ lines = start.lines /\ cli = start.cli
        /\ others = start.others /\ own = start.own
    /\ anchor = 0
    /\ untold = <<>> /\ reading = "line"
    /\ queue = <<>> /\ buf_changed = FALSE
    /\ pc = "getch" /\ need = {}
    /\ cur_pos = [lineno |-> 1, offset |-> 1]
    /\ cur_line_size = lines[1]
    /\ screen_start_line = 1 /\ screen_line = 0
    /\ stale = {}
    /\ astray = FALSE /\ torn = FALSE /\ refused = FALSE

\* What the loop has still to hear of, in the order of the changes.
Backlog == queue \o [n \in 1..Len(untold) |-> untold[n].op]

\* The editing lock is held by the thread that applies remote operations.
Locked == \E n \in 1..Len(untold) : untold[n].by = "remote"

\* The cursor means to be at place, if it is known to mean anything.
Means(known, place) ==
    /\ astray' = ~known
    /\ anchor' = IF known THEN place ELSE 0

\* Another thread changes the text.  A cursor set beyond the end of its line
\* and not drawn yet has no place to be moved from.
Change(thread) ==
    /\ others > 0
    /\ ~Locked
    /\ \E op \in Operations(lines) :
        /\ lines' = Changed(lines, op)
        /\ Means(~astray /\ (Backlog = <<>> => InText(lines, cur_pos)),
                 Moved(anchor, Flat(lines, op.pos), op.operation))
        /\ untold' = Append(untold, [by |-> thread, op |-> op])
        /\ stale' = stale \cup Outdated(op)
    /\ others' = others - 1

\* Change a was made before change b, in another line, and whichever of them
\* has to do with a line break is the lower one: the cursor may follow b
\* first and then a.
Apart(a, b) ==
    \/ ~a.newline /\ a.pos.lineno < b.pos.lineno
    \/ ~b.newline /\ b.pos.lineno < a.pos.lineno

\* Positions are queued by the thread that made the change, and not always in
\* the order of the changes: the command thread lets go of the lock first.
\* A cursor moved for a change before an earlier one is led astray, unless
\* the two are apart.
Queue(thread) ==
    \E n \in 1..Len(untold) :
        /\ untold[n].by = thread
        /\ queue' = Append(queue, untold[n].op)
        /\ untold' = RemoveAt(untold, n)
        /\ Means(~astray /\ \A m \in 1..n - 1 : Apart(untold[m].op, untold[n].op),
                 anchor)

\* Mutant of RemoteQueue: the flag is not set.
RemoteQueueSilent ==
    /\ Queue("remote")
    /\ UNCHANGED <<textVars, cli, reading, buf_changed, pc, need, cursorVars,
                   stale, torn, refused>>

\* writeLocal: the text, then the position, then the flag, under the lock.
RemoteChange ==
    /\ Change("remote")
    /\ UNCHANGED <<own, cli, reading, queue, buf_changed, pc, need, cursorVars,
                   torn, refused>>

RemoteQueue ==
    /\ Queue("remote")
    /\ buf_changed' = TRUE
    /\ UNCHANGED <<textVars, cli, reading, pc, need, cursorVars, stale, torn,
                   refused>>

\* frontEndCli: the text, then without the lock the flag, then the position.
CliChange ==
    /\ cli /\ reading = "line"
    /\ Change("cli")
    /\ reading' = "flag"
    /\ UNCHANGED <<own, cli, queue, buf_changed, pc, need, cursorVars, torn,
                   refused>>

CliFlag ==
    /\ reading = "flag"
    /\ buf_changed' = TRUE
    /\ reading' = "queue"
    /\ UNCHANGED <<textVars, cli, untold, queue, pc, need, cursorVars, stale,
                   raceVars>>

CliQueue ==
    /\ reading = "queue"
    /\ Queue("cli")
    /\ reading' = "line"
    /\ UNCHANGED <<textVars, cli, buf_changed, pc, need, cursorVars, stale,
                   torn, refused>>
-----------------------------------------------------------------------------
(* The loop of control up to the key. *)

\* getch has returned, with a key or after 150 ms.
SeeFlag ==
    /\ pc = "getch"
    /\ buf_changed' = FALSE
    /\ pc' = IF buf_changed THEN "calPos" ELSE "key"
    /\ UNCHANGED <<textVars, cli, untold, reading, queue, need, cursorVars,
                   stale, raceVars>>

TransformPos ==
    /\ pc = "calPos" /\ queue # <<>>
    /\ queue' = Tail(queue)
    /\ cur_pos' = Transformed(cur_pos, Head(queue))
    /\ need' = NeedAfter(Head(queue), cur_pos')
    /\ UNCHANGED <<textVars, cli, untold, reading, buf_changed, pc,
                   cur_line_size, screen_start_line, screen_line, stale,
                   raceVars>>

\* A cursor set back behind changes it has not been moved for is moved too far
\* by them afterwards.
KeepMeaning ==
    Means(~astray /\ (Backlog # <<>> => cur_pos' = cur_pos), anchor)

\* Mutant of EndTransform: the cursor may stay beyond the last line.
EndTransformBeyond ==
    LET start == Scrolled(cur_pos.lineno, screen_start_line, Len(lines))
    IN  /\ pc = "calPos" /\ queue = <<>>
        /\ screen_start_line' = start
        /\ stale' = IF start = screen_start_line THEN stale ELSE Rows
        /\ cur_pos' = cur_pos
        /\ KeepMeaning
        /\ pc' = IF need = {} THEN "key" ELSE "redraw"
        /\ UNCHANGED <<textVars, queueVars, need, cur_line_size, screen_line,
                       torn, refused>>

\* The end of calPos: scroll to the cursor, and keep it inside the text.
EndTransform ==
    LET start == Scrolled(cur_pos.lineno, screen_start_line, Len(lines))
    IN  /\ pc = "calPos" /\ queue = <<>>
        /\ screen_start_line' = start
        /\ stale' = IF start = screen_start_line THEN stale ELSE Rows
        /\ cur_pos' = [cur_pos EXCEPT !.lineno = Min2(@, Len(lines))]
        /\ KeepMeaning
        /\ pc' = IF need = {} THEN "key" ELSE "redraw"
        /\ UNCHANGED <<textVars, queueVars, need, cur_line_size, screen_line,
                       torn, refused>>

\* Where the loop goes on after drawing: from calPos to the key, from a key
\* back to getch, and within keyBackspace to the deletion.
AfterDrawing ==
    CASE pc = "redraw" -> "key" [] pc = "draw" -> "getch"
      [] pc = "draw first" -> "join"

\* calCurLine of line n: the cursor is kept inside its line.
DrawCurLine(n) ==
    /\ cur_line_size' = lines[n]
    /\ cur_pos' = Clamped(lines, [cur_pos EXCEPT !.lineno = n])
    /\ pc' = AfterDrawing
    /\ need' = {}

Drawing == pc \in {"redraw", "draw", "draw first"}

\* redrawContent when the line of the cursor is on the screen.
DrawContent ==
    LET row == cur_pos.lineno - screen_start_line
    IN  /\ Drawing /\ Redraw \in need
        /\ row \in Rows /\ cur_pos.lineno <= Len(lines)
        /\ screen_line' = row
        /\ DrawCurLine(cur_pos.lineno)
        /\ KeepMeaning
        /\ stale' = {}
        /\ torn' = (torn /\ Backlog # <<>>)
        /\ UNCHANGED <<textVars, queueVars, screen_start_line, refused>>

\* The line that redrawContent takes when that of the cursor is not on the
\* screen.
Nearest ==
    IF cur_pos.lineno < screen_start_line THEN screen_start_line
    ELSE screen_start_line + CONTENT_LINES - 1

\* It is drawn in the row where the cursor was.  After a key that scrolls the
\* cursor means to be there.
DrawNearest ==
    /\ Drawing /\ Redraw \in need
    /\ \/ cur_pos.lineno - screen_start_line \notin Rows
       \/ cur_pos.lineno > Len(lines)
    /\ Nearest <= Len(lines)
    /\ DrawCurLine(Nearest)
    /\ IF pc = "draw" /\ Backlog = <<>>
       THEN Means(TRUE, Flat(lines, cur_pos')) ELSE KeepMeaning
    /\ stale' = IF Nearest = screen_start_line + screen_line THEN {}
                ELSE Rows \cap {screen_line}
    /\ torn' = (torn /\ Backlog # <<>>)
    /\ UNCHANGED <<textVars, queueVars, screen_start_line, screen_line,
                   refused>>

\* redrawCurLine draws the line of the cursor in the row of the cursor.
DrawLine ==
    /\ Drawing /\ Redraw \notin need
    /\ cur_pos.lineno <= Len(lines)
    /\ DrawCurLine(cur_pos.lineno)
    /\ KeepMeaning
    /\ stale' = IF cur_pos.lineno = screen_start_line + screen_line
                THEN stale \ {screen_line}
                ELSE stale \cup (Rows \cap {screen_line})
    /\ UNCHANGED <<textVars, queueVars, screen_start_line, screen_line,
                   torn, refused>>

\* locateLine has returned end(), and calCurLine reads its line: what comes
\* then is undefined, and the behaviour ends here.
DrawPastEnd ==
    /\ Drawing
    /\ IF Redraw \in need
       THEN /\ \/ cur_pos.lineno - screen_start_line \notin Rows
               \/ cur_pos.lineno > Len(lines)
            /\ Nearest > Len(lines)
       ELSE cur_pos.lineno > Len(lines)
    /\ pc' = "undefined"
    /\ UNCHANGED <<textVars, queueVars, need, cursorVars, stale, raceVars>>
-----------------------------------------------------------------------------
(* Keys. *)

\* The 150 ms passed without a key, or the key does nothing to the cursor.
NoKey ==
    /\ pc = "key"
    /\ pc' = "getch"
    /\ UNCHANGED <<textVars, queueVars, need, cursorVars, stale, raceVars>>

\* A key leaves the cursor at pos, in row, with line start in the first row,
\* and asks to draw what is in draw.
Place(pos, row, start, draw) ==
    /\ cur_pos' = pos
    /\ screen_line' = row
    /\ screen_start_line' = start
    /\ need' = draw

\* A key that moves the cursor.  Taken with the cursor in step with the text,
\* it says where the cursor means to be from now on.
Move(pos, row, start, draw) ==
    /\ pc = "key"
    /\ Place(pos, row, start, draw)
    /\ pc' = IF draw = {} THEN "getch" ELSE "draw"
    /\ stale' = IF start = screen_start_line THEN stale ELSE Rows
    /\ IF Backlog = <<>> /\ pos.lineno <= Len(lines)
       THEN Means(TRUE, Flat(lines, Clamped(lines, pos)))
       ELSE Means(FALSE, 0)
    /\ refused' = FALSE
    /\ UNCHANGED <<textVars, queueVars, cur_line_size, torn>>

UpStart(row) ==
    IF row < 0 THEN Max2(1, screen_start_line - HALF_HEIGHT)
    ELSE screen_start_line

DownStart(row) ==
    IF row >= CONTENT_LINES THEN screen_start_line + HALF_HEIGHT
    ELSE screen_start_line

At(n, offset) == [lineno |-> n, offset |-> offset]

KeyUp ==
    IF cur_pos.lineno > 1
    THEN Move(At(cur_pos.lineno - 1, cur_pos.offset), screen_line - 1,
              UpStart(screen_line - 1), {Redraw})
    ELSE Move(cur_pos, screen_line, UpStart(screen_line), {})

KeyDown ==
    /\ cur_pos.lineno < Len(lines)
    /\ Move(At(cur_pos.lineno + 1, cur_pos.offset), screen_line + 1,
            DownStart(screen_line + 1), {Redraw})

\* At the start of a line to the end of the line above, which is drawn.
\* Otherwise only the cursor moves, or, for the sake of a folded line, the
\* line is drawn.
KeyLeft ==
    \/ /\ cur_pos.offset > 1
       /\ \E draw \in {{}, {RedrawLine}} :
            Move(At(cur_pos.lineno, cur_pos.offset - 1), screen_line,
                 screen_start_line, draw)
    \/ /\ cur_pos.offset = 1 /\ cur_pos.lineno > 1
       /\ Move(At(cur_pos.lineno - 1, INT_MAX), screen_line - 1,
               UpStart(screen_line - 1), {Redraw})

KeyRight ==
    \/ /\ cur_pos.offset <= cur_line_size
       /\ \E draw \in {{}, {RedrawLine}} :
            Move(At(cur_pos.lineno, cur_pos.offset + 1), screen_line,
                 screen_start_line, draw)
    \/ /\ cur_pos.offset > cur_line_size /\ cur_pos.lineno < Len(lines)
       /\ Move(At(cur_pos.lineno + 1, 1), screen_line + 1,
               DownStart(screen_line + 1), {Redraw})

KeyHomeEnd ==
    \E offset \in {1, INT_MAX} :
        Move(At(cur_pos.lineno, offset), screen_line, screen_start_line,
             {RedrawLine})

PrePage ==
    LET start == Max2(1, screen_start_line - (CONTENT_LINES - 2))
    IN  Move(At(start, 1), screen_line, start, {Redraw})

NextPage ==
    LET start == screen_start_line + CONTENT_LINES - 2
    IN  IF start < Len(lines)
        THEN Move(At(start, 1), screen_line, start, {Redraw})
        ELSE Move(At(Len(lines), 1), screen_line, screen_start_line, {Redraw})

\* A click on the title or the status bar scrolls by a line.  The drawing
\* keeps the cursor on the screen.
ScrollTo(start) == Move(cur_pos, screen_line, start, {Redraw})

PreLine == screen_start_line > 1 /\ ScrollTo(screen_start_line - 1)

NextLine ==
    /\ screen_start_line + HALF_HEIGHT < Len(lines)
    /\ ScrollTo(screen_start_line + 1)

\* keyMouse: a click into the text.
Click ==
    \E row \in Rows, offset \in Columns :
        Move(At(Min2(screen_start_line + row, Len(lines)), offset),
             screen_line, screen_start_line, {Redraw})

\* gotoPos, after ^T or ^O: the line is in the text, the column may not be.
GoTo ==
    \E n \in 1..Len(lines), offset \in Columns \cup {INT_MAX} :
        Move(At(n, offset), screen_line, Max2(1, n - HALF_HEIGHT), {Redraw})

\* ^L, a resized window and the like: the screen is drawn again.
Refresh ==
    Move(cur_pos, screen_line, screen_start_line, {Redraw})
-----------------------------------------------------------------------------
(* Keys that edit. *)

\* The edit lock is taken: TM_AGAIN, nothing is changed ("Please wait while
\* OT is processing...").
Again ==
    /\ pc = "key" /\ Locked
    /\ pc' = "getch"
    /\ UNCHANGED <<textVars, queueVars, need, cursorVars, stale, raceVars>>

\* What the text does with op: it refuses a position it does not have, and
\* deletes the line break at the end of a line.
Refused(op) ==
    ~InText(lines, op.pos) \/ (op.operation = DELETE /\ op.pos = EndOfText(lines))

Applied(op) ==
    IF op.operation = INSERT THEN op
    ELSE [op EXCEPT !.newline = op.pos.offset = lines[op.pos.lineno] + 1]

\* The text, after op at the cursor.
Edited(op) == IF Refused(op) THEN lines ELSE Changed(lines, Applied(op))

\* op is made with the lock free, and the cursor moves on; the screen does
\* not look at the result of the call.
Edit(op, pos, row, start, draw) ==
    /\ own > 0 /\ ~Locked
    /\ own' = own - 1
    /\ lines' = Edited(op)
    /\ refused' = Refused(op)
    /\ stale' = IF Refused(op) THEN stale ELSE stale \cup Outdated(Applied(op))
    /\ Place(pos, row, start, draw)
    /\ Means(~astray /\ Backlog = <<>>,
             IF Refused(op) THEN anchor
             ELSE Moved(anchor, Flat(lines, op.pos), op.operation))
    /\ torn' = (torn \/ Backlog # <<>>)
    /\ pc' = IF draw = {} THEN "getch" ELSE "draw"
    /\ UNCHANGED <<others, queueVars, cur_line_size>>

InsertChar ==
    /\ pc = "key"
    /\ Edit([operation |-> INSERT, newline |-> FALSE, pos |-> cur_pos],
            At(cur_pos.lineno, cur_pos.offset + 1), screen_line,
            screen_start_line, {RedrawLine})

\* From the last row keyDown scrolls, if the text has a line below.
InsertNewline ==
    LET op == [operation |-> INSERT, newline |-> TRUE, pos |-> cur_pos]
        last == screen_line >= CONTENT_LINES - 1
        below == cur_pos.lineno < Len(Edited(op))
    IN  /\ pc = "key"
        /\ \/ /\ ~last
              /\ Edit(op, At(cur_pos.lineno + 1, 1), screen_line,
                      screen_start_line, {Redraw})
           \/ /\ last /\ below
              /\ Edit(op, At(cur_pos.lineno + 1, 1), screen_line + 1,
                      DownStart(screen_line + 1), {Redraw})
           \/ /\ last /\ ~below
              /\ Edit(op, At(cur_pos.lineno, 1), screen_line,
                      screen_start_line, {})

Backspace ==
    LET before == At(cur_pos.lineno, cur_pos.offset - 1)
    IN  /\ pc = "key" /\ cur_pos.offset > 1
        /\ Edit([operation |-> DELETE, newline |-> FALSE, pos |-> before],
                before, screen_line, screen_start_line, {RedrawLine})

\* keyDelete looks at the length the line had when it was drawn last.
DeleteKey ==
    LET atEnd == cur_pos.offset = cur_line_size + 1
    IN  /\ pc = "key" /\ cur_pos.offset <= cur_line_size + 1
        /\ atEnd => cur_pos.lineno # Len(lines)
        /\ Edit([operation |-> DELETE, newline |-> FALSE, pos |-> cur_pos],
                cur_pos, screen_line, screen_start_line,
                IF atEnd THEN {Redraw} ELSE {RedrawLine})

\* keyBackspace in the first column goes to the end of the line above and
\* draws, before it deletes the line break there.
BackspaceUp ==
    /\ pc = "key" /\ pc' = "draw first"
    /\ cur_pos.offset = 1 /\ cur_pos.lineno > 1 /\ own > 0
    /\ Place(At(cur_pos.lineno - 1, INT_MAX),
             IF screen_line <= 0 THEN screen_line - 1 ELSE screen_line,
             IF screen_line <= 0 THEN UpStart(screen_line - 1)
             ELSE screen_start_line, {Redraw})
    /\ stale' = IF screen_start_line' = screen_start_line THEN stale ELSE Rows
    /\ Means(~astray /\ Backlog = <<>>, anchor - 1)
    /\ refused' = FALSE
    /\ UNCHANGED <<textVars, queueVars, cur_line_size, torn>>

Join ==
    /\ pc = "join"
    /\ Edit([operation |-> DELETE, newline |-> FALSE, pos |-> cur_pos],
            cur_pos, screen_line, screen_start_line, {Redraw})

\* The lock has been taken meanwhile: the cursor stays on the line above.
JoinAgain ==
    /\ pc = "join" /\ Locked
    /\ pc' = "getch"
    /\ UNCHANGED <<textVars, queueVars, need, cursorVars, stale, raceVars>>
-----------------------------------------------------------------------------
Others ==
    RemoteChange \/ RemoteQueue \/ CliChange \/ CliFlag \/ CliQueue

Keys ==
    \/ KeyUp \/ KeyDown \/ KeyLeft \/ KeyRight \/ KeyHomeEnd
    \/ PrePage \/ NextPage \/ PreLine \/ NextLine \/ Click \/ GoTo \/ Refresh
    \/ Again \/ InsertChar \/ InsertNewline \/ Backspace \/ DeleteKey
    \/ BackspaceUp

Loop ==
    \/ SeeFlag \/ TransformPos \/ EndTransform
    \/ DrawContent \/ DrawNearest \/ DrawLine \/ DrawPastEnd
    \/ Join \/ JoinAgain \/ NoKey

Next == pc # "undefined" /\ (Others \/ Keys \/ Loop)

Spec == Init /\ [][Next]_vars

\* The loop goes round, with or without a key, and the other threads end what
\* they began.  Nobody need press a key or change the text.
Fairness ==
    /\ WF_vars(Loop)
    /\ WF_vars(RemoteQueue) /\ WF_vars(CliFlag) /\ WF_vars(CliQueue)

FairSpec == Spec /\ Fairness
-----------------------------------------------------------------------------
(* Properties. *)

\* Type invariant.  "lineno, offset: both should be greater than 0"
\* (src/include/op.h:18) holds of the cursor in every race, and screen_line is
\* the only one of the four that may be off the screen.
TypeOK ==
    /\ lines \in Seq(Nat) \ {<<>>}
    /\ cur_pos.lineno >= 1 /\ cur_pos.offset >= 1
    /\ screen_start_line >= 1
    /\ stale \subseteq Rows
    /\ need \subseteq {Redraw, RedrawLine}
    /\ reading \in {"line", "flag", "queue"}
    /\ pc \in {"getch", "calPos", "redraw", "key", "draw", "draw first", "join",
               "undefined"}

\* The cursor, moved by what calPos has still to hear of, is where the user
\* left it, between the same two characters, whatever the other threads did
\* to the text before, after and at the cursor; and then no key is lost in
\* an edit that the text refuses.  The property says nothing after
\* - a key that was taken, or a drawing that moved the cursor, before the
\*   cursor had been moved for all changes;
\* - a change made while the cursor stood beyond the end of its line, where a
\*   key had put it, and was not drawn yet;
\* - a position queued before that of an earlier change, as the command
\*   thread, which unlocks before it queues, lets happen: the cursor may then
\*   really go wrong.  Only if the two changes are apart is it kept.
\* The next key that is taken in step with the text sets the cursor right.
CursorKept ==
    ~astray =>
        LET pos == Followed(cur_pos, Backlog)
        IN  /\ pos.lineno \in 1..Len(lines)
            /\ Flat(lines, Clamped(lines, pos)) = anchor
            /\ ~refused

\* When the loop waits for a key with nothing more to hear of, every row
\* shows the line it stands for, and the cursor is in a row of the screen, on
\* its own line, at a place the text has.  calPos asks for as little drawing
\* as it can: what it asks for is enough.  The exception is an edit made by
\* a key that came before calPos had heard of all changes.
ScreenFresh ==
    pc \in {"getch", "key"} /\ Backlog = <<>> /\ ~torn =>
        /\ stale = {}
        /\ screen_line \in Rows
        /\ cur_pos.lineno = screen_start_line + screen_line
        /\ InText(lines, cur_pos)

\* locateLine(...)->line is taken of the end of the text only by a screen
\* that is behind: changes came between calPos and the drawing.
DrawsText == pc = "undefined" => Backlog # <<>>

\* The screen hears of every change.  With a thread that reads commands,
\* which sets buf_changed before it queues the position, the loop may look in
\* between, and the position stays in the queue until the next change.
CaughtUp ==
    \/ <>[](Backlog = <<>>)
    \/ <>[](pc = "undefined")
    \/ cli /\ <>[](untold = <<>> /\ ~buf_changed)
=============================================================================
