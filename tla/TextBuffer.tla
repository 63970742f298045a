---------------------------- MODULE TextBuffer -----------------------------
(***************************************************************************)
(* The text of a client (class textOp, src/text.cpp): a list of lines with *)
(* the line touched last cached together with its number and the offset it *)
(* starts at, so that the next call need not count from the beginning.     *)
(*                                                                         *)
(* An object textOp is a record, a member function an operator from one    *)
(* record to the next.  The iterator cur_line_it is the index of the line  *)
(* it points to, which insertions and deletions of lines before it shift.  *)
(* A loop that walks line by line is the number of lines it walks.         *)
(***************************************************************************)
EXTENDS Ops, FiniteSetsExt

CONSTANTS NewLine,   \* the line break
          MaxChars,  \* bound on the characters of the text
          Nothing    \* what a call that changes nothing reports

ASSUME NewLineAssumption == NewLine \in Char
ASSUME MaxCharsAssumption == MaxChars \in Nat
ASSUME NothingAssumption ==
    Nothing \notin [operation : {CH_DELETE, CH_INSERT}, data : Char,
                    char_offset : Int, pos : [lineno : Int, offset : Int]]

VARIABLES file,     \* the object textOp
          done,     \* what the last call reports: the operation and its place
          defined   \* no call has had undefined behaviour

vars == <<file, done, defined>>

Line == Seq(Char \ {NewLine})

\* The error value of translatePos, (uint64_t)-1, and of translateOffset.
NoOffset == -1
NoPos == [lineno |-> 0, offset |-> 0]
-----------------------------------------------------------------------------
(* Lines. *)

\* How many bytes the lines from to to take in the file, line breaks included.
Span(lines, from, to) ==
    LET span[n \in 0..Len(lines)] ==
            IF n < from THEN 0 ELSE span[n - 1] + Len(lines[n]) + 1
    IN  span[to]

\* The characters the lines stand for: saveFile writes them with line breaks
\* in between.
Flat(lines) ==
    LET flat[n \in 1..Len(lines)] ==
            IF n = 1 THEN lines[1]
            ELSE flat[n - 1] \o <<NewLine>> \o lines[n]
    IN  flat[Len(lines)]

\* The lines getline finds in a text, with the dummy line loadFile adds to an
\* empty file and after a last line break.
Lines(text) ==
    LET lines[n \in 0..Len(text)] ==
            IF n = 0 THEN <<<<>>>>
            ELSE LET before == lines[n - 1]
                 IN  IF text[n] = NewLine THEN Append(before, <<>>)
                     ELSE [before EXCEPT ![Len(before)] = Append(@, text[n])]
    IN  lines[Len(text)]

\* The object after loadFile.
Loaded(text) ==
    [edit_file |-> Lines(text), cur_line_it |-> 1, cur_line_no |-> 1,
     cur_char |-> 0, total_chars |-> Len(text), modified |-> FALSE]
-----------------------------------------------------------------------------
(* Finding a line. *)

CurLine(f) == f.edit_file[f.cur_line_it]

\* The iterator and its offset after walking distance lines.
Walk(f, distance) ==
    LET it == f.cur_line_it
    IN  [f EXCEPT
            !.cur_line_it = it + distance,
            !.cur_char = IF distance > 0
                         THEN @ + Span(f.edit_file, it, it + distance - 1)
                         ELSE @ - Span(f.edit_file, it + distance, it - 1)]

FirstLine(f) == [f EXCEPT !.cur_line_it = 1, !.cur_char = 0]

LastLine(f) ==
    LET it == Len(f.edit_file)
    IN  [f EXCEPT !.cur_line_it = it,
                  !.cur_char = f.total_chars - Len(f.edit_file[it])]

\* No such line: locateLine returns end().
IsEnd(f, no) == no # f.cur_line_no /\ no \notin 1..Len(f.edit_file)

\* Mutant of locateLine: the last line is located without its offset.
locateLineStaleOffset(f, no) ==
    LET size == Len(f.edit_file)
        distance == no - f.cur_line_no
        here == [f EXCEPT !.cur_line_no = no]
    IN  IF distance = 0 \/ IsEnd(f, no) THEN f
        ELSE IF size - no < distance
        THEN Walk([here EXCEPT !.cur_line_it = size], no - size)
        ELSE Walk(here, distance)

\* The object after locateLine: the neighbours of the cached line are found
\* from it, another line from the cached one, the last or the first.
locateLine(f, no) ==
    LET size == Len(f.edit_file)
        distance == no - f.cur_line_no
        here == [f EXCEPT !.cur_line_no = no]
        fromEnd == size - no < distance
        start == IF fromEnd THEN LastLine(here) ELSE here
        rest == IF fromEnd THEN no - size ELSE distance
    IN  IF distance = 0 \/ IsEnd(f, no) THEN f
        ELSE IF distance \in {-1, 1} THEN Walk(here, distance)
        ELSE IF rest <= no /\ -rest <= no THEN Walk(start, rest)
        ELSE Walk(FirstLine(here), no - 1)

\* What translatePos returns, once it has located the line.
translatePos(f, pos) ==
    IF IsEnd(f, pos.lineno) THEN NoOffset
    ELSE LET at == locateLine(f, pos.lineno)
         IN  IF pos.offset \in 0..Len(CurLine(at)) + 1
             THEN at.cur_char + pos.offset - 1
             ELSE NoOffset

\* The loops of translateOffset: back to the last line that does not start
\* after offset, or on to the first line that reaches it.
Back(f, offset) ==
    LET stops == { n \in 0..f.cur_line_it - 1 : Walk(f, -n).cur_char <= offset }
        walked == Min(stops)
    IN  [Walk(f, -walked) EXCEPT !.cur_line_no = @ - walked]

\* Mutant of Ahead: the place behind the last character of a line belongs to
\* the next line.
AheadTooFar(f, offset) ==
    LET size == Len(f.edit_file)
        reaches(at) == at.cur_char + Len(CurLine(at)) > offset
        stops == { n \in 0..size - f.cur_line_it :
                    reaches(Walk(f, n)) \/ f.cur_line_no + n >= size }
        walked == Min(stops)
    IN  [Walk(f, walked) EXCEPT !.cur_line_no = @ + walked]

Ahead(f, offset) ==
    LET size == Len(f.edit_file)
        reaches(at) == at.cur_char + Len(CurLine(at)) >= offset
        stops == { n \in 0..size - f.cur_line_it :
                    reaches(Walk(f, n)) \/ f.cur_line_no + n >= size }
        walked == Min(stops)
    IN  [Walk(f, walked) EXCEPT !.cur_line_no = @ + walked]

\* The object after translateOffset, with the line of offset cached.
LocateOffset(f, offset) ==
    LET near == IF offset - f.cur_char > f.total_chars - offset
                THEN locateLine(f, Len(f.edit_file))
                ELSE IF f.cur_char - offset > offset THEN locateLine(f, 1)
                ELSE f
    IN  IF offset > f.total_chars THEN f
        ELSE IF offset <= near.cur_char THEN Back(near, offset)
        ELSE Ahead(near, offset)

\* What translateOffset returns.
translateOffset(f, offset) ==
    LET at == LocateOffset(f, offset)
    IN  IF offset > f.total_chars THEN NoPos
        ELSE [lineno |-> at.cur_line_no, offset |-> offset - at.cur_char + 1]
-----------------------------------------------------------------------------
(* Changing the text.  The line of the position is the cached one.         *)

\* The character at pos, a line break behind the last one of the line.
DeletedChar(at, pos) ==
    IF pos.offset = Len(CurLine(at)) + 1 THEN NewLine
    ELSE CurLine(at)[pos.offset]

\* Mutant of Deleted: the joined line stays in the list.
DeletedTwice(at, pos) ==
    LET it == at.cur_line_it
        lines == at.edit_file
    IN  [at EXCEPT
            !.edit_file =
                IF pos.offset = Len(CurLine(at)) + 1
                THEN [lines EXCEPT ![it] = @ \o lines[it + 1]]
                ELSE [lines EXCEPT ![it] = RemoveAt(@, pos.offset)],
            !.total_chars = @ - 1,
            !.modified = TRUE]

\* Mutant of Deleted: a line break counts twice when lines are joined.
DeletedBreakTwice(at, pos) ==
    LET it == at.cur_line_it
        lines == at.edit_file
        joins == pos.offset = Len(CurLine(at)) + 1
    IN  [at EXCEPT
            !.edit_file =
                IF joins THEN RemoveAt([lines EXCEPT ![it] = @ \o lines[it + 1]], it + 1)
                ELSE [lines EXCEPT ![it] = RemoveAt(@, pos.offset)],
            !.total_chars = IF joins THEN @ - 2 ELSE @ - 1,
            !.modified = TRUE]

\* deleteChar on the located line: its line break goes by joining the next.
Deleted(at, pos) ==
    LET it == at.cur_line_it
        lines == at.edit_file
    IN  [at EXCEPT
            !.edit_file =
                IF pos.offset = Len(CurLine(at)) + 1
                THEN RemoveAt([lines EXCEPT ![it] = @ \o lines[it + 1]], it + 1)
                ELSE [lines EXCEPT ![it] = RemoveAt(@, pos.offset)],
            !.total_chars = @ - 1,
            !.modified = TRUE]

\* Mutant of Broken: the line break itself is not counted.
BrokenUncounted(at, pos) ==
    LET it == at.cur_line_it
        line == CurLine(at)
        head == SubSeq(line, 1, pos.offset - 1)
        tail == SubSeq(line, pos.offset, Len(line))
    IN  IF pos.offset = 0
        THEN [at EXCEPT !.edit_file = InsertAt(@, it, <<>>),
                        !.cur_line_it = @ + 1, !.cur_line_no = @ + 1,
                        !.cur_char = @ + 1]
        ELSE [at EXCEPT !.edit_file = InsertAt([@ EXCEPT ![it] = head],
                                               it + 1, tail),
                        !.cur_line_it = @ + 1, !.cur_line_no = @ + 1,
                        !.cur_char = @ + Len(head)]

\* insertChar of a line break: at column 0 an empty line goes before the
\* line, elsewhere the rest of the line becomes the next one.  Either way the
\* cache moves to the second of the two lines.
Broken(at, pos) ==
    LET it == at.cur_line_it
        line == CurLine(at)
        head == SubSeq(line, 1, pos.offset - 1)
        tail == SubSeq(line, pos.offset, Len(line))
    IN  IF pos.offset = 0
        THEN [at EXCEPT !.edit_file = InsertAt(@, it, <<>>),
                        !.cur_line_it = @ + 1, !.cur_line_no = @ + 1,
                        !.cur_char = @ + 1]
        ELSE [at EXCEPT !.edit_file = InsertAt([@ EXCEPT ![it] = head],
                                               it + 1, tail),
                        !.cur_line_it = @ + 1, !.cur_line_no = @ + 1,
                        !.cur_char = @ + Len(head) + 1]

\* insertChar on the located line.
Inserted(at, pos, ch) ==
    LET new == IF ch = NewLine THEN Broken(at, pos)
               ELSE [at EXCEPT !.edit_file[at.cur_line_it] =
                                    InsertAt(@, pos.offset, ch)]
    IN  [new EXCEPT !.total_chars = @ + 1, !.modified = TRUE]
-----------------------------------------------------------------------------
(* The calls.  A connected client edits with off set (TM_WROPOFF) and is   *)
(* told the offset of the position; a call without it checks the position  *)
(* itself.                                                                 *)

Report(op, ch, offset, pos) ==
    [operation |-> op, data |-> ch, char_offset |-> offset, pos |-> pos]

Refuse(f) == file' = f /\ done' = Nothing /\ UNCHANGED defined

\* The caller's positions: inside and just outside of the text.
Positions ==
    [lineno : 0..Len(file.edit_file) + 1, offset : -1..MaxChars + 2]

Offsets == 0..MaxChars + 1

\* A position both deleteChar and insertChar accept without off.
OnLine(at, pos) == pos.offset \in 1..Len(CurLine(at)) + 1

AtEnd(at, pos) ==
    /\ pos.lineno = Len(at.edit_file)
    /\ pos.offset = Len(CurLine(at)) + 1

DeleteAt(at, pos, offset) ==
    /\ file' = Deleted(at, pos)
    /\ done' = Report(CH_DELETE, DeletedChar(at, pos), offset, pos)
    /\ UNCHANGED defined

InsertAtPos(at, pos, ch, offset) ==
    /\ file' = Inserted(at, pos, ch)
    /\ done' = Report(CH_INSERT, ch, offset, pos)
    /\ UNCHANGED defined

\* Column 0 of a line other than the first passes the check of translatePos.
\* deleteChar then erases line[-1], and insertChar inserts there, which
\* throws; nothing is said of the program from there on.
Undefined(at) == file' = at /\ done' = Nothing /\ defined' = FALSE

\* deleteChar(pos, &c, &off).
DeleteChar(pos) ==
    LET offset == translatePos(file, pos)
        at == locateLine(file, pos.lineno)
    IN  IF offset \in {NoOffset, file.total_chars} THEN Refuse(at)
        ELSE IF pos.offset = 0 THEN Undefined(at)
        ELSE DeleteAt(at, pos, offset)

\* insertChar(pos, ch, &off).
InsertChar(pos, ch) ==
    LET offset == translatePos(file, pos)
        at == locateLine(file, pos.lineno)
    IN  IF offset = NoOffset THEN Refuse(at)
        ELSE IF pos.offset = 0 /\ ch # NewLine THEN Undefined(at)
        ELSE InsertAtPos(at, pos, ch, offset)

\* deleteChar(pos, &c), called for the operation offset stands for.
DeleteOnLine(f, pos, offset) ==
    LET at == locateLine(f, pos.lineno)
    IN  IF IsEnd(f, pos.lineno) THEN Refuse(f)
        ELSE IF ~OnLine(at, pos) \/ AtEnd(at, pos) THEN Refuse(at)
        ELSE DeleteAt(at, pos, offset)

InsertOnLine(f, pos, ch, offset) ==
    LET at == locateLine(f, pos.lineno)
    IN  IF IsEnd(f, pos.lineno) THEN Refuse(f)
        ELSE IF ~OnLine(at, pos) THEN Refuse(at)
        ELSE InsertAtPos(at, pos, ch, offset)

DeleteCharAt(offset) ==
    LET pos == translateOffset(file, offset)
    IN  IF pos = NoPos THEN Refuse(file)
        ELSE DeleteOnLine(LocateOffset(file, offset), pos, offset)

InsertCharAt(offset, ch) ==
    LET pos == translateOffset(file, offset)
    IN  IF pos = NoPos THEN Refuse(file)
        ELSE InsertOnLine(LocateOffset(file, offset), pos, ch, offset)

\* The front end draws a line.
Draw(no) == Refuse(locateLine(file, no))

\* The front end shows the offset of the cursor, or goes to an offset.
ShowOffset(pos) == Refuse(locateLine(file, pos.lineno))
GoToOffset(offset) == Refuse(LocateOffset(file, offset))
-----------------------------------------------------------------------------
Texts == UNION { [1..n -> Char] : n \in 0..MaxChars }

Init ==
    /\ \E text \in Texts : file = Loaded(text)
    /\ done = Nothing /\ defined = TRUE

Room == file.total_chars < MaxChars

Next ==
    /\ defined
    /\ \/ \E pos \in Positions :
            \/ DeleteChar(pos) \/ DeleteOnLine(file, pos, NoOffset)
            \/ ShowOffset(pos)
            \/ \E ch \in Char :
                Room /\ (InsertChar(pos, ch) \/ InsertOnLine(file, pos, ch, NoOffset))
       \/ \E offset \in Offsets :
            \/ DeleteCharAt(offset) \/ GoToOffset(offset)
            \/ \E ch \in Char : Room /\ InsertCharAt(offset, ch)
       \/ \E no \in 0..Len(file.edit_file) + 1 : Draw(no)

Spec == Init /\ [][Next]_vars
-----------------------------------------------------------------------------
(* Properties. *)

\* Type invariant: the iterator points into the list, and the counters, which
\* are unsigned, never fall below 0.
TypeOK ==
    /\ file.edit_file \in Seq(Line)
    /\ file.cur_line_it \in 1..Len(file.edit_file)
    /\ file.cur_line_no \in Nat
    /\ file.cur_char \in Nat /\ file.total_chars \in 0..MaxChars
    /\ file.modified \in BOOLEAN /\ defined \in BOOLEAN
    /\ done = Nothing \/ /\ done.operation \in {CH_DELETE, CH_INSERT}
                         /\ done.data \in Char
                         /\ done.char_offset \in {NoOffset} \cup 0..MaxChars

\* Where line no starts, counted from the beginning of the file.
Start(no) == Span(file.edit_file, 1, no - 1)

\* Whatever was inserted, joined or split in between, the cached iterator,
\* line number and offset belong together, and the total is the size of the
\* file: what locateLine relies on when it walks from the cached line or from
\* the end (text.cpp:117-171).
CacheMatches ==
    /\ file.cur_line_no = file.cur_line_it
    /\ file.cur_char = Start(file.cur_line_no)
    /\ file.total_chars = Len(Flat(file.edit_file))

\* From every cached line, translateOffset finds the one position in the
\* range the help text gives for offset: a column of the line, its line break
\* included (text.cpp:188-223).
OffsetsFound ==
    \A offset \in 0..file.total_chars :
        LET pos == translateOffset(file, offset)
        IN  /\ pos.lineno \in 1..Len(file.edit_file)
            /\ pos.offset \in 1..Len(file.edit_file[pos.lineno]) + 1
            /\ Start(pos.lineno) + pos.offset - 1 = offset

\* The offset the other users are sent and the position the own cursor is
\* moved by name the same place (text_mutex.cpp:42-47, data_trans.cpp:48-51).
\* Lines before the place are as they were when the call was made.
Place == Start(done.pos.lineno) + done.pos.offset - 1

SamePlace ==
    done # Nothing => done.char_offset \in {NoOffset, Place}

\* Refinement: seen as one sequence of characters, the file changes by
\* exactly the operations the calls report, at the places they report, and a
\* deletion reports the character that was there.  This is the text that the
\* other modules work with.
FlatFile == INSTANCE FlatText WITH
    MaxUsers <- 1,
    text <- Flat(file.edit_file),
    reported <- IF done = Nothing THEN Nothing
                ELSE [operation |-> done.operation, data |-> done.data,
                      id |-> 1, char_offset |-> Place]

Implements == FlatFile!Spec

\* "delete a character, if offset is 0, will join a line" (text.h:43): to
\* delete at column 0 of a line joins it to the one before.
JoinsAtZero ==
    [][\A no \in 2..Len(file.edit_file) :
        DeleteChar([lineno |-> no, offset |-> 0])
        => Len(file'.edit_file) = Len(file.edit_file) - 1]_vars
=============================================================================
