------------------------------- MODULE Saving -------------------------------
(***************************************************************************)
(* What a client leaves on the disk: ^W and ^X on the screen and the       *)
(* command s of the thread that reads commands, while remote operations    *)
(* and commands go on changing the text.  saveFile takes no lock.          *)
(*                                                                         *)
(* A text is the number of changes made to it, a file the sequence of the  *)
(* texts written to it: more than one after an append or a prepend.  The   *)
(* questions asked on the way (another name, overwrite, sure) change       *)
(* nothing: "no" asks for a name again, "cancel" is the same as never      *)
(* having asked, and what is modelled is the name and the mode that the    *)
(* user settles on.                                                        *)
(***************************************************************************)
EXTENDS Integers, Sequences

CONSTANTS Names,     \* names of files; the backup of one has its own, with a "~"
          MaxEdits,  \* bound on the changes of the text
          MaxSaves   \* bounds on the saves of the threads, to choose from

Threads == {"screen", "cli"}

ASSUME NamesAssumption == Names # {} /\ "" \notin Names
ASSUME MaxEditsAssumption == MaxEdits \in Nat
ASSUME MaxSavesAssumption == MaxSaves \subseteq [Threads -> Nat]

VARIABLES
    text,       \* the text
    modified, file_name,  \* those of the text; no name is ""
    disk,       \* disk[f]: what is in file f
    backups,    \* backups[f]: what is in its backup
    at,         \* at[t]: where thread t is
    task,       \* task[t]: what it is writing
    buf,        \* the file that is being prepended to, in memory
    before,     \* what was in the file that ^W is about when ^W was pressed
    spoiled,    \* modified was cleared although the file need not be the text
    discarded,  \* "No" was answered to "Save modified buffer"
    saves       \* saves[t]: how often thread t may still save

fileVars == <<text, modified, file_name>>
diskVars == <<disk, backups>>
ghostVars == <<before, spoiled, discarded, saves>>
vars == <<fileVars, diskVars, at, task, buf, ghostVars>>

\* What is not a text: a file of somebody else, and what is left of a write
\* that was cut off.
Old == -1
Cut == -2
NoFile == <<-3>>

\* The version that a thread has written, before it has written any.
Nothing == -4

WR_ONLY == "write"
WR_APPEND == "append"
WR_PREPEND == "prepend"

NoTask == [name |-> "", write_mode |-> WR_ONLY, app |-> FALSE,
           backup |-> FALSE, exit |-> FALSE,
           version |-> Nothing, whole |-> TRUE, alone |-> TRUE, ignored |-> FALSE]

\* A file is loaded, or named and not there yet, or there is no name.
Init ==
    /\ text = 0 /\ modified = FALSE
    /\ file_name \in Names \cup {""}
    /\ disk \in [Names -> {NoFile, <<0>>, <<Old>>}]
    /\ \A f \in Names : disk[f] # IF f = file_name THEN <<Old>> ELSE <<0>>
    /\ backups = [f \in Names |-> NoFile]
    /\ at = [t \in Threads |-> "idle"]
    /\ task = [t \in Threads |-> NoTask]
    /\ buf = <<>> /\ before = NoFile
    /\ spoiled = FALSE /\ discarded = FALSE
    /\ saves \in MaxSaves

Goes(t, from, to) == at[t] = from /\ at' = [at EXCEPT ![t] = to]

Running == at["screen"] # "exited"

\* A remote operation, a command or a key.
Edit ==
    /\ Running
    /\ text < MaxEdits
    /\ text' = text + 1
    /\ modified' = TRUE
    /\ UNCHANGED <<file_name, diskVars, at, task, buf, ghostVars>>
-----------------------------------------------------------------------------
(* saveFile, called by either thread: t is at "save" when it calls and at  *)
(* "saved" or "failed" when it returns.                                    *)

\* The thread begins to be about the file name.  Another that is about it
\* too may undo what this one does.
Begins(t, to, new) ==
    LET rivals == { u \in Threads \ {t} : at[u] # "idle" /\ task[u].name = new.name }
    IN  /\ Goes(t, "idle", to)
        /\ task' = [u \in Threads |->
                      IF u = t THEN [new EXCEPT !.alone = rivals = {}]
                      ELSE [task[u] EXCEPT !.alone = @ /\ u \notin rivals]]
        /\ saves[t] > 0
        /\ saves' = [saves EXCEPT ![t] = @ - 1]

\* Nothing is written when the text is unmodified and the name its own.
Ignore(t) ==
    /\ Running /\ task[t].name = file_name /\ ~modified
    /\ Goes(t, "save", "saved")
    /\ task' = [task EXCEPT ![t].version = text, ![t].ignored = TRUE]
    /\ UNCHANGED <<fileVars, diskVars, buf, ghostVars>>

\* The file is opened, and emptied unless it is opened to append.
Open(t) ==
    LET f == task[t].name
    IN  /\ Running /\ f # "" /\ ~(f = file_name /\ ~modified)
        /\ Goes(t, "save", "opened")
        /\ disk' = [disk EXCEPT ![f] =
                        IF task[t].app /\ @ # NoFile THEN @ ELSE <<>>]
        /\ UNCHANGED <<fileVars, backups, task, buf, ghostVars>>

OpenFails(t) ==
    /\ Running
    /\ task[t].name = file_name => modified
    /\ Goes(t, "save", "failed")
    /\ UNCHANGED <<fileVars, diskVars, task, buf, ghostVars>>

\* The lines are written.  What another thread has written meanwhile is
\* overwritten from the start, perhaps not to its end.  Whether all could be
\* written is not asked.
WriteLines(t) ==
    LET f == task[t].name
    IN  /\ Running
        /\ Goes(t, "opened", "written")
        /\ \E whole \in BOOLEAN, rest \in {<<>>, <<Cut>>} :
            /\ rest # <<>> => disk[f] # <<>> /\ ~task[t].app
            /\ disk' = [disk EXCEPT ![f] =
                            (IF task[t].app THEN @ ELSE <<>>)
                            \o <<IF whole THEN text ELSE Cut>> \o rest]
            /\ task' = [task EXCEPT ![t].version = text, ![t].whole = whole]
        /\ UNCHANGED <<fileVars, backups, buf, ghostVars>>

\* What t has written need not be the text: the text has been changed since,
\* or the write was cut off, or the other thread was about the same file.
Excused(t) == ~task[t].whole \/ ~task[t].alone \/ task[t].version # text

\* The mode in which saveFile was called: s gives none and gets that of its
\* declaration, writeOut gives one.
OpenMode(t) ==
    IF t = "cli" THEN {"out", "trunc"} ELSE IF task[t].app THEN {"app"} ELSE {"out"}

\* Only a save in the plain mode clears modified.  After the command s the text
\* counts as modified for as long as before, and ^X asks about it.
ClearModified(t) ==
    IF task[t].name = file_name /\ OpenMode(t) = {"out"}
    THEN modified' = FALSE /\ spoiled' = Excused(t)
    ELSE UNCHANGED <<modified, spoiled>>

SetFlag(t) ==
    /\ Running
    /\ Goes(t, "written", "saved")
    /\ ClearModified(t)
    /\ UNCHANGED <<text, file_name, diskVars, task, buf, before, discarded, saves>>

\* The command s, with a name or without: then that of the text, as it is when
\* saveFile is called.
CliSave ==
    /\ Running
    /\ \E name \in Names \cup {file_name} :
        Begins("cli", "save", [NoTask EXCEPT !.name = name])
    /\ UNCHANGED <<fileVars, diskVars, buf, before, spoiled, discarded>>

CliReturn ==
    /\ Running
    /\ at["cli"] \in {"saved", "failed"}
    /\ at' = [at EXCEPT !["cli"] = "idle"]
    /\ task' = [task EXCEPT !["cli"] = NoTask]
    /\ UNCHANGED <<fileVars, diskVars, buf, ghostVars>>
-----------------------------------------------------------------------------
(* writeOut. *)

\* Where writeOut goes with what the user has settled on.  A file that is
\* not there cannot be prepended to.
First(new) ==
    IF new.write_mode = WR_PREPEND /\ disk[new.name] = NoFile THEN "failed"
    ELSE IF new.backup THEN "backup"
    ELSE IF new.write_mode = WR_PREPEND THEN "copy" ELSE "save"

\* A backup is made of the file of the text before a write, and of any file
\* before an append or a prepend.  To append to a file that is not there is
\* to write it.
WriteOut(exit) ==
    \E name \in Names, mode \in {WR_ONLY, WR_APPEND, WR_PREPEND}, backup \in BOOLEAN :
        LET exists == disk[name] # NoFile
            new == [NoTask EXCEPT !.name = name, !.write_mode = mode,
                        !.app = mode = WR_APPEND /\ exists,
                        !.backup = backup /\ IF mode = WR_ONLY
                                             THEN name = file_name ELSE exists,
                        !.exit = exit]
        IN  /\ Begins("screen", First(new), new)
            /\ before' = disk[name]
            /\ buf' = <<>>
            /\ UNCHANGED <<fileVars, diskVars, spoiled, discarded>>

\* ^W.
KeyWriteOut == Running /\ WriteOut(FALSE)

\* ^X: a modified text is saved, if the answer is yes.
ExitSaving == Running /\ modified /\ WriteOut(TRUE)

Exit ==
    /\ Goes("screen", "idle", "exited")
    /\ discarded' = modified
    /\ UNCHANGED <<fileVars, diskVars, task, buf, before, spoiled, saves>>

AfterBackup ==
    IF task["screen"].write_mode = WR_PREPEND THEN "copy" ELSE "save"

\* backupFile reads the file into memory and writes that under the other
\* name.  There may be no file; the backup may be cut off; and then nothing
\* is saved.
BackupFile ==
    LET name == task["screen"].name
    IN  \/ /\ Goes("screen", "backup", AfterBackup)
           /\ disk[name] # NoFile
           /\ backups' = [backups EXCEPT ![name] = disk[name]]
           /\ UNCHANGED <<fileVars, disk, task, buf, ghostVars>>
        \/ /\ Goes("screen", "backup", "failed")
           /\ \/ UNCHANGED backups
              \/ /\ disk[name] # NoFile
                 /\ backups' = [backups EXCEPT ![name] = <<Cut>>]
           /\ task' = [task EXCEPT !["screen"].backup = FALSE]
           /\ UNCHANGED <<fileVars, disk, buf, ghostVars>>

\* Mutant of CopyFileToMem: the file is not read.
CopyFileToMemNot ==
    /\ Goes("screen", "copy", "save")
    /\ UNCHANGED <<fileVars, diskVars, task, buf, ghostVars>>

CopyFileToMem ==
    LET name == task["screen"].name
    IN  \/ /\ Goes("screen", "copy", "save")
           /\ disk[name] # NoFile
           /\ buf' = disk[name]
           /\ UNCHANGED <<fileVars, diskVars, task, ghostVars>>
        \/ /\ Goes("screen", "copy", "failed")
           /\ UNCHANGED <<fileVars, diskVars, task, buf, ghostVars>>

\* An append to a file that was not there takes the way of a prepend.
WritesTwice(mine) == mine.write_mode # WR_ONLY /\ ~mine.app

\* Mutant of AfterSaving: a file that was prepended to counts as saved.
AfterSavingUnmodified ==
    LET mine == task["screen"]
    IN  /\ Goes("screen", "saved",
                IF WritesTwice(mine) THEN "second write" ELSE "done")
        /\ IF mine.write_mode = WR_ONLY /\ file_name = ""
           THEN /\ file_name' = mine.name
                /\ modified' = FALSE /\ spoiled' = Excused("screen")
           ELSE UNCHANGED <<file_name, modified, spoiled>>
        /\ UNCHANGED <<text, diskVars, task, buf, before, discarded, saves>>

\* saveFile has returned.  A first save gives the text its name; a file that
\* was appended or prepended to is not the text.
AfterSaving ==
    LET mine == task["screen"]
    IN  /\ Goes("screen", "saved",
                IF WritesTwice(mine) THEN "second write" ELSE "done")
        /\ \/ /\ mine.write_mode = WR_ONLY /\ file_name = ""
              /\ file_name' = mine.name
              /\ modified' = FALSE /\ spoiled' = Excused("screen")
           \/ /\ mine.write_mode = WR_ONLY /\ file_name # ""
              /\ UNCHANGED <<file_name, modified, spoiled>>
           \/ /\ mine.write_mode # WR_ONLY
              /\ modified' = (modified \/ mine.name = file_name)
              /\ UNCHANGED <<file_name, spoiled>>
        /\ UNCHANGED <<text, diskVars, task, buf, before, discarded, saves>>

\* What was in the file is written behind the text; the memory is freed,
\* also when that fails.
SecondWrite ==
    LET name == task["screen"].name
    IN  /\ \/ /\ Goes("screen", "second write", "done")
              /\ disk' = [disk EXCEPT ![name] = @ \o buf]
           \/ /\ Goes("screen", "second write", "failed")
              /\ \/ UNCHANGED disk
                 \/ /\ buf # <<>>
                    /\ disk' = [disk EXCEPT ![name] = Append(@, Cut)]
        /\ buf' = <<>>
        /\ UNCHANGED <<fileVars, backups, task, ghostVars>>

\* The screen is left with what it wrote last, or ^W is over.
LeaveOrStay(leave) ==
    /\ at["screen"] \in {"done", "failed"}
    /\ IF leave
       THEN /\ at' = [at EXCEPT !["screen"] = "exited"]
            /\ UNCHANGED <<task, before>>
       ELSE /\ at' = [at EXCEPT !["screen"] = "idle"]
            /\ task' = [task EXCEPT !["screen"] = NoTask]
            /\ before' = NoFile
    /\ UNCHANGED <<fileVars, diskVars, buf, spoiled, discarded, saves>>

\* Mutant of Return: the screen is left after a save that failed.
ReturnAnyhow == LeaveOrStay(task["screen"].exit)

\* writeOut returns, and after "yes" exitEditor leaves the screen if all
\* went well.
Return == LeaveOrStay(task["screen"].exit /\ at["screen"] = "done")
-----------------------------------------------------------------------------
SaveFile(t) ==
    Ignore(t) \/ Open(t) \/ OpenFails(t) \/ WriteLines(t) \/ SetFlag(t)

Screen ==
    \/ KeyWriteOut \/ ExitSaving \/ Exit
    \/ BackupFile \/ CopyFileToMem \/ AfterSaving \/ SecondWrite \/ Return

Next == Edit \/ CliSave \/ CliReturn \/ Screen \/ \E t \in Threads : SaveFile(t)

Spec == Init /\ [][Next]_vars
-----------------------------------------------------------------------------
(* Properties. *)

Holds(f, version) == disk[f] = <<version>> \/ (version = 0 /\ disk[f] = NoFile)

\* A text that does not count as modified is in its file, so that nothing is
\* lost when ^X leaves without a question.  The exceptions are those of
\* Excused: saveFile clears modified after it has written the lines, though
\* the text may have been changed since; it does not look whether they could
\* be written; and nothing keeps the two threads apart.  A file that the
\* command s has written makes no text unmodified.
UnmodifiedSaved ==
    ~modified /\ ~spoiled /\ file_name # "" => Holds(file_name, text)

\* "Save modified buffer (ANSWERING "No" WILL DESTROY CHANGES) ?"
\* (src/src/front_end_curses.cpp:87): without that answer the program does
\* not end unless the text is in a file, under whatever name and in whatever
\* mode, with the same exceptions.
ExitKeeps ==
    at["screen"] = "exited" /\ ~discarded /\ ~spoiled =>
        \/ text = 0
        \/ \E f \in Names : \E n \in 1..Len(disk[f]) : disk[f][n] = text
        \/ task["screen"].version # Nothing /\ Excused("screen")

\* What was in a file before ^W is still there after an append or a prepend,
\* with the text after or before it; it is in the backup, if that was asked
\* for and made, from before the file is opened to the end, and survives a
\* crash there or a second write that fails.  A text that is unmodified is not
\* written to its own file: its append does nothing and is reported as done.
OldKept ==
    LET mine == task["screen"]
        written == IF mine.ignored THEN before ELSE <<mine.version>>
    IN  mine.alone /\ mine.whole /\ before # NoFile =>
        /\ at["screen"] = "done" /\ mine.write_mode = WR_APPEND =>
            disk[mine.name] = IF mine.ignored THEN before ELSE before \o written
        /\ at["screen"] = "done" /\ mine.write_mode = WR_PREPEND =>
            disk[mine.name] = written \o before
        /\ mine.backup /\ at["screen"] # "backup" => backups[mine.name] = before
=============================================================================
