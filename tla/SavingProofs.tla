---------------------------- MODULE SavingProofs ----------------------------
(***************************************************************************)
(* What is on the disk, for every set of files, every bound on changes and *)
(* every number of saves.  UnmodifiedSaved is not inductive: whether the   *)
(* text is in its file when modified is cleared depends on what was        *)
(* written before, on whether anybody else was about that file, and on     *)
(* nobody being about to empty it.  SavingInv says these things of every   *)
(* place a thread can be at.                                               *)
(***************************************************************************)
EXTENDS Saving, TLAPS

Modes == {WR_ONLY, WR_APPEND, WR_PREPEND}

Tasks == [name : Names \cup {""}, write_mode : Modes, app : BOOLEAN,
          backup : BOOLEAN, exit : BOOLEAN, version : Int,
          whole : BOOLEAN, alone : BOOLEAN, ignored : BOOLEAN]

\* Where the command s can be, and where ^W and ^X.
InSave == {"idle", "save", "opened", "written", "saved", "failed"}
Places == InSave \cup {"backup", "copy", "second write", "done", "exited"}

SavingTyped ==
    /\ text \in Nat /\ modified \in BOOLEAN /\ file_name \in Names \cup {""}
    /\ disk \in [Names -> Seq(Int)] /\ backups \in [Names -> Seq(Int)]
    /\ at \in [Threads -> Places] /\ at["cli"] \in InSave
    /\ task \in [Threads -> Tasks]
    /\ buf \in Seq(Int) /\ before \in Seq(Int)
    /\ spoiled \in BOOLEAN /\ discarded \in BOOLEAN
    /\ saves \in [Threads -> Nat]

\* Two threads that are about one file know that they are not alone.
Rivals ==
    \A t, u \in Threads :
        t # u /\ at[t] # "idle" /\ at[u] # "idle" /\ task[t].name = task[u].name
            => task[t].name = "" \/ ~task[t].alone

\* What a thread at a place is writing.  Only a save that has returned was
\* ignored.
Working(mine, place) ==
    /\ place \in {"opened", "written"} \/ (place = "saved" /\ ~mine.ignored) =>
        mine.name \in Names
    /\ place \in {"written", "saved", "second write", "done"} =>
        mine.version \in 0..text
    /\ mine.ignored => place \in {"saved", "second write", "done", "failed", "exited"}

\* What writeOut has settled on.  An append is one only to a file that was
\* there.
Settled(mine, place) ==
    /\ place = "idle" => mine.name = "" /\ ~mine.backup /\ before = NoFile
    /\ place \notin {"idle", "exited"} =>
        /\ mine.name \in Names
        /\ mine.app <=> mine.write_mode = WR_APPEND /\ before # NoFile
    /\ place = "copy" => mine.write_mode = WR_PREPEND
    /\ place = "second write" => ~mine.app
    /\ mine.ignored => mine.name = file_name

Along ==
    /\ \A t \in Threads : Working(task[t], at[t])
    /\ Settled(task["screen"], at["screen"])

\* A thread that is alone finds empty the file it has opened, then what it
\* has written: now is what is in the file.
Rewritten(mine, place, now) ==
    mine.alone /\ ~mine.app =>
        /\ place = "opened" => now = <<>>
        /\ place \in {"written", "saved"} /\ mine.whole /\ ~mine.ignored =>
            now = <<mine.version>>

\* What was in the file when writeOut began is still there, then behind or
\* before the text, or in memory until it is; and in the backup.
Prepared(mine, place, now, memory, backup) ==
    mine.alone =>
        /\ place \in {"backup", "copy", "save"} => now = before
        /\ place = "opened" /\ mine.app => now = before
        /\ place \in {"saved", "second write"} /\ mine.ignored => now = before
        /\ place \in {"written", "saved", "done"} /\ mine.app /\ mine.whole =>
            now = IF mine.ignored THEN before ELSE before \o <<mine.version>>
        /\ place \in {"save", "opened", "written", "saved", "second write"} =>
            (mine.write_mode = WR_PREPEND => memory = before)
        /\ place = "second write" /\ mine.whole /\ ~mine.ignored =>
            now = <<mine.version>>
        /\ place = "done" /\ mine.whole /\ mine.write_mode = WR_PREPEND =>
            now = (IF mine.ignored THEN before ELSE <<mine.version>>) \o before
        /\ mine.backup /\ place # "backup" => backup = before

\* The text v is in a file.
Contains(file, v) == \E n \in 1..Len(file) : file[n] = v

\* What writeOut has written, or not because it is there, is in the file.
Kept(mine, place, now) ==
    /\ place \in {"written", "saved", "second write", "done"}
    /\ mine.alone /\ mine.whole /\ mine.version = text
    /\ mine.ignored => ~spoiled
    => text = 0 \/ Contains(now, text)

OnDisk ==
    LET mine == task["screen"]
    IN  /\ \A t \in Threads : Rewritten(task[t], at[t], disk[task[t].name])
        /\ Prepared(mine, at["screen"], disk[mine.name], buf, backups[mine.name])
        /\ Kept(mine, at["screen"], disk[mine.name])

\* A text that counts as saved is in its file, and nobody is writing there.
Unmodified ==
    ~modified /\ ~spoiled =>
        IF file_name = "" THEN text = 0
        ELSE /\ Holds(file_name, text)
             /\ \A t \in Threads : task[t].name = file_name =>
                    at[t] \notin {"opened", "written", "second write"}

SavingInv ==
    SavingTyped /\ Rivals /\ Along /\ OnDisk /\ Unmodified /\ ExitKeeps

\* A task is the same, but that its thread may no longer be alone.
Resumes(new, old) ==
    /\ new.name = old.name /\ new.write_mode = old.write_mode
    /\ new.app = old.app /\ new.backup = old.backup /\ new.exit = old.exit
    /\ new.version = old.version /\ new.whole = old.whole
    /\ new.ignored = old.ignored
    /\ new.alone => old.alone
-----------------------------------------------------------------------------
LEMMA TwoThreads ==
    /\ "screen" \in Threads /\ "cli" \in Threads /\ "screen" # "cli"
    /\ \A t \in Threads : t = "screen" \/ t = "cli"
BY DEF Threads

LEMMA NoTaskTyped ==
    /\ NoTask \in Tasks
    /\ NoTask.name = "" /\ ~NoTask.app /\ ~NoTask.backup /\ ~NoTask.ignored
    /\ NoTask.alone /\ NoTask.whole
BY DEF NoTask, Tasks, Modes, WR_ONLY, Nothing

LEMMA WithoutBackup ==
    ASSUME NEW r \in Tasks
    PROVE  LET new == [r EXCEPT !.backup = FALSE]
           IN  /\ new \in Tasks /\ ~new.backup /\ new.name = r.name
               /\ new.app = r.app /\ new.write_mode = r.write_mode
               /\ new.alone = r.alone /\ new.ignored = r.ignored
BY DEF Tasks

LEMMA WithVersion ==
    ASSUME NEW r \in Tasks, NEW v \in Int
    PROVE  LET new == [r EXCEPT !.version = v]
           IN  /\ new \in Tasks /\ new.version = v
               /\ new.name = r.name /\ new.app = r.app
               /\ new.write_mode = r.write_mode /\ new.backup = r.backup
               /\ new.alone = r.alone /\ new.ignored = r.ignored
BY DEF Tasks

LEMMA WithIgnored ==
    ASSUME NEW r \in Tasks
    PROVE  LET new == [r EXCEPT !.ignored = TRUE]
           IN  /\ new \in Tasks /\ new.version = r.version
               /\ new.name = r.name /\ new.app = r.app
               /\ new.write_mode = r.write_mode /\ new.backup = r.backup
               /\ new.alone = r.alone /\ new.ignored
BY DEF Tasks

LEMMA WithWhole ==
    ASSUME NEW r \in Tasks, NEW b \in BOOLEAN
    PROVE  LET new == [r EXCEPT !.whole = b]
           IN  /\ new \in Tasks /\ new.version = r.version
               /\ new.name = r.name /\ new.app = r.app
               /\ new.write_mode = r.write_mode /\ new.backup = r.backup
               /\ new.alone = r.alone /\ new.ignored = r.ignored
               /\ new.whole = b
BY DEF Tasks

LEMMA Files ==
    /\ <<>> \in Seq(Int) /\ NoFile \in Seq(Int)
    /\ \A s, r \in Seq(Int) : s \o r \in Seq(Int)
    /\ \A s \in Seq(Int) : Append(s, Cut) \in Seq(Int)
<1>1. Cut \in Int
  BY DEF Cut
<1>2. NoFile \in Seq(Int)
  BY DEF NoFile
<1> QED  BY <1>1, <1>2

LEMMA ContainsLonger ==
    ASSUME NEW s \in Seq(Int), NEW r \in Seq(Int), NEW v, Contains(s, v)
    PROVE  Contains(s \o r, v)
<1>1. PICK n \in 1..Len(s) : s[n] = v
  BY DEF Contains
<1>2. n \in 1..Len(s \o r) /\ (s \o r)[n] = s[n]
  OBVIOUS
<1> QED  BY <1>1, <1>2 DEF Contains

\* Changing a field of a task leaves the others.
LEMMA Resumed ==
    ASSUME NEW r \in Tasks, NEW b \in BOOLEAN, b => r.alone
    PROVE  [r EXCEPT !.alone = b] \in Tasks /\ Resumes([r EXCEPT !.alone = b], r)
           /\ [r EXCEPT !.alone = b].alone = b
BY DEF Tasks, Resumes

LEMMA SameTask == ASSUME NEW r PROVE Resumes(r, r)
BY DEF Resumes

\* What a thread that does not take the step keeps: whoever takes it either
\* is about another file, or this thread is not alone.
LEMMA Aside ==
    ASSUME SavingInv, SavingTyped',
           NEW t \in Threads,
           at'[t] = at[t], Resumes(task'[t], task[t]),
           text' = text \/ text' = text + 1,
           at[t] # "idle" /\ task'[t].alone /\ task[t].name \in Names =>
               disk'[task[t].name] = disk[task[t].name]
    PROVE  Working(task[t], at[t])'
           /\ Rewritten(task[t], at[t], disk[task[t].name])'
<1> DEFINE old == task[t]  new == task'[t]  place == at[t]
<1>1. Working(old, place) /\ Rewritten(old, place, disk[old.name])
  BY DEF SavingInv, Along, OnDisk
<1>2. text \in Nat /\ text' \in Nat
  BY DEF SavingInv, SavingTyped
<1>a. old.version \in 0..text => old.version \in 0..text'
  <2> HIDE DEF old
  <2> QED  BY <1>2
<1>3. Working(task[t], at[t])'
  BY <1>1, <1>a DEF Working, Resumes
<1>4. Rewritten(task[t], at[t], disk[task[t].name])'
  BY <1>1, <1>2 DEF Working, Rewritten, Resumes
<1> QED  BY <1>3, <1>4

\* The same for the screen.
LEMMA AsideScreen ==
    ASSUME SavingInv, SavingTyped',
           at'["screen"] = at["screen"],
           Resumes(task'["screen"], task["screen"]),
           text' = text \/ text' = text + 1,
           at["screen"] # "idle" /\ task'["screen"].alone /\ task["screen"].name \in Names =>
               disk'[task["screen"].name] = disk[task["screen"].name],
           UNCHANGED <<file_name, backups, buf, before>>,
           task'["screen"].alone /\ task["screen"].ignored /\ ~spoiled' => ~spoiled
                \/ at["screen"] \in {"failed", "exited"}
    PROVE  Settled(task["screen"], at["screen"])'
           /\ Prepared(task["screen"], at["screen"], disk[task["screen"].name], buf,
                       backups[task["screen"].name])'
           /\ Kept(task["screen"], at["screen"], disk[task["screen"].name])'
<1> DEFINE old == task["screen"]  new == task'["screen"]  place == at["screen"]
<1>1. /\ Working(old, place) /\ Settled(old, place)
      /\ Prepared(old, place, disk[old.name], buf, backups[old.name])
      /\ Kept(old, place, disk[old.name])
  BY TwoThreads DEF SavingInv, Along, OnDisk
<1>2. text \in Nat /\ text' \in Nat
  BY DEF SavingInv, SavingTyped
<1>3. Settled(task["screen"], at["screen"])'
  BY <1>1 DEF Settled, Resumes
<1>4. Prepared(task["screen"], at["screen"], disk[task["screen"].name], buf,
               backups[task["screen"].name])'
  <2>1. CASE at["screen"] = "idle"
    BY <1>1, <2>1 DEF Prepared, Resumes, Settled
  <2>2. CASE at["screen"] = "exited"
    BY <1>1, <2>2 DEF Prepared, Resumes, Settled
  <2>3. CASE at["screen"] \notin {"idle", "exited"}
    BY <1>1, <2>3 DEF Prepared, Resumes, Settled
  <2> QED  BY <2>1, <2>2, <2>3
<1>5. Kept(task["screen"], at["screen"], disk[task["screen"].name])'
  <2>1. CASE place \in {"written", "saved", "second write", "done"}
    <3>0. old.version \in 0..text
      BY <1>1, <2>1 DEF Working
    <3>1. text' = text + 1 => old.version # text'
      <4> HIDE DEF old
      <4> QED  BY <1>2, <3>0
    <3> QED  BY <1>1, <2>1, <3>1 DEF Kept, Resumes, Settled
  <2>2. CASE place \notin {"written", "saved", "second write", "done"}
    BY <2>2 DEF Kept
  <2> QED  BY <2>1, <2>2
<1> QED  BY <1>3, <1>4, <1>5

\* Who was about one file still is.
LEMMA StillRivals ==
    ASSUME Rivals,
           \A t \in Threads :
              \/ at'[t] = "idle" \/ task'[t].name = ""
              \/ /\ at[t] # "idle" /\ task'[t].name = task[t].name
                 /\ task'[t].alone => task[t].alone
    PROVE  Rivals'
BY DEF Rivals
-----------------------------------------------------------------------------
\* A thread begins: it, and a thread that is about the same file, are not
\* alone from now on.
LEMMA Beginning ==
    ASSUME SavingInv, NEW t \in Threads, NEW to \in Places,
           NEW new \in Tasks, new.alone, Begins(t, to, new), t = "cli" => to \in InSave
    PROVE  /\ at' \in [Threads -> Places] /\ at'["cli"] \in InSave
           /\ task' \in [Threads -> Tasks] /\ saves' \in [Threads -> Nat]
           /\ at[t] = "idle" /\ at'[t] = to /\ Resumes(task'[t], new)
           /\ \A u \in Threads : u # t =>
                at'[u] = at[u] /\ Resumes(task'[u], task[u])
           /\ Rivals'
<1> DEFINE rivals == { u \in Threads \ {t} : at[u] # "idle" /\ task[u].name = new.name }
           lone(u) == task[u].alone /\ u \notin rivals
<1>1. /\ at \in [Threads -> Places] /\ at["cli"] \in InSave
      /\ task \in [Threads -> Tasks] /\ saves \in [Threads -> Nat]
  BY DEF SavingInv, SavingTyped
<1>2. /\ at[t] = "idle" /\ at' = [at EXCEPT ![t] = to]
      /\ task' = [u \in Threads |->
                    IF u = t THEN [new EXCEPT !.alone = rivals = {}]
                    ELSE [task[u] EXCEPT !.alone = lone(u)]]
      /\ saves[t] > 0 /\ saves' = [saves EXCEPT ![t] = @ - 1]
  <2>1. \A u \in Threads : [task[u] EXCEPT !.alone = @ /\ u \notin rivals]
                           = [task[u] EXCEPT !.alone = lone(u)]
    BY <1>1 DEF Tasks
  <2> QED  BY <2>1 DEF Begins, Goes
<1>3. at' \in [Threads -> Places] /\ at'["cli"] \in InSave
  BY <1>1, <1>2, TwoThreads
<1>4. saves' \in [Threads -> Nat]
  BY <1>1, <1>2
<1>5. ASSUME NEW u \in Threads, u # t
      PROVE  /\ task'[u] \in Tasks /\ Resumes(task'[u], task[u])
             /\ task'[u].alone = lone(u)
  <2>1. task'[u] = [task[u] EXCEPT !.alone = lone(u)]
    BY <1>2, <1>5
  <2>2. task[u] \in Tasks
    BY <1>1
  <2>3. lone(u) \in BOOLEAN /\ (lone(u) => task[u].alone)
    BY <2>2 DEF Tasks
  <2> HIDE DEF lone
  <2> QED  BY <2>1, <2>2, <2>3, Resumed
<1>6. /\ task'[t] \in Tasks /\ Resumes(task'[t], new)
      /\ task'[t].alone = (rivals = {})
  <2>1. task'[t] = [new EXCEPT !.alone = rivals = {}]
    BY <1>2
  <2> HIDE DEF rivals
  <2>2. (rivals = {}) \in BOOLEAN
    OBVIOUS
  <2> DEFINE b == rivals = {}
  <2>3. b \in BOOLEAN /\ task'[t] = [new EXCEPT !.alone = b] /\ (b => new.alone)
    BY <2>1, <2>2
  <2> HIDE DEF b
  <2>4. task'[t] \in Tasks /\ Resumes(task'[t], new) /\ task'[t].alone = b
    BY <2>3, Resumed
  <2> QED  BY <2>4 DEF b
<1>7. task' \in [Threads -> Tasks]
  BY <1>2, <1>5, <1>6
<1>8. Rivals'
  <2> SUFFICES ASSUME NEW u \in Threads, NEW v \in Threads, u # v,
                      at'[u] # "idle", at'[v] # "idle", task'[u].name = task'[v].name,
                      task'[u].name # ""
               PROVE  ~task'[u].alone
    BY DEF Rivals
  <2>1. CASE u = t
    <3>1. at[v] # "idle" /\ task[v].name = new.name
      BY <1>1, <1>2, <1>5, <1>6, <2>1 DEF Resumes
    <3> QED  BY <1>6, <2>1, <3>1
  <2>2. CASE v = t
    <3>1. at[u] # "idle" /\ task[u].name = new.name
      BY <1>1, <1>2, <1>5, <1>6, <2>2 DEF Resumes
    <3> QED  BY <1>5, <2>2, <3>1
  <2>3. CASE u # t /\ v # t
    BY <2>3, TwoThreads
  <2> QED  BY <2>1, <2>2, <2>3
<1>9. \A u \in Threads : u # t => at'[u] = at[u]
  BY <1>1, <1>2
<1> QED  BY <1>2, <1>1, <1>3, <1>4, <1>5, <1>6, <1>7, <1>8, <1>9

LEMMA EditStep == ASSUME SavingInv, Edit PROVE SavingInv'
<1>1. /\ text' = text + 1 /\ modified' = TRUE /\ at["screen"] # "exited"
      /\ UNCHANGED <<file_name, disk, backups, at, task, buf, before, spoiled,
                     discarded, saves>>
  BY DEF Edit, Running, diskVars, ghostVars
<1>2. SavingTyped'
  <2>1. SavingTyped
    BY DEF SavingInv
  <2>2. text \in Nat
    BY <2>1 DEF SavingTyped
  <2>3. text' \in Nat
    BY <1>1, <2>2
  <2> QED  BY <1>1, <2>1, <2>3 DEF SavingTyped
<1>3. Rivals'
  BY <1>1 DEF SavingInv, Rivals
<1>4. Along' /\ OnDisk'
  BY <1>1, <1>2, Aside, AsideScreen, SameTask, TwoThreads DEF Along, OnDisk
<1>5. Unmodified' /\ ExitKeeps'
  BY <1>1 DEF Unmodified, ExitKeeps
<1> QED  BY <1>2, <1>3, <1>4, <1>5 DEF SavingInv

LEMMA CliSaveStep == ASSUME SavingInv, CliSave PROVE SavingInv'
<1>1. PICK name \in Names \cup {file_name} :
            Begins("cli", "save", [NoTask EXCEPT !.name = name])
  BY DEF CliSave
<1> DEFINE new == [NoTask EXCEPT !.name = name]
<1>2. new \in Tasks /\ new.alone /\ ~new.ignored
  <2>1. name \in Names \cup {""}
    BY DEF SavingInv, SavingTyped
  <2> QED  BY <2>1, NoTaskTyped DEF Tasks
<1>3. /\ at["screen"] # "exited"
      /\ UNCHANGED <<text, modified, file_name, disk, backups, buf, before, spoiled, discarded>>
  BY DEF CliSave, Running, fileVars, diskVars
<1> HIDE DEF new
<1>4. /\ at' \in [Threads -> Places] /\ at'["cli"] \in InSave
      /\ task' \in [Threads -> Tasks] /\ saves' \in [Threads -> Nat]
      /\ at["cli"] = "idle" /\ at'["cli"] = "save" /\ Resumes(task'["cli"], new)
      /\ at'["screen"] = at["screen"] /\ Resumes(task'["screen"], task["screen"])
      /\ Rivals'
  <2>1. "save" \in Places /\ "save" \in InSave /\ Begins("cli", "save", new)
    BY <1>1 DEF Places, InSave, new
  <2> QED  BY <1>2, <2>1, Beginning, TwoThreads
<1>5. SavingTyped'
  BY <1>3, <1>4 DEF SavingInv, SavingTyped
<1>6. Along' /\ OnDisk'
  <2>1. Working(task["cli"], at["cli"])' /\ Rewritten(task["cli"], at["cli"], disk[task["cli"].name])'
    BY <1>2, <1>4 DEF Working, Rewritten, Resumes
  <2> QED
    BY <1>3, <1>4, <1>5, <2>1, Aside, AsideScreen, TwoThreads DEF Along, OnDisk
<1>7. Unmodified'
  <2>1. \A t \in Threads : task[t].name = file_name \/ at'[t] = "save"
            \/ task'[t].name # file_name
    BY <1>4, TwoThreads DEF Resumes
  <2>2. \A t \in Threads : at'[t] = at[t] \/ at'[t] = "save"
    BY <1>4, TwoThreads
  <2> QED  BY <1>3, <2>1, <2>2 DEF SavingInv, Unmodified, Holds
<1>8. ExitKeeps'
  BY <1>3, <1>4 DEF ExitKeeps
<1> QED  BY <1>4, <1>5, <1>6, <1>7, <1>8 DEF SavingInv

LEMMA CliReturnStep == ASSUME SavingInv, CliReturn PROVE SavingInv'
<1>1. /\ at["screen"] # "exited" /\ at["cli"] \in {"saved", "failed"}
      /\ at' = [at EXCEPT !["cli"] = "idle"]
      /\ task' = [task EXCEPT !["cli"] = NoTask]
      /\ UNCHANGED <<text, modified, file_name, disk, backups, buf, before,
                     spoiled, discarded, saves>>
  BY DEF CliReturn, Running, fileVars, diskVars, ghostVars
<1>2. /\ at \in [Threads -> Places] /\ task \in [Threads -> Tasks]
  BY DEF SavingInv, SavingTyped
<1>3. /\ at' \in [Threads -> Places] /\ at'["cli"] \in InSave
      /\ task' \in [Threads -> Tasks]
      /\ at'["cli"] = "idle" /\ task'["cli"] = NoTask
      /\ at'["screen"] = at["screen"] /\ task'["screen"] = task["screen"]
  BY <1>1, <1>2, TwoThreads, NoTaskTyped DEF Places, InSave
<1>4. SavingTyped'
  BY <1>1, <1>3 DEF SavingInv, SavingTyped
<1>5. Rivals'
  BY <1>3, StillRivals, TwoThreads, NoTaskTyped DEF SavingInv, Rivals
<1>6. Along' /\ OnDisk'
  <2>1. Working(task["cli"], at["cli"])' /\ Rewritten(task["cli"], at["cli"], disk[task["cli"].name])'
    BY <1>3, NoTaskTyped DEF Working, Rewritten
  <2> QED
    BY <1>1, <1>3, <1>4, <2>1, Aside, AsideScreen, SameTask, TwoThreads DEF Along, OnDisk
<1>7. Unmodified'
  <2>1. \A t \in Threads : (at'[t] = at[t] /\ task'[t] = task[t]) \/ at'[t] = "idle"
    BY <1>3, TwoThreads
  <2> QED  BY <1>1, <2>1 DEF SavingInv, Unmodified, Holds
<1>8. ExitKeeps'
  BY <1>1, <1>3 DEF ExitKeeps
<1> QED  BY <1>4, <1>5, <1>6, <1>7, <1>8 DEF SavingInv

LEMMA WriteOutStep ==
    ASSUME SavingInv, Running, NEW exit \in BOOLEAN, WriteOut(exit) PROVE SavingInv'
<1>1. PICK name \in Names, mode \in {WR_ONLY, WR_APPEND, WR_PREPEND}, backup \in BOOLEAN :
        LET exists == disk[name] # NoFile
            new == [NoTask EXCEPT !.name = name, !.write_mode = mode,
                        !.app = mode = WR_APPEND /\ exists,
                        !.backup = backup /\ IF mode = WR_ONLY
                                             THEN name = file_name ELSE exists,
                        !.exit = exit]
        IN  /\ Begins("screen", First(new), new)
            /\ before' = disk[name]
            /\ buf' = <<>>
            /\ UNCHANGED <<fileVars, diskVars, spoiled, discarded>>
  BY DEF WriteOut
<1> DEFINE exists == disk[name] # NoFile
           app == mode = WR_APPEND /\ exists
           saves_old == backup /\ IF mode = WR_ONLY THEN name = file_name ELSE exists
           new == [NoTask EXCEPT !.name = name, !.write_mode = mode,
                        !.app = app, !.backup = saves_old, !.exit = exit]
           to == First(new)
<1>2. /\ Begins("screen", to, new) /\ before' = disk[name] /\ buf' = <<>>
      /\ UNCHANGED <<text, modified, file_name, disk, backups, spoiled, discarded>>
  BY <1>1 DEF fileVars, diskVars
<1>3. /\ new \in Tasks /\ new.alone /\ ~new.ignored
      /\ new.name = name /\ new.write_mode = mode /\ new.app = app /\ new.backup = saves_old
  <2>1. app \in BOOLEAN /\ saves_old \in BOOLEAN
    OBVIOUS
  <2> HIDE DEF app, saves_old
  <2> QED  BY <2>1, NoTaskTyped DEF Tasks, Modes
<1> HIDE DEF new
<1>4. /\ to \in {"failed", "backup", "copy", "save"}
      /\ new.backup => to = "backup"
      /\ to = "copy" => mode = WR_PREPEND
      /\ mode = WR_PREPEND => to # "save"
  BY <1>3 DEF First, WR_PREPEND, WR_ONLY
<1> HIDE DEF to
<1>5. /\ at' \in [Threads -> Places] /\ at'["cli"] \in InSave
      /\ task' \in [Threads -> Tasks] /\ saves' \in [Threads -> Nat]
      /\ at["screen"] = "idle" /\ at'["screen"] = to /\ Resumes(task'["screen"], new)
      /\ at'["cli"] = at["cli"] /\ Resumes(task'["cli"], task["cli"])
      /\ Rivals'
  <2>1. to \in Places
    BY <1>4 DEF Places, InSave
  <2> QED  BY <1>2, <1>3, <2>1, Beginning, TwoThreads
<1>6. SavingTyped'
  <2>1. SavingTyped
    BY DEF SavingInv
  <2>2. before' \in Seq(Int) /\ buf' \in Seq(Int)
    <3>1. disk \in [Names -> Seq(Int)]
      BY <2>1 DEF SavingTyped
    <3>2. disk[name] \in Seq(Int)
      BY <3>1
    <3> QED  BY <1>2, <3>2
  <2> QED  BY <1>2, <1>5, <2>1, <2>2 DEF SavingTyped
<1>7. Along'
  <2>1. Working(task["screen"], at["screen"])' /\ Settled(task["screen"], at["screen"])'
    BY <1>2, <1>3, <1>4, <1>5 DEF Working, Settled, Resumes
  <2>2. Working(task["cli"], at["cli"])'
    BY <1>2, <1>5, <1>6, Aside, TwoThreads
  <2> QED  BY <2>1, <2>2, TwoThreads DEF Along
<1>8. OnDisk'
  <2>1. Rewritten(task["cli"], at["cli"], disk[task["cli"].name])'
    BY <1>2, <1>5, <1>6, Aside, TwoThreads
  <2>2. Rewritten(task["screen"], at["screen"], disk[task["screen"].name])'
    BY <1>4, <1>5 DEF Rewritten
  <2>3. Prepared(task["screen"], at["screen"], disk[task["screen"].name], buf,
                 backups[task["screen"].name])'
    <3>1. /\ task'["screen"].name = name /\ task'["screen"].write_mode = mode
          /\ task'["screen"].backup = saves_old
      BY <1>3, <1>5 DEF Resumes
    <3>2. disk'[name] = before'
      BY <1>2
    <3> QED  BY <1>3, <1>4, <1>5, <3>1, <3>2 DEF Prepared
  <2>4. Kept(task["screen"], at["screen"], disk[task["screen"].name])'
    BY <1>4, <1>5 DEF Kept
  <2> QED  BY <2>1, <2>2, <2>3, <2>4, TwoThreads DEF OnDisk
<1>9. Unmodified'
  <2>1. at'["screen"] \notin {"opened", "written", "second write"}
    BY <1>4, <1>5
  <2>2. \A t \in Threads : at'[t] \in {"opened", "written", "second write"}
            => task'[t].name = task[t].name /\ at'[t] = at[t]
    BY <2>1, <1>5, TwoThreads DEF Resumes
  <2> QED  BY <1>2, <2>2 DEF SavingInv, Unmodified, Holds
<1>10. ExitKeeps'
  BY <1>4, <1>5 DEF ExitKeeps
<1> QED  BY <1>5, <1>6, <1>7, <1>8, <1>9, <1>10 DEF SavingInv

LEMMA ExitStep == ASSUME SavingInv, Exit PROVE SavingInv'
<1>1. /\ at["screen"] = "idle" /\ at' = [at EXCEPT !["screen"] = "exited"]
      /\ discarded' = modified
      /\ UNCHANGED <<text, modified, file_name, disk, backups, task, buf, before, spoiled, saves>>
  BY DEF Exit, Goes, fileVars, diskVars
<1>2. /\ at \in [Threads -> Places] /\ at["cli"] \in InSave /\ disk \in [Names -> Seq(Int)]
      /\ file_name \in Names \cup {""}
  BY DEF SavingInv, SavingTyped
<1>3. /\ at' \in [Threads -> Places] /\ at'["cli"] = at["cli"] /\ at'["screen"] = "exited"
  BY <1>1, <1>2, TwoThreads DEF Places
<1>4. SavingTyped'
  BY <1>1, <1>2, <1>3 DEF SavingInv, SavingTyped
<1>5. /\ Settled(task["screen"], "idle") /\ Working(task["screen"], "idle")
  BY <1>1, TwoThreads DEF SavingInv, Along
<1>6. Rivals'
  BY <1>1, <1>3, <1>5, StillRivals, TwoThreads DEF SavingInv, Settled
<1>7. Along' /\ OnDisk'
  <2>1. Working(task["cli"], at["cli"])' /\ Rewritten(task["cli"], at["cli"], disk[task["cli"].name])'
    BY <1>1, <1>3, <1>4, Aside, SameTask, TwoThreads
  <2>2. Working(task["screen"], at["screen"])' /\ Settled(task["screen"], at["screen"])'
    BY <1>1, <1>3, <1>5 DEF Working, Settled
  <2>3. /\ Rewritten(task["screen"], at["screen"], disk[task["screen"].name])'
        /\ Kept(task["screen"], at["screen"], disk[task["screen"].name])'
        /\ Prepared(task["screen"], at["screen"], disk[task["screen"].name], buf,
                    backups[task["screen"].name])'
    BY <1>1, <1>3, <1>5 DEF Rewritten, Kept, Prepared, Settled
  <2> QED  BY <2>1, <2>2, <2>3, TwoThreads DEF Along, OnDisk
<1>8. Unmodified'
  <2>1. \A t \in Threads : at'[t] = at[t] \/ at'[t] = "exited"
    BY <1>3, TwoThreads
  <2> QED  BY <1>1, <2>1 DEF SavingInv, Unmodified, Holds
<1>9. ExitKeeps'
  <2> SUFFICES ASSUME ~modified, ~spoiled
               PROVE  text = 0 \/ \E f \in Names : \E n \in 1..Len(disk[f]) : disk[f][n] = text
    BY <1>1 DEF ExitKeeps
  <2>1. CASE file_name = ""
    BY <2>1 DEF SavingInv, Unmodified
  <2>2. CASE file_name # ""
    <3>1. disk[file_name] = <<text>> \/ text = 0
      BY <2>2 DEF SavingInv, Unmodified, Holds
    <3>2. disk[file_name] = <<text>> => 1 \in 1..Len(disk[file_name]) /\ disk[file_name][1] = text
      OBVIOUS
    <3> QED  BY <1>2, <2>2, <3>1, <3>2
  <2> QED  BY <2>1, <2>2
<1> QED  BY <1>4, <1>6, <1>7, <1>8, <1>9 DEF SavingInv

-----------------------------------------------------------------------------
\* A step of thread t changes no file but its own: the other thread keeps
\* what it has, if it is alone.
LEMMA OnlyOne ==
    ASSUME SavingInv, SavingTyped', NEW t \in Threads, at[t] # "idle", text' = text,
           \A u \in Threads : u # t => at'[u] = at[u] /\ task'[u] = task[u],
           \/ at'[t] = "idle" /\ task'[t].name = ""
           \/ task'[t].name = task[t].name /\ (task'[t].alone => task[t].alone),
           \A f \in Names : f = task[t].name \/ disk'[f] = disk[f]
    PROVE  /\ Rivals'
           /\ \A u \in Threads : u # t =>
                /\ Working(task[u], at[u])'
                /\ Rewritten(task[u], at[u], disk[task[u].name])'
                /\ at[u] # "idle" /\ task[u].alone /\ task[u].name \in Names =>
                      task[u].name # task[t].name /\ disk'[task[u].name] = disk[task[u].name]
<1>1. Rivals'
  <2>1. Rivals
    BY DEF SavingInv
  <2>2. ASSUME NEW u \in Threads
        PROVE  \/ at'[u] = "idle" \/ task'[u].name = ""
               \/ /\ at[u] # "idle" /\ task'[u].name = task[u].name
                  /\ task'[u].alone => task[u].alone
    BY DEF SavingInv, Rivals
  <2> QED  BY <2>1, <2>2, StillRivals
<1>2. ASSUME NEW u \in Threads, u # t,
             at[u] # "idle", task[u].alone, task[u].name \in Names
      PROVE  task[u].name # task[t].name /\ disk'[task[u].name] = disk[task[u].name]
  <2>1. task[u].name # ""
    BY <1>2, NamesAssumption
  <2>2. task[u].name # task[t].name
    BY <1>2, <2>1 DEF SavingInv, Rivals
  <2> QED  BY <1>2, <2>2
<1>3. ASSUME NEW u \in Threads, u # t
      PROVE  Working(task[u], at[u])' /\ Rewritten(task[u], at[u], disk[task[u].name])'
  <2>1. at'[u] = at[u] /\ task'[u] = task[u]
    BY <1>3
  <2>2. at[u] # "idle" /\ task'[u].alone /\ task[u].name \in Names =>
            disk'[task[u].name] = disk[task[u].name]
    BY <1>2, <1>3, <2>1
  <2> QED  BY <2>1, <2>2, Aside, SameTask
<1> QED  BY <1>1, <1>2, <1>3

LEMMA OnlyCli ==
    ASSUME SavingInv, SavingTyped', at["cli"] # "idle", text' = text,
           at'["screen"] = at["screen"], task'["screen"] = task["screen"],
           \/ at'["cli"] = "idle" /\ task'["cli"].name = ""
           \/ task'["cli"].name = task["cli"].name /\ (task'["cli"].alone => task["cli"].alone),
           \A f \in Names : f = task["cli"].name \/ disk'[f] = disk[f],
           UNCHANGED <<file_name, backups, buf, before>>,
           spoiled /\ ~spoiled' => task["cli"].name = file_name
    PROVE  /\ Rivals'
           /\ Working(task["screen"], at["screen"])'
           /\ Rewritten(task["screen"], at["screen"], disk[task["screen"].name])'
           /\ Settled(task["screen"], at["screen"])'
           /\ Prepared(task["screen"], at["screen"], disk[task["screen"].name], buf,
                       backups[task["screen"].name])'
           /\ Kept(task["screen"], at["screen"], disk[task["screen"].name])'
<1>1. /\ Rivals' /\ Working(task["screen"], at["screen"])'
      /\ Rewritten(task["screen"], at["screen"], disk[task["screen"].name])'
      /\ at["screen"] # "idle" /\ task["screen"].alone /\ task["screen"].name \in Names =>
            /\ task["screen"].name # task["cli"].name
            /\ disk'[task["screen"].name] = disk[task["screen"].name]
  <2>1. \A u \in Threads : u # "cli" => at'[u] = at[u] /\ task'[u] = task[u]
    BY TwoThreads
  <2> QED  BY <2>1, OnlyOne, TwoThreads
<1>2. task'["screen"].alone /\ task["screen"].ignored /\ ~spoiled' => ~spoiled
        \/ at["screen"] \in {"failed", "exited"}
  <2>1. /\ Working(task["screen"], at["screen"]) /\ Settled(task["screen"], at["screen"])
    BY TwoThreads DEF SavingInv, Along
  <2> QED  BY <1>1, <2>1 DEF Working, Settled
<1> QED  BY <1>1, <1>2, AsideScreen, SameTask

LEMMA OnlyScreen ==
    ASSUME SavingInv, SavingTyped', at["screen"] # "idle", text' = text,
           at'["cli"] = at["cli"], task'["cli"] = task["cli"],
           \/ at'["screen"] = "idle" /\ task'["screen"].name = ""
           \/ /\ task'["screen"].name = task["screen"].name
              /\ task'["screen"].alone => task["screen"].alone,
           \A f \in Names : f = task["screen"].name \/ disk'[f] = disk[f]
    PROVE  /\ Rivals'
           /\ Working(task["cli"], at["cli"])'
           /\ Rewritten(task["cli"], at["cli"], disk[task["cli"].name])'
<1>1. \A u \in Threads : u # "screen" => at'[u] = at[u] /\ task'[u] = task[u]
  BY TwoThreads
<1> QED  BY <1>1, OnlyOne, TwoThreads

LEMMA CopyFileToMemStep == ASSUME SavingInv, CopyFileToMem PROVE SavingInv'
<1> DEFINE mine == task["screen"]  to == at'["screen"]
<1>1. /\ at["screen"] = "copy" /\ at' = [at EXCEPT !["screen"] = to]
      /\ UNCHANGED <<text, modified, file_name, disk, backups, task, before,
                     spoiled, discarded, saves>>
      /\ \/ to = "failed" /\ buf' = buf
         \/ to = "save" /\ buf' = disk[mine.name]
  BY DEF CopyFileToMem, Goes, fileVars, diskVars, ghostVars, SavingInv, SavingTyped, Threads
<1>2. /\ at \in [Threads -> Places] /\ at["cli"] \in InSave /\ task \in [Threads -> Tasks]
      /\ disk \in [Names -> Seq(Int)] /\ buf \in Seq(Int)
  BY DEF SavingInv, SavingTyped
<1>3. /\ Working(mine, "copy") /\ Settled(mine, "copy")
      /\ Rewritten(mine, "copy", disk[mine.name])
      /\ Prepared(mine, "copy", disk[mine.name], buf, backups[mine.name])
  BY <1>1, TwoThreads DEF SavingInv, Along, OnDisk
<1>4. mine.name \in Names
  BY <1>3 DEF Settled
<1>5. SavingTyped'
  <2>1. at' \in [Threads -> Places] /\ at'["cli"] \in InSave
    BY <1>1, <1>2, TwoThreads DEF Places, InSave
  <2>2. buf' \in Seq(Int)
    BY <1>1, <1>2, <1>4
  <2> QED  BY <1>1, <2>1, <2>2 DEF SavingInv, SavingTyped
<1>6. /\ Rivals' /\ Working(task["cli"], at["cli"])'
      /\ Rewritten(task["cli"], at["cli"], disk[task["cli"].name])'
  BY <1>1, <1>2, <1>5, OnlyScreen, TwoThreads
<1>7. Along' /\ OnDisk'
  <2>1. Working(task["screen"], at["screen"])' /\ Settled(task["screen"], at["screen"])'
    BY <1>1, <1>3 DEF Working, Settled
  <2>2. /\ Rewritten(task["screen"], at["screen"], disk[task["screen"].name])'
        /\ Kept(task["screen"], at["screen"], disk[task["screen"].name])'
    BY <1>1 DEF Rewritten, Kept
  <2>3. Prepared(task["screen"], at["screen"], disk[task["screen"].name], buf,
                    backups[task["screen"].name])'
    BY <1>1, <1>3 DEF Prepared
  <2> QED  BY <1>6, <2>1, <2>2, <2>3, TwoThreads DEF Along, OnDisk
<1>8. Unmodified'
  <2>1. \A t \in Threads : at'[t] = at[t] \/ at'[t] \in {"failed", "save"}
    BY <1>1, <1>2, TwoThreads
  <2> QED  BY <1>1, <2>1 DEF SavingInv, Unmodified, Holds
<1>9. ExitKeeps'
  BY <1>1 DEF ExitKeeps
<1> QED  BY <1>5, <1>6, <1>7, <1>8, <1>9 DEF SavingInv

LEMMA BackupFileStep == ASSUME SavingInv, BackupFile PROVE SavingInv'
<1> DEFINE mine == task["screen"]  to == at'["screen"]
<1>1. /\ at \in [Threads -> Places] /\ at["cli"] \in InSave /\ task \in [Threads -> Tasks]
      /\ disk \in [Names -> Seq(Int)] /\ backups \in [Names -> Seq(Int)]
  BY DEF SavingInv, SavingTyped
<1>2. /\ at["screen"] = "backup" /\ at' = [at EXCEPT !["screen"] = to]
      /\ UNCHANGED <<text, modified, file_name, disk, buf, before,
                     spoiled, discarded, saves>>
      /\ \/ /\ to = AfterBackup
            /\ backups' = [backups EXCEPT ![mine.name] = disk[mine.name]]
            /\ task' = task
         \/ /\ to = "failed"
            /\ \/ backups' = backups
               \/ backups' = [backups EXCEPT ![mine.name] = <<Cut>>]
            /\ task' = [task EXCEPT !["screen"] = [@ EXCEPT !.backup = FALSE]]
  BY <1>1, TwoThreads DEF BackupFile, Goes, fileVars, diskVars, ghostVars
<1>3. /\ Working(mine, "backup") /\ Settled(mine, "backup")
      /\ Prepared(mine, "backup", disk[mine.name], buf, backups[mine.name])
  BY <1>2, TwoThreads DEF SavingInv, Along, OnDisk
<1>4. mine.name \in Names /\ mine \in Tasks
  BY <1>1, <1>3, TwoThreads DEF Settled
<1>5. /\ to \in {"copy", "save", "failed"}
      /\ to = "copy" => mine.write_mode = WR_PREPEND
      /\ to = "save" => mine.write_mode # WR_PREPEND
  BY <1>2 DEF AfterBackup
<1>6. /\ task' \in [Threads -> Tasks] /\ task'["cli"] = task["cli"]
      /\ task'["screen"].name = mine.name /\ task'["screen"].alone = mine.alone
      /\ task'["screen"].write_mode = mine.write_mode
      /\ task'["screen"].app = mine.app /\ task'["screen"].ignored = mine.ignored
      /\ to = "failed" => ~task'["screen"].backup
      /\ to # "failed" => task'["screen"] = mine
  <2>1. CASE to = AfterBackup /\ task' = task
    BY <1>1, <1>2, <1>5, <2>1 DEF AfterBackup
  <2>2. CASE to = "failed" /\ task' = [task EXCEPT !["screen"] = [@ EXCEPT !.backup = FALSE]]
    <3> DEFINE new == [mine EXCEPT !.backup = FALSE]
    <3>1. task' = [task EXCEPT !["screen"] = new]
      BY <1>1, <2>2
    <3>2. /\ new \in Tasks /\ ~new.backup /\ new.name = mine.name
          /\ new.app = mine.app /\ new.write_mode = mine.write_mode
          /\ new.alone = mine.alone /\ new.ignored = mine.ignored
      BY <1>4, WithoutBackup
    <3> HIDE DEF new
    <3> QED  BY <1>1, <2>2, <3>1, <3>2, TwoThreads
  <2> QED  BY <1>2, <2>1, <2>2
<1>7. SavingTyped'
  <2>1. at' \in [Threads -> Places] /\ at'["cli"] \in InSave
    BY <1>1, <1>2, <1>5, TwoThreads DEF Places, InSave
  <2>2. backups' \in [Names -> Seq(Int)]
    <3>1. disk[mine.name] \in Seq(Int) /\ <<Cut>> \in Seq(Int)
      BY <1>1, <1>4 DEF Cut
    <3> QED  BY <1>1, <1>2, <3>1
  <2> QED  BY <1>2, <1>6, <2>1, <2>2 DEF SavingInv, SavingTyped
<1>8. /\ Rivals' /\ Working(task["cli"], at["cli"])'
      /\ Rewritten(task["cli"], at["cli"], disk[task["cli"].name])'
  <2>1. at'["cli"] = at["cli"]
    BY <1>1, <1>2, TwoThreads
  <2>2. at["screen"] # "idle"
    BY <1>2
  <2> QED  BY <1>2, <1>6, <1>7, <2>1, <2>2, OnlyScreen
<1>9. Along' /\ OnDisk'
  <2>1. Working(task["screen"], at["screen"])' /\ Settled(task["screen"], at["screen"])'
    BY <1>2, <1>3, <1>5, <1>6 DEF Working, Settled
  <2>2. /\ Rewritten(task["screen"], at["screen"], disk[task["screen"].name])'
        /\ Kept(task["screen"], at["screen"], disk[task["screen"].name])'
    BY <1>5 DEF Rewritten, Kept
  <2>3. Prepared(task["screen"], at["screen"], disk[task["screen"].name], buf,
                    backups[task["screen"].name])'
    <3>1. CASE to = "failed"
      BY <1>6, <3>1 DEF Prepared
    <3>2. CASE to # "failed"
      <4>1. mine.alone => disk[mine.name] = before
        BY <1>3 DEF Prepared
      <4>2. disk'[mine.name] = disk[mine.name] /\ backups'[mine.name] = disk[mine.name]
        BY <1>1, <1>2, <1>4, <3>2
      <4> QED  BY <1>2, <1>5, <1>6, <3>2, <4>1, <4>2 DEF Prepared
    <3> QED  BY <3>1, <3>2
  <2> QED  BY <1>8, <2>1, <2>2, <2>3, TwoThreads DEF Along, OnDisk
<1>10. Unmodified'
  <2>1. \A t \in Threads : \/ at'[t] = at[t] /\ task'[t] = task[t]
                           \/ at'[t] \in {"copy", "failed", "save"}
    BY <1>1, <1>2, <1>5, <1>6, TwoThreads
  <2> QED  BY <1>2, <2>1 DEF SavingInv, Unmodified, Holds
<1>11. ExitKeeps'
  BY <1>5 DEF ExitKeeps
<1> QED  BY <1>7, <1>8, <1>9, <1>10, <1>11 DEF SavingInv

LEMMA AfterSavingStep == ASSUME SavingInv, AfterSaving PROVE SavingInv'
<1> DEFINE mine == task["screen"]
           to == IF WritesTwice(mine) THEN "second write" ELSE "done"
           named == mine.write_mode = WR_ONLY /\ file_name = ""
<1>1. /\ at \in [Threads -> Places] /\ at["cli"] \in InSave /\ task \in [Threads -> Tasks]
      /\ modified \in BOOLEAN /\ spoiled \in BOOLEAN /\ file_name \in Names \cup {""}
  BY DEF SavingInv, SavingTyped
<1>2. /\ at["screen"] = "saved" /\ at' = [at EXCEPT !["screen"] = to]
      /\ UNCHANGED <<text, disk, backups, task, buf, before, discarded, saves>>
      /\ \/ /\ named /\ file_name' = mine.name
            /\ modified' = FALSE /\ spoiled' = Excused("screen")
         \/ /\ ~named /\ mine.write_mode = WR_ONLY
            /\ UNCHANGED <<file_name, modified, spoiled>>
         \/ /\ ~named /\ mine.write_mode # WR_ONLY
            /\ modified' = (modified \/ mine.name = file_name)
            /\ UNCHANGED <<file_name, spoiled>>
  BY DEF AfterSaving, Goes, diskVars
<1>3. /\ Working(mine, "saved") /\ Settled(mine, "saved")
      /\ Rewritten(mine, "saved", disk[mine.name])
      /\ Prepared(mine, "saved", disk[mine.name], buf, backups[mine.name])
      /\ Kept(mine, "saved", disk[mine.name])
  BY <1>2, TwoThreads DEF SavingInv, Along, OnDisk
<1>4. mine.name \in Names /\ mine.name # "" /\ mine \in Tasks
  BY <1>1, <1>3, NamesAssumption, TwoThreads DEF Settled
<1>5. /\ to \in {"second write", "done"}
      /\ to = "second write" <=> mine.write_mode # WR_ONLY /\ ~mine.app
      /\ mine.app => mine.write_mode = WR_APPEND
      /\ named => ~mine.ignored /\ ~mine.app
  BY <1>3, <1>4 DEF WritesTwice, Settled, WR_APPEND, WR_ONLY
<1> HIDE DEF to
<1>6. at' \in [Threads -> Places] /\ at'["cli"] = at["cli"] /\ at'["screen"] = to
  BY <1>1, <1>2, <1>5, TwoThreads DEF Places
<1>7. SavingTyped'
  <2>1. modified' \in BOOLEAN /\ spoiled' \in BOOLEAN /\ file_name' \in Names \cup {""}
    BY <1>1, <1>2, <1>4 DEF Excused
  <2> QED  BY <1>1, <1>2, <1>6, <2>1 DEF SavingInv, SavingTyped
<1>8. /\ Rivals' /\ Working(task["cli"], at["cli"])'
      /\ Rewritten(task["cli"], at["cli"], disk[task["cli"].name])'
      /\ at["cli"] # "idle" /\ task["cli"].alone /\ task["cli"].name \in Names =>
           task["cli"].name # mine.name
  BY <1>2, <1>6, <1>7, OnlyOne, TwoThreads
<1>9. Along' /\ OnDisk'
  <2>1. Working(task["screen"], at["screen"])'
    BY <1>2, <1>3, <1>5, <1>6 DEF Working
  <2>2. Settled(task["screen"], at["screen"])'
    BY <1>2, <1>3, <1>5, <1>6 DEF Settled
  <2>3. Rewritten(task["screen"], at["screen"], disk[task["screen"].name])'
    BY <1>5, <1>6 DEF Rewritten
  <2>4. Prepared(task["screen"], at["screen"], disk[task["screen"].name], buf,
                 backups[task["screen"].name])'
    <3>1. CASE to = "second write"
      BY <1>2, <1>3, <1>5, <1>6, <3>1 DEF Prepared, Rewritten
    <3>2. CASE to = "done"
      <4>1. mine.write_mode # WR_PREPEND
        BY <1>5, <3>2 DEF WR_PREPEND, WR_APPEND, WR_ONLY
      <4> QED  BY <1>2, <1>3, <1>5, <1>6, <3>2, <4>1 DEF Prepared
    <3> QED  BY <1>5, <3>1, <3>2
  <2>5. Kept(task["screen"], at["screen"], disk[task["screen"].name])'
    BY <1>2, <1>3, <1>5, <1>6 DEF Kept
  <2> QED  BY <1>8, <2>1, <2>2, <2>3, <2>4, <2>5, TwoThreads DEF Along, OnDisk
<1>10. Unmodified'
  <2>1. CASE named
    <3> SUFFICES ASSUME ~Excused("screen")
                 PROVE  /\ disk[mine.name] = <<text>>
                        /\ \A t \in Threads : task[t].name = mine.name =>
                              at'[t] \notin {"opened", "written", "second write"}
      BY <1>2, <1>4, <2>1 DEF Unmodified, Holds
    <3>1. mine.whole /\ mine.alone /\ mine.version = text
      BY DEF Excused
    <3>2. disk[mine.name] = <<text>>
      BY <1>3, <1>5, <2>1, <3>1 DEF Rewritten
    <3>3. task["cli"].name = mine.name => at["cli"] = "idle"
      BY <1>2, <1>4, <3>1, TwoThreads DEF SavingInv, Rivals
    <3>4. to = "done"
      BY <1>5, <2>1
    <3> QED  BY <1>6, <3>2, <3>3, <3>4, TwoThreads
  <2>2. CASE ~named
    <3> SUFFICES ASSUME ~modified', ~spoiled'
                 PROVE  /\ ~modified /\ ~spoiled /\ file_name' = file_name
                        /\ to = "second write" => mine.name # file_name
      <4>1. \A t \in Threads : at'[t] = at[t] \/ (t = "screen" /\ at'[t] = to)
        BY <1>6, TwoThreads
      <4> QED  BY <1>2, <1>5, <4>1 DEF SavingInv, Unmodified, Holds
    <3> QED  BY <1>1, <1>2, <1>5, <2>2
  <2> QED  BY <2>1, <2>2
<1>11. ExitKeeps'
  BY <1>5, <1>6 DEF ExitKeeps
<1> QED  BY <1>7, <1>8, <1>9, <1>10, <1>11 DEF SavingInv

LEMMA SecondWriteStep == ASSUME SavingInv, SecondWrite PROVE SavingInv'
<1> DEFINE mine == task["screen"]  to == at'["screen"]  f == mine.name
<1>1. /\ at \in [Threads -> Places] /\ at["cli"] \in InSave
      /\ disk \in [Names -> Seq(Int)] /\ buf \in Seq(Int)
  BY DEF SavingInv, SavingTyped
<1>2. /\ at["screen"] = "second write" /\ at' = [at EXCEPT !["screen"] = to]
      /\ buf' = <<>>
      /\ UNCHANGED <<text, modified, file_name, backups, task, before,
                     spoiled, discarded, saves>>
      /\ \/ to = "done" /\ disk' = [disk EXCEPT ![f] = @ \o buf]
         \/ to = "failed" /\ disk' = disk
         \/ to = "failed" /\ disk' = [disk EXCEPT ![f] = Append(@, Cut)]
  BY <1>1, TwoThreads DEF SecondWrite, Goes, fileVars, ghostVars
<1>3. /\ Working(mine, "second write") /\ Settled(mine, "second write")
      /\ Prepared(mine, "second write", disk[f], buf, backups[f])
      /\ Kept(mine, "second write", disk[f])
  BY <1>2, TwoThreads DEF SavingInv, Along, OnDisk
<1>4. f \in Names /\ f # "" /\ disk[f] \in Seq(Int) /\ ~mine.app
  BY <1>1, <1>3, NamesAssumption DEF Settled
<1>5. /\ at' \in [Threads -> Places] /\ at'["cli"] = at["cli"] /\ to \in {"done", "failed"}
  BY <1>1, <1>2, TwoThreads DEF Places, InSave
<1>6. /\ disk' \in [Names -> Seq(Int)]
      /\ \A g \in Names : g = f \/ disk'[g] = disk[g]
      /\ to = "done" => disk'[f] = disk[f] \o buf
  <2>1. disk[f] \o buf \in Seq(Int) /\ Append(disk[f], Cut) \in Seq(Int)
    BY <1>1, <1>4, Files
  <2> QED  BY <1>1, <1>2, <1>4, <2>1
<1>7. SavingTyped'
  <2>1. buf' \in Seq(Int)
    BY <1>2, Files
  <2> QED  BY <1>2, <1>5, <1>6, <2>1 DEF SavingInv, SavingTyped
<1>8. /\ Rivals' /\ Working(task["cli"], at["cli"])'
      /\ Rewritten(task["cli"], at["cli"], disk[task["cli"].name])'
  BY <1>2, <1>5, <1>6, <1>7, OnlyScreen
<1>9. Along' /\ OnDisk'
  <2>1. Working(task["screen"], at["screen"])' /\ Settled(task["screen"], at["screen"])'
    BY <1>2, <1>3, <1>5 DEF Working, Settled
  <2>2. Rewritten(task["screen"], at["screen"], disk[task["screen"].name])'
    BY <1>2, <1>4 DEF Rewritten
  <2>3. Prepared(task["screen"], at["screen"], disk[task["screen"].name], buf,
                 backups[task["screen"].name])'
    BY <1>2, <1>3, <1>4, <1>5, <1>6 DEF Prepared
  <2>4. Kept(task["screen"], at["screen"], disk[task["screen"].name])'
    <3>1. Contains(disk[f], text) => Contains(disk[f] \o buf, text)
      BY <1>1, <1>4, ContainsLonger
    <3> QED  BY <1>2, <1>3, <1>5, <1>6, <3>1 DEF Kept
  <2> QED  BY <1>8, <2>1, <2>2, <2>3, <2>4, TwoThreads DEF Along, OnDisk
<1>10. Unmodified'
  <2> SUFFICES ASSUME ~modified, ~spoiled PROVE f # file_name
    <3>1. \A t \in Threads : at'[t] = at[t] \/ at'[t] \in {"done", "failed"}
      BY <1>2, <1>5, TwoThreads
    <3>2. file_name \in Names \cup {""}
      BY DEF SavingInv, SavingTyped
    <3> QED  BY <1>2, <1>6, <3>1, <3>2 DEF SavingInv, Unmodified, Holds
  <2> QED  BY <1>2, <1>4, TwoThreads DEF SavingInv, Unmodified
<1>11. ExitKeeps'
  BY <1>5 DEF ExitKeeps
<1> QED  BY <1>7, <1>8, <1>9, <1>10, <1>11 DEF SavingInv

LEMMA ReturnStep == ASSUME SavingInv, Return PROVE SavingInv'
<1> DEFINE mine == task["screen"]  leave == mine.exit /\ at["screen"] = "done"
<1>1. /\ at \in [Threads -> Places] /\ at["cli"] \in InSave /\ task \in [Threads -> Tasks]
      /\ disk \in [Names -> Seq(Int)] /\ before \in Seq(Int) /\ text \in Nat
  BY DEF SavingInv, SavingTyped
<1>2. /\ at["screen"] \in {"done", "failed"}
      /\ UNCHANGED <<text, modified, file_name, disk, backups, buf, spoiled, discarded, saves>>
      /\ \/ /\ at["screen"] = "done" /\ at' = [at EXCEPT !["screen"] = "exited"]
            /\ UNCHANGED <<task, before>>
         \/ /\ at' = [at EXCEPT !["screen"] = "idle"]
            /\ task' = [task EXCEPT !["screen"] = NoTask] /\ before' = NoFile
  BY DEF Return, LeaveOrStay, fileVars, diskVars
<1>3. /\ Working(mine, at["screen"]) /\ Settled(mine, at["screen"])
      /\ Prepared(mine, at["screen"], disk[mine.name], buf, backups[mine.name])
      /\ Kept(mine, at["screen"], disk[mine.name])
  BY TwoThreads DEF SavingInv, Along, OnDisk
<1>4. mine.name \in Names
  BY <1>2, <1>3 DEF Settled
<1>5. /\ at' \in [Threads -> Places] /\ at'["cli"] = at["cli"]
      /\ at'["screen"] \in {"idle", "exited"}
      /\ task' \in [Threads -> Tasks] /\ task'["cli"] = task["cli"]
      /\ before' \in Seq(Int)
      /\ at'["screen"] = "idle" => task'["screen"] = NoTask /\ before' = NoFile
      /\ at'["screen"] = "exited" =>
            task'["screen"] = mine /\ before' = before /\ at["screen"] = "done"
  <2>1. NoFile \in Seq(Int)
    BY DEF NoFile
  <2>2. CASE at' = [at EXCEPT !["screen"] = "exited"] /\ UNCHANGED <<task, before>>
             /\ at["screen"] = "done"
    BY <1>1, <2>2, TwoThreads DEF Places
  <2>3. CASE /\ at' = [at EXCEPT !["screen"] = "idle"]
             /\ task' = [task EXCEPT !["screen"] = NoTask] /\ before' = NoFile
    BY <1>1, <2>1, <2>3, TwoThreads, NoTaskTyped DEF Places, InSave
  <2> QED  BY <1>2, <2>2, <2>3
<1>6. SavingTyped'
  BY <1>1, <1>2, <1>5 DEF SavingInv, SavingTyped
<1>7. /\ Rivals' /\ Working(task["cli"], at["cli"])'
      /\ Rewritten(task["cli"], at["cli"], disk[task["cli"].name])'
  <2>1. \/ at'["screen"] = "idle" /\ task'["screen"].name = ""
        \/ task'["screen"].name = mine.name /\ task'["screen"].alone = mine.alone
    BY <1>5, NoTaskTyped
  <2> QED  BY <1>2, <1>5, <1>6, <2>1, OnlyScreen
<1>8. Along' /\ OnDisk'
  <2>1. CASE at'["screen"] = "idle"
    <3>1. Working(task["screen"], at["screen"])' /\ Settled(task["screen"], at["screen"])'
      BY <1>5, <2>1, NoTaskTyped DEF Working, Settled
    <3>2. /\ Rewritten(task["screen"], at["screen"], disk[task["screen"].name])'
          /\ Prepared(task["screen"], at["screen"], disk[task["screen"].name], buf,
                 backups[task["screen"].name])'
          /\ Kept(task["screen"], at["screen"], disk[task["screen"].name])'
      BY <1>5, <2>1, NoTaskTyped DEF Rewritten, Prepared, Kept
    <3> QED  BY <1>7, <3>1, <3>2, TwoThreads DEF Along, OnDisk
  <2>2. CASE at'["screen"] = "exited"
    <3>1. Working(task["screen"], at["screen"])' /\ Settled(task["screen"], at["screen"])'
      BY <1>2, <1>3, <1>5, <2>2 DEF Working, Settled
    <3>2. /\ Rewritten(task["screen"], at["screen"], disk[task["screen"].name])'
          /\ Prepared(task["screen"], at["screen"], disk[task["screen"].name], buf,
                 backups[task["screen"].name])'
          /\ Kept(task["screen"], at["screen"], disk[task["screen"].name])'
      BY <1>2, <1>3, <1>5, <2>2 DEF Rewritten, Prepared, Kept
    <3> QED  BY <1>7, <3>1, <3>2, TwoThreads DEF Along, OnDisk
  <2> QED  BY <1>5, <2>1, <2>2
<1>9. Unmodified'
  <2>1. \A t \in Threads : \/ at'[t] = at[t] /\ task'[t] = task[t]
                           \/ at'[t] \in {"idle", "exited"}
    BY <1>5, TwoThreads
  <2> QED  BY <1>2, <2>1 DEF SavingInv, Unmodified, Holds
<1>10. ExitKeeps'
  <2> SUFFICES ASSUME at'["screen"] = "exited", ~spoiled, ~Excused("screen"), text # 0
               PROVE  Contains(disk[mine.name], text)
    <3>2. CASE at'["screen"] = "exited"
      <4>2. Excused("screen")' = Excused("screen")
        BY <1>2, <1>5, <3>2 DEF Excused
      <4>1. mine.version # Nothing
        <5>1. mine.version \in 0..text
          BY <1>3, <1>5, <3>2 DEF Working
        <5>2. \A v \in 0..text : v # Nothing
          BY <1>1 DEF Nothing
        <5> QED  BY <5>1, <5>2
      <4> QED  BY <1>2, <1>4, <1>5, <3>2, <4>1, <4>2 DEF ExitKeeps, Contains
    <3> QED  BY <3>2 DEF ExitKeeps
  <2> QED  BY <1>3, <1>5 DEF Kept, Excused
<1> QED  BY <1>6, <1>7, <1>8, <1>9, <1>10 DEF SavingInv

-----------------------------------------------------------------------------
(* saveFile. *)

\* A step of saveFile: what t itself keeps is left to show.
LEMMA OneSaves ==
    ASSUME SavingInv, SavingTyped', NEW t \in Threads, at[t] # "idle", text' = text,
           \A u \in Threads : u # t => at'[u] = at[u] /\ task'[u] = task[u],
           task'[t].name = task[t].name, task'[t].alone => task[t].alone,
           \A f \in Names : f = task[t].name \/ disk'[f] = disk[f],
           UNCHANGED <<file_name, backups, buf, before>>,
           spoiled /\ ~spoiled' => task[t].name = file_name,
           Working(task[t], at[t])',
           Rewritten(task[t], at[t], disk[task[t].name])',
           t = "screen" =>
              /\ Settled(task["screen"], at["screen"])'
              /\ Prepared(task["screen"], at["screen"], disk[task["screen"].name], buf,
                          backups[task["screen"].name])'
              /\ Kept(task["screen"], at["screen"], disk[task["screen"].name])'
    PROVE  Rivals' /\ Along' /\ OnDisk'
<1>1. CASE t = "screen"
  <2>1. /\ Rivals' /\ Working(task["cli"], at["cli"])'
        /\ Rewritten(task["cli"], at["cli"], disk[task["cli"].name])'
    BY <1>1, OnlyScreen, TwoThreads
  <2> QED  BY <1>1, <2>1, TwoThreads DEF Along, OnDisk
<1>2. CASE t = "cli"
  <2>1. /\ Rivals'
        /\ Working(task["screen"], at["screen"])'
        /\ Rewritten(task["screen"], at["screen"], disk[task["screen"].name])'
        /\ Settled(task["screen"], at["screen"])'
        /\ Prepared(task["screen"], at["screen"], disk[task["screen"].name], buf,
                    backups[task["screen"].name])'
        /\ Kept(task["screen"], at["screen"], disk[task["screen"].name])'
    BY <1>2, OnlyCli, TwoThreads
  <2> QED  BY <1>2, <2>1, TwoThreads DEF Along, OnDisk
<1> QED  BY <1>1, <1>2, TwoThreads

\* What is known of the thread that takes the step.
LEMMA Saver ==
    ASSUME SavingInv, NEW t \in Threads
    PROVE  /\ Working(task[t], at[t]) /\ Rewritten(task[t], at[t], disk[task[t].name])
           /\ t = "screen" =>
                /\ Settled(task[t], at[t]) /\ Kept(task[t], at[t], disk[task[t].name])
                /\ Prepared(task[t], at[t], disk[task[t].name], buf, backups[task[t].name])
BY DEF SavingInv, Along, OnDisk

LEMMA SavingGoes ==
    ASSUME SavingInv, Running, NEW t \in Threads, NEW to \in InSave, at' = [at EXCEPT ![t] = to]
    PROVE  /\ at' \in [Threads -> Places] /\ at'["cli"] \in InSave
           /\ at'[t] = to /\ \A u \in Threads : u # t => at'[u] = at[u]
           /\ ExitKeeps'
<1>1. at \in [Threads -> Places] /\ at["cli"] \in InSave
  BY DEF SavingInv, SavingTyped
<1>2. /\ at' \in [Threads -> Places] /\ at'["cli"] \in InSave
      /\ at'[t] = to /\ \A u \in Threads : u # t => at'[u] = at[u]
  BY <1>1, TwoThreads DEF Places
<1>3. at'["screen"] # "exited"
  BY <1>2, TwoThreads DEF Running, InSave
<1> QED  BY <1>2, <1>3 DEF ExitKeeps

LEMMA OpenFailsStep == ASSUME SavingInv, NEW t \in Threads, OpenFails(t) PROVE SavingInv'
<1>1. /\ Running /\ at[t] = "save" /\ at' = [at EXCEPT ![t] = "failed"]
      /\ UNCHANGED <<text, modified, file_name, disk, backups, task, buf, before,
                     spoiled, discarded, saves>>
  BY DEF OpenFails, Goes, fileVars, diskVars, ghostVars
<1>2. /\ at' \in [Threads -> Places] /\ at'["cli"] \in InSave
      /\ at'[t] = "failed" /\ \A u \in Threads : u # t => at'[u] = at[u]
      /\ ExitKeeps'
  BY <1>1, SavingGoes DEF InSave
<1>3. SavingTyped'
  BY <1>1, <1>2 DEF SavingInv, SavingTyped
<1>4. /\ Working(task[t], at[t])'
      /\ Rewritten(task[t], at[t], disk[task[t].name])'
  BY <1>1, <1>2, Saver DEF Working, Rewritten
<1>5. t = "screen" =>
      /\ Settled(task["screen"], at["screen"])'
      /\ Prepared(task["screen"], at["screen"], disk[task["screen"].name], buf,
                  backups[task["screen"].name])'
      /\ Kept(task["screen"], at["screen"], disk[task["screen"].name])'
  BY <1>1, <1>2, Saver DEF Settled, Prepared, Kept
<1>6. Rivals' /\ Along' /\ OnDisk'
  BY <1>1, <1>2, <1>3, <1>4, <1>5, OneSaves
<1>7. Unmodified'
  BY <1>1, <1>2 DEF SavingInv, Unmodified, Holds
<1> QED  BY <1>2, <1>3, <1>6, <1>7 DEF SavingInv

LEMMA IgnoreStep == ASSUME SavingInv, NEW t \in Threads, Ignore(t) PROVE SavingInv'
<1> DEFINE mine == task[t]  new == task'[t]
<1>1. /\ Running /\ mine.name = file_name /\ ~modified
      /\ at[t] = "save" /\ at' = [at EXCEPT ![t] = "saved"]
      /\ UNCHANGED <<text, modified, file_name, disk, backups, buf, before,
                     spoiled, discarded, saves>>
  BY DEF Ignore, Goes, fileVars, diskVars, ghostVars
<1>2. /\ task \in [Threads -> Tasks] /\ text \in Nat
      /\ task' = [task EXCEPT ![t].version = text, ![t].ignored = TRUE]
  BY DEF Ignore, SavingInv, SavingTyped
<1>3. /\ task' \in [Threads -> Tasks] /\ \A u \in Threads : u # t => task'[u] = task[u]
      /\ new.name = mine.name /\ new.alone = mine.alone /\ new.ignored
      /\ new.version = text /\ new.app = mine.app /\ new.write_mode = mine.write_mode
      /\ new.backup = mine.backup
  <2> DEFINE next == [mine EXCEPT !.version = text, !.ignored = TRUE]
  <2>1. task' = [task EXCEPT ![t] = next]
    BY <1>2
  <2>2. /\ next \in Tasks /\ next.version = text /\ next.ignored
        /\ next.name = mine.name /\ next.app = mine.app
        /\ next.write_mode = mine.write_mode /\ next.backup = mine.backup
        /\ next.alone = mine.alone
    <3> DEFINE first == [mine EXCEPT !.version = text]
    <3>1. /\ first \in Tasks /\ first.version = text
          /\ first.name = mine.name /\ first.app = mine.app
          /\ first.write_mode = mine.write_mode /\ first.backup = mine.backup
          /\ first.alone = mine.alone
      <4>1. text \in Int
        BY <1>2
      <4> QED  BY <1>2, <4>1, WithVersion
    <3>2. next = [first EXCEPT !.ignored = TRUE]
      OBVIOUS
    <3> HIDE DEF first, next
    <3> QED  BY <3>1, <3>2, WithIgnored
  <2> HIDE DEF next
  <2> QED  BY <1>2, <2>1, <2>2
<1>4. /\ at' \in [Threads -> Places] /\ at'["cli"] \in InSave
      /\ at'[t] = "saved" /\ \A u \in Threads : u # t => at'[u] = at[u]
      /\ ExitKeeps'
  BY <1>1, SavingGoes DEF InSave
<1>5. SavingTyped'
  BY <1>1, <1>3, <1>4 DEF SavingInv, SavingTyped
<1>6. /\ Working(task[t], at[t])'
      /\ Rewritten(task[t], at[t], disk[task[t].name])'
  BY <1>1, <1>2, <1>3, <1>4 DEF Working, Rewritten
<1>7. ASSUME t = "screen"
      PROVE  /\ Settled(task["screen"], at["screen"])'
             /\ Prepared(task["screen"], at["screen"], disk[task["screen"].name], buf,
                         backups[task["screen"].name])'
             /\ Kept(task["screen"], at["screen"], disk[task["screen"].name])'
  <2>1. /\ Settled(mine, "save")
        /\ Prepared(mine, "save", disk[mine.name], buf, backups[mine.name])
    BY <1>1, <1>7, Saver
  <2>2. Settled(task["screen"], at["screen"])'
    BY <1>1, <1>3, <1>4, <1>7, <2>1 DEF Settled
  <2>3. Prepared(task["screen"], at["screen"], disk[task["screen"].name], buf,
                 backups[task["screen"].name])'
    BY <1>1, <1>3, <1>4, <1>7, <2>1 DEF Prepared
  <2>4. Kept(task["screen"], at["screen"], disk[task["screen"].name])'
    <3>1. file_name # ""
      BY <1>1, <2>1, NamesAssumption DEF Settled
    <3>2. ~spoiled => text = 0 \/ disk[mine.name] = <<text>>
      BY <1>1, <3>1 DEF SavingInv, Unmodified, Holds
    <3>3. disk[mine.name] = <<text>> => Contains(disk[mine.name], text)
      BY DEF Contains
    <3> QED  BY <1>1, <1>3, <1>7, <3>2, <3>3 DEF Kept
  <2> QED  BY <2>2, <2>3, <2>4
<1>8. Rivals' /\ Along' /\ OnDisk'
  BY <1>1, <1>3, <1>4, <1>5, <1>6, <1>7, OneSaves
<1>9. Unmodified'
  <2>1. \A u \in Threads : (at'[u] = at[u] /\ task'[u] = task[u]) \/ at'[u] = "saved"
    BY <1>3, <1>4
  <2> QED  BY <1>1, <2>1 DEF SavingInv, Unmodified, Holds
<1> QED  BY <1>4, <1>5, <1>8, <1>9 DEF SavingInv

LEMMA OpenStep == ASSUME SavingInv, NEW t \in Threads, Open(t) PROVE SavingInv'
<1> DEFINE mine == task[t]  f == mine.name
           now == IF mine.app /\ disk[f] # NoFile THEN disk[f] ELSE <<>>
<1>1. /\ Running /\ f # "" /\ ~(f = file_name /\ ~modified)
      /\ at[t] = "save" /\ at' = [at EXCEPT ![t] = "opened"]
      /\ disk' = [disk EXCEPT ![f] = now]
      /\ UNCHANGED <<text, modified, file_name, backups, task, buf, before,
                     spoiled, discarded, saves>>
  BY DEF Open, Goes, fileVars, ghostVars
<1>2. /\ task \in [Threads -> Tasks] /\ disk \in [Names -> Seq(Int)]
  BY DEF SavingInv, SavingTyped
<1>3. f \in Names
  BY <1>1, <1>2 DEF Tasks
<1>4. /\ at' \in [Threads -> Places] /\ at'["cli"] \in InSave
      /\ at'[t] = "opened" /\ \A u \in Threads : u # t => at'[u] = at[u]
      /\ ExitKeeps'
  BY <1>1, SavingGoes DEF InSave
<1>5. /\ disk' \in [Names -> Seq(Int)] /\ disk'[f] = now
      /\ \A g \in Names : g = f \/ disk'[g] = disk[g]
  <2>1. now \in Seq(Int)
    BY <1>2, <1>3, Files
  <2> HIDE DEF now
  <2> QED  BY <1>1, <1>2, <1>3, <2>1
<1>6. SavingTyped'
  BY <1>1, <1>4, <1>5 DEF SavingInv, SavingTyped
<1>7. /\ Working(task[t], at[t])'
      /\ Rewritten(task[t], at[t], disk[task[t].name])'
  <2>1. Working(mine, "save")
    BY <1>1, Saver
  <2> QED  BY <1>1, <1>3, <1>4, <1>5, <2>1 DEF Working, Rewritten
<1>8. ASSUME t = "screen"
      PROVE  /\ Settled(task["screen"], at["screen"])'
             /\ Prepared(task["screen"], at["screen"], disk[task["screen"].name], buf,
                         backups[task["screen"].name])'
             /\ Kept(task["screen"], at["screen"], disk[task["screen"].name])'
  <2>1. /\ Settled(mine, "save") /\ Working(mine, "save")
        /\ Prepared(mine, "save", disk[f], buf, backups[f])
    BY <1>1, <1>8, Saver
  <2>2. Settled(task["screen"], at["screen"])'
    BY <1>1, <1>4, <1>8, <2>1 DEF Settled
  <2>3. Prepared(task["screen"], at["screen"], disk[task["screen"].name], buf,
                 backups[task["screen"].name])'
    <3>1. mine.app /\ mine.alone => now = before
      BY <2>1 DEF Settled, Prepared
    <3> HIDE DEF now
    <3> QED  BY <1>1, <1>4, <1>5, <1>8, <2>1, <3>1 DEF Prepared, Working
  <2>4. Kept(task["screen"], at["screen"], disk[task["screen"].name])'
    BY <1>4, <1>8 DEF Kept
  <2> QED  BY <2>2, <2>3, <2>4
<1>9. Rivals' /\ Along' /\ OnDisk'
  BY <1>1, <1>4, <1>5, <1>6, <1>7, <1>8, OneSaves
<1>10. Unmodified'
  <2>1. \A u \in Threads : u = t \/ at'[u] = at[u]
    BY <1>4
  <2>2. file_name \in Names \cup {""}
    BY DEF SavingInv, SavingTyped
  <2> QED  BY <1>1, <1>5, <2>1, <2>2 DEF SavingInv, Unmodified, Holds
<1> QED  BY <1>4, <1>6, <1>9, <1>10 DEF SavingInv

LEMMA WriteLinesStep == ASSUME SavingInv, NEW t \in Threads, WriteLines(t) PROVE SavingInv'
<1> DEFINE mine == task[t]  new == task'[t]  f == mine.name
<1>1. PICK whole \in BOOLEAN, rest \in {<<>>, <<Cut>>} :
        /\ rest # <<>> => disk[f] # <<>> /\ ~mine.app
        /\ disk' = [disk EXCEPT ![f] = (IF mine.app THEN @ ELSE <<>>)
                            \o <<IF whole THEN text ELSE Cut>> \o rest]
        /\ task' = [task EXCEPT ![t].version = text, ![t].whole = whole]
  BY DEF WriteLines
<1>2. /\ Running /\ at[t] = "opened" /\ at' = [at EXCEPT ![t] = "written"]
      /\ UNCHANGED <<text, modified, file_name, backups, buf, before,
                     spoiled, discarded, saves>>
  BY DEF WriteLines, Goes, fileVars, ghostVars
<1>3. /\ task \in [Threads -> Tasks] /\ disk \in [Names -> Seq(Int)] /\ text \in Nat
      /\ before \in Seq(Int)
  BY DEF SavingInv, SavingTyped
<1>4. /\ Working(mine, "opened") /\ Rewritten(mine, "opened", disk[f])
  BY <1>2, Saver
<1>5. f \in Names /\ ~mine.ignored
  BY <1>4 DEF Working
<1>6. /\ task' \in [Threads -> Tasks] /\ \A u \in Threads : u # t => task'[u] = task[u]
      /\ new.name = f /\ new.alone = mine.alone /\ new.ignored = mine.ignored
      /\ new.version = text /\ new.app = mine.app /\ new.write_mode = mine.write_mode
      /\ new.backup = mine.backup /\ new.whole = whole
  <2> DEFINE next == [mine EXCEPT !.version = text, !.whole = whole]
  <2>1. task' = [task EXCEPT ![t] = next]
    BY <1>1
  <2>2. /\ next \in Tasks /\ next.version = text /\ next.ignored = mine.ignored
        /\ next.name = mine.name /\ next.app = mine.app /\ next.whole = whole
        /\ next.write_mode = mine.write_mode /\ next.backup = mine.backup
        /\ next.alone = mine.alone
    <3> DEFINE first == [mine EXCEPT !.version = text]
    <3>1. /\ first \in Tasks /\ first.version = text
          /\ first.name = mine.name /\ first.app = mine.app
          /\ first.write_mode = mine.write_mode /\ first.backup = mine.backup
          /\ first.alone = mine.alone /\ first.ignored = mine.ignored
      <4>1. text \in Int
        BY <1>3
      <4> QED  BY <1>3, <4>1, WithVersion
    <3>2. next = [first EXCEPT !.whole = whole]
      OBVIOUS
    <3>3. whole \in BOOLEAN
      BY <1>1
    <3> HIDE DEF first, next
    <3> QED  BY <3>1, <3>2, <3>3, WithWhole
  <2> HIDE DEF next
  <2> QED  BY <1>3, <2>1, <2>2
<1> DEFINE start == IF mine.app THEN disk[f] ELSE <<>>
           line == IF whole THEN text ELSE Cut
           now == start \o <<line>> \o rest
<1>7. /\ disk' \in [Names -> Seq(Int)] /\ disk'[f] = now
      /\ \A g \in Names : g = f \/ disk'[g] = disk[g]
  <2>0. <<Cut>> \in Seq(Int) /\ Cut \in Int
    BY DEF Cut
  <2>1. start \in Seq(Int) /\ line \in Int /\ rest \in Seq(Int)
    <3>1. rest = <<>> \/ rest = <<Cut>>
      BY <1>1
    <3>2. rest \in Seq(Int)
      BY <2>0, <3>1, Files
    <3>3. start \in Seq(Int)
      BY <1>3, <1>5, Files
    <3>4. text \in Int
      BY <1>3
    <3>5. line \in Int
      BY <2>0, <3>4
    <3> QED  BY <3>2, <3>3, <3>5
  <2>2. now \in Seq(Int)
    <3> HIDE DEF start, line
    <3> QED  BY <2>1, Files
  <2>3. disk' = [disk EXCEPT ![f] = now]
    BY <1>1
  <2> HIDE DEF now
  <2> QED  BY <1>3, <1>5, <2>2, <2>3
<1>8. mine.alone /\ whole =>
        /\ ~mine.app => now = <<text>>
        /\ mine.app => now = disk[f] \o <<text>>
  <2> SUFFICES ASSUME mine.alone, whole PROVE now = start \o <<text>> /\ (mine.app \/ now = <<text>>)
    OBVIOUS
  <2>1. start \in Seq(Int)
    BY <1>3, <1>5, Files
  <2>2. rest = <<>>
    BY <1>1, <1>4 DEF Rewritten
  <2>3. now = start \o <<text>> \o <<>>
    BY <2>2
  <2>4. \A s \in Seq(Int) : s \o <<text>> \o <<>> = s \o <<text>>
    BY <1>3
  <2>5. \A s \in Seq(Int) : s = <<>> => s \o <<text>> = <<text>>
    BY <1>3
  <2>6. now = start \o <<text>>
    BY <2>1, <2>3, <2>4
  <2>7. mine.app \/ start = <<>>
    OBVIOUS
  <2> HIDE DEF start, now
  <2> QED  BY <2>1, <2>5, <2>6, <2>7
<1> HIDE DEF now
<1>9. /\ at' \in [Threads -> Places] /\ at'["cli"] \in InSave
      /\ at'[t] = "written" /\ \A u \in Threads : u # t => at'[u] = at[u]
      /\ ExitKeeps'
  BY <1>2, SavingGoes DEF InSave
<1>10. SavingTyped'
  BY <1>2, <1>6, <1>7, <1>9 DEF SavingInv, SavingTyped
<1>11. /\ Working(task[t], at[t])'
       /\ Rewritten(task[t], at[t], disk[task[t].name])'
  <2>1. Working(task[t], at[t])'
    BY <1>2, <1>3, <1>5, <1>6, <1>9 DEF Working
  <2>2. Rewritten(task[t], at[t], disk[task[t].name])'
    BY <1>6, <1>7, <1>8, <1>9 DEF Rewritten
  <2> QED  BY <2>1, <2>2
<1>12. ASSUME t = "screen"
       PROVE  /\ Settled(task["screen"], at["screen"])'
              /\ Prepared(task["screen"], at["screen"], disk[task["screen"].name], buf,
                          backups[task["screen"].name])'
              /\ Kept(task["screen"], at["screen"], disk[task["screen"].name])'
  <2>1. /\ Settled(mine, "opened")
        /\ Prepared(mine, "opened", disk[f], buf, backups[f])
    BY <1>2, <1>12, Saver
  <2>2. Settled(task["screen"], at["screen"])'
    BY <1>2, <1>5, <1>6, <1>9, <1>12, <2>1 DEF Settled
  <2>3. Prepared(task["screen"], at["screen"], disk[task["screen"].name], buf,
                 backups[task["screen"].name])'
    BY <1>2, <1>5, <1>6, <1>7, <1>8, <1>9, <1>12, <2>1 DEF Prepared
  <2>4. Kept(task["screen"], at["screen"], disk[task["screen"].name])'
    <3>1. Contains(<<text>>, text) /\ \A s \in Seq(Int) : Contains(s \o <<text>>, text)
      <4>1. Contains(<<text>>, text)
        BY DEF Contains
      <4>2. ASSUME NEW s \in Seq(Int) PROVE Contains(s \o <<text>>, text)
        <5>1. /\ Len(s) + 1 \in 1..Len(s \o <<text>>)
              /\ (s \o <<text>>)[Len(s) + 1] = text
          BY <1>3
        <5> QED  BY <5>1 DEF Contains
      <4> QED  BY <4>1, <4>2
    <3>2. disk[f] \in Seq(Int)
      BY <1>3, <1>5
    <3>3. mine.alone /\ whole => Contains(now, text)
      BY <1>8, <3>1, <3>2
    <3> QED  BY <1>2, <1>6, <1>7, <1>12, <3>3 DEF Kept
  <2> QED  BY <2>2, <2>3, <2>4
<1>13. Rivals' /\ Along' /\ OnDisk'
  BY <1>2, <1>6, <1>7, <1>9, <1>10, <1>11, <1>12, OneSaves
<1>14. Unmodified'
  <2>1. \A u \in Threads : \/ u # t /\ at'[u] = at[u] /\ task'[u] = task[u]
                           \/ u = t /\ at[u] = "opened" /\ task'[u].name = task[u].name
    <3>1. ASSUME NEW u \in Threads, u # t PROVE at'[u] = at[u] /\ task'[u] = task[u]
      BY <1>6, <1>9, <3>1
    <3> QED  BY <1>2, <1>6, <3>1
  <2>2. file_name \in Names \cup {""}
    BY DEF SavingInv, SavingTyped
  <2> QED  BY <1>2, <1>7, <2>1, <2>2 DEF SavingInv, Unmodified, Holds
<1> QED  BY <1>9, <1>10, <1>13, <1>14 DEF SavingInv

LEMMA SetFlagStep == ASSUME SavingInv, NEW t \in Threads, SetFlag(t) PROVE SavingInv'
<1> DEFINE mine == task[t]  f == mine.name  clears == f = file_name /\ OpenMode(t) = {"out"}
<1>1. /\ Running /\ at[t] = "written" /\ at' = [at EXCEPT ![t] = "saved"]
      /\ UNCHANGED <<text, file_name, disk, backups, task, buf, before, discarded, saves>>
      /\ clears => modified' = FALSE /\ spoiled' = Excused(t)
      /\ ~clears => UNCHANGED <<modified, spoiled>>
  BY DEF SetFlag, Goes, ClearModified, diskVars
<1>2. modified' \in BOOLEAN /\ spoiled' \in BOOLEAN
  <2>1. modified \in BOOLEAN /\ spoiled \in BOOLEAN
    BY DEF SavingInv, SavingTyped
  <2>2. Excused(t) \in BOOLEAN
    BY DEF Excused
  <2> QED  BY <1>1, <2>1, <2>2
<1>3. /\ Working(mine, "written") /\ Rewritten(mine, "written", disk[f])
  BY <1>1, Saver
<1>4. f \in Names /\ f # "" /\ ~mine.ignored
  BY <1>3, NamesAssumption DEF Working
<1>5. /\ at' \in [Threads -> Places] /\ at'["cli"] \in InSave
      /\ at'[t] = "saved" /\ \A u \in Threads : u # t => at'[u] = at[u]
      /\ ExitKeeps'
  BY <1>1, SavingGoes DEF InSave
<1>6. SavingTyped'
  BY <1>1, <1>2, <1>5 DEF SavingInv, SavingTyped
<1>7. /\ Working(task[t], at[t])'
      /\ Rewritten(task[t], at[t], disk[task[t].name])'
  BY <1>1, <1>3, <1>4, <1>5 DEF Working, Rewritten
<1>8. ASSUME t = "screen"
      PROVE  /\ Settled(task["screen"], at["screen"])'
             /\ Prepared(task["screen"], at["screen"], disk[task["screen"].name], buf,
                         backups[task["screen"].name])'
             /\ Kept(task["screen"], at["screen"], disk[task["screen"].name])'
  <2>1. /\ Settled(mine, "written") /\ Kept(mine, "written", disk[f])
        /\ Prepared(mine, "written", disk[f], buf, backups[f])
    BY <1>1, <1>8, Saver
  <2>2. Settled(task["screen"], at["screen"])'
    BY <1>1, <1>4, <1>5, <1>8, <2>1 DEF Settled
  <2>3. Prepared(task["screen"], at["screen"], disk[task["screen"].name], buf,
                 backups[task["screen"].name])'
    BY <1>1, <1>4, <1>5, <1>8, <2>1 DEF Prepared
  <2>4. Kept(task["screen"], at["screen"], disk[task["screen"].name])'
    BY <1>1, <1>4, <1>5, <1>8, <2>1 DEF Kept
  <2> QED  BY <2>2, <2>3, <2>4
<1>9. Rivals' /\ Along' /\ OnDisk'
  BY <1>1, <1>5, <1>6, <1>7, <1>8, OneSaves
<1>10. Unmodified'
  <2>1. CASE clears
    <3> SUFFICES ASSUME ~Excused(t)
                 PROVE  /\ disk[f] = <<text>>
                        /\ \A u \in Threads : task[u].name = f =>
                              at'[u] \notin {"opened", "written", "second write"}
      BY <1>1, <1>4, <2>1 DEF Unmodified, Holds
    <3>1. mine.whole /\ mine.alone /\ mine.version = text
      BY DEF Excused
    <3>0. ~mine.app
      BY <2>1 DEF OpenMode
    <3>2. disk[f] = <<text>>
      BY <1>3, <1>4, <3>0, <3>1 DEF Rewritten
    <3>3. \A u \in Threads : u # t /\ task[u].name = f => at[u] = "idle"
      BY <1>1, <1>4, <3>1 DEF SavingInv, Rivals
    <3> QED  BY <1>5, <3>2, <3>3
  <2>2. CASE ~clears
    <3>1. \A u \in Threads : at'[u] = at[u] \/ at'[u] = "saved"
      BY <1>5
    <3>2. Unmodified
      BY DEF SavingInv
    <3>3. UNCHANGED <<modified, spoiled, file_name, text, disk, task>>
      BY <1>1, <2>2
    <3> HIDE DEF clears
    <3> QED  BY <3>1, <3>2, <3>3 DEF Unmodified, Holds
  <2> QED  BY <2>1, <2>2
<1> QED  BY <1>5, <1>6, <1>9, <1>10 DEF SavingInv

-----------------------------------------------------------------------------
LEMMA SavingStarts == Init => SavingInv
<1> SUFFICES ASSUME Init PROVE SavingInv
  OBVIOUS
<1>1. /\ at = [t \in Threads |-> "idle"] /\ task = [t \in Threads |-> NoTask]
      /\ before = NoFile /\ text = 0
  BY DEF Init
<1>2. /\ at["screen"] = "idle" /\ task["screen"] = NoTask /\ at["cli"] = "idle"
      /\ \A t \in Threads : at[t] = "idle" /\ task[t] = NoTask
  BY <1>1, TwoThreads
<1>3. SavingTyped
  <2>1. disk \in [Names -> Seq(Int)] /\ backups \in [Names -> Seq(Int)]
    <3>1. NoFile \in Seq(Int) /\ <<0>> \in Seq(Int) /\ <<Old>> \in Seq(Int)
      <4>1. 0 \in Int /\ Old \in Int
        BY DEF Old
      <4> QED  BY <4>1, Files
    <3>2. disk \in [Names -> {NoFile, <<0>>, <<Old>>}] /\ backups = [f \in Names |-> NoFile]
      BY DEF Init
    <3>3. {NoFile, <<0>>, <<Old>>} \subseteq Seq(Int)
      BY <3>1
    <3> QED  BY <3>1, <3>2, <3>3
  <2>2. /\ at \in [Threads -> Places] /\ at["cli"] \in InSave
        /\ task \in [Threads -> Tasks]
    BY <1>1, <1>2, NoTaskTyped DEF Places, InSave
  <2>3. saves \in [Threads -> Nat]
    BY MaxSavesAssumption DEF Init
  <2>4. buf \in Seq(Int) /\ before \in Seq(Int)
    BY Files DEF Init
  <2> QED  BY <2>1, <2>2, <2>3, <2>4 DEF SavingTyped, Init
<1>4. Rivals
  BY <1>2 DEF Rivals
<1>5. Along
  BY <1>1, <1>2, NoTaskTyped DEF Along, Working, Settled
<1>6. OnDisk
  BY <1>2, NoTaskTyped DEF OnDisk, Rewritten, Prepared, Kept
<1>7. Unmodified
  <2>1. file_name # "" => disk[file_name] = NoFile \/ disk[file_name] = <<0>>
    <3> SUFFICES ASSUME file_name # "" PROVE disk[file_name] = NoFile \/ disk[file_name] = <<0>>
      OBVIOUS
    <3>1. file_name \in Names /\ disk \in [Names -> {NoFile, <<0>>, <<Old>>}]
      BY DEF Init
    <3>2. disk[file_name] # <<Old>>
      BY <3>1 DEF Init
    <3> QED  BY <3>1, <3>2
  <2> QED  BY <1>1, <1>2, <2>1 DEF Unmodified, Holds
<1>8. ExitKeeps
  BY <1>2 DEF ExitKeeps
<1> QED  BY <1>3, <1>4, <1>5, <1>6, <1>7, <1>8 DEF SavingInv

LEMMA SavingGoesOn == SavingInv /\ [Next]_vars => SavingInv'
<1> SUFFICES ASSUME SavingInv, [Next]_vars PROVE SavingInv'
  OBVIOUS
<1>1. CASE UNCHANGED vars
  <2>1. UNCHANGED <<text, modified, file_name, disk, backups, at, task, buf, before,
                    spoiled, discarded, saves>>
    BY <1>1 DEF vars, fileVars, diskVars, ghostVars
  <2>2. SavingTyped' /\ Rivals'
    BY <2>1 DEF SavingInv, SavingTyped, Rivals
  <2>3. Along'
    BY <2>1 DEF SavingInv, Along, Working, Settled
  <2>5. OnDisk'
    <3>1. OnDisk
      BY DEF SavingInv
    <3>2. \A t \in Threads : Rewritten(task[t], at[t], disk[task[t].name])'
      BY <2>1, <3>1 DEF OnDisk, Rewritten
    <3>3. Prepared(task["screen"], at["screen"], disk[task["screen"].name], buf,
                   backups[task["screen"].name])'
      BY <2>1, <3>1 DEF OnDisk, Prepared
    <3>4. Kept(task["screen"], at["screen"], disk[task["screen"].name])'
      BY <2>1, <3>1 DEF OnDisk, Kept
    <3> QED  BY <3>2, <3>3, <3>4 DEF OnDisk
  <2>4. Unmodified' /\ ExitKeeps'
    BY <2>1 DEF SavingInv, Unmodified, Holds, ExitKeeps, Excused
  <2> QED  BY <2>2, <2>3, <2>4, <2>5 DEF SavingInv
<1>2. CASE Edit
  BY <1>2, EditStep
<1>3. CASE CliSave
  BY <1>3, CliSaveStep
<1>4. CASE CliReturn
  BY <1>4, CliReturnStep
<1>5. CASE Screen
  <2>1. CASE KeyWriteOut \/ ExitSaving
    BY <2>1, WriteOutStep DEF KeyWriteOut, ExitSaving
  <2>2. CASE Exit
    BY <2>2, ExitStep
  <2>3. CASE BackupFile
    BY <2>3, BackupFileStep
  <2>4. CASE CopyFileToMem
    BY <2>4, CopyFileToMemStep
  <2>5. CASE AfterSaving
    BY <2>5, AfterSavingStep
  <2>6. CASE SecondWrite
    BY <2>6, SecondWriteStep
  <2>7. CASE Return
    BY <2>7, ReturnStep
  <2> QED  BY <1>5, <2>1, <2>2, <2>3, <2>4, <2>5, <2>6, <2>7 DEF Screen
<1>6. CASE \E t \in Threads : SaveFile(t)
  BY <1>6, IgnoreStep, OpenStep, OpenFailsStep, WriteLinesStep, SetFlagStep DEF SaveFile
<1> QED  BY <1>1, <1>2, <1>3, <1>4, <1>5, <1>6 DEF Next

LEMMA SavingInvariant == Spec => []SavingInv
BY SavingStarts, SavingGoesOn, PTL DEF Spec

\* A text that does not count as modified is in its file, unless modified was
\* cleared for a save that Excused lists: however the two threads and the
\* changes interleave, and however many files there are.
THEOREM SavedUnmodified == Spec => []UnmodifiedSaved
<1>1. SavingInv => UnmodifiedSaved
  BY DEF SavingInv, Unmodified, UnmodifiedSaved
<1> QED  BY <1>1, SavingInvariant, PTL

\* The screen is not left, but with the answer "No", unless the text is in a
\* file, with the same exceptions.
THEOREM SavedOnExit == Spec => []ExitKeeps
<1>1. SavingInv => ExitKeeps
  BY DEF SavingInv
<1> QED  BY <1>1, SavingInvariant, PTL

\* ^W keeps what was in the file: behind or before the text, and in the backup
\* from before the file is opened.
THEOREM SavedOld == Spec => []OldKept
<1>1. SavingInv => OldKept
  <2> SUFFICES ASSUME SavingInv PROVE OldKept
    OBVIOUS
  <2> DEFINE mine == task["screen"]  place == at["screen"]  f == mine.name
  <2> SUFFICES ASSUME mine.alone, mine.whole, before # NoFile
               PROVE  /\ place = "done" /\ mine.write_mode = WR_APPEND =>
                          disk[f] = IF mine.ignored THEN before
                                    ELSE before \o <<mine.version>>
                      /\ place = "done" /\ mine.write_mode = WR_PREPEND =>
                          disk[f] = (IF mine.ignored THEN before
                                     ELSE <<mine.version>>) \o before
                      /\ mine.backup /\ place # "backup" => backups[f] = before
    BY DEF OldKept
  <2>1. Settled(mine, place) /\ Prepared(mine, place, disk[f], buf, backups[f])
    BY DEF SavingInv, Along, OnDisk
  <2> QED  BY <2>1 DEF Settled, Prepared
<1> QED  BY <1>1, SavingInvariant, PTL
=============================================================================
