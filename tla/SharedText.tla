----------------------------- MODULE SharedText -----------------------------
(***************************************************************************)
(* What the editor promises its users, without operational transformation, *)
(* endpoints or messages.  There is one history of texts.  A user's edits  *)
(* change the user's own document at once and enter the history one by     *)
(* one, in the order they were made, each at most once; the edits of       *)
(* others are learned in the order of the history.  An edit keeps its      *)
(* character and may only move, or be absorbed by an equal one.  A user    *)
(* with no edit pending holds a text of the history.                       *)
(***************************************************************************)
EXTENDS Integers, Sequences, SequencesExt, FiniteSets

CONSTANTS User, Char, InitialText

VARIABLES
    joined,    \* who takes part
    commits,   \* the history of edits: [author, edit]
    versions,  \* the history of texts: versions[n + 1] is after n commits
    doc,       \* doc[u]: the document user u sees
    pending,   \* pending[u]: edits of u not yet in the history, oldest first
    learned    \* learned[u]: how many commits of others u has seen

vars == <<joined, commits, versions, doc, pending, learned>>

Edit == [operation : {"CH_INSERT", "CH_DELETE"}, data : Char]

\* The texts that an edit performed somewhere can make of a text.
Results(text, edit) ==
    CASE edit.operation = "CH_INSERT" ->
            { InsertAt(text, n, edit.data) : n \in 1..Len(text) + 1 }
      [] edit.operation = "CH_DELETE" ->
            { RemoveAt(text, n) :
                n \in { m \in 1..Len(text) : text[m] = edit.data } }
      [] OTHER -> {text}

Absorbed(edit) == [edit EXCEPT !.operation = "NOOP"]

Init ==
    /\ joined = {}
    /\ commits = <<>>
    /\ versions = <<InitialText>>
    /\ doc = [u \in User |-> InitialText]
    /\ pending = [u \in User |-> <<>>]
    /\ learned = [u \in User |-> 0]
-----------------------------------------------------------------------------
\* How many of the first n commits are by others than u, and by u.
Others(u, n) == Cardinality({ m \in 1..n : commits[m].author # u })
Own(u, n) == Cardinality({ m \in 1..n : commits[m].author = u })

\* The commits reflected in the document of u, once all its own are among
\* them.
Known(u) == learned[u] + Own(u, Len(commits))

InSync(u) ==
    /\ pending[u] = <<>>
    /\ \A n \in Known(u) + 1..Len(commits) : commits[n].author # u
    => doc[u] = versions[Known(u) + 1]

Join(u) ==
    /\ u \notin joined
    /\ joined' = joined \cup {u}
    /\ UNCHANGED <<commits, versions, doc, pending, learned>>

Write(u) ==
    /\ u \in joined
    /\ \E edit \in Edit :
        /\ pending' = [pending EXCEPT ![u] = Append(@, edit)]
        /\ \E t \in Results(doc[u], edit) : doc' = [doc EXCEPT ![u] = t]
    /\ UNCHANGED <<joined, commits, versions, learned>>

Commit(u) ==
    /\ pending[u] # <<>>
    /\ pending' = [pending EXCEPT ![u] = Tail(@)]
    /\ \E edit \in {Head(pending[u]), Absorbed(Head(pending[u]))} :
        /\ commits' = Append(commits, [author |-> u, edit |-> edit])
        /\ \E t \in Results(Last(versions), edit) :
            versions' = Append(versions, t)
    /\ UNCHANGED <<joined, doc, learned>>
    /\ InSync(u)'

\* u learns of the oldest commit by others that it has not learned of.
Learn(u) ==
    /\ u \in joined
    /\ \E n \in 1..Len(commits) :
        /\ commits[n].author # u /\ Others(u, n - 1) = learned[u]
        /\ \E t \in Results(doc[u], commits[n].edit) \cup {doc[u]} :
            doc' = [doc EXCEPT ![u] = t]
    /\ learned' = [learned EXCEPT ![u] = @ + 1]
    /\ UNCHANGED <<joined, commits, versions, pending>>
    /\ InSync(u)'

Next == \E u \in User : Join(u) \/ Write(u) \/ Commit(u) \/ Learn(u)

Spec == Init /\ [][Next]_vars
=============================================================================
