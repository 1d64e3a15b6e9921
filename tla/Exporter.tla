------------------------------- MODULE Exporter -------------------------------
(***************************************************************************)
(* The commands that read the backup: export, "manage list" and "manage    *)
(* check".  They read while a sync of another process may write: each      *)
(* SELECT is a step of its own, and only a cursor with rows left (over the *)
(* trash, or over the notes being checked) keeps a writer out.             *)
(*                                                                         *)
(* A file is the sequence of its notes and whether its last line is there. *)
(* The order of notebooks and of notes is left out: any order is a step.   *)
(***************************************************************************)
EXTENDS NoteFormat

CONSTANTS Notes, Notebooks, None,
          Corrupt,        \* content that cannot be unpickled
          RawNames,       \* titles, and names of notebooks and stacks
          Safe,           \* RawNames -> names without bad characters, cut to
                          \* a length; a name is a stem and the numbers after it
          Trash,          \* the raw name "Trash"
          NotebookTables, \* tables notebooks: guid -> name and stack, or None
          Contents,       \* contents of notes
          NoteTables,     \* tables notes that another process has left
          Tagged,         \* notes with one of the tags of --tag
          Times,          \* every note carries these times
          FileSystems,    \* contents of the output directory: path -> file
          Overwrite,      \* --overwrite
          MaxCommands, MaxChanges, MaxFaults

ASSUME ExporterAssumption ==
    /\ Trash \in RawNames /\ Trash \notin Notebooks /\ Overwrite \in BOOLEAN
    /\ MaxCommands \in Nat /\ MaxChanges \in Nat /\ MaxFaults \in Nat

VARIABLES
    notes,      \* table notes: guid -> row
    tasks,      \* tables tasks and reminders: guid -> version of the note's
    notebooks,  \* table notebooks
    files,      \* path -> file
    cmd, pc,    \* the running command with its options; next step
    trash,      \* the notes of the trash are still to be written, or listed
    left,       \* notebooks_bar: notebooks that are left
    nb,         \* the notebook being read, Trash for the trash
    todo,       \* guids of it, or rows of the cursor, that are left
    note,       \* the note in hand
    path,       \* the file that is open
    listed,     \* what "manage list" has shown
    outcome,    \* of the last command: "failed" or "done"
    touched,    \* for the properties: what has changed since it began
    written,    \* for the properties: the files it has opened
    commands, changes, faults

tables  == <<notes, tasks, notebooks>>
reading == <<cmd, trash, left, nb, todo, note, path, listed>>
ghosts  == <<touched, written>>
bounds  == <<commands, changes, faults>>
vars    == <<tables, files, pc, outcome, reading, ghosts, bounds>>

NULL == None

Row == [notebook_guid : Notebooks, title : RawNames, is_active : BOOLEAN,
        raw_note : Contents \cup {Corrupt}]
       \cup [notebook_guid : Notebooks, title : RawNames, is_active : {NULL},
             raw_note : {NULL}]

\* A table has rows, content is text and never taken for NULL, a time is a
\* number of seconds, and a file on the disk has been closed or not.
ASSUME TablesAssumption ==
    /\ None \notin Contents \cup {Corrupt} /\ Contents \subseteq Seq(STRING)
    /\ Times \subseteq [day : Int, sec : Int]
    /\ NoteTables \subseteq [Notes -> Row \cup {None}]
    /\ \A fs \in FileSystems : \A p \in DOMAIN fs :
          /\ DOMAIN fs[p] = {"notes", "tail"} /\ fs[p].tail \in BOOLEAN

NoCommand == [name |-> "none", single_notes |-> FALSE, include_trash |-> FALSE,
              only |-> None, filter_tags |-> FALSE, mark_corrupt |-> FALSE]

Init ==
    /\ notes \in NoteTables
    /\ tasks = [n \in Notes |-> 0]
    /\ notebooks \in NotebookTables
    /\ files \in FileSystems
    /\ cmd = NoCommand /\ pc = "idle" /\ trash = FALSE
    /\ left = {} /\ nb = None /\ todo = {} /\ note = None /\ path = None /\ listed = {}
    /\ outcome = "done" /\ touched = {} /\ written = {}
    /\ commands = 0 /\ changes = 0 /\ faults = 0

----------------------------------------------------------------------------
(* Queries.                                                                *)

Holds(n) == notes[n] # None /\ notes[n].raw_note # NULL

ActiveNotes == {n \in Notes : Holds(n) /\ notes[n].is_active = TRUE}

Trashed == {n \in Notes : Holds(n) /\ notes[n].is_active = FALSE}

In(b) == {n \in ActiveNotes : notes[n].notebook_guid = b}

iter_notebooks == {b \in Notebooks : notebooks[b] # None}

----------------------------------------------------------------------------
(* Another process runs sync: it schedules a note, stores one, perhaps in  *)
(* another notebook or in the trash, or deletes one, in one commit or more *)
(* of which the last one counts here.                                      *)

\* Fault: a row in hand does not keep the cursor open.
LockedBetweenRows ==
    todo # {} /\ (pc = "scan" \/ (nb = Trash /\ pc \in {"read", "openNote", "write", "closeNote"}))

\* A cursor with rows left holds SQLite's shared lock, and a writer gives up
\* on it.  Python's sqlite3 is one row ahead of the row it hands out: with the
\* last row in hand the statement is over and the lock is gone.
Locked ==
    /\ todo # {}
    /\ \/ pc \in {"scan", "mark"}
       \/ nb = Trash /\ pc \in {"read", "openNote", "write", "closeNote"}

Touch(n) ==
    /\ ~ Locked /\ changes < MaxChanges
    /\ changes' = changes + 1
    /\ touched' = touched \cup {n}
    /\ UNCHANGED <<notebooks, files, pc, outcome, reading, written, commands, faults>>

SyncNote(n) ==
    /\ Touch(n)
    /\ \E row \in Row \cup {None} :
          /\ notes[n] # None /\ row # None => row.title = notes[n].title
          /\ notes' = [notes EXCEPT ![n] = row]
    /\ UNCHANGED tasks

SyncTask(n) ==
    /\ Touch(n)
    /\ tasks' = [tasks EXCEPT ![n] = @ + 1]
    /\ UNCHANGED notes

----------------------------------------------------------------------------
(* SafePath.  A directory is taken as it is, and made when it is missing;  *)
(* only a file gets a number.                                              *)

PathOf(dirs, raw, i) ==
    [dirs |-> [k \in DOMAIN dirs |-> Safe[dirs[k]]],
     name |-> IF i = 0 THEN Safe[raw] ELSE Append(Safe[raw], i)]

\* Fault: the name with the first number is taken unseen.
get_file_once(dirs, raw) ==
    {PathOf(dirs, raw, IF ~ Overwrite /\ PathOf(dirs, raw, 0) \in DOMAIN files THEN 1 ELSE 0)}

\* The one path that get_file returns: the first that does not exist, or the
\* plain one with --overwrite.
get_file(dirs, raw) ==
    {PathOf(dirs, raw, i) : i \in {k \in 0 .. Cardinality(DOMAIN files) :
        IF Overwrite THEN k = 0
        ELSE /\ PathOf(dirs, raw, k) \notin DOMAIN files
             /\ \A j \in 0 .. k - 1 : PathOf(dirs, raw, j) \in DOMAIN files}}

ParentDir == IF nb # Trash /\ notebooks[nb].stack # None THEN <<notebooks[nb].stack>> ELSE <<>>

NotebookName == IF nb = Trash THEN Trash ELSE notebooks[nb].name

\* open(path, "w").
Open(dirs, raw) ==
    \E p \in get_file(dirs, raw) :
        /\ path' = p
        /\ files' = [q \in DOMAIN files \cup {p} |->
                        IF q = p THEN [notes |-> <<>>, tail |-> FALSE] ELSE files[q]]
        /\ written' = written \cup {p}

\* Fault: the file stays open.
CloseNothing == files' = [files EXCEPT ![path].tail = TRUE] /\ UNCHANGED path

\* The last line, and the end of the "with".
Close == /\ files' = [files EXCEPT ![path].tail = TRUE]
         /\ path' = None

----------------------------------------------------------------------------
(* The commands.                                                           *)

Start(c, step) ==
    /\ pc = "idle" /\ commands < MaxCommands
    /\ commands' = commands + 1
    /\ cmd' = c /\ pc' = step
    /\ trash' = (c.name = "list" /\ c.include_trash)
    /\ listed' = {} /\ touched' = {} /\ written' = {}
    /\ UNCHANGED <<tables, files, outcome, left, nb, todo, note, path, changes, faults>>

\* A name that no notebook has is ignored with a warning.
NotebookNames == {notebooks[b].name : b \in iter_notebooks}

Export ==
    \E single_notes, include_trash, filter_tags \in BOOLEAN, only \in NotebookNames \cup {None} :
        Start([NoCommand EXCEPT !.name = "export", !.single_notes = single_notes,
                                !.include_trash = include_trash, !.only = only,
                                !.filter_tags = filter_tags], "count")

\* --all is include_trash here: it lists the notes, also those of the trash.
List ==
    \E all \in BOOLEAN, only \in NotebookNames \cup {None} :
        Start([NoCommand EXCEPT !.name = "list", !.include_trash = all, !.only = only],
              "notebooks")

Check ==
    \E mark_corrupt \in BOOLEAN :
        Start([NoCommand EXCEPT !.name = "check", !.mark_corrupt = mark_corrupt], "integrity")

Continue(step) ==
    /\ pc' = step
    /\ UNCHANGED <<tables, files, outcome, reading, ghosts, bounds>>

Ended(result) ==
    /\ pc' = "idle" /\ outcome' = result
    /\ trash' = FALSE /\ left' = {} /\ nb' = None /\ todo' = {} /\ note' = None /\ path' = None
    /\ UNCHANGED <<tables, cmd, listed, ghosts, commands, changes>>

End(result) == Ended(result) /\ UNCHANGED <<files, faults>>

\* Fault: a backup with trashed notes only is taken for empty.
CountActive ==
    /\ pc = "count"
    /\ IF ActiveNotes = {} THEN End(IF Trashed = {} THEN "failed" ELSE "done")
       ELSE IF cmd.name = "check" THEN Continue("execute")
       ELSE /\ trash' = (cmd.include_trash /\ Trashed # {})
            /\ pc' = "notebooks"
            /\ UNCHANGED <<tables, files, outcome, cmd, left, nb, todo, note, path, listed,
                           ghosts, bounds>>

\* An empty database is an error.
Count ==
    /\ pc = "count"
    /\ IF ActiveNotes \cup Trashed = {} THEN End("failed")
       ELSE IF cmd.name = "check" THEN Continue("execute")
       ELSE /\ trash' = (cmd.include_trash /\ Trashed # {})
            /\ pc' = IF ActiveNotes # {} THEN "notebooks" ELSE "next"
            /\ UNCHANGED <<tables, files, outcome, cmd, left, nb, todo, note, path, listed,
                           ghosts, bounds>>

ReadNotebooks ==
    /\ pc = "notebooks"
    /\ left' = {b \in iter_notebooks : cmd.only \in {None, notebooks[b].name}}
    /\ pc' = "next"
    /\ UNCHANGED <<tables, files, outcome, cmd, trash, nb, todo, note, path, listed, ghosts, bounds>>

Begin(source) ==
    /\ nb' = source
    /\ pc' = IF cmd.name = "export" /\ ~ cmd.single_notes THEN "open" ELSE "guids"
    /\ UNCHANGED <<tables, files, outcome, cmd, todo, note, path, listed, ghosts, bounds>>

\* export passes over a notebook without notes, list over the notes of all
\* notebooks unless it is asked for them.
NextNotebook ==
    /\ pc = "next"
    /\ \E b \in left :
          /\ left' = left \ {b} /\ UNCHANGED trash
          /\ IF IF cmd.name = "export" THEN In(b) # {} ELSE cmd.include_trash \/ cmd.only # None
             THEN Begin(b)
             ELSE UNCHANGED <<tables, files, pc, outcome, cmd, nb, todo, note, path, listed,
                              ghosts, bounds>>

NextTrash ==
    /\ pc = "next" /\ left = {} /\ trash
    /\ trash' = FALSE /\ UNCHANGED left
    /\ Begin(Trash)

Finish == pc = "next" /\ left = {} /\ ~ trash /\ End("done")

\* _output_notebook gets its file before the first note is read.
OpenNotebook ==
    /\ pc = "open"
    /\ Open(ParentDir, NotebookName)
    /\ pc' = "guids"
    /\ UNCHANGED <<tables, outcome, cmd, trash, left, nb, todo, note, listed, touched, bounds>>

\* Fault: the trashed notes of a notebook are taken for its notes.
ReadGuidsOfAll ==
    /\ pc = "guids"
    /\ todo' = IF nb = Trash THEN Trashed
               ELSE {n \in Notes : Holds(n) /\ notes[n].notebook_guid = nb}
    /\ pc' = "read"
    /\ UNCHANGED <<tables, files, outcome, cmd, trash, left, nb, note, path, listed, ghosts, bounds>>

ReadGuids ==
    /\ pc = "guids"
    /\ todo' = IF nb = Trash THEN Trashed ELSE In(nb)
    /\ pc' = "read"
    /\ UNCHANGED <<tables, files, outcome, cmd, trash, left, nb, note, path, listed, ghosts, bounds>>

\* A row that another process has emptied or deleted is None, and using it is
\* a TypeError; a corrupt one is passed over with a warning.
ReadNote(n) ==
    /\ pc = "read" /\ n \in todo
    /\ IF ~ Holds(n) THEN End("failed")
       ELSE /\ todo' = todo \ {n}
            /\ IF notes[n].raw_note = Corrupt \/ (cmd.filter_tags /\ n \notin Tagged)
               THEN UNCHANGED <<pc, note, listed>>
               ELSE IF cmd.name = "list"
               THEN listed' = listed \cup {<<nb, n>>} /\ UNCHANGED <<pc, note>>
               ELSE /\ note' = [guid |-> n, title |-> notes[n].title,
                                content |-> notes[n].raw_note]
                    /\ pc' = IF cmd.single_notes THEN "openNote" ELSE "write"
                    /\ UNCHANGED listed
            /\ UNCHANGED <<tables, files, outcome, cmd, trash, left, nb, path, ghosts, bounds>>

OpenNote ==
    /\ pc = "openNote"
    /\ Open(Append(ParentDir, NotebookName), note.title)
    /\ pc' = "write"
    /\ UNCHANGED <<tables, outcome, cmd, trash, left, nb, todo, note, listed, touched, bounds>>

Dates == [t \in Times |-> fmt_time(t)]

\* The tasks of the note are read now.
WriteNote ==
    /\ pc = "write"
    /\ files' = [files EXCEPT ![path].notes =
                    Append(@, [guid |-> note.guid, content |-> fmt_content(note.content),
                               dates |-> Dates, tasks |-> tasks[note.guid]])]
    /\ pc' = IF cmd.single_notes THEN "closeNote" ELSE "read"
    /\ note' = None
    /\ UNCHANGED <<tables, outcome, cmd, trash, left, nb, todo, path, listed, ghosts, bounds>>

CloseNote ==
    /\ pc = "closeNote"
    /\ Close
    /\ pc' = "read"
    /\ UNCHANGED <<tables, outcome, cmd, trash, left, nb, todo, note, listed, ghosts, bounds>>

EndOfNotes ==
    /\ pc = "read" /\ todo = {}
    /\ IF path # None THEN Close ELSE UNCHANGED <<files, path>>
    /\ pc' = "next" /\ nb' = None
    /\ UNCHANGED <<tables, outcome, cmd, trash, left, todo, note, listed, ghosts, bounds>>

----------------------------------------------------------------------------
(* NoteChecker.                                                            *)

\* PRAGMA integrity_check reports something, or nothing.
IntegrityCheck == pc = "integrity" /\ (End("failed") \/ Continue("count"))

Execute ==
    /\ pc = "execute"
    /\ todo' = ActiveNotes \cup Trashed
    /\ pc' = "scan"
    /\ UNCHANGED <<tables, files, outcome, cmd, trash, left, nb, note, path, listed, ghosts, bounds>>

\* The next row; one that cannot be unpickled is marked, as what it was read.
FetchNote(n) ==
    /\ pc = "scan" /\ n \in todo
    /\ todo' = todo \ {n}
    /\ IF notes[n].raw_note = Corrupt /\ cmd.mark_corrupt
       THEN /\ note' = [guid |-> n, title |-> notes[n].title, content |-> notes[n].raw_note]
            /\ pc' = "mark"
       ELSE UNCHANGED <<note, pc>>
    /\ UNCHANGED <<tables, files, outcome, cmd, trash, left, nb, path, listed, ghosts, bounds>>

\* Fault: a note in the trash is not marked.
_mark_note_for_redownload_active(g) ==
    [notes EXCEPT ![g] = IF @ = None \/ @.is_active # TRUE THEN @
                         ELSE [@ EXCEPT !.raw_note = NULL, !.is_active = NULL]]

\* UPDATE by guid alone, whatever the row holds by now.
_mark_note_for_redownload(g) ==
    [notes EXCEPT ![g] = IF @ = None THEN None
                         ELSE [@ EXCEPT !.raw_note = NULL, !.is_active = NULL]]

\* Its commit leaves the cursor of check_notes open.
MarkNote ==
    /\ pc = "mark"
    /\ notes' = _mark_note_for_redownload(note.guid)
    /\ note' = None /\ pc' = "scan"
    /\ UNCHANGED <<tasks, notebooks, files, outcome, cmd, trash, left, nb, todo, path, listed,
                   ghosts, bounds>>

EndOfScan == pc = "scan" /\ todo = {} /\ End("done")

\* The process is killed, a file cannot be written, or the database stays
\* locked by another process (OperationalError).  What is in a buffer is lost,
\* here whole notes of it.
Die ==
    /\ pc # "idle" /\ faults < MaxFaults
    /\ faults' = faults + 1
    /\ IF path = None THEN UNCHANGED files
       ELSE \E k \in 0 .. Len(files[path].notes) :
               files' = [files EXCEPT ![path].notes = SubSeq(@, 1, k)]
    /\ Ended("failed")

----------------------------------------------------------------------------
Step ==
    \/ Count \/ ReadNotebooks \/ NextNotebook \/ NextTrash \/ Finish
    \/ OpenNotebook \/ ReadGuids \/ OpenNote \/ WriteNote \/ CloseNote \/ EndOfNotes
    \/ IntegrityCheck \/ Execute \/ MarkNote \/ EndOfScan
    \/ \E n \in Notes : ReadNote(n) \/ FetchNote(n)

Next == \/ Step \/ Export \/ List \/ Check \/ Die
        \/ \E n \in Notes : SyncNote(n) \/ SyncTask(n)

Spec == Init /\ [][Next]_vars

----------------------------------------------------------------------------
(* Properties.                                                             *)

TypeOK ==
    /\ notes \in [Notes -> Row \cup {None}] /\ tasks \in [Notes -> Nat]
    /\ \A p \in DOMAIN files : files[p].tail \in BOOLEAN
    /\ left \subseteq Notebooks /\ nb \in Notebooks \cup {None, Trash}
    /\ todo \subseteq Notes /\ touched \subseteq Notes
    /\ path # None => path \in DOMAIN files /\ ~ files[path].tail
    /\ written \subseteq DOMAIN files
    /\ pc = "idle" => path = None /\ note = None /\ todo = {} /\ ~ trash
    /\ pc \in {"write", "closeNote"} => path # None

\* Without --overwrite an export adds files.  One that was there before, or
\* that it has closed, stays as it is, whatever titles and notebooks share a
\* name and wherever the program dies (_get_non_existant_name).
OldFilesKept ==
    [][~ Overwrite => \A p \in DOMAIN files : p # path =>
           p \in DOMAIN files' /\ files'[p] = files[p]]_vars

Sound(n) == n \notin touched /\ Holds(n) /\ notes[n].raw_note # Corrupt

\* Where a command comes upon an untouched note: in its notebook, or in Trash.
Sources(n) ==
    {b \in iter_notebooks : /\ n \in In(b) /\ cmd.only \in {None, notebooks[b].name}
                            /\ cmd.name = "export" \/ cmd.only # None \/ cmd.include_trash}
    \cup {b \in {Trash} : n \in Trashed /\ cmd.include_trash}

Places(n) ==
    UNION {{p} \X {i \in DOMAIN files[p].notes : files[p].notes[i].guid = n} : p \in written}

\* The options ask for a note: --include-trash for one in the trash, --notebook
\* for those of one notebook, --tag for tagged ones.
Asked(n) ==
    /\ cmd.filter_tags => n \in Tagged
    /\ IF n \in Trashed THEN cmd.include_trash
       ELSE cmd.only = None \/ \E b \in iter_notebooks : n \in In(b) /\ notebooks[b].name = cmd.only

\* An active note whose notebook has no row: the notebook was expunged, and the
\* sync ended before the note's new notebook or its deletion was stored.
Unfiled(n) == n \in ActiveNotes /\ notebooks[notes[n].notebook_guid] = None

\* When an export succeeds every sound note that the sync left alone and that
\* the options ask for was written exactly once, but for a note without a
\* notebook (AllExported is about those), and a note that the options do not
\* ask for was not written.
ExportComplete ==
    pc = "idle" /\ outcome = "done" /\ cmd.name = "export" =>
        \A n \in Notes : Sound(n) =>
            /\ Cardinality(Places(n)) <= 1
            /\ Asked(n) /\ ~ Unfiled(n) => Places(n) # {}
            /\ Places(n) # {} => Asked(n)

\* Where the files of a notebook, or of the trash, are.
DirsOf(b) ==
    LET stack == IF b = Trash \/ notebooks[b].stack = None THEN <<>>
                 ELSE <<Safe[notebooks[b].stack]>>
        name  == Safe[IF b = Trash THEN Trash ELSE notebooks[b].name]
    IN  IF cmd.single_notes THEN Append(stack, name) ELSE stack

\* What is in a file under a note is that note, to a reader of the file: its
\* content is neither cut nor spilled, and it is in the directory of its
\* notebook.
ContentKept ==
    \A p \in written : \A i \in DOMAIN files[p].notes :
        LET e == files[p].notes[i] IN
        Sound(e.guid) =>
            /\ Read(e.content) = <<"prolog">> \o Body(notes[e.guid].raw_note)
            /\ e.tasks = tasks[e.guid]
            /\ \E b \in Sources(e.guid) : p.dirs = DirsOf(b)

\* Every time of an exported note is the date of that time, or the end of
\* Python's calendar for a time beyond it (_date_from_future).
DatesRight ==
    \A p \in written : \A i \in DOMAIN files[p].notes :
        \A t \in Times : RightDate(t, files[p].notes[i].dates[t])

\* "manage list" shows every sound note that the sync left alone, under its
\* notebook, if it is asked for it, and no note that it is not asked for.
ListComplete ==
    pc = "idle" /\ outcome = "done" /\ cmd.name = "list" =>
        \A n \in Notes : Sound(n) => {b \in Notebooks \cup {Trash} : <<b, n>> \in listed} = Sources(n)

\* A check that succeeds with --mark-corrupted leaves no corrupt note.
CheckMarks ==
    pc = "idle" /\ outcome = "done" /\ cmd.mark_corrupt =>
        \A n \in Notes \ touched : notes[n] # None => notes[n].raw_note # Corrupt

\* The content that --mark-corrupted gives up is the one that could not be
\* read, however a sync writes in between.  Only the cursor's last row may have
\* been stored anew: the lock is gone while that row is looked at, and the mark
\* wipes the new content.
GivenUpAsRead ==
    [][\A n \in Notes : notes'[n] # notes[n] /\ changes' = changes =>
           /\ cmd.mark_corrupt
           /\ notes[n].raw_note = Corrupt \/ (todo = {} /\ n \in touched)]_vars

\* "Export all notes from local database into ENEX files." (cli.py:415): an
\* export without filters that succeeds leaves every sound note that the sync
\* left alone in a file.
AllExported ==
    pc = "idle" /\ outcome = "done" /\ cmd.name = "export" /\ cmd.include_trash
        /\ cmd.only = None /\ ~ cmd.filter_tags =>
        \A n \in Notes : Sound(n) => Places(n) # {}
============================================================================
