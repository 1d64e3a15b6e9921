---------------------------- MODULE Exporter_proofs ----------------------------
(***************************************************************************)
(* What the commands that read the backup promise, for any tables, names,  *)
(* options, contents, times and directory: without --overwrite no finished *)
(* file is touched and every note that is asked for is written once; what  *)
(* is written says what the note says, on its right date; and the content  *)
(* that is given up is what could not be read.                             *)
(***************************************************************************)
EXTENDS Exporter, FiniteInduction

\* A step touches the file that is open and no other.
OthersKept(p) == p \in DOMAIN files' /\ files'[p] = files[p]

----------------------------------------------------------------------------
(* Files.                                                                  *)

\* Without --overwrite get_file returns a path that does not exist.
LEMMA FreshPath ==
    ASSUME NEW dirs, NEW raw, NEW p \in get_file(dirs, raw), ~ Overwrite
    PROVE  p \notin DOMAIN files
BY DEF get_file

\* Opening a file without --overwrite leaves all others alone.
LEMMA OpenKeeps ==
    ASSUME NEW dirs, NEW raw, Open(dirs, raw), ~ Overwrite,
           NEW q \in DOMAIN files
    PROVE  OthersKept(q)
<1>1. PICK p \in get_file(dirs, raw) :
          files' = [r \in DOMAIN files \cup {p} |->
                       IF r = p THEN [notes |-> <<>>, tail |-> FALSE] ELSE files[r]]
  BY DEF Open
<1>2. p \notin DOMAIN files
  BY FreshPath
<1> QED
  BY <1>1, <1>2 DEF OthersKept

\* The last line goes to the open file.
LEMMA CloseKeeps ==
    ASSUME Close, NEW p \in DOMAIN files, p # path
    PROVE  OthersKept(p)
BY DEF Close, OthersKept

\* One step of a command or of another process leaves every file alone but
\* the one that is open.
LEMMA StepKeeps ==
    ASSUME Next, ~ Overwrite, NEW p \in DOMAIN files, p # path
    PROVE  OthersKept(p)
<1>1. CASE UNCHANGED files
  BY <1>1 DEF OthersKept
<1>2. CASE OpenNotebook
  BY <1>2, OpenKeeps DEF OpenNotebook
<1>3. CASE OpenNote
  BY <1>3, OpenKeeps DEF OpenNote
<1>4. CASE WriteNote
  BY <1>4 DEF WriteNote, OthersKept
<1>5. CASE CloseNote
  BY <1>5, CloseKeeps DEF CloseNote
<1>6. CASE EndOfNotes
  BY <1>1, <1>6, CloseKeeps DEF EndOfNotes
<1>7. CASE Die
  <2>1. CASE path = None
    BY <1>1, <1>7, <2>1 DEF Die
  <2>2. CASE path # None
    BY <1>7, <2>2 DEF Die, OthersKept
  <2> QED
    BY <2>1, <2>2
<1>8. ASSUME Step
      PROVE  \/ UNCHANGED files
             \/ OpenNotebook \/ OpenNote \/ WriteNote \/ CloseNote \/ EndOfNotes
  <2>1. ASSUME NEW n \in Notes, ReadNote(n) \/ FetchNote(n)
        PROVE  UNCHANGED files
    BY <2>1 DEF ReadNote, FetchNote, End
  <2>2. ASSUME Count \/ ReadNotebooks \/ NextNotebook \/ NextTrash \/ Finish
        PROVE  UNCHANGED files
    BY <2>2 DEF Count, ReadNotebooks, NextNotebook, NextTrash, Finish, Begin, Continue, End
  <2>3. ASSUME ReadGuids \/ IntegrityCheck \/ Execute \/ MarkNote \/ EndOfScan
        PROVE  UNCHANGED files
    BY <2>3 DEF ReadGuids, IntegrityCheck, Execute, MarkNote, EndOfScan, Continue, End
  <2> QED
    BY <1>8, <2>1, <2>2, <2>3 DEF Step
<1>9. ASSUME Export \/ List \/ Check
      PROVE  UNCHANGED files
  BY <1>9 DEF Export, List, Check, Start
<1>10. ASSUME NEW n \in Notes, SyncNote(n) \/ SyncTask(n)
       PROVE  UNCHANGED files
  BY <1>10 DEF SyncNote, SyncTask, Touch
<1> QED
  BY <1>1, <1>2, <1>3, <1>4, <1>5, <1>6, <1>7, <1>8, <1>9, <1>10 DEF Next

\* Without --overwrite an export adds files: one that was there before, or
\* that it has closed, stays as it is, whatever names collide and wherever
\* the program dies.
THEOREM KeepsOldFiles == Spec => OldFilesKept
<1>1. [Next]_vars => (~ Overwrite => \A p \in DOMAIN files : p # path =>
                          p \in DOMAIN files' /\ files'[p] = files[p])
  <2> SUFFICES ASSUME [Next]_vars, ~ Overwrite, NEW p \in DOMAIN files, p # path
               PROVE  OthersKept(p)
    BY DEF OthersKept
  <2>1. CASE Next
    BY <2>1, StepKeeps
  <2>2. CASE UNCHANGED vars
    BY <2>2 DEF vars, OthersKept
  <2> QED
    BY <2>1, <2>2
<1> QED
  BY <1>1, PTL DEF Spec, OldFilesKept

----------------------------------------------------------------------------
(* Types, and the inductive invariant.                                     *)

\* A file is open from its first line to its last: while a note is written,
\* and with one file for a notebook also between its notes.
PathOK ==
    /\ path # None <=> \/ pc \in {"write", "closeNote"}
                       \/ pc \in {"guids", "read"} /\ cmd.name = "export" /\ ~ cmd.single_notes
    /\ pc \in {"openNote", "closeNote"} => cmd.single_notes
    /\ pc = "open" => ~ cmd.single_notes
    /\ pc \in {"open", "openNote", "write", "closeNote"} => cmd.name = "export"
    /\ pc \in {"notebooks", "next", "guids", "read"} => cmd.name \in {"export", "list"}
    /\ pc \in {"scan", "mark", "execute"} => cmd.name = "check"
    /\ pc = "integrity" => cmd.name = "check"
    /\ pc = "count" => cmd.name \in {"export", "check"}
    /\ cmd.mark_corrupt => cmd.name \in {"check"}

\* What a check still has to look at: rows that are there, and with the one
\* in hand every corrupt row that another process left alone.  The row in hand
\* is what it was read, but after the cursor's last row.
ScanOK ==
    /\ pc \in {"scan", "mark"} => \A n \in todo : notes[n] # None
    /\ pc \in {"scan", "mark"} /\ cmd.mark_corrupt =>
          \A n \in Notes \ touched : notes[n] # None /\ notes[n].raw_note = Corrupt =>
             n \in todo \/ (pc = "mark" /\ n = note.guid)
    /\ pc = "mark" =>
          /\ cmd.mark_corrupt /\ note.guid \in Notes \ todo
          /\ \/ todo = {} /\ note.guid \in touched
             \/ notes[note.guid] # None /\ notes[note.guid].raw_note = Corrupt

FilesOK == \A p \in DOMAIN files : DOMAIN files[p] = {"notes", "tail"}

IInv == TypeOK /\ changes \in Nat /\ FilesOK /\ PathOK /\ ScanOK /\ CheckMarks

\* None stands for no file, so it is no path.
NoneIsNoPath == \A d, n : [dirs |-> d, name |-> n] # None

\* The tables and the directory that a command finds satisfy the invariant.
LEMMA InitInv == Init => IInv
BY ExporterAssumption, TablesAssumption
   DEF Init, IInv, TypeOK, FilesOK, PathOK, ScanOK, CheckMarks, NoCommand

\* A row that is marked for download is a row.
LEMMA MarkedRow ==
    ASSUME NEW r \in Row
    PROVE  LET marked == [r EXCEPT !.raw_note = NULL, !.is_active = NULL] IN
           marked \in Row /\ marked.raw_note = NULL
BY DEF Row, NULL

----------------------------------------------------------------------------
(* Every step keeps the invariant.                                         *)

\* A command that begins has no file open.
LEMMA StartInv == IInv /\ (Export \/ List \/ Check) => IInv'
<1> USE DEF IInv, TypeOK, FilesOK, PathOK, ScanOK, CheckMarks, tables, reading, ghosts, bounds
<1> SUFFICES ASSUME IInv, Export \/ List \/ Check PROVE IInv'
  OBVIOUS
<1>1. CASE Export
  <2>1. cmd'.mark_corrupt = FALSE /\ cmd'.name = "export"
    BY <1>1, Zenon DEF Export, Start, NoCommand
  <2> QED
    BY <1>1, <2>1 DEF Export, Start
<1>2. CASE List
  BY <1>2 DEF List, Start, NoCommand
<1>3. CASE Check
  BY <1>3 DEF Check, Start, NoCommand
<1> QED
  BY <1>1, <1>2, <1>3

\* Which notebooks are to be read.
LEMMA CountInv == IInv /\ (Count \/ ReadNotebooks \/ NextNotebook \/ NextTrash \/ Finish) => IInv'
<1> USE DEF IInv, TypeOK, FilesOK, PathOK, ScanOK, CheckMarks, tables, reading, ghosts, bounds
<1> SUFFICES ASSUME IInv, Count \/ ReadNotebooks \/ NextNotebook \/ NextTrash \/ Finish PROVE IInv'
  OBVIOUS
<1>1. CASE Count
  BY <1>1 DEF Count, End, Ended, Continue
<1>2. CASE ReadNotebooks
  BY <1>2 DEF ReadNotebooks, iter_notebooks
<1>3. CASE NextNotebook
  BY <1>3 DEF NextNotebook, Begin
<1>4. CASE NextTrash
  BY <1>4 DEF NextTrash, Begin
<1>5. CASE Finish
  BY <1>5 DEF Finish, End, Ended
<1> QED
  BY <1>1, <1>2, <1>3, <1>4, <1>5

\* Files are opened, written and closed.
LEMMA FileInv ==
    ASSUME NoneIsNoPath, IInv, OpenNotebook \/ OpenNote \/ WriteNote \/ CloseNote \/ EndOfNotes
    PROVE  IInv'
<1> USE DEF IInv, PathOK, ScanOK, CheckMarks, tables, reading, ghosts, bounds
<1>1. ASSUME NEW dirs, NEW raw, Open(dirs, raw)
      PROVE  /\ path' # None /\ path' \in DOMAIN files' /\ ~ files'[path'].tail
             /\ FilesOK' /\ \A p \in DOMAIN files' : files'[p].tail \in BOOLEAN
             /\ written' \subseteq DOMAIN files'
  <2>1. \A p \in get_file(dirs, raw) : p # None
    BY DEF NoneIsNoPath, get_file, PathOf
  <2>2. PICK p \in get_file(dirs, raw) :
           /\ path' = p /\ written' = written \cup {p}
           /\ files' = [q \in DOMAIN files \cup {p} |->
                           IF q = p THEN [notes |-> <<>>, tail |-> FALSE] ELSE files[q]]
    BY <1>1 DEF Open
  <2> QED
    BY <2>1, <2>2 DEF FilesOK, TypeOK
<1>2. ASSUME Close, path # None
      PROVE  /\ path' = None /\ DOMAIN files' = DOMAIN files
             /\ FilesOK' /\ \A p \in DOMAIN files' : files'[p].tail \in BOOLEAN
  <2>1. files' = [p \in DOMAIN files |->
                     IF p = path THEN [files[p] EXCEPT !.tail = TRUE] ELSE files[p]]
    BY <1>2 DEF Close
  <2>2. \A f : DOMAIN f = {"notes", "tail"} =>
            LET g == [f EXCEPT !.tail = TRUE] IN
            DOMAIN g = {"notes", "tail"} /\ g.tail = TRUE
    OBVIOUS
  <2> QED
    BY <1>2, <2>1, <2>2 DEF Close, FilesOK, TypeOK
<1>3. CASE OpenNotebook
  BY <1>1, <1>3 DEF OpenNotebook, TypeOK
<1>4. CASE OpenNote
  BY <1>1, <1>4 DEF OpenNote, TypeOK
<1>5. CASE WriteNote
  BY <1>5 DEF WriteNote, TypeOK, FilesOK
<1>6. CASE CloseNote
  BY <1>2, <1>6 DEF CloseNote, TypeOK
<1>7. CASE EndOfNotes
  <2>1. CASE path # None
    BY <1>2, <1>7, <2>1 DEF EndOfNotes, TypeOK
  <2>2. CASE path = None
    BY <1>7, <2>2 DEF EndOfNotes, TypeOK, FilesOK
  <2> QED
    BY <2>1, <2>2
<1> QED
  BY <1>3, <1>4, <1>5, <1>6, <1>7

\* What a mark does to the rows: one is emptied, if it is there.
LEMMA MarkedNotes ==
    ASSUME IInv, MarkNote
    PROVE  /\ notes' \in [Notes -> Row \cup {None}] /\ note.guid \in Notes
           /\ \A n \in Notes : n # note.guid => notes'[n] = notes[n]
           /\ notes'[note.guid] # None => notes'[note.guid].raw_note = NULL
<1>1. note.guid \in Notes /\ notes[note.guid] \in Row \cup {None}
  BY DEF MarkNote, IInv, ScanOK, TypeOK
<1>2. notes' = [notes EXCEPT ![note.guid] =
                   IF @ = None THEN None ELSE [@ EXCEPT !.raw_note = NULL, !.is_active = NULL]]
  BY DEF MarkNote, _mark_note_for_redownload
<1>3. CASE notes[note.guid] = None
  BY <1>1, <1>2, <1>3 DEF IInv, TypeOK
<1>4. CASE notes[note.guid] # None
  <2>1. LET marked == [notes[note.guid] EXCEPT !.raw_note = NULL, !.is_active = NULL] IN
        marked \in Row /\ marked.raw_note = NULL
    BY <1>1, <1>4, MarkedRow
  <2> QED
    BY <1>1, <1>2, <1>4, <2>1 DEF IInv, TypeOK
<1> QED
  BY <1>3, <1>4

\* The guids of a notebook, and the frame of a check.
LEMMA CheckInv ==
    ASSUME IInv, ReadGuids \/ IntegrityCheck \/ Execute \/ MarkNote \/ EndOfScan
    PROVE  IInv'
<1> USE DEF IInv, TypeOK, FilesOK, PathOK, ScanOK, CheckMarks, tables, reading, ghosts, bounds
<1>1. CASE IntegrityCheck
  BY <1>1 DEF IntegrityCheck, End, Ended, Continue
<1>2. CASE Execute
  BY <1>2, TablesAssumption DEF Execute, ActiveNotes, Trashed, Holds, Row, NULL
<1>3. CASE EndOfScan
  BY <1>3 DEF EndOfScan, End, Ended
<1>4. CASE ReadGuids
  BY <1>4 DEF ReadGuids, Trashed, In, ActiveNotes
<1>5. CASE MarkNote
  <2>1. /\ notes' \in [Notes -> Row \cup {None}] /\ note.guid \in Notes
        /\ \A n \in Notes : n # note.guid => notes'[n] = notes[n]
        /\ notes'[note.guid] # None => notes'[note.guid].raw_note # Corrupt
    BY <1>5, MarkedNotes, TablesAssumption DEF NULL
  <2> QED
    BY <1>5, <2>1 DEF MarkNote
<1> QED
  BY <1>1, <1>2, <1>3, <1>4, <1>5

\* One row of a notebook, or of a check.
LEMMA NoteInv ==
    ASSUME IInv, NEW n \in Notes, ReadNote(n) \/ FetchNote(n)
    PROVE  IInv'
<1> USE DEF IInv, TypeOK, FilesOK, PathOK, ScanOK, CheckMarks, tables, reading, ghosts, bounds
<1>1. CASE ReadNote(n)
  BY <1>1 DEF ReadNote, End, Ended
<1>2. CASE FetchNote(n)
  <2>1. CASE notes[n].raw_note = Corrupt /\ cmd.mark_corrupt
    BY <1>2, <2>1 DEF FetchNote
  <2>2. CASE ~ (notes[n].raw_note = Corrupt /\ cmd.mark_corrupt)
    BY <1>2, <2>2 DEF FetchNote
  <2> QED
    BY <2>1, <2>2
<1> QED
  BY <1>1, <1>2

\* Another process writes between two reads, never while a cursor has rows
\* left.
LEMMA SyncInv ==
    ASSUME IInv, NEW n \in Notes, SyncNote(n) \/ SyncTask(n)
    PROVE  IInv'
<1> USE DEF IInv, TypeOK, FilesOK, PathOK, ScanOK, CheckMarks, reading, Touch, Locked
<1>1. CASE SyncNote(n)
  BY <1>1 DEF SyncNote
<1>2. CASE SyncTask(n)
  BY <1>2 DEF SyncTask
<1> QED
  BY <1>1, <1>2

\* A death leaves the open file without its last line.
LEMMA DieInv == IInv /\ Die => IInv'
<1> SUFFICES ASSUME IInv, Die PROVE IInv'
  OBVIOUS
<1> USE DEF IInv, TypeOK, FilesOK, PathOK, ScanOK, CheckMarks, tables, ghosts, Ended
<1>1. CASE path = None
  BY <1>1 DEF Die
<1>2. CASE path # None
  <2>1. PICK k \in 0 .. Len(files[path].notes) :
           files' = [files EXCEPT ![path].notes = SubSeq(@, 1, k)]
    BY <1>2 DEF Die
  <2>2. \A p \in DOMAIN files : DOMAIN files'[p] = {"notes", "tail"}
                                /\ files'[p].tail = files[p].tail
    BY <2>1
  <2> QED
    BY <2>1, <2>2 DEF Die
<1> QED
  BY <1>1, <1>2

\* Every step keeps the invariant.
LEMMA KeepsInv == ASSUME NoneIsNoPath, IInv, Next PROVE IInv'
<1>1. CASE Step
  <2>1. CASE Count \/ ReadNotebooks \/ NextNotebook \/ NextTrash \/ Finish
    BY <2>1, CountInv
  <2>2. CASE OpenNotebook \/ OpenNote \/ WriteNote \/ CloseNote \/ EndOfNotes
    BY <2>2, FileInv
  <2>3. CASE ReadGuids \/ IntegrityCheck \/ Execute \/ MarkNote \/ EndOfScan
    BY <2>3, CheckInv
  <2>4. ASSUME NEW n \in Notes, ReadNote(n) \/ FetchNote(n)
        PROVE  IInv'
    BY <2>4, NoteInv
  <2> QED
    BY <1>1, <2>1, <2>2, <2>3, <2>4 DEF Step
<1>2. CASE Export \/ List \/ Check \/ Die
  BY <1>2, StartInv, DieInv
<1>3. CASE \E n \in Notes : SyncNote(n) \/ SyncTask(n)
  BY <1>3, SyncInv
<1> QED
  BY <1>1, <1>2, <1>3 DEF Next

\* The invariant holds in every state.
THEOREM Invariance == ASSUME NoneIsNoPath PROVE Spec => []IInv
<1>1. ASSUME IInv, Next
      PROVE  IInv'
  BY <1>1, NoneIsNoPath, KeepsInv
<1>2. IInv /\ UNCHANGED vars => IInv'
  BY DEF IInv, TypeOK, FilesOK, PathOK, ScanOK, CheckMarks, vars, tables, reading, ghosts, bounds
<1> QED
  BY <1>1, <1>2, InitInv, PTL DEF Spec

\* The types of all variables; a file that is open is there and not finished.
THEOREM TypeCorrect == ASSUME NoneIsNoPath PROVE Spec => []TypeOK
<1>1. IInv => TypeOK
  BY DEF IInv
<1> QED
  BY <1>1, NoneIsNoPath, Invariance, PTL

\* A check that succeeds with --mark-corrupted has marked every corrupt note
\* that another process left alone.
THEOREM MarksAllCorrupt == ASSUME NoneIsNoPath PROVE Spec => []CheckMarks
<1>1. IInv => CheckMarks
  BY DEF IInv
<1> QED
  BY <1>1, NoneIsNoPath, Invariance, PTL

\* The content that --mark-corrupted gives up is the one that could not be
\* read, but in the cursor's last row, which another process may have written
\* anew while it was looked at.
THEOREM GivesUpAsRead == ASSUME NoneIsNoPath PROVE Spec => GivenUpAsRead
<1>1. IInv /\ [Next]_vars =>
          \A n \in Notes : notes'[n] # notes[n] /\ changes' = changes =>
              /\ cmd.mark_corrupt
              /\ notes[n].raw_note = Corrupt \/ (todo = {} /\ n \in touched)
  <2> SUFFICES ASSUME IInv, [Next]_vars, NEW n \in Notes, notes'[n] # notes[n],
                      changes' = changes
               PROVE  /\ cmd.mark_corrupt
                      /\ notes[n].raw_note = Corrupt \/ (todo = {} /\ n \in touched)
    OBVIOUS
  <2>1. ASSUME NEW m \in Notes, SyncNote(m) \/ SyncTask(m)
        PROVE  FALSE
    BY <2>1 DEF SyncNote, SyncTask, Touch, IInv
  <2>2. CASE MarkNote
    <3>1. n = note.guid
      BY <2>2, MarkedNotes
    <3>2. cmd.mark_corrupt /\ \/ todo = {} /\ note.guid \in touched
                              \/ notes[note.guid].raw_note = Corrupt
      BY <2>2 DEF MarkNote, IInv, ScanOK
    <3> QED
      BY <3>1, <3>2
  <2>3. ASSUME NEW m \in Notes, ReadNote(m) \/ FetchNote(m)
        PROVE  UNCHANGED notes
    BY <2>3 DEF ReadNote, FetchNote, End, Ended, tables
  <2>4. ASSUME \/ Count \/ ReadNotebooks \/ NextNotebook \/ NextTrash \/ Finish
               \/ OpenNotebook \/ ReadGuids \/ OpenNote \/ WriteNote \/ CloseNote \/ EndOfNotes
        PROVE  UNCHANGED notes
    BY <2>4 DEF Count, ReadNotebooks, NextNotebook, NextTrash, Finish, OpenNotebook, ReadGuids,
                OpenNote, WriteNote, CloseNote, EndOfNotes, Begin, Continue, End, Ended, tables
  <2>5. ASSUME \/ IntegrityCheck \/ Execute \/ EndOfScan \/ Export \/ List \/ Check \/ Die
        PROVE  UNCHANGED notes
    BY <2>5 DEF IntegrityCheck, Execute, EndOfScan, Export, List, Check, Die, Start,
                Continue, End, Ended, tables
  <2>6. CASE Step
    BY <2>2, <2>3, <2>4, <2>5, <2>6 DEF Step
  <2>7. CASE UNCHANGED vars
    BY <2>7 DEF vars, tables
  <2> QED
    BY <2>1, <2>5, <2>6, <2>7 DEF Next
<1> QED
  BY <1>1, NoneIsNoPath, Invariance, PTL DEF Spec, GivenUpAsRead

----------------------------------------------------------------------------
(* Complete lists and exports.  The sources of notes, which are notebooks  *)
(* and the trash, take turns, and so do the notes of each source.          *)

\* While one source is worked on, a notebook or the trash.
OnSource == {"open", "guids", "read", "openNote", "write", "closeNote"}

\* The turn of note n is still to come in source s, or n is in hand.
Waits(n, s) ==
    \/ s \in left
    \/ s # Trash /\ pc = "notebooks"
    \/ s = Trash /\ trash
    \/ s = nb /\ pc \in {"open", "guids"}
    \/ s = nb /\ pc \in {"read", "openNote", "write", "closeNote"} /\ n \in todo
    \/ pc \in {"openNote", "write"} /\ note.guid = n

\* A command that reads notebooks is at work, or has succeeded.
Underway(name) ==
    cmd.name = name /\ (pc \notin {"idle", "count"} \/ (pc = "idle" /\ outcome = "done"))

IsAsked(b) == b \in iter_notebooks /\ cmd.only \in {None, notebooks[b].name}

\* The sources that are left and the one in hand are asked for, and none comes
\* twice.
TurnsOK ==
    /\ \A b \in left : IsAsked(b)
    /\ left # {} => pc \in {"next"} \cup OnSource
    /\ trash => cmd.include_trash
    /\ pc \in OnSource =>
          /\ nb \in (Notebooks \cup {Trash}) \ left /\ ~ (trash /\ nb = Trash)
          /\ nb = Trash => cmd.include_trash
          /\ nb # Trash => \A b \in Notebooks : b = nb =>
                IsAsked(b) /\ (cmd.name = "export" \/ cmd.only # None \/ cmd.include_trash)

\* The notes in hand belong to the source in hand.
InHand ==
    /\ pc \in {"read", "openNote", "write", "closeNote"} =>
          \A n \in todo : Sound(n) => nb \in Sources(n)
    /\ pc \in {"openNote", "write"} =>
          /\ note.guid \in Notes \ todo
          /\ \A n \in Notes : n = note.guid /\ Sound(n) =>
                nb \in Sources(n) /\ (cmd.filter_tags => n \in Tagged)

\* "manage list" has shown what it has come to.
ListInv ==
    /\ cmd.name = "list" => ~ cmd.filter_tags
    /\ Underway("list") =>
          \A n \in Notes : Sound(n) =>
             \A s \in Notebooks \cup {Trash} :
                <<s, n>> \in listed <=> s \in Sources(n) /\ ~ Waits(n, s)

Elements(s) == {s[i] : i \in DOMAIN s}

HasCome(n) == (\E s \in Sources(n) : ~ Waits(n, s)) /\ (cmd.filter_tags => n \in Tagged)

\* export has written once what it has come to, and nothing else.  With
\* --overwrite a file may be written over, see AllExported.
ExportInv ==
    /\ pc \in {"integrity", "count"} => written = {}
    /\ path # None => path \in written
    /\ Underway("export") /\ ~ Overwrite =>
          /\ \A p \in written : files[p].notes \in Seq(Elements(files[p].notes))
          /\ \A n \in Notes : Sound(n) =>
                /\ HasCome(n) => \E p \in written : \E i \in DOMAIN files[p].notes :
                                    Places(n) = {<<p, i>>}
                /\ ~ HasCome(n) => Places(n) = {}

\* The sources of a note, of which there is one at most.
LEMMA SourcesAre ==
    ASSUME NEW n \in Notes
    PROVE  /\ \A s : s \in Sources(n) <=>
                 \/ s \in Notebooks /\ IsAsked(s) /\ n \in In(s)
                    /\ (cmd.name = "export" \/ cmd.only # None \/ cmd.include_trash)
                 \/ s = Trash /\ n \in Trashed /\ cmd.include_trash
           /\ \A s, t \in Sources(n) : s = t
<1>1. \A s : s \in Sources(n) <=>
         \/ s \in Notebooks /\ IsAsked(s) /\ n \in In(s)
            /\ (cmd.name = "export" \/ cmd.only # None \/ cmd.include_trash)
         \/ s = Trash /\ n \in Trashed /\ cmd.include_trash
  BY DEF Sources, IsAsked, iter_notebooks
<1>2. \A s, t : n \in In(s) /\ n \in In(t) => s = t
  BY DEF In
<1>3. \A s : ~ (n \in In(s) /\ n \in Trashed)
  BY DEF In, ActiveNotes, Trashed
<1> QED
  BY <1>1, <1>2, <1>3

\* While a command runs a sound note that stays untouched stays what it is.
LEMMA StaysSound ==
    ASSUME NEW n \in Notes, notes'[n] = notes[n], notebooks' = notebooks, cmd' = cmd,
           touched \subseteq touched', Sound(n)'
    PROVE  Sound(n) /\ Sources(n)' = Sources(n)
<1>1. Sound(n)
  BY DEF Sound, Holds
<1>2. Sources(n)' = Sources(n)
  BY DEF Sources, In, ActiveNotes, Trashed, Holds, iter_notebooks
<1> QED
  BY <1>1, <1>2

\* So do all notes and notebooks, if none is touched.
LEMMA StayAll ==
    ASSUME notes' = notes, notebooks' = notebooks, cmd' = cmd, touched' = touched
    PROVE  /\ \A n \in Notes : (Sound(n)' <=> Sound(n)) /\ Sources(n)' = Sources(n)
           /\ \A b : IsAsked(b)' <=> IsAsked(b)
<1>1. \A n \in Notes : (Sound(n)' <=> Sound(n)) /\ Sources(n)' = Sources(n)
  BY DEF Sound, Holds, Sources, In, ActiveNotes, Trashed, Holds, iter_notebooks
<1>2. \A b : IsAsked(b)' <=> IsAsked(b)
  BY DEF IsAsked, iter_notebooks
<1> QED
  BY <1>1, <1>2

\* A step that shows nothing and changes nobody's turn keeps the list right.
LEMMA ListKept ==
    ASSUME ListInv, cmd' = cmd, listed' = listed, Underway("list")' => Underway("list"),
           \A n \in Notes : Sound(n)' =>
              /\ Sound(n) /\ Sources(n)' = Sources(n)
              /\ \A s \in Sources(n) : Waits(n, s)' <=> Waits(n, s)
    PROVE  ListInv'
<1> SUFFICES ASSUME Underway("list")', NEW n \in Notes, Sound(n)',
                    NEW s \in Notebooks \cup {Trash}
             PROVE  <<s, n>> \in listed <=> s \in Sources(n) /\ ~ Waits(n, s)'
  BY DEF ListInv
<1>1. <<s, n>> \in listed <=> s \in Sources(n) /\ ~ Waits(n, s)
  BY DEF ListInv
<1> QED
  BY <1>1

\* A step that writes no note and changes nobody's turn keeps the export right.
LEMMA ExportKept ==
    ASSUME ExportInv, cmd' = cmd, Underway("export")' => Underway("export"),
           pc' \notin {"integrity", "count"}, path' # None => path' \in written',
           Underway("export") /\ ~ Overwrite =>
              /\ \A p \in written' : files'[p].notes \in Seq(Elements(files'[p].notes))
              /\ \A p \in written : p \in written' /\ files'[p].notes = files[p].notes
              /\ \A n \in Notes : Sound(n)' => Places(n)' = Places(n),
           \A n \in Notes : Sound(n)' =>
              /\ Sound(n) /\ Sources(n)' = Sources(n)
              /\ \A s \in Sources(n) : Waits(n, s)' <=> Waits(n, s)
    PROVE  ExportInv'
<1> SUFFICES ASSUME Underway("export")', ~ Overwrite, NEW n \in Notes, Sound(n)'
             PROVE  /\ HasCome(n)' => \E p \in written' : \E i \in DOMAIN files'[p].notes :
                                         Places(n)' = {<<p, i>>}
                    /\ ~ HasCome(n)' => Places(n)' = {}
  BY DEF ExportInv
<1>1. HasCome(n)' <=> HasCome(n)
  BY DEF HasCome
<1>2. /\ HasCome(n) => \E p \in written : \E i \in DOMAIN files[p].notes : Places(n) = {<<p, i>>}
      /\ ~ HasCome(n) => Places(n) = {}
  BY DEF ExportInv
<1> QED
  BY <1>1, <1>2

\* A command begins with every source in front of it.
LEMMA StartReads ==
    ASSUME IInv, TurnsOK, InHand, ListInv, Export \/ List \/ Check
    PROVE  TurnsOK' /\ InHand' /\ ListInv' /\ ExportInv'
<1>1. /\ left' = left /\ path' = path /\ listed' = {} /\ written' = {} /\ pc = "idle"
      /\ trash' = (cmd'.name = "list" /\ cmd'.include_trash)
  BY DEF Export, List, Check, Start
<1>2. \/ cmd'.name = "export" /\ pc' = "count"
      \/ cmd'.name = "list" /\ pc' = "notebooks" /\ ~ cmd'.filter_tags
      \/ cmd'.name = "check" /\ pc' = "integrity"
  <2>1. CASE Export
    BY <2>1, Zenon DEF Export, Start, NoCommand
  <2>2. CASE List
    BY <2>2 DEF List, Start, NoCommand
  <2>3. CASE Check
    BY <2>3 DEF Check, Start, NoCommand
  <2> QED
    BY <2>1, <2>2, <2>3
<1>3. left = {} /\ path = None
  BY <1>1 DEF TurnsOK, OnSource, IInv, TypeOK
<1>4. TurnsOK'
  BY <1>1, <1>2, <1>3 DEF TurnsOK, OnSource
<1>5. InHand'
  BY <1>2 DEF InHand
<1>6. ListInv'
  <2>1. ASSUME pc' = "notebooks", NEW n \in Notes, NEW s \in Sources(n)', cmd'.name = "list"
        PROVE  Waits(n, s)'
    <3>1. s = Trash => cmd'.include_trash
      BY ExporterAssumption DEF Sources, iter_notebooks
    <3> QED
      BY <1>1, <2>1, <3>1 DEF Waits
  <2> QED
    BY <1>1, <1>2, <2>1 DEF ListInv, Underway
<1>7. ExportInv'
  BY <1>1, <1>2, <1>3 DEF ExportInv, Underway
<1> QED
  BY <1>4, <1>5, <1>6, <1>7

\* A command that ends in an error, or that only checks, says nothing.
LEMMA FailureReads ==
    ASSUME IInv, TurnsOK, InHand, ListInv, cmd' = cmd,
           \/ Ended("failed")
           \/ cmd.name = "check" /\ UNCHANGED <<trash, left, path>>
                /\ pc' \in {"count", "execute", "scan", "mark"} /\ (pc' = "count" => written' = {})
           \/ cmd.name = "check" /\ Ended("done")
    PROVE  TurnsOK' /\ InHand' /\ ListInv' /\ ExportInv'
<1>1. pc' \in {"idle", "count", "execute", "scan", "mark"}
  BY DEF Ended
<1>2. TurnsOK'
  <2>1. CASE Ended("failed") \/ Ended("done")
    BY <2>1 DEF Ended, TurnsOK, OnSource
  <2>2. CASE cmd.name = "check" /\ UNCHANGED <<trash, left>> /\ pc' \in {"count", "execute", "scan", "mark"}
    BY <2>2 DEF TurnsOK, OnSource, IInv, PathOK
  <2> QED
    BY <2>1, <2>2
<1>3. InHand'
  BY <1>1 DEF InHand
<1>4. ListInv'
  BY DEF ListInv, Underway, Ended
<1>5. ExportInv'
  BY DEF ExportInv, Underway, Ended, IInv, PathOK
<1> QED
  BY <1>2, <1>3, <1>4, <1>5

\* Nothing is written while the sources are chosen.
LEMMA SameFiles ==
    ASSUME files' = files, written' = written
    PROVE  \A n \in Notes : Places(n)' = Places(n)
BY DEF Places

\* The turns begin: every source of a sound note is among them.
LEMMA CountReads ==
    ASSUME IInv, TurnsOK, InHand, ListInv, ExportInv, Count
    PROVE  TurnsOK' /\ InHand' /\ ListInv' /\ ExportInv'
<1>1. CASE End("failed")
  BY <1>1, FailureReads DEF End, Ended
<1>2. CASE cmd.name = "check" /\ Continue("execute")
  BY <1>2, FailureReads DEF Continue, reading
<1>3. CASE /\ cmd.name # "check" /\ trash' = (cmd.include_trash /\ Trashed # {})
           /\ pc' = IF ActiveNotes # {} THEN "notebooks" ELSE "next"
           /\ UNCHANGED <<tables, files, outcome, cmd, left, nb, todo, note, path, listed,
                          ghosts, bounds>>
  <2>1. /\ pc = "count" /\ cmd.name = "export" /\ left = {} /\ written = {} /\ path = None
        /\ notes' = notes /\ notebooks' = notebooks /\ touched' = touched /\ cmd' = cmd
        /\ left' = left /\ written' = written /\ path' = path
    BY <1>3 DEF Count, IInv, PathOK, TurnsOK, OnSource, ExportInv, tables, ghosts
  <2>2. TurnsOK'
    BY <1>3, <2>1 DEF TurnsOK, OnSource
  <2>3. InHand'
    BY <1>3 DEF InHand
  <2>4. ListInv'
    BY <2>1 DEF ListInv, Underway
  <2>5. ASSUME NEW n \in Notes, NEW s \in Sources(n)'
        PROVE  Waits(n, s)'
    <3>1. s \in Sources(n)
      BY <2>1, StayAll
    <3>2. CASE s \in Notebooks /\ n \in In(s)
      <4>1. ActiveNotes # {} /\ s # Trash
        BY <3>2, ExporterAssumption DEF In
      <4> QED
        BY <1>3, <4>1 DEF Waits
    <3>3. CASE s = Trash /\ n \in Trashed /\ cmd.include_trash
      BY <1>3, <3>3 DEF Waits
    <3> QED
      BY <3>1, <3>2, <3>3, SourcesAre
  <2>6. \A n \in Notes : Places(n)' = {}
    BY <2>1 DEF Places
  <2>7. ExportInv'
    BY <1>3, <2>1, <2>5, <2>6 DEF ExportInv, HasCome
  <2> QED
    BY <2>2, <2>3, <2>4, <2>7
<1> QED
  BY <1>1, <1>2, <1>3 DEF Count

\* The notebooks that are asked for get their turn, then the trash.
LEMMA TurnReads ==
    ASSUME IInv, TurnsOK, InHand, ListInv, ExportInv,
           ReadNotebooks \/ NextNotebook \/ NextTrash \/ Finish
    PROVE  TurnsOK' /\ InHand' /\ ListInv' /\ ExportInv'
<1>1. /\ notes' = notes /\ notebooks' = notebooks /\ touched' = touched /\ cmd' = cmd
      /\ files' = files /\ written' = written /\ listed' = listed
      /\ pc \in {"notebooks", "next"} /\ pc' \in {"next", "open", "guids", "idle"}
      /\ path' = path \/ path' = None
  BY DEF ReadNotebooks, NextNotebook, NextTrash, Finish, Begin, End, Ended, tables, ghosts
<1>2. /\ \A n \in Notes : (Sound(n)' <=> Sound(n)) /\ Sources(n)' = Sources(n)
      /\ \A b : IsAsked(b)' <=> IsAsked(b)
  BY <1>1, StayAll
<1>3. InHand'
  BY <1>1 DEF InHand
<1>4. Trash \notin Notebooks /\ left \subseteq Notebooks
  BY ExporterAssumption DEF IInv, TypeOK
<1>5. ASSUME \A n \in Notes : Sound(n) =>
                \A s \in Sources(n) : Waits(n, s)' <=> Waits(n, s)
      PROVE  ListInv' /\ ExportInv'
  <2>1. ListInv'
    BY <1>1, <1>2, <1>5, ListKept DEF Underway
  <2>2. ExportInv'
    <3>1. Underway("export")' => Underway("export")
      BY <1>1 DEF Underway
    <3>2. \A n \in Notes : Places(n)' = Places(n)
      BY <1>1, SameFiles
    <3>3. path' # None => path' \in written'
      BY <1>1 DEF ExportInv
    <3>4. Underway("export") /\ ~ Overwrite =>
             \A p \in written' : files'[p].notes \in Seq(Elements(files'[p].notes))
      BY <1>1 DEF ExportInv
    <3> QED
      BY <1>1, <1>2, <1>5, <3>1, <3>2, <3>3, <3>4, ExportKept
  <2> QED
    BY <2>1, <2>2
<1>6. CASE ReadNotebooks
  <2>1. left = {} /\ left' = {b \in iter_notebooks : cmd.only \in {None, notebooks[b].name}}
    BY <1>6 DEF ReadNotebooks, TurnsOK, OnSource
  <2>2. \A b : b \in left' <=> IsAsked(b)
    BY <2>1 DEF IsAsked
  <2>3. TurnsOK'
    BY <1>1, <1>2, <1>6, <2>2 DEF ReadNotebooks, TurnsOK, OnSource
  <2>4. ASSUME NEW n \in Notes, NEW s \in Sources(n)
        PROVE  Waits(n, s)' <=> Waits(n, s)
    <3>1. (s \in Notebooks /\ IsAsked(s)) \/ s = Trash
      BY SourcesAre
    <3>2. Trash \notin left'
      BY <1>4, <2>1 DEF iter_notebooks
    <3> QED
      BY <1>4, <1>6, <2>1, <2>2, <3>1, <3>2 DEF ReadNotebooks, Waits
  <2> QED
    BY <1>3, <1>5, <2>3, <2>4
<1>7. CASE NextNotebook
  <2>1. PICK b \in left :
           /\ left' = left \ {b} /\ UNCHANGED trash /\ pc = "next"
           /\ IF IF cmd.name = "export" THEN In(b) # {} ELSE cmd.include_trash \/ cmd.only # None
              THEN Begin(b)
              ELSE UNCHANGED <<pc, nb, todo, note, path>>
    BY <1>7 DEF NextNotebook
  <2>2. b \in Notebooks /\ b # Trash /\ IsAsked(b)
    BY <1>4 DEF TurnsOK
  <2>3. CASE Begin(b)
    <3>1. pc' \in {"open", "guids"} /\ nb' = b /\ todo' = todo /\ note' = note
      BY <2>3 DEF Begin
    <3>2. cmd.name = "export" \/ cmd.only # None \/ cmd.include_trash
      BY <1>1, <2>1, <2>3 DEF Begin
    <3>3. TurnsOK'
      BY <1>1, <1>2, <2>1, <2>2, <3>1, <3>2 DEF TurnsOK, OnSource
    <3>4. \A n, s : Waits(n, s)' <=> Waits(n, s)
      BY <2>1, <3>1 DEF Waits
    <3> QED
      BY <1>3, <1>5, <3>3, <3>4
  <2>4. CASE /\ ~ IF cmd.name = "export" THEN In(b) # {} ELSE cmd.include_trash \/ cmd.only # None
             /\ UNCHANGED <<pc, nb, todo, note, path>>
    <3>1. TurnsOK'
      BY <1>1, <1>2, <2>1, <2>4 DEF TurnsOK, OnSource
    <3>2. ASSUME NEW n \in Notes, NEW s \in Sources(n)
          PROVE  Waits(n, s)' <=> Waits(n, s)
      <4>1. s # b
        BY <2>2, <2>4, SourcesAre
      <4> QED
        BY <2>1, <2>4, <4>1 DEF Waits
    <3> QED
      BY <1>3, <1>5, <3>1, <3>2
  <2> QED
    BY <2>1, <2>3, <2>4
<1>8. CASE NextTrash
  <2>1. /\ pc = "next" /\ left = {} /\ trash /\ ~ trash' /\ left' = left
        /\ pc' \in {"open", "guids"} /\ nb' = Trash /\ todo' = todo /\ note' = note
    BY <1>8 DEF NextTrash, Begin
  <2>2. TurnsOK'
    BY <1>1, <1>2, <2>1 DEF TurnsOK, OnSource
  <2>3. \A n, s : Waits(n, s)' <=> Waits(n, s)
    BY <2>1 DEF Waits
  <2> QED
    BY <1>3, <1>5, <2>2, <2>3
<1>9. CASE Finish
  <2>1. /\ pc = "next" /\ left = {} /\ ~ trash /\ pc' = "idle" /\ left' = {} /\ ~ trash'
    BY <1>9 DEF Finish, End, Ended
  <2>2. TurnsOK'
    BY <2>1 DEF TurnsOK, OnSource
  <2>3. \A n, s : Waits(n, s)' <=> Waits(n, s)
    BY <2>1 DEF Waits
  <2> QED
    BY <1>3, <1>5, <2>2, <2>3
<1> QED
  BY <1>6, <1>7, <1>8, <1>9

\* The notes of the source in hand are read.
LEMMA GuidsReads ==
    ASSUME IInv, TurnsOK, InHand, ListInv, ExportInv, ReadGuids
    PROVE  TurnsOK' /\ InHand' /\ ListInv' /\ ExportInv'
<1>1. /\ notes' = notes /\ notebooks' = notebooks /\ touched' = touched /\ cmd' = cmd
      /\ files' = files /\ written' = written /\ listed' = listed /\ path' = path
      /\ trash' = trash /\ left' = left /\ nb' = nb /\ note' = note
      /\ pc = "guids" /\ pc' = "read"
      /\ todo' = IF nb = Trash THEN Trashed ELSE In(nb)
  BY DEF ReadGuids, tables, ghosts
<1>2. /\ \A n \in Notes : (Sound(n)' <=> Sound(n)) /\ Sources(n)' = Sources(n)
      /\ \A b : IsAsked(b)' <=> IsAsked(b)
  BY <1>1, StayAll
<1>3. TurnsOK'
  BY <1>1, <1>2 DEF TurnsOK, OnSource
<1>4. nb \in Notebooks \cup {Trash}
  BY <1>1 DEF IInv, TypeOK, TurnsOK, OnSource
<1>5. \A n \in Notes : n \in todo' <=> nb \in Sources(n)
  <2>1. CASE nb = Trash
    BY <1>1, <2>1, SourcesAre, ExporterAssumption DEF TurnsOK, OnSource
  <2>2. CASE nb # Trash
    BY <1>1, <1>4, <2>2, SourcesAre DEF TurnsOK, OnSource
  <2> QED
    BY <2>1, <2>2
<1>6. todo' \subseteq Notes
  BY <1>1 DEF Trashed, In, ActiveNotes
<1>7. InHand'
  BY <1>1, <1>2, <1>5, <1>6 DEF InHand
<1>8. ASSUME NEW n \in Notes, NEW s \in Sources(n) PROVE Waits(n, s)' <=> Waits(n, s)
  BY <1>1, <1>5 DEF Waits
<1>9. ListInv'
  BY <1>1, <1>2, <1>8, ListKept DEF Underway
<1>10. ExportInv'
  <2>1. /\ Underway("export")' => Underway("export")
        /\ path' # None => path' \in written' /\ pc' \notin {"integrity", "count"}
    BY <1>1 DEF Underway, ExportInv
  <2>2. \A n \in Notes : Places(n)' = Places(n)
    BY <1>1, SameFiles
  <2>3. Underway("export") /\ ~ Overwrite =>
           \A p \in written' : files'[p].notes \in Seq(Elements(files'[p].notes))
    BY <1>1 DEF ExportInv
  <2> QED
    BY <1>1, <1>2, <1>8, <2>1, <2>2, <2>3, ExportKept
<1> QED
  BY <1>3, <1>7, <1>9, <1>10

\* A note leaves the queue: it is passed over, listed, or taken in hand.
LEMMA NoteReads ==
    ASSUME IInv, TurnsOK, InHand, ListInv, ExportInv, NEW m \in Notes, ReadNote(m)
    PROVE  TurnsOK' /\ InHand' /\ ListInv' /\ ExportInv'
<1>1. CASE End("failed")
  BY <1>1, FailureReads DEF End, Ended
<1>2. CASE ~ End("failed")
  <2>1. /\ pc = "read" /\ m \in todo /\ todo' = todo \ {m}
        /\ notes' = notes /\ notebooks' = notebooks /\ touched' = touched /\ cmd' = cmd
        /\ files' = files /\ written' = written /\ path' = path
        /\ trash' = trash /\ left' = left /\ nb' = nb
        /\ pc' \in {"read", "openNote", "write"}
    BY <1>2 DEF ReadNote, tables, ghosts
  <2>2. IF notes[m].raw_note = Corrupt \/ (cmd.filter_tags /\ m \notin Tagged)
        THEN pc' = pc /\ note' = note /\ listed' = listed
        ELSE IF cmd.name = "list"
        THEN listed' = listed \cup {<<nb, m>>} /\ pc' = pc /\ note' = note
        ELSE note'.guid = m /\ pc' \in {"openNote", "write"} /\ listed' = listed
    BY <1>2 DEF ReadNote
  <2>3. /\ \A n \in Notes : (Sound(n)' <=> Sound(n)) /\ Sources(n)' = Sources(n)
        /\ \A b : IsAsked(b)' <=> IsAsked(b)
    BY <2>1, StayAll
  <2>4. TurnsOK'
    BY <2>1, <2>3 DEF TurnsOK, OnSource
  <2>5. InHand'
    BY <2>1, <2>2, <2>3 DEF InHand, IInv, TypeOK, Sound
  <2>6. nb \in Notebooks \cup {Trash} /\ nb \notin left /\ ~ (nb = Trash /\ trash)
    BY <2>1 DEF IInv, TypeOK, TurnsOK, OnSource
  <2>7. Sound(m) => /\ nb \in Sources(m)
                    /\ notes[m].raw_note # Corrupt
                    /\ \A s \in Sources(m) : s = nb /\ Waits(m, s)
    BY <2>1, SourcesAre DEF InHand, Waits, Sound
  <2>8. \A n \in Notes : n # m => \A s : Waits(n, s)' <=> Waits(n, s)
    BY <2>1, <2>2 DEF Waits
  <2>9. ListInv'
    <3> SUFFICES ASSUME cmd.name = "list", ~ cmd.filter_tags, NEW n \in Notes, Sound(n),
                        NEW s \in Notebooks \cup {Trash}
                 PROVE  <<s, n>> \in listed' <=> s \in Sources(n) /\ ~ Waits(n, s)'
      BY <2>1, <2>3 DEF ListInv, Underway
    <3>1. <<s, n>> \in listed <=> s \in Sources(n) /\ ~ Waits(n, s)
      BY <2>1 DEF ListInv, Underway
    <3>2. CASE n # m
      BY <2>2, <2>8, <3>1, <3>2
    <3>3. CASE n = m
      <4>1. listed' = listed \cup {<<nb, m>>} /\ pc' = "read"
        BY <2>1, <2>2, <2>7, <3>3
      <4>2. Sound(m) /\ nb \in Sources(m) /\ <<s, m>> \notin listed
        BY <2>7, <3>1, <3>3
      <4>3. s = nb => ~ Waits(n, s)'
        BY <2>1, <2>6, <3>3, <4>1, ExporterAssumption DEF Waits
      <4>4. s \in Sources(n) <=> s = nb
        BY <2>7, <3>3, <4>2
      <4> QED
        BY <3>3, <4>1, <4>2, <4>3, <4>4
    <3> QED
      BY <3>2, <3>3
  <2>10. ExportInv'
    <3>1. CASE notes[m].raw_note = Corrupt \/ (cmd.filter_tags /\ m \notin Tagged)
      <4>1. /\ Underway("export") <=> Underway("export")'
            /\ path' # None => path' \in written' /\ pc' \notin {"integrity", "count"}
        BY <2>1 DEF Underway, ExportInv
      <4>2. \A n \in Notes : Places(n)' = Places(n)
        BY <2>1, SameFiles
      <4>3. ASSUME NEW n \in Notes, Sound(n)
            PROVE  HasCome(n)' <=> HasCome(n)
        <5>1. CASE n = m
          BY <2>1, <2>7, <3>1, <4>3, <5>1 DEF HasCome
        <5>2. CASE n # m
          BY <2>1, <2>3, <2>8, <5>2 DEF HasCome
        <5> QED
          BY <5>1, <5>2
      <4> QED
        BY <2>1, <2>3, <4>1, <4>2, <4>3 DEF ExportInv
    <3>2. CASE ~ (notes[m].raw_note = Corrupt \/ (cmd.filter_tags /\ m \notin Tagged))
      <4>1. CASE cmd.name = "list"
        BY <2>1, <4>1 DEF ExportInv, Underway
      <4>2. CASE cmd.name # "list"
        <5>1. note'.guid = m /\ pc' \in {"openNote", "write"}
          BY <2>2, <3>2, <4>2
        <5>2. ASSUME NEW n \in Notes, Sound(n), NEW s \in Sources(n)
              PROVE  Waits(n, s)' <=> Waits(n, s)
          <6>1. CASE n = m
            BY <2>7, <5>1, <5>2, <6>1 DEF Waits
          <6>2. CASE n # m
            BY <2>8, <6>2
          <6> QED
            BY <6>1, <6>2
        <5>3. /\ Underway("export")' => Underway("export")
              /\ path' # None => path' \in written'
              /\ pc' \notin {"integrity", "count"}
          BY <2>1 DEF Underway, ExportInv
        <5>4. \A n \in Notes : Places(n)' = Places(n)
          BY <2>1, SameFiles
        <5>5. Underway("export") /\ ~ Overwrite =>
                 \A p \in written' : files'[p].notes \in Seq(Elements(files'[p].notes))
          BY <2>1 DEF ExportInv
        <5> QED
          BY <2>1, <2>3, <5>2, <5>3, <5>4, <5>5, ExportKept
      <4> QED
        BY <4>1, <4>2
    <3> QED
      BY <3>1, <3>2
  <2> QED
    BY <2>4, <2>5, <2>9, <2>10
<1> QED
  BY <1>1, <1>2

\* A sequence with one more element.
LEMMA OneMore ==
    ASSUME NEW s, s \in Seq(Elements(s)), NEW e
    PROVE  /\ Append(s, e) \in Seq(Elements(Append(s, e)))
           /\ Len(s) \in Nat /\ DOMAIN s = 1 .. Len(s)
           /\ DOMAIN Append(s, e) = 1 .. Len(s) + 1
           /\ \A i \in 1 .. Len(s) : Append(s, e)[i] = s[i]
           /\ Append(s, e)[Len(s) + 1] = e
<1> DEFINE t == Append(s, e)
<1>1. /\ t \in Seq(Elements(s) \cup {e})
      /\ Len(s) \in Nat /\ DOMAIN s = 1 .. Len(s) /\ DOMAIN t = 1 .. Len(s) + 1
      /\ \A i \in 1 .. Len(s) : t[i] = s[i]
      /\ t[Len(s) + 1] = e
  <2>1. s \in Seq(Elements(s) \cup {e}) /\ e \in Elements(s) \cup {e}
    <3>1. s \in [1 .. Len(s) -> Elements(s)] /\ Len(s) \in Nat
      OBVIOUS
    <3>2. s \in [1 .. Len(s) -> Elements(s) \cup {e}]
      BY <3>1
    <3> QED
      BY <3>1, <3>2
  <2> QED
    BY <2>1
<1> HIDE DEF t
<1>2. Len(t) \in Nat /\ DOMAIN t = 1 .. Len(t)
  BY <1>1
<1>3. t \in Seq(Elements(t))
  <2>1. \A i \in 1 .. Len(t) : t[i] \in Elements(t)
    BY <1>2 DEF Elements
  <2>2. t \in [1 .. Len(t) -> Elements(s) \cup {e}]
    BY <1>1
  <2>3. t \in [1 .. Len(t) -> Elements(t)]
    BY <2>1, <2>2
  <2> QED
    BY <1>2, <2>3
<1> QED
  BY <1>1, <1>3 DEF t

\* A file that is opened is new, and nothing is in it.
LEMMA OpenReads ==
    ASSUME IInv, NEW dirs, NEW raw, Open(dirs, raw), ~ Overwrite,
           \A p \in written : files[p].notes \in Seq(Elements(files[p].notes))
    PROVE  /\ \A p \in written' : files'[p].notes \in Seq(Elements(files'[p].notes))
           /\ \A p \in written : p \in written' /\ files'[p].notes = files[p].notes
           /\ \A n \in Notes : Places(n)' = Places(n)
<1>1. PICK p \in get_file(dirs, raw) :
         /\ files' = [q \in DOMAIN files \cup {p} |->
                         IF q = p THEN [notes |-> <<>>, tail |-> FALSE] ELSE files[q]]
         /\ written' = written \cup {p}
  BY DEF Open
<1>2. p \notin DOMAIN files /\ p \notin written /\ written \subseteq DOMAIN files
  BY FreshPath DEF IInv, TypeOK
<1>3. files'[p].notes = <<>> /\ \A q \in written : files'[q] = files[q]
  BY <1>1, <1>2
<1>4. \A q \in written' : files'[q].notes \in Seq(Elements(files'[q].notes))
  <2>1. <<>> \in Seq(Elements(<<>>))
    OBVIOUS
  <2> QED
    BY <1>1, <1>3, <2>1
<1>5. ASSUME NEW n \in Notes PROVE Places(n)' = Places(n)
  <2> DEFINE F(q) == {q} \X {i \in DOMAIN files[q].notes : files[q].notes[i].guid = n}
             G(q) == {q} \X {i \in DOMAIN files'[q].notes : files'[q].notes[i].guid = n}
  <2>1. Places(n) = UNION {F(q) : q \in written} /\ Places(n)' = UNION {G(q) : q \in written'}
    BY DEF Places
  <2>2. \A q \in written : F(q) = G(q)
    BY <1>3
  <2>3. G(p) = {}
    BY <1>3
  <2> HIDE DEF F, G
  <2> QED
    BY <1>1, <2>1, <2>2, <2>3
<1> QED
  BY <1>1, <1>3, <1>4, <1>5

\* The steps that open and close files change nobody's turn.
LEMMA FileReads ==
    ASSUME IInv, TurnsOK, InHand, ListInv, ExportInv,
           OpenNotebook \/ OpenNote \/ CloseNote \/ EndOfNotes
    PROVE  TurnsOK' /\ InHand' /\ ListInv' /\ ExportInv'
<1>1. /\ notes' = notes /\ notebooks' = notebooks /\ touched' = touched /\ cmd' = cmd
      /\ listed' = listed /\ trash' = trash /\ left' = left /\ todo' = todo /\ note' = note
  BY DEF OpenNotebook, OpenNote, CloseNote, EndOfNotes, tables, ghosts
<1>2. /\ \A n \in Notes : (Sound(n)' <=> Sound(n)) /\ Sources(n)' = Sources(n)
      /\ \A b : IsAsked(b)' <=> IsAsked(b)
  BY <1>1, StayAll
<1>3. \/ pc = "open" /\ pc' = "guids" /\ nb' = nb
      \/ pc = "openNote" /\ pc' = "write" /\ nb' = nb
      \/ pc = "closeNote" /\ pc' = "read" /\ nb' = nb
      \/ pc = "read" /\ pc' = "next" /\ todo = {}
  BY DEF OpenNotebook, OpenNote, CloseNote, EndOfNotes
<1>4. TurnsOK'
  BY <1>1, <1>2, <1>3 DEF TurnsOK, OnSource
<1>5. InHand'
  BY <1>1, <1>2, <1>3 DEF InHand, IInv, TypeOK
<1>6. ASSUME NEW n \in Notes, NEW s \in Sources(n) PROVE Waits(n, s)' <=> Waits(n, s)
  BY <1>1, <1>3 DEF Waits
<1>7. ListInv'
  BY <1>1, <1>2, <1>3, <1>6, ListKept DEF Underway
<1>8. ASSUME path' # None => path' \in written',
             Underway("export") /\ ~ Overwrite =>
              /\ \A p \in written' : files'[p].notes \in Seq(Elements(files'[p].notes))
              /\ \A p \in written : p \in written' /\ files'[p].notes = files[p].notes
              /\ \A n \in Notes : Places(n)' = Places(n)
      PROVE  ExportInv'
  <2>1. (Underway("export")' => Underway("export")) /\ pc' \notin {"integrity", "count"}
    BY <1>1, <1>3 DEF Underway
  <2> QED
    BY <1>1, <1>2, <1>6, <1>8, <2>1, ExportKept
<1>9. ASSUME NEW dirs, NEW raw, Open(dirs, raw) PROVE ExportInv'
  <2>1. path' # None => path' \in written'
    BY <1>9 DEF Open
  <2>2. Underway("export") /\ ~ Overwrite =>
           \A p \in written : files[p].notes \in Seq(Elements(files[p].notes))
    BY DEF ExportInv
  <2> QED
    BY <1>8, <1>9, <2>1, <2>2, OpenReads
<1>10. ASSUME Close \/ UNCHANGED <<files, path>>, written' = written PROVE ExportInv'
  <2>1. path' # None => path' \in written'
    BY <1>10 DEF Close, ExportInv
  <2>2. \A p \in written : files'[p].notes = files[p].notes
    <3>1. \A p \in written : p \in DOMAIN files /\ DOMAIN files[p] = {"notes", "tail"}
      BY DEF IInv, TypeOK, FilesOK
    <3> QED
      BY <1>10, <3>1 DEF Close
  <2>3. \A n \in Notes : Places(n)' = Places(n)
    <3> SUFFICES ASSUME NEW n \in Notes PROVE Places(n)' = Places(n)
      OBVIOUS
    <3> DEFINE F(q) == {q} \X {i \in DOMAIN files[q].notes : files[q].notes[i].guid = n}
               G(q) == {q} \X {i \in DOMAIN files'[q].notes : files'[q].notes[i].guid = n}
    <3>1. Places(n) = UNION {F(q) : q \in written} /\ Places(n)' = UNION {G(q) : q \in written}
      BY <1>10 DEF Places
    <3>2. \A q \in written : F(q) = G(q)
      BY <2>2
    <3> HIDE DEF F, G
    <3> QED
      BY <3>1, <3>2
  <2>4. Underway("export") /\ ~ Overwrite =>
           \A p \in written' : files'[p].notes \in Seq(Elements(files'[p].notes))
    BY <1>10, <2>2 DEF ExportInv
  <2> QED
    BY <1>8, <1>10, <2>1, <2>2, <2>3, <2>4
<1>11. ExportInv'
  <2>1. CASE OpenNotebook
    BY <1>9, <2>1 DEF OpenNotebook
  <2>2. CASE OpenNote
    BY <1>9, <2>2 DEF OpenNote
  <2>3. CASE CloseNote
    BY <1>10, <2>3 DEF CloseNote, ghosts
  <2>4. CASE EndOfNotes
    BY <1>10, <2>4 DEF EndOfNotes, ghosts
  <2> QED
    BY <2>1, <2>2, <2>3, <2>4
<1> QED
  BY <1>4, <1>5, <1>7, <1>11

\* The note in hand is written, and had not been before.
LEMMA WriteReads ==
    ASSUME IInv, TurnsOK, InHand, ListInv, ExportInv, WriteNote
    PROVE  TurnsOK' /\ InHand' /\ ListInv' /\ ExportInv'
<1>1. /\ notes' = notes /\ notebooks' = notebooks /\ touched' = touched /\ cmd' = cmd
      /\ listed' = listed /\ trash' = trash /\ left' = left /\ todo' = todo /\ nb' = nb
      /\ written' = written /\ path' = path /\ pc = "write" /\ pc' \in {"read", "closeNote"}
  BY DEF WriteNote, tables, ghosts
<1>2. /\ \A n \in Notes : (Sound(n)' <=> Sound(n)) /\ Sources(n)' = Sources(n)
      /\ \A b : IsAsked(b)' <=> IsAsked(b)
  BY <1>1, StayAll
<1>3. TurnsOK'
  BY <1>1, <1>2 DEF TurnsOK, OnSource
<1>4. InHand'
  BY <1>1, <1>2 DEF InHand, IInv, TypeOK
<1>5. PICK m \in Notes \ todo : m = note.guid
  BY <1>1 DEF InHand
<1>6. ASSUME NEW n \in Notes, n # m, NEW s PROVE Waits(n, s)' <=> Waits(n, s)
  BY <1>1, <1>5, <1>6 DEF Waits
<1>7. nb \notin left /\ ~ (trash /\ nb = Trash) /\ nb \in Notebooks \cup {Trash}
  BY <1>1 DEF TurnsOK, OnSource
<1>8. /\ \A s : Waits(m, s)
      /\ ~ Waits(m, nb)'
      /\ Sound(m) => /\ nb \in Sources(m) /\ \A s \in Sources(m) : s = nb
                     /\ cmd.filter_tags => m \in Tagged
  BY <1>1, <1>5, <1>7, SourcesAre DEF Waits, InHand
<1>9. ListInv'
  <2>1. ~ Underway("list")'
    BY <1>1 DEF Underway, IInv, PathOK
  <2> QED
    BY <1>1, <2>1 DEF ListInv
<1>10. ExportInv'
  <2>1. cmd.name = "export" /\ path \in written
    BY <1>1 DEF IInv, PathOK, TypeOK, ExportInv
  <2> SUFFICES ASSUME ~ Overwrite
               PROVE  /\ \A p \in written : files'[p].notes \in Seq(Elements(files'[p].notes))
                      /\ \A n \in Notes : Sound(n) =>
                            /\ HasCome(n)' => \E p \in written :
                                  \E i \in DOMAIN files'[p].notes : Places(n)' = {<<p, i>>}
                            /\ ~ HasCome(n)' => Places(n)' = {}
    BY <1>1, <1>2, <2>1 DEF ExportInv
  <2>2. /\ \A p \in written : files[p].notes \in Seq(Elements(files[p].notes))
        /\ \A n \in Notes : Sound(n) =>
              /\ HasCome(n) => \E p \in written : \E i \in DOMAIN files[p].notes :
                                  Places(n) = {<<p, i>>}
              /\ ~ HasCome(n) => Places(n) = {}
    BY <1>1, <2>1 DEF ExportInv, Underway
  <2>3. PICK e : /\ e.guid = m
                 /\ files' = [files EXCEPT ![path].notes = Append(@, e)]
    BY <1>5 DEF WriteNote
  <2>4. /\ path \in DOMAIN files /\ DOMAIN files[path] = {"notes", "tail"}
        /\ written \subseteq DOMAIN files
    BY <2>1 DEF IInv, TypeOK, FilesOK
  <2>5. /\ files'[path].notes = Append(files[path].notes, e)
        /\ \A p \in written : p # path => files'[p].notes = files[p].notes
    BY <2>3, <2>4
  <2>6. PICK l : l = files[path].notes
    OBVIOUS
  <2>7. /\ Append(l, e) \in Seq(Elements(Append(l, e)))
        /\ Len(l) \in Nat /\ DOMAIN l = 1 .. Len(l) /\ DOMAIN Append(l, e) = 1 .. Len(l) + 1
        /\ \A i \in 1 .. Len(l) : Append(l, e)[i] = l[i]
        /\ Append(l, e)[Len(l) + 1] = e
    BY <2>1, <2>2, <2>6, OneMore
  <2>8. \A p \in written : files'[p].notes \in Seq(Elements(files'[p].notes))
    BY <2>2, <2>5, <2>6, <2>7
  <2>9. ASSUME NEW n \in Notes
        PROVE  Places(n)' = Places(n) \cup IF n = m THEN {<<path, Len(l) + 1>>} ELSE {}
    <3> DEFINE F(q) == {q} \X {i \in DOMAIN files[q].notes : files[q].notes[i].guid = n}
               G(q) == {q} \X {i \in DOMAIN files'[q].notes : files'[q].notes[i].guid = n}
               New  == IF n = m THEN {<<path, Len(l) + 1>>} ELSE {}
    <3>1. Places(n) = UNION {F(q) : q \in written} /\ Places(n)' = UNION {G(q) : q \in written}
      BY <1>1 DEF Places
    <3>2. \A q \in written : q # path => F(q) = G(q)
      BY <2>5
    <3>3. G(path) = F(path) \cup New
      <4>1. {i \in DOMAIN Append(l, e) : Append(l, e)[i].guid = n}
               = {i \in DOMAIN l : l[i].guid = n} \cup (IF n = m THEN {Len(l) + 1} ELSE {})
        BY <2>3, <2>7
      <4> QED
        BY <2>5, <2>6, <4>1
    <3> HIDE DEF F, G, New
    <3>4. Places(n)' = Places(n) \cup New
      BY <2>1, <3>1, <3>2, <3>3
    <3> QED
      BY <3>4 DEF New
  <2>10. ASSUME NEW n \in Notes, Sound(n)
         PROVE  /\ HasCome(n)' => \E p \in written :
                      \E i \in DOMAIN files'[p].notes : Places(n)' = {<<p, i>>}
                /\ ~ HasCome(n)' => Places(n)' = {}
    <3>1. CASE n = m
      <4>1. ~ HasCome(n) /\ HasCome(n)'
        BY <1>1, <1>2, <1>8, <2>10, <3>1 DEF HasCome
      <4>2. Places(n) = {}
        BY <2>2, <2>10, <4>1
      <4>3. Places(n)' = {<<path, Len(l) + 1>>}
        BY <2>9, <3>1, <4>2
      <4>4. Len(l) + 1 \in DOMAIN files'[path].notes
        BY <2>5, <2>6, <2>7
      <4> QED
        BY <2>1, <4>1, <4>3, <4>4
    <3>2. CASE n # m
      <4>1. HasCome(n)' <=> HasCome(n)
        BY <1>1, <1>2, <1>6, <3>2 DEF HasCome
      <4>2. Places(n)' = Places(n)
        BY <2>9, <3>2
      <4>3. ASSUME NEW p \in written, NEW i \in DOMAIN files[p].notes
            PROVE  i \in DOMAIN files'[p].notes
        BY <2>5, <2>6, <2>7
      <4> QED
        BY <2>2, <2>10, <4>1, <4>2, <4>3
    <3> QED
      BY <3>1, <3>2
  <2> QED
    BY <2>8, <2>10
<1> QED
  BY <1>3, <1>4, <1>9, <1>10

\* A check, or a death.
LEMMA OtherReads ==
    ASSUME IInv, TurnsOK, InHand, ListInv, ExportInv,
           \/ IntegrityCheck \/ Execute \/ MarkNote \/ EndOfScan \/ Die
           \/ \E n \in Notes : FetchNote(n)
    PROVE  TurnsOK' /\ InHand' /\ ListInv' /\ ExportInv'
<1>1. CASE Die
  BY <1>1, FailureReads DEF Die, Ended
<1>2. CASE EndOfScan
  BY <1>2, FailureReads DEF EndOfScan, End, Ended, IInv, PathOK
<1>3. CASE Execute
  BY <1>3, FailureReads DEF Execute, IInv, PathOK
<1>4. CASE MarkNote \/ \E n \in Notes : FetchNote(n)
  BY <1>4, FailureReads DEF MarkNote, FetchNote, IInv, PathOK
<1>5. CASE IntegrityCheck
  <2>1. CASE End("failed")
    BY <2>1, FailureReads DEF End, Ended
  <2>2. CASE Continue("count")
    BY <1>5, <2>2, FailureReads
       DEF IntegrityCheck, Continue, reading, ghosts, ExportInv, IInv, PathOK
  <2> QED
    BY <1>5, <2>1, <2>2 DEF IntegrityCheck
<1> QED
  BY <1>1, <1>2, <1>3, <1>4, <1>5

\* What another process touches is no longer spoken of.
LEMMA SyncReads ==
    ASSUME IInv, TurnsOK, InHand, ListInv, ExportInv, NEW m \in Notes, SyncNote(m) \/ SyncTask(m)
    PROVE  TurnsOK' /\ InHand' /\ ListInv' /\ ExportInv'
<1>1. /\ notebooks' = notebooks /\ files' = files /\ pc' = pc /\ outcome' = outcome
      /\ cmd' = cmd /\ trash' = trash /\ left' = left /\ nb' = nb /\ todo' = todo
      /\ note' = note /\ path' = path /\ listed' = listed /\ written' = written
      /\ touched' = touched \cup {m}
      /\ \A n \in Notes : n # m => notes'[n] = notes[n]
  BY DEF SyncNote, SyncTask, Touch, reading, IInv, TypeOK
<1>2. ASSUME NEW n \in Notes, Sound(n)'
      PROVE  Sound(n) /\ Sources(n)' = Sources(n)
  <2>1. n # m
    BY <1>1, <1>2 DEF Sound
  <2> QED
    BY <1>1, <1>2, <2>1, StaysSound
<1>3. \A n, s : Waits(n, s)' <=> Waits(n, s)
  BY <1>1 DEF Waits
<1>4. TurnsOK'
  BY <1>1 DEF TurnsOK, OnSource, IsAsked, iter_notebooks
<1>5. InHand'
  BY <1>1, <1>2 DEF InHand, IInv, TypeOK
<1>6. ListInv'
  BY <1>1, <1>2, <1>3, ListKept DEF Underway
<1>7. ExportInv'
  <2>1. \A n \in Notes : Places(n)' = Places(n)
    BY <1>1, SameFiles
  <2>2. ASSUME NEW n \in Notes, Sound(n)' PROVE HasCome(n)' <=> HasCome(n)
    BY <1>1, <1>2, <1>3, <2>2 DEF HasCome
  <2> QED
    BY <1>1, <1>2, <2>1, <2>2 DEF ExportInv, Underway
<1> QED
  BY <1>4, <1>5, <1>6, <1>7

\* The invariant of the commands that read.
ReadingInv == IInv /\ TurnsOK /\ InHand /\ ListInv /\ ExportInv

\* Every note of every source is left to read, in hand, or has been written or
\* shown.
THEOREM Reading == ASSUME NoneIsNoPath PROVE Spec => []ReadingInv
<1>1. Init => ReadingInv
  <2> SUFFICES ASSUME Init PROVE ReadingInv
    OBVIOUS
  <2>1. /\ pc = "idle" /\ left = {} /\ ~ trash /\ path = None /\ cmd.name = "none"
    BY DEF Init, NoCommand
  <2> QED
    BY <2>1, InitInv DEF ReadingInv, TurnsOK, OnSource, InHand, ListInv, ExportInv, Underway
<1>2. ASSUME ReadingInv, Next PROVE ReadingInv'
  <2>1. IInv'
    BY <1>2, NoneIsNoPath, KeepsInv DEF ReadingInv
  <2>2. CASE Step
    BY <1>2, <2>1, <2>2, CountReads, TurnReads, GuidsReads, NoteReads, FileReads, WriteReads,
       OtherReads DEF ReadingInv, Step
  <2>3. CASE Export \/ List \/ Check \/ Die
    BY <1>2, <2>1, <2>3, StartReads, OtherReads DEF ReadingInv
  <2>4. CASE \E n \in Notes : SyncNote(n) \/ SyncTask(n)
    BY <1>2, <2>1, <2>4, SyncReads DEF ReadingInv
  <2> QED
    BY <1>2, <2>2, <2>3, <2>4 DEF Next
<1>3. ReadingInv /\ UNCHANGED vars => ReadingInv'
  <2> SUFFICES ASSUME ReadingInv, UNCHANGED vars PROVE ReadingInv'
    OBVIOUS
  <2>1. /\ notes' = notes /\ notebooks' = notebooks /\ files' = files /\ pc' = pc
        /\ outcome' = outcome /\ cmd' = cmd /\ trash' = trash /\ left' = left /\ nb' = nb
        /\ todo' = todo /\ note' = note /\ path' = path /\ listed' = listed
        /\ written' = written /\ touched' = touched
    BY DEF vars, tables, reading, ghosts
  <2>2. /\ \A n \in Notes : (Sound(n)' <=> Sound(n)) /\ Sources(n)' = Sources(n)
        /\ \A b : IsAsked(b)' <=> IsAsked(b)
    BY <2>1, StayAll
  <2>3. \A n, s : Waits(n, s)' <=> Waits(n, s)
    BY <2>1 DEF Waits
  <2>4. \A n \in Notes : (Places(n)' = Places(n)) /\ (HasCome(n)' <=> HasCome(n))
    BY <2>1, <2>2, <2>3, SameFiles DEF HasCome
  <2>5. IInv'
    BY DEF ReadingInv, IInv, TypeOK, FilesOK, PathOK, ScanOK, CheckMarks, vars, tables, reading,
           ghosts, bounds
  <2>6. TurnsOK'
    BY <2>1, <2>2 DEF ReadingInv, TurnsOK
  <2>7. InHand'
    BY <2>1, <2>2 DEF ReadingInv, InHand, IInv, TypeOK
  <2>8. ListInv'
    BY <2>1, <2>2, <2>3, ListKept DEF ReadingInv, Underway
  <2>9. ExportInv'
    BY <2>1, <2>2, <2>4 DEF ReadingInv, ExportInv, Underway
  <2> QED
    BY <2>5, <2>6, <2>7, <2>8, <2>9 DEF ReadingInv
<1> QED
  BY <1>1, <1>2, <1>3, PTL DEF Spec

\* "manage list" shows every sound note that the sync left alone, under its
\* notebook, if it is asked for it, and no other.
THEOREM ListsAll == ASSUME NoneIsNoPath PROVE Spec => []ListComplete
<1>1. ReadingInv => ListComplete
  <2> SUFFICES ASSUME ReadingInv, pc = "idle", outcome = "done", cmd.name = "list",
                      NEW n \in Notes, Sound(n)
               PROVE  {b \in Notebooks \cup {Trash} : <<b, n>> \in listed} = Sources(n)
    BY DEF ListComplete
  <2>1. \A s \in Sources(n) : ~ Waits(n, s) /\ s \in Notebooks \cup {Trash}
    BY SourcesAre DEF ReadingInv, TurnsOK, OnSource, Waits, IInv, TypeOK
  <2>2. \A s \in Notebooks \cup {Trash} : <<s, n>> \in listed <=> s \in Sources(n) /\ ~ Waits(n, s)
    BY DEF ReadingInv, ListInv, Underway
  <2> QED
    BY <2>1, <2>2
<1> QED
  BY <1>1, NoneIsNoPath, Reading, PTL

\* The options ask for a sound note where an export comes upon it, and it comes
\* upon every note they ask for that is not without a notebook.
LEMMA AskedSources ==
    ASSUME IInv, cmd.name = "export", NEW n \in Notes, Sound(n)
    PROVE  /\ Asked(n) /\ ~ Unfiled(n) => Sources(n) # {} /\ (cmd.filter_tags => n \in Tagged)
           /\ Sources(n) # {} /\ (cmd.filter_tags => n \in Tagged) => Asked(n)
<1>1. notes[n] \in Row /\ notes[n].is_active \in BOOLEAN
  BY TablesAssumption DEF Sound, Holds, IInv, TypeOK, Row, NULL
<1>2. CASE notes[n].is_active = FALSE
  <2>1. n \in Trashed /\ \A b : n \notin In(b)
    BY <1>2 DEF Trashed, Sound, In, ActiveNotes
  <2> QED
    BY <2>1, SourcesAre DEF Asked
<1>3. CASE notes[n].is_active = TRUE
  <2>1. n \in ActiveNotes /\ n \notin Trashed /\ notes[n].notebook_guid \in Notebooks
    BY <1>1, <1>3 DEF Trashed, Sound, ActiveNotes, Row
  <2>2. \A b : n \in In(b) <=> b = notes[n].notebook_guid
    BY <2>1 DEF In
  <2>3. ASSUME Asked(n), ~ Unfiled(n)
        PROVE  Sources(n) # {}
    <3>1. PICK b \in iter_notebooks : n \in In(b) /\ (cmd.only = None \/ notebooks[b].name = cmd.only)
      BY <2>1, <2>2, <2>3 DEF Asked, Unfiled, iter_notebooks
    <3>2. b \in Sources(n)
      BY <3>1, SourcesAre DEF IsAsked, iter_notebooks
    <3> QED
      BY <3>2
  <2>4. ASSUME NEW b \in Sources(n), cmd.filter_tags => n \in Tagged
        PROVE  Asked(n)
    <3>1. b \in iter_notebooks /\ n \in In(b) /\ cmd.only \in {None, notebooks[b].name}
      BY <2>1, SourcesAre DEF IsAsked
    <3> QED
      BY <2>1, <2>4, <3>1 DEF Asked
  <2> QED
    BY <2>3, <2>4 DEF Asked
<1> QED
  BY <1>1, <1>2, <1>3

\* Without --overwrite an export that succeeds has written every sound note
\* that the sync left alone, that has a notebook with a row or is in the trash,
\* and that the options ask for, exactly once; no note that they do not ask
\* for; and none twice; however the notebooks, titles and files are named.
THEOREM ExportsAll == ASSUME NoneIsNoPath, ~ Overwrite PROVE Spec => []ExportComplete
<1>1. ReadingInv => ExportComplete
  <2> SUFFICES ASSUME ReadingInv, pc = "idle", outcome = "done", cmd.name = "export",
                      NEW n \in Notes, Sound(n)
               PROVE  /\ Cardinality(Places(n)) <= 1
                      /\ Asked(n) /\ ~ Unfiled(n) => Places(n) # {}
                      /\ Places(n) # {} => Asked(n)
    BY DEF ExportComplete
  <2>1. \A s : ~ Waits(n, s)
    BY ExporterAssumption DEF ReadingInv, TurnsOK, OnSource, Waits, IInv, TypeOK
  <2>2. HasCome(n) <=> Sources(n) # {} /\ (cmd.filter_tags => n \in Tagged)
    BY <2>1 DEF HasCome
  <2>3. /\ HasCome(n) => \E x : Places(n) = {x}
        /\ ~ HasCome(n) => Places(n) = {}
    BY DEF ReadingInv, ExportInv, Underway
  <2>4. Cardinality(Places(n)) <= 1
    <3>1. (\A x : Cardinality({x}) = 1) /\ Cardinality({}) = 0
      BY FS_Singleton, FS_EmptySet
    <3>2. CASE HasCome(n)
      <4>1. PICK x : Places(n) = {x}
        BY <2>3, <3>2
      <4>2. Cardinality(Places(n)) = 1
        BY <3>1, <4>1, Zenon
      <4> QED
        BY <4>2
    <3>3. CASE ~ HasCome(n)
      BY <2>3, <3>1, <3>3
    <3> QED
      BY <3>2, <3>3
  <2>5. /\ Asked(n) /\ ~ Unfiled(n) => HasCome(n)
        /\ HasCome(n) => Asked(n)
    BY <2>2, AskedSources DEF ReadingInv
  <2> QED
    BY <2>3, <2>4, <2>5
<1> QED
  BY <1>1, NoneIsNoPath, Reading, PTL

----------------------------------------------------------------------------
(* The date of a time: fmt_time counts in eras of 400 years, and in years  *)
(* that begin in March.                                                    *)

\* The quotient that \div gives.
LEMMA Quotient ==
    ASSUME NEW a \in Int, NEW b \in Nat, b > 0
    PROVE  a \div b \in Int /\ b * (a \div b) <= a /\ a < b * (a \div b) + b
BY Z3

\* A century begins in every 36524th day of an era of 146097, a leap year in
\* every 1461st day of most: the year of the era, and the day of that year.
LEMMA YearOfEra ==
    ASSUME NEW doe \in Int, 0 <= doe, doe <= 146096, NEW p \in Int, NEW q \in Int, NEW r \in Int,
           1460 * p <= doe, doe < 1460 * p + 1460,
           36524 * q <= doe, doe < 36524 * q + 36524,
           146096 * r <= doe, doe < 146096 * r + 146096,
           NEW yoe \in Int, 365 * yoe <= doe - p + q - r, doe - p + q - r < 365 * yoe + 365,
           NEW a \in Int, NEW b \in Int,
           4 * a <= yoe, yoe < 4 * a + 4, 100 * b <= yoe, yoe < 100 * b + 100
    PROVE  /\ 0 <= yoe /\ yoe <= 399
           /\ 365 * yoe + a - b <= doe /\ doe <= 365 * yoe + a - b + 365
<1>1. 0 <= yoe /\ yoe <= 399
  BY SMTT(60)
<1>2. 365 * yoe + a - b <= doe
  BY SMTT(60)
<1>3. doe <= 365 * yoe + a - b + 365
  BY SMTT(60)
<1> QED
  BY <1>1, <1>2, <1>3

\* The year has no day but those up to the next year.
LEMMA LastOfYear ==
    ASSUME NEW doe \in Int, 0 <= doe, doe <= 146096, NEW p \in Int, NEW q \in Int, NEW r \in Int,
           1460 * p <= doe, doe < 1460 * p + 1460,
           36524 * q <= doe, doe < 36524 * q + 36524,
           146096 * r <= doe, doe < 146096 * r + 146096,
           NEW yoe \in Int, 365 * yoe <= doe - p + q - r, doe - p + q - r < 365 * yoe + 365,
           NEW a \in Int, NEW b \in Int, NEW c \in Int,
           4 * a <= yoe + 1, yoe + 1 < 4 * a + 4, 100 * b <= yoe + 1, yoe + 1 < 100 * b + 100,
           400 * c <= yoe + 1, yoe + 1 < 400 * c + 400
    PROVE  doe <= 365 * yoe + 364 + (a - b + c)
BY SMTT(60)

\* The days of a year that begins in March before each month of it.
LEMMA MonthOfYear ==
    ASSUME NEW doy \in Int, 0 <= doy, doy <= 365, NEW mp \in Int, NEW before \in Int,
           153 * mp <= 5 * doy + 2, 5 * doy + 2 < 153 * mp + 153,
           5 * before <= 153 * mp + 2, 153 * mp + 2 < 5 * before + 5
    PROVE  /\ 0 <= mp /\ mp <= 11
           /\ 0 <= doy - before /\ doy - before <= 30
BY SMTT(60)

\* A quotient by k goes up with every multiple of k.
LEMMA QuotientStep ==
    ASSUME NEW y \in Int, NEW k \in {4, 100, 400}
    PROVE  y \div k = (y - 1) \div k + IF y % k = 0 THEN 1 ELSE 0
<1>1. CASE k = 4
  BY <1>1, Z3
<1>2. CASE k = 100
  BY <1>2, Z3
<1>3. CASE k = 400
  BY <1>3, Z3
<1> QED
  BY <1>1, <1>2, <1>3

\* The leap years up to y: those before it, and y itself.
LeapsTo(y) == y \div 4 - y \div 100 + y \div 400

\* A year adds itself if it is one.
LEMMA LeapsGrow ==
    ASSUME NEW y \in Int
    PROVE  /\ LeapsTo(y) \in Int /\ LeapsTo(y - 1) \in Int
           /\ LeapsTo(y) = LeapsTo(y - 1) + IF Leap(y) THEN 1 ELSE 0
<1> DEFINE Is(k) == IF y % k = 0 THEN 1 ELSE 0
<1>1. /\ y \div 4 = (y - 1) \div 4 + Is(4)
      /\ y \div 100 = (y - 1) \div 100 + Is(100)
      /\ y \div 400 = (y - 1) \div 400 + Is(400)
  BY QuotientStep
<1>2. (y % 400 = 0 => y % 100 = 0) /\ (y % 100 = 0 => y % 4 = 0)
  BY Z3
<1>3. \A x \in Int : x \div 4 \in Int /\ x \div 100 \in Int /\ x \div 400 \in Int
  BY Quotient
<1>4. Is(4) - Is(100) + Is(400) = IF Leap(y) THEN 1 ELSE 0
  BY <1>2 DEF Leap
<1>5. Is(4) \in Int /\ Is(100) \in Int /\ Is(400) \in Int
  OBVIOUS
<1> HIDE DEF Is
<1> QED
  BY <1>1, <1>3, <1>4, <1>5 DEF LeapsTo

\* An era has 97 leap years.
LEMMA LeapsOfEra ==
    ASSUME NEW era \in Int, NEW yoe \in Int
    PROVE  LeapsTo(yoe + era * 400) = LeapsTo(yoe) + 97 * era
<1>1. (yoe + era * 400) \div 4 = yoe \div 4 + 100 * era
  BY Z3
<1>2. (yoe + era * 400) \div 100 = yoe \div 100 + 4 * era
  BY Z3
<1>3. (yoe + era * 400) \div 400 = yoe \div 400 + era
  BY Z3
<1>4. yoe \div 4 \in Int /\ yoe \div 100 \in Int /\ yoe \div 400 \in Int
  BY Quotient
<1> QED
  BY <1>1, <1>2, <1>3, <1>4 DEF LeapsTo

\* The months of a calendar year, from March to February.
LEMMA MonthsFromMarch ==
    ASSUME NEW y \in Int, NEW mp \in 0 .. 11
    PROVE  LET m == IF mp < 10 THEN mp + 3 ELSE mp - 9 IN
           /\ m \in 1 .. 12 /\ (m <= 2 <=> mp >= 10)
           /\ DaysBeforeMonth(y, m) = (153 * mp + 2) \div 5
                + IF mp < 10 THEN 59 + (IF Leap(y) THEN 1 ELSE 0) ELSE - 306
<1> DEFINE m == IF mp < 10 THEN mp + 3 ELSE mp - 9
           Table == <<0, 31, 59, 90, 120, 151, 181, 212, 243, 273, 304, 334>>
<1>1. m \in 1 .. 12 /\ (m <= 2 <=> mp >= 10)
  OBVIOUS
<1>2. Table[m] = (153 * mp + 2) \div 5 + IF mp < 10 THEN 59 ELSE - 306
  <2> DEFINE Is(k) == Table[IF k < 10 THEN k + 3 ELSE k - 9]
                         = (153 * k + 2) \div 5 + IF k < 10 THEN 59 ELSE - 306
  <2>1. Is(0) /\ Is(1) /\ Is(2) /\ Is(3)
    BY Z3
  <2>2. Is(4) /\ Is(5) /\ Is(6) /\ Is(7)
    BY Z3
  <2>3. Is(8) /\ Is(9) /\ Is(10) /\ Is(11)
    BY Z3
  <2>4. mp \in {0, 1, 2, 3, 4, 5, 6, 7, 8, 9, 10, 11}
    OBVIOUS
  <2> HIDE DEF Is
  <2>5. Is(mp)
    BY <2>1, <2>2, <2>3, <2>4
  <2> QED
    BY <2>5 DEF Is
<1>3. (153 * mp + 2) \div 5 \in Int
  BY Quotient
<1>4. CASE mp < 10
  BY <1>1, <1>2, <1>3, <1>4 DEF DaysBeforeMonth
<1>5. CASE mp >= 10
  BY <1>1, <1>2, <1>3, <1>5 DEF DaysBeforeMonth
<1> QED
  BY <1>1, <1>4, <1>5

\* A day before the next month is one of its month.
LEMMA EndOfMonth ==
    ASSUME NEW y \in Int, NEW mp \in 0 .. 11, NEW doy \in Int, NEW before \in Int,
           before = (153 * mp + 2) \div 5, 5 * doy + 2 < 153 * mp + 153,
           doy - before <= 30, mp = 11 => doy <= 364 + IF Leap(y) THEN 1 ELSE 0
    PROVE  doy - before + 1 <= DaysOfMonth(y, IF mp < 10 THEN mp + 3 ELSE mp - 9)
<1> DEFINE m == IF mp < 10 THEN mp + 3 ELSE mp - 9
           next == (153 * (mp + 1) + 2) \div 5
           leap == IF Leap(y) THEN 1 ELSE 0
<1>1. next \in Int /\ 5 * next <= 153 * (mp + 1) + 2 /\ 153 * (mp + 1) + 2 < 5 * next + 5
  BY Quotient
<1>2. doy + 1 <= next
  <2> HIDE DEF next
  <2> QED
    BY <1>1
<1>3. DaysBeforeMonth(y, m) = before + IF mp < 10 THEN 59 + leap ELSE - 306
  BY MonthsFromMarch
<1>4. leap \in {0, 1}
  OBVIOUS
<1> HIDE DEF leap
<1>5. CASE mp = 9
  BY <1>5 DEF DaysOfMonth
<1>6. CASE mp = 11
  <2>1. before = 337 /\ m = 2
    BY <1>6, Z3
  <2>2. DaysBeforeMonth(y, 2) = 31 /\ DaysBeforeMonth(y, 3) = 59 + leap
    BY DEF DaysBeforeMonth, leap
  <2>3. DaysOfMonth(y, 2) = 28 + leap
    BY <1>4, <2>2 DEF DaysOfMonth
  <2>4. doy <= 364 + leap
    BY <1>6 DEF leap
  <2> HIDE DEF m
  <2> QED
    BY <1>4, <2>1, <2>3, <2>4 DEF m
<1>7. CASE mp # 9 /\ mp # 11
  <2> DEFINE mq == mp + 1
             k == IF mq < 10 THEN mq + 3 ELSE mq - 9
  <2>1. mq \in 0 .. 11 /\ k = m + 1 /\ m # 12 /\ (mq < 10 <=> mp < 10)
    BY <1>7
  <2>2. DaysBeforeMonth(y, k) = next + IF mq < 10 THEN 59 + leap ELSE - 306
    <3> HIDE DEF mq
    <3> QED
      BY <2>1, MonthsFromMarch DEF leap, mq
  <2>3. DaysOfMonth(y, m) = DaysBeforeMonth(y, k) - DaysBeforeMonth(y, m)
    BY <2>1 DEF DaysOfMonth
  <2> HIDE DEF k, m, next, mq
  <2>4. DaysOfMonth(y, m) = next - before
    BY <1>1, <1>3, <1>4, <2>1, <2>2, <2>3
  <2> QED
    BY <1>1, <1>2, <2>4 DEF m
<1> QED
  BY <1>5, <1>6, <1>7

\* The date with these numbers: year of an era and month of a year that begin
\* in March.
Civil(era, yoe, mp, d, sec) ==
    LET m == IF mp < 10 THEN mp + 3 ELSE mp - 9
    IN  [y |-> yoe + era * 400 + IF m <= 2 THEN 1 ELSE 0, m |-> m, d |-> d, sec |-> sec]

\* The days from 1970 to it.
LEMMA DaysToCivil ==
    ASSUME NEW era \in Int, NEW yoe \in Int, 0 <= yoe, yoe <= 399, NEW mp \in 0 .. 11,
           NEW d \in Int, NEW sec
    PROVE  DaysTo(Civil(era, yoe, mp, d, sec)) =
              146097 * era + (365 * yoe + yoe \div 4 - yoe \div 100)
              + (153 * mp + 2) \div 5 + d - 719469
<1> DEFINE date == Civil(era, yoe, mp, d, sec)
           Y == yoe + era * 400
           before == (153 * mp + 2) \div 5
<1>1. date.m \in 1 .. 12 /\ date.d = d /\ date.y = Y + (IF mp < 10 THEN 0 ELSE 1)
  BY MonthsFromMarch DEF Civil
<1>2. DaysBeforeMonth(date.y, date.m) = before
                + IF mp < 10 THEN 59 + (IF Leap(date.y) THEN 1 ELSE 0) ELSE - 306
  BY <1>1, MonthsFromMarch DEF Civil
<1>4. DaysTo(date) = 365 * (date.y - 1970) + (LeapsTo(date.y - 1) - 477)
                     + DaysBeforeMonth(date.y, date.m) + d - 1
  BY <1>1 DEF DaysTo, LeapsTo
<1> DEFINE a == yoe \div 4
           b == yoe \div 100
           leap == IF Leap(Y) THEN 1 ELSE 0
           last == LeapsTo(Y - 1)
<1>5. before \in Int /\ a \in Int /\ b \in Int /\ Y \in Int /\ leap \in Int /\ last \in Int
  BY Quotient, LeapsGrow
<1>6. LeapsTo(Y) = a - b + 97 * era
  <2>1. yoe \div 400 = 0
    BY Z3
  <2> QED
    BY <1>5, <2>1, LeapsOfEra DEF LeapsTo
<1>7. DaysTo(date) = IF mp < 10
                     THEN 365 * (Y - 1970) + (last - 477) + (before + 59 + leap) + d - 1
                     ELSE 365 * (Y + 1 - 1970) + (LeapsTo(Y) - 477) + (before - 306) + d - 1
  <2>1. CASE mp < 10
    <3>1. date.y = Y
      BY <1>1, <1>5, <2>1
    <3> HIDE DEF date, before, Y
    <3> QED
      BY <1>2, <1>4, <1>5, <2>1, <3>1
  <2>2. CASE mp >= 10
    <3>1. date.y = Y + 1 /\ date.y - 1 = Y
      BY <1>1, <1>5, <2>2
    <3> HIDE DEF date, before, Y
    <3> QED
      BY <1>2, <1>4, <1>5, <2>2, <3>1
  <2> QED
    BY <2>1, <2>2
<1>8. LeapsTo(Y) = last + leap
  BY <1>5, LeapsGrow
<1> HIDE DEF date, before, a, b, leap, last
<1>9. LeapsTo(Y) \in Int /\ Y = yoe + era * 400
  BY <1>5, <1>6
<1>10. DaysTo(date) = 146097 * era + (365 * yoe + a - b) + before + d - 719469
  <2> HIDE DEF Y
  <2> QED
    BY <1>5, <1>6, <1>7, <1>8, <1>9
<1> QED
  BY <1>10 DEF date, before, a, b

\* The date of a day, as _date_from_future computes it before it looks at the
\* end of the calendar.
DateOf(day, sec) ==
    LET z   == day + 719468
        era == z \div 146097
        doe == z - era * 146097
        yoe == (doe - doe \div 1460 + doe \div 36524 - doe \div 146096) \div 365
        doy == doe - (365 * yoe + yoe \div 4 - yoe \div 100)
        mp  == (5 * doy + 2) \div 153
    IN  Civil(era, yoe, mp, doy - (153 * mp + 2) \div 5 + 1, sec)

\* It is a date of the calendar, and that of the day.
LEMMA DateOfIs ==
    ASSUME NEW day \in Int, NEW sec
    PROVE  LET date == DateOf(day, sec) IN
           /\ date.y \in Int /\ date.m \in 1 .. 12 /\ date.d \in 1 .. 31
           /\ date = [y |-> date.y, m |-> date.m, d |-> date.d, sec |-> sec]
           /\ IsDate(date) /\ DaysTo(date) = day
<1> DEFINE z   == day + 719468
           era == z \div 146097
           doe == z - era * 146097
           p == doe \div 1460
           q == doe \div 36524
           r == doe \div 146096
           yoe == (doe - p + q - r) \div 365
           a == yoe \div 4
           b == yoe \div 100
           doy == doe - (365 * yoe + a - b)
           mp  == (5 * doy + 2) \div 153
           before == (153 * mp + 2) \div 5
           date == DateOf(day, sec)
<1>1. date = Civil(era, yoe, mp, doy - before + 1, sec)
  BY DEF DateOf
<1>2. z \in Int /\ era \in Int /\ doe \in Int /\ 0 <= doe /\ doe <= 146096
  BY Quotient
<1>3. /\ p \in Int /\ 1460 * p <= doe /\ doe < 1460 * p + 1460
      /\ q \in Int /\ 36524 * q <= doe /\ doe < 36524 * q + 36524
      /\ r \in Int /\ 146096 * r <= doe /\ doe < 146096 * r + 146096
  <2> HIDE DEF doe
  <2> QED
    BY <1>2, Quotient
<1>4. yoe \in Int /\ 365 * yoe <= doe - p + q - r /\ doe - p + q - r < 365 * yoe + 365
  <2>1. doe - p + q - r \in Int
    BY <1>2, <1>3
  <2> HIDE DEF doe, p, q, r
  <2> QED
    BY <2>1, Quotient
<1>5. /\ a \in Int /\ 4 * a <= yoe /\ yoe < 4 * a + 4
      /\ b \in Int /\ 100 * b <= yoe /\ yoe < 100 * b + 100
  <2> HIDE DEF yoe
  <2> QED
    BY <1>4, Quotient
<1>6. 0 <= yoe /\ yoe <= 399 /\ doy \in Int /\ 0 <= doy /\ doy <= 365
  <2> HIDE DEF doe, p, q, r, yoe, a, b
  <2> QED
    BY <1>2, <1>3, <1>4, <1>5, YearOfEra
<1>7. mp \in Int /\ 153 * mp <= 5 * doy + 2 /\ 5 * doy + 2 < 153 * mp + 153
  <2> HIDE DEF doy
  <2> QED
    BY <1>6, Quotient
<1>8. before \in Int /\ 5 * before <= 153 * mp + 2 /\ 153 * mp + 2 < 5 * before + 5
  <2> HIDE DEF mp
  <2> QED
    BY <1>7, Quotient
<1>9. mp \in 0 .. 11 /\ doy - before + 1 \in 1 .. 31
  <2> HIDE DEF doy, mp, before
  <2>1. 0 <= mp /\ mp <= 11 /\ 0 <= doy - before /\ doy - before <= 30
    BY <1>6, <1>7, <1>8, MonthOfYear
  <2> QED
    BY <1>6, <1>7, <1>8, <2>1
<1>10. DaysTo(date) = day
  <2> DEFINE d == doy - before + 1
  <2>1. DaysTo(date) = 146097 * era + (365 * yoe + a - b) + before + d - 719469
    <3> HIDE DEF era, yoe, mp, d, date
    <3> QED
      BY <1>1, <1>2, <1>4, <1>6, <1>9, DaysToCivil DEF d
  <2> HIDE DEF p, q, r, yoe, a, b, mp, before, era
  <2> QED
    BY <1>2, <1>4, <1>5, <1>8, <2>1
<1>11. date.y \in Int /\ date.m \in 1 .. 12 /\ date.d \in 1 .. 31
  <2> HIDE DEF era, yoe, mp, doy, before, date
  <2> QED
    BY <1>1, <1>2, <1>4, <1>9 DEF Civil
<1>12. date = [y |-> date.y, m |-> date.m, d |-> date.d, sec |-> sec]
  <2> HIDE DEF era, yoe, mp, doy, before, date
  <2> QED
    BY <1>1 DEF Civil
<1>13. IsDate(date)
  <2> DEFINE y == yoe + era * 400 + IF mp < 10 THEN 0 ELSE 1
             Y == yoe + 1 + era * 400
             leap == IF Leap(y) THEN 1 ELSE 0
             c == (yoe + 1) \div 400
             a2 == (yoe + 1) \div 4
             b2 == (yoe + 1) \div 100
  <2>1. y \in Int /\ Y \in Int
    BY <1>2, <1>4
  <2>2. /\ a2 \in Int /\ 4 * a2 <= yoe + 1 /\ yoe + 1 < 4 * a2 + 4
        /\ b2 \in Int /\ 100 * b2 <= yoe + 1 /\ yoe + 1 < 100 * b2 + 100
        /\ c \in Int /\ 400 * c <= yoe + 1 /\ yoe + 1 < 400 * c + 400
    <3> HIDE DEF yoe
    <3> QED
      BY <1>4, Quotient
  <2>3. doe <= 365 * yoe + 364 + (a2 - b2 + c)
    <3> HIDE DEF doe, p, q, r, yoe, a2, b2, c
    <3> QED
      BY <1>2, <1>3, <1>4, <2>2, LastOfYear
  <2>4. LeapsTo(Y) = a2 - b2 + c + 97 * era
    <3> HIDE DEF yoe, era
    <3> QED
      BY <1>2, <1>4, LeapsOfEra DEF LeapsTo
  <2>5. LeapsTo(Y - 1) = a - b + 97 * era
    <3>1. yoe \div 400 = 0
      <4> HIDE DEF yoe
      <4> QED
        BY <1>4, <1>6, Z3
    <3>2. Y - 1 = yoe + era * 400
      <4> HIDE DEF yoe, era
      <4> QED
        BY <1>2, <1>4
    <3>3. LeapsTo(yoe + era * 400) = LeapsTo(yoe) + 97 * era
      <4> HIDE DEF yoe, era
      <4> QED
        BY <1>2, <1>4, LeapsOfEra
    <3>4. LeapsTo(yoe) = a - b + 0
      BY <3>1 DEF LeapsTo
    <3> HIDE DEF yoe, era, a, b, Y
    <3> QED
      BY <1>5, <3>2, <3>3, <3>4
  <2>6. mp = 11 => doy <= 364 + leap
    <3> SUFFICES ASSUME mp = 11 PROVE doy <= 364 + leap
      OBVIOUS
    <3>1. y = Y
      <4> HIDE DEF yoe, era, mp
      <4> QED
        BY <1>2, <1>4
    <3>2. LeapsTo(Y) = LeapsTo(Y - 1) + leap
      <4> HIDE DEF Y, y
      <4> QED
        BY <2>1, <3>1, LeapsGrow
    <3>3. leap \in Int
      OBVIOUS
    <3> HIDE DEF doe, yoe, a, b, a2, b2, c, era, leap, Y
    <3> QED
      BY <1>2, <1>4, <1>5, <2>2, <2>3, <2>4, <2>5, <3>2, <3>3
  <2>7. doy - before <= 30
    <3> HIDE DEF doy, before
    <3> QED
      BY <1>6, <1>8, <1>9
  <2>8. doy - before + 1 <= DaysOfMonth(y, IF mp < 10 THEN mp + 3 ELSE mp - 9)
    <3>1. before = (153 * mp + 2) \div 5
      OBVIOUS
    <3> HIDE DEF doy, before, mp, y
    <3>2. /\ y \in Int /\ mp \in 0 .. 11 /\ doy \in Int /\ before \in Int
          /\ 5 * doy + 2 < 153 * mp + 153 /\ doy - before <= 30
      BY <1>6, <1>7, <1>8, <1>9, <2>1, <2>7
    <3> QED
      BY <2>6, <3>1, <3>2, EndOfMonth
  <2>9. /\ date.m = IF mp < 10 THEN mp + 3 ELSE mp - 9
        /\ date.d = doy - before + 1 /\ date.y = y
    <3>1. date.m <= 2 <=> mp >= 10
      <4> HIDE DEF era, yoe, mp, doy, before, date
      <4> QED
        BY <1>1, <1>9 DEF Civil
    <3> HIDE DEF era, yoe, mp, doy, before, date
    <3> QED
      BY <1>1, <1>2, <1>4, <1>9, <3>1 DEF Civil
  <2> HIDE DEF era, yoe, mp, doy, before, date, y
  <2>10. DaysOfMonth(date.y, date.m) \in Int
    <3>1. date.y \in Int /\ date.m \in 1 .. 12
      BY <1>11
    <3>2. \A k \in 1 .. 12 :
             <<0, 31, 59, 90, 120, 151, 181, 212, 243, 273, 304, 334>>[k] \in Int
      OBVIOUS
    <3>3. \A i \in Int, k \in 1 .. 12 : DaysBeforeMonth(i, k) \in Int
      BY <3>2 DEF DaysBeforeMonth
    <3>4. ASSUME NEW i \in Int, NEW k \in 1 .. 12
          PROVE  DaysOfMonth(i, k) \in Int
      <4>1. CASE k = 12
        BY <4>1 DEF DaysOfMonth
      <4>2. CASE k # 12
        <5>1. DaysBeforeMonth(i, k) \in Int /\ DaysBeforeMonth(i, k + 1) \in Int
          BY <3>3, <4>2
        <5> QED
          BY <4>2, <5>1 DEF DaysOfMonth
      <4> QED
        BY <4>1, <4>2
    <3> QED
      BY <3>1, <3>4
  <2> QED
    BY <1>9, <1>11, <2>8, <2>9, <2>10 DEF IsDate
<1> QED
  BY <1>10, <1>11, <1>12, <1>13

\* There are 97 leap years in 400 years, give or take two.
LEMMA LeapsAre ==
    ASSUME NEW y \in Int
    PROVE  /\ LeapsTo(y) \in Int
           /\ 97 * y - 600 <= 400 * LeapsTo(y) /\ 400 * LeapsTo(y) <= 97 * y + 400
<1> DEFINE a == y \div 4
           b == y \div 100
           c == y \div 400
<1>1. /\ a \in Int /\ 4 * a <= y /\ y < 4 * a + 4
      /\ b \in Int /\ 100 * b <= y /\ y < 100 * b + 100
      /\ c \in Int /\ 400 * c <= y /\ y < 400 * c + 400
  BY Quotient
<1>2. LeapsTo(y) = a - b + c
  BY DEF LeapsTo
<1> HIDE DEF a, b, c
<1> QED
  BY <1>1, <1>2

\* A day lies in its year.
LEMMA DaysOfYear ==
    ASSUME NEW date, date.y \in Int, date.m \in 1 .. 12, date.d \in 1 .. 31
    PROVE  /\ DaysTo(date) \in Int
           /\ 365 * (date.y - 1970) + LeapsTo(date.y - 1) - 477 <= DaysTo(date)
           /\ DaysTo(date) <= 365 * (date.y - 1970) + LeapsTo(date.y - 1) - 112
<1> DEFINE y == date.y
           m == date.m
           d == date.d
           n == DaysBeforeMonth(y, m)
<1>1. n \in Int /\ 0 <= n /\ n + d <= 366
  <2>1. m \in {1, 2, 3, 4, 5, 6, 7, 8, 9, 10, 11, 12}
    OBVIOUS
  <2>2. <<0, 31, 59, 90, 120, 151, 181, 212, 243, 273, 304, 334>>[m] \in 0 .. 334
    BY <2>1
  <2> QED
    BY <2>2 DEF DaysBeforeMonth
<1>2. DaysTo(date) = 365 * (y - 1970) + (LeapsTo(y - 1) - 477) + n + d - 1
  BY DEF DaysTo, LeapsTo
<1>3. LeapsTo(y - 1) \in Int
  BY LeapsAre
<1> HIDE DEF n
<1> QED
  BY <1>1, <1>2, <1>3

\* datetime represents every day from its first on.
LEMMA UtcDate ==
    ASSUME NEW t \in [day : Int, sec : Int], t.day >= DaysTo(datetime_min)
    PROVE  LET date == fmt_utcfromtimestamp(t) IN
           IsDate(date) /\ DaysTo(date) = t.day /\ date.sec = t.sec
<1> DEFINE date == DateOf(t.day, t.sec)
           day == t.day
           past == day \div 366
           now == day \div 365
           years == {past, now}
           leaps == LeapsTo(date.y - 1)
<1>1. /\ date.y \in Int /\ date.m \in 1 .. 12 /\ date.d \in 1 .. 31
      /\ date = [y |-> date.y, m |-> date.m, d |-> date.d, sec |-> t.sec]
      /\ IsDate(date) /\ DaysTo(date) = day
  BY DateOfIs
<1>2. /\ past \in Int /\ 366 * past <= day /\ day < 366 * past + 366
      /\ now \in Int /\ 365 * now <= day /\ day < 365 * now + 365
  BY Quotient
<1>3. /\ leaps \in Int
      /\ 97 * (date.y - 1) - 600 <= 400 * leaps /\ 400 * leaps <= 97 * (date.y - 1) + 400
  BY <1>1, LeapsAre
<1>4. /\ 365 * (date.y - 1970) + leaps - 477 <= day
      /\ day <= 365 * (date.y - 1970) + leaps - 112
  <2> HIDE DEF date
  <2> QED
    BY <1>1, DaysOfYear
<1>5. /\ Min(years) \in Int /\ Max(years) \in Int
      /\ Min(years) <= past /\ Min(years) <= now /\ past <= Max(years) /\ now <= Max(years)
  <2> HIDE DEF past, now
  <2> QED
    BY <1>2 DEF Min, Max
<1>6. Min(years) + 1969 <= date.y /\ date.y <= Max(years) + 1971
  <2>1. date.y \in Int /\ day \in Int
    BY <1>1
  <2> HIDE DEF date, day, past, now, years, leaps
  <2>2. Min(years) + 1969 <= date.y
    BY <1>2, <1>3, <1>4, <1>5, <2>1
  <2>3. date.y <= Max(years) + 1971
    BY <1>2, <1>3, <1>4, <1>5, <2>1
  <2> QED
    BY <2>2, <2>3
<1>7. date \in [y : (Min(years) + 1969) .. (Max(years) + 1971),
                m : 1 .. 12, d : 1 .. 31, sec : {t.sec}]
  <2> HIDE DEF date, past, now
  <2> QED
    BY <1>1, <1>5, <1>6
<1> HIDE DEF date
<1> QED
  BY <1>1, <1>7 DEF fmt_utcfromtimestamp

\* fmt_time gives the date of every time, or the end of the calendar.
LEMMA TimesRight ==
    ASSUME NEW t \in [day : Int, sec : Int]
    PROVE  RightDate(t, fmt_time(t))
<1>1. CASE t.day < 0
  <2>1. CASE t.day < DaysTo(datetime_min)
    BY <1>1, <2>1 DEF fmt_time, _date_from_past, RightDate
  <2>2. CASE ~ t.day < DaysTo(datetime_min)
    <3>1. t.day >= DaysTo(datetime_min)
      <4>1. DaysTo(datetime_min) \in Int
        BY DEF DaysTo, datetime_min, DaysBeforeMonth, Leap
      <4> QED
        BY <2>2, <4>1
    <3> QED
      BY <1>1, <2>2, <3>1, UtcDate DEF fmt_time, _date_from_past, RightDate
  <2> QED
    BY <2>1, <2>2
<1>2. CASE t.day >= 0 /\ t.day >= MaxDay
  <2> DEFINE date == DateOf(t.day, t.sec)
  <2>1. /\ date.y \in Int /\ date.m \in 1 .. 12 /\ date.d \in 1 .. 31
        /\ date = [y |-> date.y, m |-> date.m, d |-> date.d, sec |-> t.sec]
        /\ IsDate(date) /\ DaysTo(date) = t.day
    BY DateOfIs
  <2>2. fmt_time(t) = IF date.y > 9999 THEN datetime_max ELSE date
    <3>1. ~ t.day < 0
      BY <1>2
    <3>2. fmt_time(t) = _date_from_future(t)
      BY <1>2, <3>1 DEF fmt_time
    <3>3. _date_from_future(t) = IF date.y > 9999 THEN datetime_max ELSE date
      BY SMTT(60) DEF _date_from_future, DateOf, Civil
    <3> QED
      BY <3>2, <3>3
  <2>3. CASE date.y > 9999
    <3>1. DaysTo(datetime_max) = 2932896
      BY SMT DEF DaysTo, datetime_max, DaysBeforeMonth, Leap
    <3>2. /\ 365 * (date.y - 1970) + LeapsTo(date.y - 1) - 477 <= t.day
      <4> HIDE DEF date
      <4> QED
        BY <2>1, DaysOfYear
    <3>3. /\ LeapsTo(date.y - 1) \in Int
          /\ 97 * (date.y - 1) - 600 <= 400 * LeapsTo(date.y - 1)
      BY <2>1, LeapsAre
    <3>4. t.day > DaysTo(datetime_max)
      <4> HIDE DEF date
      <4> QED
        BY <2>1, <2>3, <3>1, <3>2, <3>3, SMT
    <3> QED
      BY <2>2, <2>3, <3>4 DEF RightDate
  <2>4. CASE ~ date.y > 9999
    <3> HIDE DEF date
    <3>1. date.sec = t.sec
      BY <2>1
    <3> QED
      BY <2>1, <2>2, <2>4, <3>1 DEF RightDate
  <2> QED
    BY <2>3, <2>4
<1>3. CASE t.day >= 0 /\ ~ t.day >= MaxDay
  <2>1. DaysTo(datetime_min) = - 719162
    BY DEF DaysTo, datetime_min, DaysBeforeMonth, Leap
  <2> QED
    BY <1>3, <2>1, UtcDate DEF fmt_time, RightDate
<1> QED
  BY <1>1, <1>2, <1>3

----------------------------------------------------------------------------
(* The content: where in the text fmt_content puts each token, that a      *)
(* reader finds the sections of it, and in them what was put in.           *)

\* What FlattenSeq adds up, sequence by sequence.
LEMMA FlattenIs ==
    ASSUME NEW T, NEW s \in Seq(Seq(T))
    PROVE  \E g \in [0 .. Len(s) -> Seq(T)] :
              /\ g[0] = <<>> /\ FlattenSeq(s) = g[Len(s)]
              /\ \A i \in 1 .. Len(s) : g[i] = g[i - 1] \o s[i]
<1> DEFINE Rule(f, i) == IF i = 1 THEN s[i] ELSE f[i - 1] \o s[i]
           IsSum(n, f) == f \in [1 .. n -> Seq(T)] /\ \A i \in 1 .. n : f[i] = Rule(f, i)
           Done == {n \in Nat : n <= Len(s) => \E f : IsSum(n, f)}
<1>1. CASE Len(s) = 0
  <2>1. s = <<>>
    BY <1>1
  <2>2. FlattenSeq(s) = <<>>
    BY <1>1, <2>1 DEF FlattenSeq
  <2> DEFINE g == [i \in 0 .. Len(s) |-> <<>>]
  <2>3. g \in [0 .. Len(s) -> Seq(T)] /\ g[0] = <<>> /\ g[Len(s)] = <<>>
    BY <1>1
  <2>4. 1 .. Len(s) = {}
    BY <1>1
  <2> HIDE DEF g
  <2> QED
    BY <2>2, <2>3, <2>4
<1>2. CASE Len(s) # 0
  <2>1. 0 \in Done
    <3>1. IsSum(0, <<>>)
      OBVIOUS
    <3> QED
      BY <3>1
  <2>2. ASSUME NEW n \in Nat, n \in Done PROVE n + 1 \in Done
    <3> HIDE DEF IsSum
    <3> SUFFICES ASSUME n + 1 <= Len(s) PROVE \E f : IsSum(n + 1, f)
      OBVIOUS
    <3>1. PICK f : IsSum(n, f)
      BY <2>2
    <3> USE DEF IsSum
    <3> DEFINE h == [i \in 1 .. n + 1 |-> IF i <= n THEN f[i] ELSE Rule(f, i)]
    <3>2. \A i \in 1 .. n + 1 : /\ s[i] \in Seq(T)
                                 /\ i # 1 => i - 1 \in 1 .. n /\ f[i - 1] \in Seq(T)
      BY <3>1
    <3>3. h \in [1 .. n + 1 -> Seq(T)]
      BY <3>1, <3>2
    <3>4. ASSUME NEW i \in 1 .. n + 1
          PROVE  h[i] = Rule(h, i)
      <4>1. h[i] = Rule(f, i)
        <5>1. CASE i <= n
          <6>1. h[i] = f[i] /\ i \in 1 .. n
            BY <5>1
          <6>2. \A k \in 1 .. n : f[k] = Rule(f, k)
            BY <3>1
          <6> HIDE DEF h, Rule
          <6> QED
            BY <6>1, <6>2
        <5>2. CASE i = n + 1
          BY <5>2
        <5> QED
          BY <5>1, <5>2
      <4>2. i # 1 => h[i - 1] = f[i - 1]
        BY <3>2
      <4> QED
        BY <4>1, <4>2
    <3>5. IsSum(n + 1, h)
      BY <3>3, <3>4
    <3> HIDE DEF IsSum, h
    <3> QED
      BY <3>5
  <2>3. Len(s) \in Done
    <3> HIDE DEF Done
    <3>1. Nat \subseteq Done
      BY <2>1, <2>2, NatSet
    <3> QED
      BY <3>1
  <2>4. PICK f : IsSum(Len(s), f)
    <3> HIDE DEF IsSum
    <3> QED
      BY <2>3
  <2> DEFINE e == CHOOSE x : x = [i \in 1 .. Len(s) |-> Rule(x, i)]
  <2>5. e = [i \in 1 .. Len(s) |-> Rule(e, i)]
    <3>1. f = [i \in 1 .. Len(s) |-> Rule(f, i)]
      BY <2>4
    <3> QED
      BY <3>1, Zenon
  <2>6. FlattenSeq(s) = e[Len(s)]
    BY <1>2 DEF FlattenSeq
  <2> HIDE DEF e
  <2>7. \A n \in Nat : n \in 1 .. Len(s) => e[n] \in Seq(T)
    <3> DEFINE Good == {n \in Nat : n \in 1 .. Len(s) => e[n] \in Seq(T)}
    <3>1. 0 \in Good
      OBVIOUS
    <3>2. ASSUME NEW n \in Nat, n \in Good PROVE n + 1 \in Good
      <4> SUFFICES ASSUME n + 1 \in 1 .. Len(s) PROVE e[n + 1] \in Seq(T)
        OBVIOUS
      <4>1. e[n + 1] = IF n = 0 THEN s[n + 1] ELSE e[n] \o s[n + 1]
        <5>1. \A i \in 1 .. Len(s) : e[i] = Rule(e, i)
          BY <2>5
        <5>2. n + 1 - 1 = n /\ (n + 1 = 1 <=> n = 0)
          OBVIOUS
        <5> QED
          BY <5>1, <5>2
      <4>2. s[n + 1] \in Seq(T)
        OBVIOUS
      <4>3. n # 0 => e[n] \in Seq(T)
        BY <3>2
      <4> QED
        BY <4>1, <4>2, <4>3
    <3> HIDE DEF Good
    <3>3. Nat \subseteq Good
      BY <3>1, <3>2, NatSet
    <3> QED
      BY <3>3 DEF Good
  <2> DEFINE g == [i \in 0 .. Len(s) |-> IF i = 0 THEN <<>> ELSE e[i]]
  <2>8. g \in [0 .. Len(s) -> Seq(T)]
    BY <2>7
  <2>9. ASSUME NEW i \in 1 .. Len(s) PROVE g[i] = g[i - 1] \o s[i]
    <3>1. e[i] = IF i = 1 THEN s[i] ELSE e[i - 1] \o s[i]
      BY <2>5
    <3>2. s[i] \in Seq(T) /\ <<>> \o s[i] = s[i]
      OBVIOUS
    <3>3. g[i] = e[i] /\ g[i - 1] = IF i = 1 THEN <<>> ELSE e[i - 1]
      OBVIOUS
    <3> QED
      BY <3>1, <3>2, <3>3
  <2>10. g[0] = <<>> /\ g[Len(s)] = e[Len(s)]
    BY <1>2
  <2> HIDE DEF g
  <2> QED
    BY <2>6, <2>8, <2>9, <2>10
<1> QED
  BY <1>1, <1>2

\* The elements of a concatenation.
LEMMA Joined ==
    ASSUME NEW T, NEW a \in Seq(T), NEW b \in Seq(T), NEW c, c = a \o b
    PROVE  /\ Len(a) \in Nat /\ Len(b) \in Nat /\ Len(c) = Len(a) + Len(b)
           /\ \A p \in 1 .. Len(a) : c[p] = a[p]
           /\ \A k \in 1 .. Len(b) : c[Len(a) + k] = b[k]
OBVIOUS

\* Where the k-th element of the i-th sequence is in FlattenSeq(s), and that
\* this is everything.
IsLayout(s, off, flat) ==
    /\ off \in [0 .. Len(s) -> Nat] /\ off[0] = 0 /\ Len(flat) = off[Len(s)]
    /\ \A i \in 1 .. Len(s) :
          /\ off[i] = off[i - 1] + Len(s[i])
          /\ \A k \in 1 .. Len(s[i]) : off[i - 1] + k \in 1 .. Len(flat)
                                      /\ flat[off[i - 1] + k] = s[i][k]
    /\ \A p \in 1 .. Len(flat) : \E i \in 1 .. Len(s) : off[i - 1] < p /\ p <= off[i]

\* There is such a layout.
LEMMA Layout ==
    ASSUME NEW T, NEW s \in Seq(Seq(T))
    PROVE  FlattenSeq(s) \in Seq(T) /\ \E off : IsLayout(s, off, FlattenSeq(s))
<1>1. PICK g \in [0 .. Len(s) -> Seq(T)] :
         /\ g[0] = <<>> /\ FlattenSeq(s) = g[Len(s)]
         /\ \A i \in 1 .. Len(s) : g[i] = g[i - 1] \o s[i]
  BY FlattenIs
<1> DEFINE off == [i \in 0 .. Len(s) |-> Len(g[i])]
           Placed(n) ==
              /\ \A i \in 1 .. n : \A k \in 1 .. Len(s[i]) : /\ off[i - 1] + k \in 1 .. off[n]
                                                           /\ g[n][off[i - 1] + k] = s[i][k]
              /\ \A p \in 1 .. off[n] : \E i \in 1 .. n : off[i - 1] < p /\ p <= off[i]
           Done == {n \in Nat : n <= Len(s) => Placed(n)}
<1> HIDE DEF Placed, Done, off
<1>2. \A i \in 0 .. Len(s) : g[i] \in Seq(T) /\ off[i] = Len(g[i]) /\ off[i] \in Nat
  <2> SUFFICES ASSUME NEW i \in 0 .. Len(s)
               PROVE  g[i] \in Seq(T) /\ off[i] = Len(g[i]) /\ off[i] \in Nat
    OBVIOUS
  <2>1. g[i] \in Seq(T) /\ off[i] = Len(g[i])
    BY DEF off
  <2> QED
    BY <2>1
<1>3. ASSUME NEW i \in 1 .. Len(s)
      PROVE  /\ i - 1 \in 0 .. Len(s) /\ i \in 0 .. Len(s) /\ s[i] \in Seq(T)
             /\ g[i] = g[i - 1] \o s[i]
             /\ Len(s[i]) \in Nat /\ off[i] = off[i - 1] + Len(s[i])
  <2>1. i - 1 \in 0 .. Len(s) /\ i \in 0 .. Len(s) /\ s[i] \in Seq(T)
    OBVIOUS
  <2>2. g[i] = g[i - 1] \o s[i]
    BY <1>1
  <2>3. g[i - 1] \in Seq(T) /\ off[i - 1] = Len(g[i - 1]) /\ off[i] = Len(g[i])
    BY <1>2, <2>1
  <2> QED
    BY <2>1, <2>2, <2>3, Joined
<1>4. 0 \in Done
  <2>1. off[0] = 0
    BY <1>1, <1>2
  <2> QED
    BY <2>1 DEF Placed, Done
<1>5. ASSUME NEW n \in Nat, n \in Done PROVE n + 1 \in Done
  <2> SUFFICES ASSUME n + 1 <= Len(s) PROVE Placed(n + 1)
    BY DEF Done
  <2>1. Placed(n)
    BY <1>5 DEF Done
  <2>2. /\ n \in 0 .. Len(s) /\ n + 1 \in 1 .. Len(s) /\ n + 1 \in 0 .. Len(s)
        /\ n + 1 - 1 = n
    OBVIOUS
  <2>3. g[n + 1] = g[n] \o s[n + 1] /\ off[n + 1] = off[n] + Len(s[n + 1])
        /\ s[n + 1] \in Seq(T) /\ Len(s[n + 1]) \in Nat
    <3> DEFINE i == n + 1
    <3>1. i \in 1 .. Len(s) /\ i - 1 = n
      BY <2>2
    <3> HIDE DEF i
    <3>2. /\ g[i] = g[i - 1] \o s[i] /\ off[i] = off[i - 1] + Len(s[i])
          /\ s[i] \in Seq(T) /\ Len(s[i]) \in Nat
      BY <1>3, <3>1
    <3> QED
      BY <3>1, <3>2 DEF i
  <2>4. /\ g[n] \in Seq(T) /\ off[n] = Len(g[n]) /\ off[n] \in Nat /\ off[n + 1] \in Nat
        /\ off[n] <= off[n + 1]
    BY <1>2, <2>2, <2>3
  <2>5. /\ \A p \in 1 .. off[n] : g[n + 1][p] = g[n][p]
        /\ \A k \in 1 .. Len(s[n + 1]) : g[n + 1][off[n] + k] = s[n + 1][k]
    <3> DEFINE a == g[n]
               b == s[n + 1]
               c == g[n + 1]
    <3>1. a \in Seq(T) /\ b \in Seq(T) /\ c = a \o b /\ off[n] = Len(a)
      BY <2>3, <2>4
    <3> HIDE DEF a, b, c
    <3>2. /\ \A p \in 1 .. Len(a) : c[p] = a[p]
          /\ \A k \in 1 .. Len(b) : c[Len(a) + k] = b[k]
      BY <3>1, Joined
    <3> QED
      BY <3>1, <3>2 DEF a, b, c
  <2>6. ASSUME NEW i \in 1 .. n + 1, NEW k \in 1 .. Len(s[i])
        PROVE  off[i - 1] + k \in 1 .. off[n + 1] /\ g[n + 1][off[i - 1] + k] = s[i][k]
    <3>1. CASE i \in 1 .. n
      <4>1. off[i - 1] + k \in 1 .. off[n] /\ g[n][off[i - 1] + k] = s[i][k]
        BY <2>1, <3>1 DEF Placed
      <4> QED
        BY <2>4, <2>5, <4>1
    <3>2. CASE i = n + 1
      <4>1. i - 1 = n
        BY <3>2
      <4>2. k \in 1 .. Len(s[n + 1]) /\ s[i] = s[n + 1]
        BY <3>2
      <4>3. g[n + 1][off[n] + k] = s[n + 1][k]
        BY <2>5, <4>2
      <4>4. off[n] + k \in 1 .. off[n + 1]
        <5>1. \A a, l \in Nat : \A h \in 1 .. l : a + h \in 1 .. a + l
          OBVIOUS
        <5> QED
          BY <2>3, <2>4, <4>2, <5>1
      <4> QED
        BY <4>1, <4>2, <4>3, <4>4
    <3> QED
      BY <3>1, <3>2
  <2>7. ASSUME NEW p \in 1 .. off[n + 1]
        PROVE  \E i \in 1 .. n + 1 : off[i - 1] < p /\ p <= off[i]
    <3>2. CASE p \in 1 .. off[n]
      <4>1. PICK i \in 1 .. n : off[i - 1] < p /\ p <= off[i]
        BY <2>1, <3>2 DEF Placed
      <4> QED
        BY <4>1
    <3>3. CASE p \notin 1 .. off[n]
      <4>1. off[n] < p /\ p <= off[n + 1]
        BY <2>4, <3>3
      <4> QED
        BY <2>2, <4>1
    <3> QED
      BY <3>2, <3>3
  <2> QED
    BY <2>6, <2>7 DEF Placed
<1>6. Placed(Len(s))
  <2>1. 0 \in Done /\ \A n \in Nat : n \in Done => n + 1 \in Done
    BY <1>4, <1>5
  <2>2. Nat \subseteq Done
    BY <2>1, NatSet
  <2> QED
    BY <2>2 DEF Done
<1>7. off \in [0 .. Len(s) -> Nat] /\ off[0] = 0
  BY <1>1, <1>2 DEF off
<1>8. FlattenSeq(s) = g[Len(s)] /\ g[Len(s)] \in Seq(T) /\ Len(g[Len(s)]) = off[Len(s)]
  BY <1>1, <1>2
<1>9. IsLayout(s, off, FlattenSeq(s))
  BY <1>3, <1>6, <1>7, <1>8 DEF IsLayout, Placed
<1> QED
  BY <1>8, <1>9

\* The token that stays of position i, and where it is in the text: the first
\* is the prolog, a "]]>" takes five tokens and ends in the ">".
IsText(text, body, at) ==
    LET n == Len(body) IN
    /\ text \in Seq(UNION {{text[p]} : p \in DOMAIN text})
    /\ at \in [0 .. n -> Nat] /\ at[0] = 1 /\ Len(text) = at[n] + 3
    /\ text[1] = "prolog"
    /\ text[at[n] + 1] = "]" /\ text[at[n] + 2] = "]" /\ text[at[n] + 3] = ">"
    /\ \A i \in 1 .. n :
          /\ at[i] <= at[n] /\ text[at[i]] = body[i]
          /\ i \notin Ends(body) => at[i] = at[i - 1] + 1
          /\ i \in Ends(body) =>
                /\ at[i] = at[i - 1] + 5
                /\ text[at[i] - 4] = "]" /\ text[at[i] - 3] = "]" /\ text[at[i] - 2] = ">"
                /\ text[at[i] - 1] = "cdata"
    /\ \A p \in 2 .. at[n] : \E i \in 1 .. n : at[i - 1] < p /\ p <= at[i]

\* fmt_content is laid out like this.
LEMMA TextIs ==
    ASSUME NEW T, NEW content \in Seq(T)
    PROVE  \E at : IsText(fmt_content(content), Body(content), at)
<1> DEFINE body == Body(content)
           n == Len(body)
           U == T \cup {"prolog", "]", ">", "cdata"}
           split == <<"]", "]", ">", "cdata", ">">>
           piece == [i \in DOMAIN body |-> IF i \in Ends(body) THEN split ELSE <<body[i]>>]
           mid == FlattenSeq(piece)
           text == fmt_content(content)
<1>1. body \in Seq(T) /\ n \in Nat /\ DOMAIN body = 1 .. n
  BY DEF Body
<1>2. piece \in Seq(Seq(U)) /\ Len(piece) = n
  <2> HIDE DEF body
  <2>1. split \in Seq(U)
    OBVIOUS
  <2>2. \A i \in 1 .. n : <<body[i]>> \in Seq(U)
    BY <1>1
  <2> HIDE DEF split, U
  <2>3. piece \in [1 .. n -> Seq(U)]
    BY <1>1, <2>1, <2>2
  <2> HIDE DEF piece
  <2> QED
    BY <1>1, <2>3
<1>3. PICK off : IsLayout(piece, off, mid)
  <2> HIDE DEF body, piece, U
  <2> QED
    BY <1>2, Layout
<1>4. mid \in Seq(U)
  <2> HIDE DEF body, piece, U
  <2> QED
    BY <1>2, Layout
<1>5. text = <<"prolog">> \o mid \o <<"]", "]", ">">>
  BY DEF fmt_content
<1> DEFINE at == [i \in 0 .. n |-> off[i] + 1]
<1>6. /\ off \in [0 .. n -> Nat] /\ off[0] = 0 /\ Len(mid) = off[n]
      /\ \A i \in 1 .. n :
            /\ off[i] = off[i - 1] + Len(piece[i])
            /\ \A k \in 1 .. Len(piece[i]) : off[i - 1] + k \in 1 .. Len(mid)
                                           /\ mid[off[i - 1] + k] = piece[i][k]
      /\ \A p \in 1 .. Len(mid) : \E i \in 1 .. n : off[i - 1] < p /\ p <= off[i]
  <2> HIDE DEF piece, mid, n
  <2> QED
    BY <1>2, <1>3 DEF IsLayout
<1>7. \A i \in 1 .. n : piece[i] = IF i \in Ends(body) THEN split ELSE <<body[i]>>
  BY <1>1
<1> HIDE DEF body, piece, mid, text, n
<1>8. /\ text \in Seq(U) /\ Len(text) = off[n] + 4 /\ text[1] = "prolog"
      /\ \A p \in 1 .. off[n] : text[p + 1] = mid[p]
      /\ text[off[n] + 2] = "]" /\ text[off[n] + 3] = "]" /\ text[off[n] + 4] = ">"
  <2> DEFINE first == <<"prolog">>
             begin == first \o mid
             end == <<"]", "]", ">">>
  <2>1. first \in Seq(U) /\ end \in Seq(U) /\ begin \in Seq(U)
    BY <1>4
  <2>2. /\ Len(begin) = 1 + Len(mid) /\ begin[1] = "prolog"
        /\ \A p \in 1 .. Len(mid) : begin[1 + p] = mid[p]
    <3>1. Len(first) = 1 /\ first[1] = "prolog"
      OBVIOUS
    <3>2. /\ Len(begin) = Len(first) + Len(mid) /\ \A p \in 1 .. Len(first) : begin[p] = first[p]
          /\ \A p \in 1 .. Len(mid) : begin[Len(first) + p] = mid[p]
      <4> HIDE DEF first
      <4> QED
        BY <1>4, <2>1, Joined
    <3> HIDE DEF begin, first
    <3> QED
      BY <3>1, <3>2
  <2>3. Len(end) = 3 /\ end[1] = "]" /\ end[2] = "]" /\ end[3] = ">"
    OBVIOUS
  <2>4. text \in Seq(U) /\ Len(text) = Len(begin) + 3
        /\ (\A p \in 1 .. Len(begin) : text[p] = begin[p])
        /\ \A k \in 1 .. 3 : text[Len(begin) + k] = end[k]
    <3> HIDE DEF begin, end
    <3>1. text = begin \o end
      BY <1>5 DEF begin, end
    <3>2. /\ text \in Seq(U) /\ Len(text) = Len(begin) + Len(end)
          /\ \A p \in 1 .. Len(begin) : text[p] = begin[p]
          /\ \A k \in 1 .. Len(end) : text[Len(begin) + k] = end[k]
      BY <2>1, <3>1, Joined
    <3> QED
      BY <2>3, <3>2
  <2>5. Len(mid) \in Nat
    BY <1>4
  <2> HIDE DEF begin, end
  <2>6. /\ text[Len(begin) + 1] = "]" /\ text[Len(begin) + 2] = "]" /\ text[Len(begin) + 3] = ">"
    BY <2>3, <2>4
  <2>7. \A p \in 1 .. Len(mid) : p + 1 \in 1 .. Len(begin) /\ p + 1 = 1 + p
    BY <2>2, <2>5
  <2>8. \A p \in 1 .. Len(mid) : text[p + 1] = mid[p]
    BY <2>2, <2>4, <2>7
  <2>9. text[1] = "prolog"
    BY <2>2, <2>4, <2>5
  <2>10. /\ Len(begin) + 1 = off[n] + 2 /\ Len(begin) + 2 = off[n] + 3
         /\ Len(begin) + 3 = off[n] + 4 /\ Len(mid) = off[n]
    BY <1>6, <2>2, <2>5
  <2> QED
    BY <2>4, <2>6, <2>8, <2>9, <2>10
<1> HIDE DEF U
<1>9. ASSUME NEW i \in 1 .. n
      PROVE  /\ off[i] \in Nat /\ off[i - 1] \in Nat /\ off[i] <= off[n]
             /\ text[off[i] + 1] = body[i]
             /\ i \notin Ends(body) => off[i] = off[i - 1] + 1
             /\ i \in Ends(body) =>
                   /\ off[i] = off[i - 1] + 5
                   /\ text[off[i] - 3] = "]" /\ text[off[i] - 2] = "]"
                   /\ text[off[i] - 1] = ">" /\ text[off[i]] = "cdata"
  <2>1. off[i] \in Nat /\ off[i - 1] \in Nat /\ off[n] \in Nat
    BY <1>1, <1>6
  <2>4. /\ off[i] = off[i - 1] + Len(piece[i])
        /\ \A k \in 1 .. Len(piece[i]) : off[i - 1] + k \in 1 .. off[n]
                                       /\ mid[off[i - 1] + k] = piece[i][k]
    BY <1>6
  <2>2. CASE i \notin Ends(body)
    <3>1. piece[i] = <<body[i]>>
      BY <1>7, <2>2
    <3>2. Len(piece[i]) = 1 /\ piece[i][1] = body[i]
      BY <3>1
    <3>3. off[i] = off[i - 1] + 1 /\ off[i] \in 1 .. off[n] /\ mid[off[i]] = body[i]
      BY <2>4, <3>2
    <3>4. text[off[i] + 1] = body[i]
      BY <1>8, <3>3
    <3> QED
      BY <2>1, <2>2, <3>3, <3>4
  <2>3. CASE i \in Ends(body)
    <3>1. piece[i] = split /\ body[i] = ">"
      BY <1>7, <2>3 DEF Ends
    <3>2. Len(piece[i]) = 5 /\ piece[i][1] = "]" /\ piece[i][2] = "]" /\ piece[i][3] = ">"
          /\ piece[i][4] = "cdata" /\ piece[i][5] = ">"
      BY <3>1
    <3>3. off[i] = off[i - 1] + 5
      BY <2>4, <3>2
    <3>4. \A k \in 1 .. 5 : off[i - 1] + k \in 1 .. off[n] /\ mid[off[i - 1] + k] = piece[i][k]
      BY <2>4, <3>2
    <3>5. \A k \in 1 .. 5 : text[off[i - 1] + k + 1] = piece[i][k]
      BY <1>8, <3>4
    <3>6. /\ text[off[i - 1] + 2] = "]" /\ text[off[i - 1] + 3] = "]"
          /\ text[off[i - 1] + 4] = ">" /\ text[off[i - 1] + 5] = "cdata"
          /\ text[off[i - 1] + 6] = ">"
      <4> DEFINE x == off[i - 1]
      <4>1. /\ text[x + 1 + 1] = "]" /\ text[x + 2 + 1] = "]" /\ text[x + 3 + 1] = ">"
            /\ text[x + 4 + 1] = "cdata" /\ text[x + 5 + 1] = ">"
        BY <3>2, <3>5
      <4>2. /\ x + 1 + 1 = x + 2 /\ x + 2 + 1 = x + 3 /\ x + 3 + 1 = x + 4
            /\ x + 4 + 1 = x + 5 /\ x + 5 + 1 = x + 6
        BY <2>1
      <4> QED
        BY <4>1, <4>2
    <3>7. off[i] <= off[n]
      BY <2>1, <3>3, <3>4
    <3>8. /\ off[i] - 3 = off[i - 1] + 2 /\ off[i] - 2 = off[i - 1] + 3
          /\ off[i] - 1 = off[i - 1] + 4 /\ off[i] = off[i - 1] + 5 /\ off[i] + 1 = off[i - 1] + 6
      BY <2>1, <3>3
    <3> QED
      BY <2>1, <2>3, <3>1, <3>6, <3>7, <3>8
  <2> QED
    BY <2>2, <2>3
<1>10. ASSUME NEW p \in 2 .. off[n] + 1
       PROVE  \E i \in 1 .. n : off[i - 1] + 1 < p /\ p <= off[i] + 1
  <2>1. off[n] \in Nat
    BY <1>1, <1>6
  <2>2. p - 1 \in 1 .. Len(mid)
    BY <1>6, <2>1
  <2>3. PICK i \in 1 .. n : off[i - 1] < p - 1 /\ p - 1 <= off[i]
    BY <1>6, <2>2
  <2> QED
    BY <1>9, <2>3
<1>11. text \in Seq(UNION {{text[p]} : p \in DOMAIN text})
  BY <1>8
<1>12. /\ at \in [0 .. n -> Nat] /\ \A i \in 0 .. n : at[i] = off[i] + 1
       /\ \A i \in 1 .. n : i - 1 \in 0 .. n /\ i \in 0 .. n
  BY <1>1, <1>6
<1> HIDE DEF at
<1>13. at[0] = 1 /\ at[n] = off[n] + 1 /\ off[n] \in Nat
  BY <1>1, <1>6, <1>12
<1>14. ASSUME NEW i \in 1 .. n
       PROVE  /\ at[i] <= at[n] /\ text[at[i]] = body[i]
              /\ i \notin Ends(body) => at[i] = at[i - 1] + 1
              /\ i \in Ends(body) =>
                    /\ at[i] = at[i - 1] + 5
                    /\ text[at[i] - 4] = "]" /\ text[at[i] - 3] = "]" /\ text[at[i] - 2] = ">"
                    /\ text[at[i] - 1] = "cdata"
  <2>1. at[i] = off[i] + 1 /\ at[i - 1] = off[i - 1] + 1 /\ off[i] \in Nat /\ off[i - 1] \in Nat
    BY <1>9, <1>12
  <2>2. /\ at[i] - 4 = off[i] - 3 /\ at[i] - 3 = off[i] - 2 /\ at[i] - 2 = off[i] - 1
        /\ at[i] - 1 = off[i]
    BY <2>1
  <2>3. /\ off[i] <= off[n] /\ text[off[i] + 1] = body[i]
        /\ i \notin Ends(body) => off[i] = off[i - 1] + 1
        /\ i \in Ends(body) => off[i] = off[i - 1] + 5
    BY <1>9
  <2>4. i \in Ends(body) => /\ text[off[i] - 3] = "]" /\ text[off[i] - 2] = "]"
                            /\ text[off[i] - 1] = ">" /\ text[off[i]] = "cdata"
    BY <1>9
  <2>5. at[i] <= at[n] /\ text[at[i]] = body[i]
    BY <1>13, <2>1, <2>3
  <2>6. /\ i \notin Ends(body) => at[i] = at[i - 1] + 1
        /\ i \in Ends(body) => at[i] = at[i - 1] + 5
    BY <2>1, <2>3
  <2> QED
    BY <2>2, <2>4, <2>5, <2>6
<1>15. \A p \in 2 .. at[n] : \E i \in 1 .. n : at[i - 1] < p /\ p <= at[i]
  BY <1>10, <1>12, <1>13
<1>16. /\ Len(text) = at[n] + 3 /\ text[at[n] + 1] = "]" /\ text[at[n] + 2] = "]"
       /\ text[at[n] + 3] = ">"
  <2>1. /\ at[n] + 1 = off[n] + 2 /\ at[n] + 2 = off[n] + 3 /\ at[n] + 3 = off[n] + 4
    BY <1>13
  <2> QED
    BY <1>8, <2>1
<1>17. IsText(text, body, at)
  BY <1>8, <1>11, <1>12, <1>13, <1>14, <1>15, <1>16 DEF IsText, n
<1> QED
  BY <1>17 DEF text, body

\* The positions grow.
LEMMA TextGrows ==
    ASSUME NEW T, NEW body \in Seq(T), NEW text, NEW at, IsText(text, body, at)
    PROVE  /\ Len(body) \in Nat /\ DOMAIN body = 1 .. Len(body)
           /\ Len(text) \in Nat /\ DOMAIN text = 1 .. Len(text)
           /\ \A i \in 0 .. Len(body) : at[i] \in Nat /\ 1 <= at[i]
           /\ \A i \in 1 .. Len(body) : i - 1 \in 0 .. Len(body) /\ i \in 0 .. Len(body)
           /\ \A i, k \in 0 .. Len(body) : i <= k => at[i] <= at[k]
<1> DEFINE n == Len(body)
<1>1. n \in Nat /\ DOMAIN body = 1 .. n /\ Len(text) \in Nat /\ DOMAIN text = 1 .. Len(text)
  BY DEF IsText
<1>2. \A i \in 0 .. n : at[i] \in Nat
  BY DEF IsText
<1>3. \A i \in 1 .. n : i - 1 \in 0 .. n /\ i \in 0 .. n
  BY <1>1
<1>4. ASSUME NEW i \in 1 .. n PROVE at[i - 1] < at[i]
  <2>1. at[i] = at[i - 1] + 1 \/ at[i] = at[i - 1] + 5
    BY DEF IsText
  <2>2. at[i - 1] \in Nat
    BY <1>2, <1>3
  <2> QED
    BY <2>1, <2>2
<1>5. at[0] = 1
  BY DEF IsText
<1> HIDE DEF n
<1>6. \A i \in 0 .. n : 1 <= at[i]
  <2> SUFFICES ASSUME NEW i \in 0 .. n, i # 0 PROVE 1 <= at[i]
    BY <1>5
  <2>1. i \in 1 .. n /\ at[i - 1] \in Nat /\ at[i] \in Nat
    BY <1>1, <1>2, <1>3
  <2> QED
    BY <1>4, <2>1
<1> DEFINE Done == {k \in Nat : k <= n => \A i \in 0 .. k : at[i] <= at[k]}
<1>7. 0 \in Done
  BY <1>5
<1>8. ASSUME NEW k \in Nat, k \in Done PROVE k + 1 \in Done
  <2> SUFFICES ASSUME k + 1 <= n, NEW i \in 0 .. k + 1 PROVE at[i] <= at[k + 1]
    OBVIOUS
  <2>1. k + 1 \in 1 .. n /\ k + 1 - 1 = k /\ k \in 0 .. n /\ k + 1 \in 0 .. n
    BY <1>1
  <2>2. at[k] < at[k + 1] /\ at[k] \in Nat /\ at[k + 1] \in Nat
    BY <1>2, <1>4, <2>1
  <2>3. CASE i \in 0 .. k
    <3>1. at[i] <= at[k] /\ at[i] \in Nat
      BY <1>1, <1>2, <1>8, <2>1, <2>3
    <3> QED
      BY <2>2, <3>1
  <2>4. CASE i = k + 1
    BY <2>2, <2>4
  <2> QED
    BY <2>3, <2>4
<1>9. Nat \subseteq Done
  <2> HIDE DEF Done
  <2> QED
    BY <1>7, <1>8, NatSet
<1>10. \A i, k \in 0 .. n : i <= k => at[i] <= at[k]
  BY <1>1, <1>9
<1> QED
  BY <1>1, <1>2, <1>3, <1>6, <1>10 DEF n

\* A section ends where a "]]>" was split, and at the end of the text.
LEMMA EndsAre ==
    ASSUME NEW T, NEW body \in Seq(T), NEW text, NEW at, IsText(text, body, at)
    PROVE  \A e : e \in Ends(text) <=> e = Len(text) \/ \E i \in Ends(body) : e = at[i] - 2
<1> DEFINE n == Len(body)
<1>1. /\ n \in Nat /\ DOMAIN body = 1 .. n /\ Len(text) \in Nat
      /\ \A i \in 0 .. n : at[i] \in Nat /\ 1 <= at[i]
      /\ \A i \in 1 .. n : i - 1 \in 0 .. n /\ i \in 0 .. n
  BY TextGrows
<1>2. /\ at[0] = 1 /\ Len(text) = at[n] + 3 /\ text[1] = "prolog"
      /\ text[at[n] + 1] = "]" /\ text[at[n] + 2] = "]" /\ text[at[n] + 3] = ">"
  BY DEF IsText
<1>3. ASSUME NEW i \in 1 .. n
      PROVE  /\ at[i] <= at[n] /\ text[at[i]] = body[i]
             /\ i \notin Ends(body) => at[i] = at[i - 1] + 1
             /\ i \in Ends(body) =>
                   /\ at[i] = at[i - 1] + 5
                   /\ text[at[i] - 4] = "]" /\ text[at[i] - 3] = "]" /\ text[at[i] - 2] = ">"
                   /\ text[at[i] - 1] = "cdata"
  BY DEF IsText
<1>4. \A p \in 2 .. at[n] : \E i \in 1 .. n : at[i - 1] < p /\ p <= at[i]
  BY DEF IsText
<1>5. \A i : i \in Ends(body) <=> /\ i \in 3 .. n /\ body[i] = ">"
                                  /\ body[i - 1] = "]" /\ body[i - 2] = "]"
  BY DEF Ends
<1>6. \A e : e \in Ends(text) <=> /\ e \in 3 .. Len(text) /\ text[e] = ">"
                                  /\ text[e - 1] = "]" /\ text[e - 2] = "]"
  BY DEF Ends
<1> HIDE DEF n
<1>7. at[n] \in Nat /\ 1 <= at[n]
  BY <1>1
<1>8. Len(text) \in Ends(text)
  <2>1. /\ Len(text) \in 3 .. Len(text)
        /\ Len(text) - 1 = at[n] + 2 /\ Len(text) - 2 = at[n] + 1
    BY <1>2, <1>7
  <2> QED
    BY <1>2, <1>6, <2>1
<1>9. ASSUME NEW i \in Ends(body)
      PROVE  at[i] - 2 \in Ends(text)
  <2>1. i \in 1 .. n
    BY <1>1, <1>5
  <2>2. /\ at[i] \in Nat /\ at[i - 1] \in Nat /\ 1 <= at[i - 1]
    BY <1>1, <2>1
  <2>3. at[i] = at[i - 1] + 5 /\ at[i] <= at[n]
    BY <1>3, <2>1
  <2>4. text[at[i] - 4] = "]" /\ text[at[i] - 3] = "]" /\ text[at[i] - 2] = ">"
    BY <1>3, <2>1
  <2>5. /\ at[i] - 2 \in 3 .. Len(text) /\ at[i] - 2 - 1 = at[i] - 3 /\ at[i] - 2 - 2 = at[i] - 4
    <3>1. \A a, b, m, l \in Nat : a = b + 5 /\ 1 <= b /\ a <= m /\ l = m + 3 =>
             a - 2 \in 3 .. l /\ a - 2 - 1 = a - 3 /\ a - 2 - 2 = a - 4
      OBVIOUS
    <3> QED
      BY <1>1, <1>2, <1>7, <2>2, <2>3, <3>1
  <2> QED
    BY <1>6, <2>4, <2>5
<1>10. ASSUME NEW e \in Ends(text), e # Len(text)
       PROVE  \E i \in Ends(body) : e = at[i] - 2
  <2>1. /\ e \in 3 .. Len(text) /\ e \in Nat /\ text[e] = ">"
        /\ text[e - 1] = "]" /\ text[e - 2] = "]"
    BY <1>1, <1>6
  <2>2. e \in 2 .. at[n]
    <3>1. CASE e = at[n] + 1
      BY <1>2, <2>1, <3>1
    <3>2. CASE e = at[n] + 2
      BY <1>2, <2>1, <3>2
    <3>3. \A m \in Nat : \A d \in 3 .. m + 3 :
             d # m + 3 => d = m + 1 \/ d = m + 2 \/ d \in 2 .. m
      OBVIOUS
    <3> QED
      BY <1>2, <1>7, <1>10, <2>1, <3>1, <3>2, <3>3
  <2>3. PICK i \in 1 .. n : at[i - 1] < e /\ e <= at[i]
    BY <1>4, <2>2
  <2>4. /\ at[i] \in Nat /\ at[i - 1] \in Nat /\ i - 1 \in 0 .. n
    BY <1>1, <2>3
  <2>5. CASE i \in Ends(body)
    <3>1. at[i] = at[i - 1] + 5 /\ text[at[i] - 4] = "]" /\ text[at[i] - 3] = "]"
          /\ text[at[i] - 1] = "cdata"
      BY <1>3, <2>5
    <3>2. e = at[i] - 4 \/ e = at[i] - 3 \/ e = at[i] - 2 \/ e = at[i] - 1 \/ e = at[i]
      <4>1. \A a, b, d \in Nat : a = b + 5 /\ b < d /\ d <= a =>
               d = a - 4 \/ d = a - 3 \/ d = a - 2 \/ d = a - 1 \/ d = a
        OBVIOUS
      <4> QED
        BY <2>1, <2>3, <2>4, <3>1, <4>1
    <3>3. e # at[i] - 4 /\ e # at[i] - 3 /\ e # at[i] - 1 /\ e # at[i]
      BY <2>1, <3>1
    <3> QED
      BY <2>5, <3>2, <3>3
  <2>6. CASE i \notin Ends(body)
    <3>1. at[i] = at[i - 1] + 1 /\ text[at[i]] = body[i]
      BY <1>3, <2>6
    <3>2. e = at[i] /\ e - 1 = at[i - 1]
      BY <2>1, <2>3, <2>4, <3>1
    <3>3. body[i] = ">" /\ text[at[i - 1]] = "]"
      BY <2>1, <3>1, <3>2
    <3>4. i - 1 \in 1 .. n
      <4>1. i - 1 # 0
        BY <1>2, <3>3
      <4> QED
        BY <2>4, <4>1
    <3> DEFINE j == i - 1
    <3>5. j \in 1 .. n /\ body[j] = "]" /\ j \notin Ends(body)
      <4>1. text[at[j]] = body[j]
        BY <1>3, <3>4
      <4> QED
        BY <1>5, <3>3, <3>4, <4>1
    <3>6. at[j] = at[j - 1] + 1 /\ at[j - 1] \in Nat /\ j - 1 \in 0 .. n
      BY <1>1, <1>3, <3>5
    <3>7. text[at[j - 1]] = "]"
      <4>1. e - 2 = at[j - 1]
        <5>1. \A a, b, d \in Nat : d - 1 = a /\ a = b + 1 => d - 2 = b
          OBVIOUS
        <5>2. at[j] \in Nat /\ e - 1 = at[j]
          BY <2>4, <3>2
        <5> QED
          BY <2>1, <3>6, <5>1, <5>2
      <4> QED
        BY <2>1, <4>1
    <3>8. j - 1 \in 1 .. n
      <4>1. j - 1 # 0
        BY <1>2, <3>7
      <4> QED
        BY <3>6, <4>1
    <3>9. body[j - 1] = "]"
      BY <1>3, <3>7, <3>8
    <3>10. i \in 3 .. n /\ j - 1 = i - 2 /\ j = i - 1
      BY <1>1, <3>5, <3>8
    <3>11. i \in Ends(body)
      BY <1>5, <3>3, <3>5, <3>9, <3>10
    <3> QED
      BY <2>6, <3>11
  <2> QED
    BY <2>5, <2>6
<1> QED
  BY <1>8, <1>9, <1>10

\* What a reader passes over: the ends of sections, and what opens the next.
Opened(text) == {i + 1 : i \in Ends(text) \ {Len(text)}}
Markup(text) == Opened(text) \cup UNION {{i - 2, i - 1, i} : i \in Ends(text)}

\* The reader passes over what fmt_content has added, and nothing else.
LEMMA MarkupIs ==
    ASSUME NEW T, NEW body \in Seq(T), NEW text, NEW at, IsText(text, body, at)
    PROVE  /\ \A o \in Opened(text) : text[o] = "cdata"
           /\ \A i \in 0 .. Len(body) : at[i] \notin Markup(text)
           /\ \A i \in Ends(body) : \A d \in 1 .. 4 : at[i] - d \in Markup(text)
           /\ \A d \in 1 .. 3 : at[Len(body)] + d \in Markup(text)
<1> DEFINE n == Len(body)
<1>1. /\ n \in Nat /\ DOMAIN body = 1 .. n /\ Len(text) \in Nat
      /\ \A i \in 0 .. n : at[i] \in Nat /\ 1 <= at[i]
      /\ \A i \in 1 .. n : i - 1 \in 0 .. n /\ i \in 0 .. n
      /\ \A i, k \in 0 .. n : i <= k => at[i] <= at[k]
  BY TextGrows
<1>2. \A e : e \in Ends(text) <=> e = Len(text) \/ \E i \in Ends(body) : e = at[i] - 2
  BY EndsAre
<1>3. Len(text) = at[n] + 3 /\ at[n] \in Nat
  BY <1>1 DEF IsText
<1>4. ASSUME NEW i \in Ends(body)
      PROVE  /\ i \in 1 .. n /\ at[i] \in Nat /\ at[i - 1] \in Nat
             /\ at[i] = at[i - 1] + 5 /\ at[i] <= at[n] /\ text[at[i] - 1] = "cdata"
  <2>1. i \in 1 .. n
    BY <1>1 DEF Ends
  <2> QED
    BY <1>1, <2>1 DEF IsText
<1>5. ASSUME NEW i \in Ends(body)
      PROVE  /\ at[i] - 2 \in Ends(text) \ {Len(text)}
             /\ at[i] - 2 + 1 = at[i] - 1 /\ at[i] - 2 - 1 = at[i] - 3 /\ at[i] - 2 - 2 = at[i] - 4
  <2>1. \A a, m, l \in Nat : a <= m /\ l = m + 3 =>
           a - 2 # l /\ a - 2 + 1 = a - 1 /\ a - 2 - 1 = a - 3 /\ a - 2 - 2 = a - 4
    OBVIOUS
  <2> QED
    BY <1>1, <1>2, <1>3, <1>4, <2>1
<1> HIDE DEF n
<1>6. ASSUME NEW o \in Opened(text)
      PROVE  \E i \in Ends(body) : o = at[i] - 1
  <2>1. PICK e \in Ends(text) \ {Len(text)} : o = e + 1
    BY DEF Opened
  <2>2. PICK i \in Ends(body) : e = at[i] - 2
    BY <1>2, <2>1
  <2> QED
    BY <1>5, <2>1, <2>2
<1>7. \A o \in Opened(text) : text[o] = "cdata"
  BY <1>4, <1>6
<1>8. ASSUME NEW i \in Ends(body), NEW d \in 1 .. 4
      PROVE  at[i] - d \in Markup(text)
  <2>1. d = 1 \/ d = 2 \/ d = 3 \/ d = 4
    OBVIOUS
  <2>2. at[i] - 1 \in Opened(text)
    BY <1>5 DEF Opened
  <2>3. {at[i] - 2 - 2, at[i] - 2 - 1, at[i] - 2} \subseteq Markup(text)
    BY <1>5 DEF Markup
  <2>4. at[i] - 1 \in Markup(text)
    BY <2>2 DEF Markup
  <2> QED
    BY <1>5, <2>1, <2>3, <2>4
<1>9. ASSUME NEW d \in 1 .. 3
      PROVE  at[n] + d \in Markup(text)
  <2>1. {Len(text) - 2, Len(text) - 1, Len(text)} \subseteq Markup(text)
    BY <1>2 DEF Markup
  <2>2. Len(text) - 2 = at[n] + 1 /\ Len(text) - 1 = at[n] + 2 /\ Len(text) = at[n] + 3
    BY <1>3
  <2>3. d = 1 \/ d = 2 \/ d = 3
    OBVIOUS
  <2> QED
    BY <2>1, <2>2, <2>3
<1>10. ASSUME NEW i \in 0 .. n, NEW j \in Ends(body), NEW d \in 1 .. 4
       PROVE  at[i] # at[j] - d
  <2>1. j \in 1 .. n /\ j - 1 \in 0 .. n /\ j \in 0 .. n
    BY <1>1, <1>4
  <2>2. at[i] <= at[j - 1] \/ at[j] <= at[i]
    <3>1. i <= j - 1 \/ j <= i
      BY <1>1, <2>1
    <3> QED
      BY <1>1, <2>1, <3>1
  <2>3. \A a, b, m \in Nat : b = m + 5 /\ (a <= m \/ b <= a) => a # b - d
    OBVIOUS
  <2> QED
    BY <1>1, <1>4, <2>2, <2>3
<1>11. ASSUME NEW i \in 0 .. n
       PROVE  at[i] \notin Markup(text)
  <2>1. at[i] \notin Opened(text)
    BY <1>6, <1>10
  <2>2. ASSUME NEW e \in Ends(text)
        PROVE  at[i] \notin {e - 2, e - 1, e}
    <3>1. CASE e = Len(text)
      <4>1. at[i] <= at[n] /\ at[i] \in Nat
        BY <1>1
      <4> QED
        BY <1>3, <3>1, <4>1
    <3>2. CASE \E j \in Ends(body) : e = at[j] - 2
      <4>1. PICK j \in Ends(body) : e = at[j] - 2
        BY <3>2
      <4>2. e = at[j] - 2 /\ e - 1 = at[j] - 3 /\ e - 2 = at[j] - 4
        BY <1>5, <4>1
      <4>3. at[i] # at[j] - 2 /\ at[i] # at[j] - 3 /\ at[i] # at[j] - 4
        BY <1>10
      <4> QED
        BY <4>2, <4>3
    <3> QED
      BY <1>2, <3>1, <3>2
  <2> QED
    BY <2>1, <2>2 DEF Markup
<1> QED
  BY <1>7, <1>8, <1>9, <1>11 DEF n

\* What a reader finds is what was put in.
LEMMA ReadIs ==
    ASSUME NEW T, NEW body \in Seq(T), NEW text, NEW at, IsText(text, body, at)
    PROVE  Read(text) = <<"prolog">> \o body
<1> DEFINE n == Len(body)
           U == UNION {{text[p]} : p \in DOMAIN text}
           kept == [p \in DOMAIN text |-> IF p \in Markup(text) THEN <<>> ELSE <<text[p]>>]
           flat == FlattenSeq(kept)
<1>1. /\ n \in Nat /\ DOMAIN body = 1 .. n
      /\ Len(text) \in Nat /\ DOMAIN text = 1 .. Len(text)
      /\ \A i \in 0 .. n : at[i] \in Nat /\ 1 <= at[i]
      /\ \A i \in 1 .. n : i - 1 \in 0 .. n /\ i \in 0 .. n
      /\ \A i, k \in 0 .. n : i <= k => at[i] <= at[k]
  BY TextGrows
<1>2. /\ \A o \in Opened(text) : text[o] = "cdata"
      /\ \A i \in 0 .. n : at[i] \notin Markup(text)
      /\ \A i \in Ends(body) : \A d \in 1 .. 4 : at[i] - d \in Markup(text)
      /\ \A d \in 1 .. 3 : at[n] + d \in Markup(text)
  BY MarkupIs
<1>3. /\ at[0] = 1 /\ Len(text) = at[n] + 3 /\ text[1] = "prolog"
      /\ \A i \in 1 .. n : /\ at[i] <= at[n] /\ text[at[i]] = body[i]
                           /\ i \notin Ends(body) => at[i] = at[i - 1] + 1
                           /\ i \in Ends(body) => at[i] = at[i - 1] + 5
  BY DEF IsText
<1>4. Read(text) = flat
  <2>1. Len(text) \in Ends(text)
    BY EndsAre
  <2> QED
    BY <1>2, <2>1 DEF Read, Opened, Markup
<1> HIDE DEF n
<1>5. kept \in Seq(Seq(U)) /\ Len(kept) = Len(text)
  <2>1. \A p \in DOMAIN text : <<text[p]>> \in Seq(U)
    OBVIOUS
  <2> HIDE DEF U
  <2>2. kept \in [1 .. Len(text) -> Seq(U)]
    BY <1>1, <2>1
  <2> HIDE DEF kept
  <2> QED
    BY <1>1, <2>2
<1>6. PICK k : IsLayout(kept, k, flat)
  <2> HIDE DEF kept, U
  <2> QED
    BY <1>5, Layout
<1>7. flat \in Seq(U)
  <2> HIDE DEF kept, U
  <2> QED
    BY <1>5, Layout
<1>8. /\ \A p \in 1 .. Len(text) : p \in Markup(text) => kept[p] = <<>>
      /\ \A p \in 1 .. Len(text) : p \notin Markup(text) => kept[p] = <<text[p]>>
  BY <1>1
<1>9. /\ k \in [0 .. Len(text) -> Nat] /\ k[0] = 0 /\ Len(flat) = k[Len(text)]
      /\ \A p \in 1 .. Len(text) :
            /\ k[p] = k[p - 1] + Len(kept[p])
            /\ \A j \in 1 .. Len(kept[p]) : flat[k[p - 1] + j] = kept[p][j]
  <2> HIDE DEF kept, flat
  <2> QED
    BY <1>5, <1>6 DEF IsLayout
<1> HIDE DEF kept, flat
<1>10. ASSUME NEW p \in 1 .. Len(text)
       PROVE  /\ k[p] \in Nat /\ k[p - 1] \in Nat
              /\ p \in Markup(text) => k[p] = k[p - 1]
              /\ p \notin Markup(text) => k[p] = k[p - 1] + 1 /\ flat[k[p]] = text[p]
  <2>1. k[p] \in Nat /\ k[p - 1] \in Nat
    <3>1. p \in 0 .. Len(text) /\ p - 1 \in 0 .. Len(text)
      BY <1>1
    <3> QED
      BY <1>9, <3>1
  <2>2. CASE p \in Markup(text)
    <3>1. kept[p] = <<>> /\ Len(<<>>) = 0
      BY <1>8, <2>2
    <3>2. k[p] = k[p - 1] + 0
      BY <1>9, <3>1
    <3> QED
      BY <2>1, <2>2, <3>2
  <2>3. CASE p \notin Markup(text)
    <3>1. kept[p] = <<text[p]>>
      BY <1>8, <2>3
    <3>2. Len(kept[p]) = 1 /\ kept[p][1] = text[p] /\ 1 \in 1 .. 1
      BY <3>1
    <3>3. k[p] = k[p - 1] + 1 /\ flat[k[p - 1] + 1] = text[p]
      BY <1>9, <3>2
    <3> QED
      BY <2>1, <2>3, <3>3
  <2> QED
    BY <2>2, <2>3
<1>11. \A i \in 0 .. n : at[i] \in 1 .. Len(text)
  <2>1. \A a, m, l \in Nat : a <= m /\ l = m + 3 /\ 1 <= a => a \in 1 .. l
    OBVIOUS
  <2>2. n \in 0 .. n /\ \A i \in 0 .. n : i <= n
    BY <1>1
  <2> QED
    BY <1>1, <1>3, <2>1, <2>2
<1> DEFINE Done == {i \in Nat : i <= n => k[at[i]] = i + 1}
<1>12. 0 \in Done
  <2>1. 1 \in 1 .. Len(text) /\ 1 \notin Markup(text) /\ 1 - 1 = 0
    BY <1>1, <1>2, <1>3, <1>11
  <2>2. k[1] = k[1 - 1] + 1
    BY <1>10, <2>1
  <2>3. k[1] = 0 + 1
    BY <1>9, <2>1, <2>2
  <2> QED
    BY <1>3, <2>3
<1>13. ASSUME NEW h \in Nat, h \in Done PROVE h + 1 \in Done
  <2> SUFFICES ASSUME h + 1 <= n PROVE k[at[h + 1]] = h + 2
    OBVIOUS
  <2> DEFINE i == h + 1
  <2>1. i \in 1 .. n /\ i - 1 = h /\ h \in 0 .. n /\ i \in 0 .. n /\ i + 1 = h + 2
    BY <1>1
  <2>2. k[at[h]] = h + 1
    BY <1>1, <1>13, <2>1
  <2> HIDE DEF i
  <2>3. at[i] \in 1 .. Len(text) /\ at[i] \notin Markup(text) /\ at[h] \in Nat /\ at[i] \in Nat
    BY <1>1, <1>2, <1>11, <2>1
  <2>4. k[at[i]] = k[at[i] - 1] + 1
    BY <1>10, <2>3
  <2>5. CASE i \notin Ends(body)
    <3>1. at[i] - 1 = at[h]
      BY <1>3, <2>1, <2>3, <2>5
    <3> QED
      BY <2>1, <2>2, <2>4, <3>1 DEF i
  <2>6. CASE i \in Ends(body)
    <3>1. at[i] = at[h] + 5
      BY <1>3, <2>1, <2>6
    <3>2. /\ at[i] - 1 \in Markup(text) /\ at[i] - 2 \in Markup(text)
          /\ at[i] - 3 \in Markup(text) /\ at[i] - 4 \in Markup(text)
      BY <1>2, <2>6
    <3>3. \A a, b, l \in Nat : a = b + 5 /\ a <= l =>
             /\ a - 1 \in 1 .. l /\ a - 2 \in 1 .. l /\ a - 3 \in 1 .. l /\ a - 4 \in 1 .. l
             /\ a - 1 - 1 = a - 2 /\ a - 2 - 1 = a - 3 /\ a - 3 - 1 = a - 4 /\ a - 4 - 1 = b
      OBVIOUS
    <3>4. /\ at[i] - 1 \in 1 .. Len(text) /\ at[i] - 2 \in 1 .. Len(text)
          /\ at[i] - 3 \in 1 .. Len(text) /\ at[i] - 4 \in 1 .. Len(text)
          /\ at[i] - 1 - 1 = at[i] - 2 /\ at[i] - 2 - 1 = at[i] - 3
          /\ at[i] - 3 - 1 = at[i] - 4 /\ at[i] - 4 - 1 = at[h]
      <4>1. at[i] <= Len(text)
        BY <1>1, <2>3
      <4> QED
        BY <1>1, <2>3, <3>1, <3>3, <4>1
    <3>5. /\ k[at[i] - 1] = k[at[i] - 2] /\ k[at[i] - 2] = k[at[i] - 3]
          /\ k[at[i] - 3] = k[at[i] - 4] /\ k[at[i] - 4] = k[at[h]]
      BY <1>10, <3>2, <3>4
    <3> QED
      BY <2>1, <2>2, <2>4, <3>5 DEF i
  <2> QED
    BY <2>5, <2>6
<1>14. \A i \in 0 .. n : k[at[i]] = i + 1
  <2> HIDE DEF Done
  <2>1. Nat \subseteq Done
    BY <1>12, <1>13, NatSet
  <2> QED
    BY <1>1, <2>1 DEF Done
<1>15. Len(flat) = n + 1
  <2>1. /\ at[n] + 1 \in 1 .. Len(text) /\ at[n] + 2 \in 1 .. Len(text)
        /\ at[n] + 3 \in 1 .. Len(text) /\ at[n] \in Nat
        /\ at[n] + 1 - 1 = at[n] /\ at[n] + 2 - 1 = at[n] + 1 /\ at[n] + 3 - 1 = at[n] + 2
    BY <1>1, <1>3
  <2>2. /\ k[at[n] + 1] = k[at[n]] /\ k[at[n] + 2] = k[at[n] + 1]
        /\ k[at[n] + 3] = k[at[n] + 2]
    BY <1>2, <1>10, <2>1
  <2>3. n \in 0 .. n
    BY <1>1
  <2> QED
    BY <1>3, <1>9, <1>14, <2>2, <2>3
<1>16. \A i \in 0 .. n : flat[i + 1] = text[at[i]]
  BY <1>2, <1>10, <1>11, <1>14
<1>17. flat[1] = "prolog" /\ \A i \in 1 .. n : flat[1 + i] = body[i]
  <2>1. 0 \in 0 .. n /\ 0 + 1 = 1 /\ \A i \in 1 .. n : i \in 0 .. n /\ i + 1 = 1 + i
    BY <1>1
  <2> QED
    BY <1>3, <1>16, <2>1
<1> DEFINE W == T \cup U \cup {"prolog"}
           first == <<"prolog">>
           whole == first \o body
<1>18. first \in Seq(W) /\ body \in Seq(W) /\ Len(first) = 1 /\ first[1] = "prolog"
  <2> HIDE DEF U
  <2> QED
    OBVIOUS
<1> HIDE DEF U, W, first
<1>19. whole = first \o body
  OBVIOUS
<1> HIDE DEF whole
<1>20. /\ whole \in Seq(W) /\ Len(whole) = n + 1
       /\ whole[1] = "prolog" /\ \A i \in 1 .. n : whole[1 + i] = body[i]
  <2>1. /\ Len(whole) = Len(first) + Len(body)
        /\ \A p \in 1 .. Len(first) : whole[p] = first[p]
        /\ \A p \in 1 .. Len(body) : whole[Len(first) + p] = body[p]
    <3>1. first \in Seq(W) /\ body \in Seq(W) /\ whole = first \o body
      BY <1>18, <1>19
    <3> QED
      BY <3>1, Joined
  <2>2. whole \in Seq(W)
    BY <1>18, <1>19
  <2> QED
    BY <1>1, <1>18, <2>1, <2>2 DEF n
<1>21. \A p \in 1 .. n + 1 : flat[p] = whole[p]
  <2> SUFFICES ASSUME NEW p \in 1 .. n + 1 PROVE flat[p] = whole[p]
    OBVIOUS
  <2>1. p = 1 \/ (p - 1 \in 1 .. n /\ p = 1 + (p - 1))
    BY <1>1
  <2> QED
    BY <1>17, <1>20, <2>1
<1>22. flat = whole
  <2>1. flat \in Seq(U \cup W) /\ whole \in Seq(U \cup W)
    BY <1>7, <1>20
  <2> QED
    BY <1>15, <1>20, <1>21, <2>1
<1> QED
  BY <1>4, <1>22 DEF whole, first

\* Whatever content is formatted, a reader of the file finds it unchanged
\* but for its XML declaration.
LEMMA ContentRead ==
    ASSUME NEW T, NEW content \in Seq(T)
    PROVE  Read(fmt_content(content)) = <<"prolog">> \o Body(content)
<1>1. PICK at : IsText(fmt_content(content), Body(content), at)
  BY TextIs
<1>2. Body(content) \in Seq(T)
  BY DEF Body
<1> QED
  BY <1>1, <1>2, ReadIs

----------------------------------------------------------------------------
(* What is in the files.                                                   *)

\* An entry of a file.
Entry == [guid : Notes, content : {fmt_content(c) : c \in Contents}, dates : {Dates}, tasks : Nat]

\* The entry is the note as it is, if it is sound, in a file of its source.
IsRight(p, e) ==
    Sound(e.guid) =>
        /\ e.content = fmt_content(notes[e.guid].raw_note)
        /\ e.tasks = tasks[e.guid]
        /\ \E b \in Sources(e.guid) : p.dirs = DirsOf(b)

PagesOK ==
    \A p \in written :
        /\ files[p].notes \in Seq(Entry)
        /\ \A i \in DOMAIN files[p].notes : IsRight(p, files[p].notes[i])

\* The file that is open is one of the source in hand, and so is the note.
OpenOK ==
    /\ path # None => path \in written /\ path.dirs = DirsOf(nb)
    /\ pc \in {"openNote", "write"} =>
          /\ note.guid \in Notes /\ note.content \in Contents
          /\ Sound(note.guid) => note.content = notes[note.guid].raw_note

\* What is right about a sound note stays right while nobody touches it.
LEMMA StaysRight ==
    ASSUME notebooks' = notebooks, cmd' = cmd, touched \subseteq touched',
           \A n \in Notes : Sound(n)' => notes'[n] = notes[n] /\ tasks'[n] = tasks[n],
           NEW p, NEW e, e.guid \in Notes, IsRight(p, e)
    PROVE  IsRight(p, e)'
<1> SUFFICES ASSUME Sound(e.guid)' 
             PROVE  /\ e.content = fmt_content(notes'[e.guid].raw_note)
                    /\ e.tasks = tasks'[e.guid]
                    /\ \E b \in Sources(e.guid)' : p.dirs = DirsOf(b)'
  BY DEF IsRight
<1>1. notes'[e.guid] = notes[e.guid] /\ tasks'[e.guid] = tasks[e.guid]
  OBVIOUS
<1>2. Sound(e.guid) /\ Sources(e.guid)' = Sources(e.guid)
  BY <1>1, StaysSound
<1>3. \A b : DirsOf(b)' = DirsOf(b)
  BY DEF DirsOf
<1> QED
  BY <1>1, <1>2, <1>3 DEF IsRight

\* A step keeps the pages that it does not write right.
LEMMA PagesKept ==
    ASSUME PagesOK, notebooks' = notebooks, cmd' = cmd, touched \subseteq touched',
           \A n \in Notes : Sound(n)' => notes'[n] = notes[n] /\ tasks'[n] = tasks[n],
           \A p \in written' :
              \/ p \in written /\ files'[p].notes = files[p].notes
              \/ files'[p].notes = <<>>
              \/ /\ files'[p].notes \in Seq(Entry)
                 /\ \A i \in DOMAIN files'[p].notes :
                       IsRight(p, files'[p].notes[i])
    PROVE  PagesOK'
<1>1. Entry' = Entry
  BY DEF Entry, Dates
<1> SUFFICES ASSUME NEW p \in written'
             PROVE  /\ files'[p].notes \in Seq(Entry)
                    /\ \A i \in DOMAIN files'[p].notes : IsRight(p, files[p].notes[i])'
  BY <1>1 DEF PagesOK
<1>2. /\ files'[p].notes \in Seq(Entry)
      /\ \A i \in DOMAIN files'[p].notes : IsRight(p, files'[p].notes[i])
  <2>1. CASE p \in written /\ files'[p].notes = files[p].notes
    BY <2>1 DEF PagesOK
  <2>2. CASE files'[p].notes = <<>>
    <3>1. <<>> \in Seq(Entry) /\ \A i : i \notin DOMAIN <<>>
      OBVIOUS
    <3> QED
      BY <2>2, <3>1
  <2> QED
    BY <2>1, <2>2
<1>3. ASSUME NEW i \in DOMAIN files'[p].notes PROVE IsRight(p, files[p].notes[i])'
  <2>1. PICK e : e = files'[p].notes[i]
    OBVIOUS
  <2>2. e \in Entry
    <3> HIDE DEF Entry
    <3> QED
      BY <1>2, <2>1
  <2>3. e.guid \in Notes /\ IsRight(p, e)
    BY <1>2, <2>1, <2>2 DEF Entry
  <2>4. IsRight(p, e)'
    BY <2>3, StaysRight
  <2> QED
    BY <2>1, <2>4 DEF IsRight
<1> QED
  BY <1>2, <1>3

\* So do the steps that write no entry.
LEMMA QuietPages ==
    ASSUME PagesOK, OpenOK, notebooks' = notebooks, cmd' = cmd, touched \subseteq touched',
           \A n \in Notes : Sound(n)' => notes'[n] = notes[n] /\ tasks'[n] = tasks[n],
           written' = written, \A p \in written : files'[p].notes = files[p].notes,
           path' = None \/ (path' = path /\ nb' = nb),
           pc' \in {"openNote", "write"} =>
              \/ pc \in {"openNote", "write"} /\ note' = note
              \/ /\ note'.guid \in Notes /\ note'.content \in Contents
                 /\ Sound(note'.guid) => note'.content = notes[note'.guid].raw_note
    PROVE  PagesOK' /\ OpenOK'
<1>1. PagesOK'
  BY PagesKept
<1>2. \A b : DirsOf(b)' = DirsOf(b)
  BY DEF DirsOf
<1>3. path' # None => path' \in written' /\ path'.dirs = DirsOf(nb)'
  BY <1>2 DEF OpenOK, DirsOf
<1>4. ASSUME pc' \in {"openNote", "write"}
      PROVE  /\ note'.guid \in Notes /\ note'.content \in Contents
             /\ Sound(note.guid)' => note'.content = notes'[note'.guid].raw_note
  <2>1. /\ note'.guid \in Notes /\ note'.content \in Contents
        /\ Sound(note'.guid) => note'.content = notes[note'.guid].raw_note
    BY <1>4 DEF OpenOK
  <2>2. PICK n \in Notes : n = note'.guid
    BY <2>1
  <2>3. Sound(n)' => Sound(n) /\ notes'[n] = notes[n]
    BY StaysSound
  <2>4. Sound(n)' <=> Sound(note.guid)'
    BY <2>2 DEF Sound, Holds
  <2> QED
    BY <2>1, <2>2, <2>3, <2>4
<1> QED
  BY <1>1, <1>3, <1>4 DEF OpenOK

\* The steps that choose, list and check.
LEMMA ChoicePages ==
    ASSUME IInv, PagesOK, OpenOK,
           \/ Count \/ ReadNotebooks \/ NextNotebook \/ NextTrash \/ Finish
           \/ ReadGuids \/ IntegrityCheck \/ Execute \/ EndOfScan
    PROVE  PagesOK' /\ OpenOK'
<1>1. /\ notes' = notes /\ tasks' = tasks /\ notebooks' = notebooks /\ cmd' = cmd
      /\ touched' = touched /\ written' = written /\ files' = files
      /\ pc' \notin {"openNote", "write"}
  <2>1. CASE Count \/ ReadNotebooks \/ NextNotebook \/ NextTrash \/ Finish
    BY <2>1 DEF Count, ReadNotebooks, NextNotebook, NextTrash, Finish, Begin, Continue, End,
                Ended, tables, reading, ghosts
  <2>2. CASE ReadGuids \/ IntegrityCheck \/ Execute \/ EndOfScan
    BY <2>2 DEF ReadGuids, IntegrityCheck, Execute, EndOfScan, Continue, End, Ended, tables,
                reading, ghosts
  <2> QED
    BY <2>1, <2>2
<1>2. path' = None \/ (path' = path /\ nb' = nb)
  <2>1. pc = "next" => path = None
    BY DEF IInv, PathOK
  <2> QED
    BY <2>1 DEF Count, ReadNotebooks, NextNotebook, NextTrash, Finish, ReadGuids, IntegrityCheck,
           Execute, EndOfScan, Begin, Continue, End, Ended, reading
<1> QED
  BY <1>1, <1>2, QuietPages

\* A row is read, or looked at by a check.
LEMMA RowPages ==
    ASSUME IInv, PagesOK, OpenOK, NEW m \in Notes, ReadNote(m) \/ FetchNote(m)
    PROVE  PagesOK' /\ OpenOK'
<1>1. CASE ReadNote(m)
  <2>1. /\ notes' = notes /\ tasks' = tasks /\ notebooks' = notebooks /\ cmd' = cmd
        /\ touched' = touched /\ written' = written /\ files' = files
        /\ path' = None \/ (path' = path /\ nb' = nb)
    BY <1>1 DEF ReadNote, End, Ended, tables, ghosts
  <2>2. ASSUME pc' \in {"openNote", "write"}
        PROVE  /\ note'.guid \in Notes /\ note'.content \in Contents
               /\ note'.content = notes[note'.guid].raw_note
    <3>1. /\ Holds(m) /\ notes[m].raw_note # Corrupt
          /\ note' = [guid |-> m, title |-> notes[m].title, content |-> notes[m].raw_note]
      BY <1>1, <2>2 DEF ReadNote, End, Ended
    <3>2. notes[m] \in Row
      BY <3>1 DEF Holds, IInv, TypeOK
    <3>3. notes[m].raw_note \in Contents
      BY <3>1, <3>2 DEF Row, Holds
    <3> QED
      BY <3>1, <3>3
  <2> QED
    BY <2>1, <2>2, QuietPages
<1>2. CASE FetchNote(m)
  <2>1. /\ notes' = notes /\ tasks' = tasks /\ notebooks' = notebooks /\ cmd' = cmd
        /\ touched' = touched /\ written' = written /\ files' = files
        /\ path' = path /\ nb' = nb /\ pc' \in {"scan", "mark"}
    BY <1>2 DEF FetchNote, tables, ghosts
  <2> QED
    BY <2>1, QuietPages
<1> QED
  BY <1>1, <1>2

\* A row that is marked is not sound any more.
LEMMA MarkPages ==
    ASSUME IInv, PagesOK, OpenOK, MarkNote
    PROVE  PagesOK' /\ OpenOK'
<1>1. /\ tasks' = tasks /\ notebooks' = notebooks /\ cmd' = cmd
      /\ touched' = touched /\ written' = written /\ files' = files
      /\ path' = path /\ nb' = nb /\ pc' = "scan"
  BY DEF MarkNote, ghosts
<1>2. ASSUME NEW n \in Notes, Sound(n)'
      PROVE  notes'[n] = notes[n]
  BY <1>2, MarkedNotes DEF Sound, Holds
<1> QED
  BY <1>1, <1>2, QuietPages

\* What another process touches is not sound any more.
LEMMA SyncPages ==
    ASSUME IInv, PagesOK, OpenOK, NEW m \in Notes, SyncNote(m) \/ SyncTask(m)
    PROVE  PagesOK' /\ OpenOK'
<1>1. /\ notebooks' = notebooks /\ cmd' = cmd /\ pc' = pc /\ note' = note
      /\ touched' = touched \cup {m} /\ written' = written /\ files' = files
      /\ path' = path /\ nb' = nb
  BY DEF SyncNote, SyncTask, Touch, reading
<1>2. \A n \in Notes : n # m => notes'[n] = notes[n] /\ tasks'[n] = tasks[n]
  BY DEF SyncNote, SyncTask, IInv, TypeOK
<1>3. ~ Sound(m)'
  BY <1>1 DEF Sound
<1> QED
  BY <1>1, <1>2, <1>3, QuietPages

\* A command begins with no file of its own.
LEMMA StartPages ==
    ASSUME IInv, Export \/ List \/ Check
    PROVE  PagesOK' /\ OpenOK'
<1>1. written' = {} /\ path' = None /\ pc' \in {"count", "notebooks", "integrity"}
  BY DEF Export, List, Check, Start, IInv, TypeOK
<1> QED
  BY <1>1 DEF PagesOK, OpenOK

\* A file that is opened is in the directory of the source in hand.
LEMMA OpenPages ==
    ASSUME IInv, PagesOK, OpenOK, OpenNotebook \/ OpenNote
    PROVE  PagesOK' /\ OpenOK'
<1>1. /\ notes' = notes /\ tasks' = tasks /\ notebooks' = notebooks /\ cmd' = cmd
      /\ touched' = touched /\ nb' = nb /\ note' = note
  BY DEF OpenNotebook, OpenNote, tables
<1>2. /\ pc = "open" => ~ cmd.single_notes
      /\ pc = "openNote" => cmd.single_notes
  BY DEF IInv, PathOK
<1>3. PICK dirs, raw :
         /\ Open(dirs, raw)
         /\ dirs = IF cmd.single_notes THEN Append(ParentDir, NotebookName) ELSE ParentDir
  BY <1>2 DEF OpenNotebook, OpenNote
<1>4. PICK p \in get_file(dirs, raw) :
         /\ path' = p /\ written' = written \cup {p}
         /\ files' = [q \in DOMAIN files \cup {p} |->
                         IF q = p THEN [notes |-> <<>>, tail |-> FALSE] ELSE files[q]]
  BY <1>3 DEF Open
<1>5. p.dirs = DirsOf(nb)
  <2>1. p.dirs = [k \in DOMAIN dirs |-> Safe[dirs[k]]]
    <3>1. PICK i : p = PathOf(dirs, raw, i)
      BY <1>4 DEF get_file
    <3> QED
      BY <3>1 DEF PathOf
  <2>2. [k \in DOMAIN <<>> |-> Safe[<<>>[k]]] = <<>>
    OBVIOUS
  <2>3. \A x : [k \in DOMAIN <<x>> |-> Safe[<<x>>[k]]] = <<Safe[x]>>
    OBVIOUS
  <2>4. \A x, y : [k \in DOMAIN <<x, y>> |-> Safe[<<x, y>>[k]]] = <<Safe[x], Safe[y]>>
    OBVIOUS
  <2>5. ASSUME NEW x, NEW y
        PROVE  Append(<<>>, y) = <<y>> /\ Append(<<x>>, y) = <<x, y>>
    <3> DEFINE a == Append(<<>>, y)
               b == Append(<<x>>, y)
    <3>1. <<>> \in Seq({x, y}) /\ <<x>> \in Seq({x, y})
      OBVIOUS
    <3>2. a \in Seq({x, y}) /\ Len(a) = 1 /\ a[1] = y
      BY <3>1
    <3>3. b \in Seq({x, y}) /\ Len(b) = 2 /\ b[1] = x /\ b[2] = y
      BY <3>1
    <3> HIDE DEF a, b
    <3>4. a = <<y>> /\ b = <<x, y>>
      BY <3>2, <3>3
    <3> QED
      BY <3>4 DEF a, b
  <2> DEFINE none  == nb = Trash \/ notebooks[nb].stack = None
             stack == notebooks[nb].stack
             name  == NotebookName
  <2>6. ParentDir = IF none THEN <<>> ELSE <<stack>>
    BY DEF ParentDir
  <2>7. DirsOf(nb) = IF cmd.single_notes
                     THEN Append(IF none THEN <<>> ELSE <<Safe[stack]>>, Safe[name])
                     ELSE IF none THEN <<>> ELSE <<Safe[stack]>>
    BY DEF DirsOf, NotebookName
  <2> HIDE DEF none, stack, name
  <2>8. dirs = IF cmd.single_notes
               THEN (IF none THEN <<name>> ELSE <<stack, name>>)
               ELSE IF none THEN <<>> ELSE <<stack>>
    BY <1>3, <2>5, <2>6 DEF name
  <2>9. CASE none /\ cmd.single_notes
    <3>1. dirs = <<name>> /\ DirsOf(nb) = <<Safe[name]>>
      BY <2>5, <2>7, <2>8, <2>9
    <3> QED
      BY <2>1, <2>3, <3>1
  <2>10. CASE none /\ ~ cmd.single_notes
    BY <2>1, <2>2, <2>7, <2>8, <2>10
  <2>11. CASE ~ none /\ cmd.single_notes
    <3>1. dirs = <<stack, name>> /\ DirsOf(nb) = <<Safe[stack], Safe[name]>>
      BY <2>5, <2>7, <2>8, <2>11
    <3> QED
      BY <2>1, <2>4, <3>1
  <2>12. CASE ~ none /\ ~ cmd.single_notes
    <3>1. dirs = <<stack>> /\ DirsOf(nb) = <<Safe[stack]>>
      BY <2>7, <2>8, <2>12
    <3> QED
      BY <2>1, <2>3, <3>1
  <2> QED
    BY <2>9, <2>10, <2>11, <2>12
<1>6. \A b : DirsOf(b)' = DirsOf(b)
  BY <1>1 DEF DirsOf
<1>7. PagesOK'
  <2>1. \A q \in written' : \/ q \in written /\ files'[q].notes = files[q].notes
                            \/ files'[q].notes = <<>>
    <3>1. written \subseteq DOMAIN files
      BY DEF IInv, TypeOK
    <3> QED
      BY <1>4, <3>1
  <2> QED
    BY <1>1, <2>1, PagesKept
<1>8. path' \in written' /\ path'.dirs = DirsOf(nb)'
  BY <1>1, <1>4, <1>5, <1>6 DEF DirsOf
<1>9. pc' \in {"openNote", "write"} => pc = "openNote"
  BY DEF OpenNotebook, OpenNote
<1>10. OpenOK'
  BY <1>1, <1>8, <1>9 DEF OpenOK, Sound, Holds
<1> QED
  BY <1>7, <1>10

\* The note in hand is written to a file of its source.
LEMMA WritePages ==
    ASSUME IInv, InHand, PagesOK, OpenOK, WriteNote
    PROVE  PagesOK' /\ OpenOK'
<1>1. /\ notes' = notes /\ tasks' = tasks /\ notebooks' = notebooks /\ cmd' = cmd /\ pc = "write"
      /\ touched' = touched /\ written' = written /\ path' = path /\ nb' = nb
      /\ pc' \notin {"openNote", "write"}
  BY DEF WriteNote, tables, ghosts
<1>2. path \in written /\ path.dirs = DirsOf(nb) /\ path \in DOMAIN files
      /\ DOMAIN files[path] = {"notes", "tail"} /\ written \subseteq DOMAIN files
  BY <1>1 DEF OpenOK, IInv, PathOK, TypeOK, FilesOK
<1> DEFINE e == [guid |-> note.guid, content |-> fmt_content(note.content),
                 dates |-> Dates, tasks |-> tasks[note.guid]]
<1>3. files' = [files EXCEPT ![path].notes = Append(@, e)]
  BY DEF WriteNote
<1>4. e \in Entry
  BY <1>1 DEF Entry, OpenOK, IInv, TypeOK
<1>5. IsRight(path, e)
  <2>1. Sound(note.guid) => note.content = notes[note.guid].raw_note /\ nb \in Sources(note.guid)
    BY <1>1 DEF OpenOK, InHand
  <2> QED
    BY <1>2, <2>1 DEF IsRight
<1> HIDE DEF e
<1>6. /\ files'[path].notes = Append(files[path].notes, e)
      /\ \A p \in written : p # path => files'[p].notes = files[p].notes
  BY <1>2, <1>3
<1>7. /\ Append(files[path].notes, e) \in Seq(Entry)
      /\ \A i \in DOMAIN Append(files[path].notes, e) :
            IsRight(path, Append(files[path].notes, e)[i])
  <2>1. PICK l : l = files[path].notes
    OBVIOUS
  <2>2. l \in Seq(Entry) /\ \A i \in DOMAIN l : IsRight(path, l[i])
    BY <1>2, <2>1 DEF PagesOK
  <2> HIDE DEF Entry
  <2>3. /\ Append(l, e) \in Seq(Entry)
        /\ \A i \in DOMAIN Append(l, e) :
              Append(l, e)[i] = e \/ (i \in DOMAIN l /\ Append(l, e)[i] = l[i])
    BY <1>4, <2>2
  <2> QED
    BY <1>5, <2>1, <2>2, <2>3
<1>8. PagesOK'
  <2>1. \A p \in written' :
           \/ p \in written /\ files'[p].notes = files[p].notes
           \/ /\ files'[p].notes \in Seq(Entry)
              /\ \A i \in DOMAIN files'[p].notes : IsRight(p, files'[p].notes[i])
    BY <1>1, <1>6, <1>7
  <2> QED
    BY <1>1, <2>1, PagesKept
<1>9. OpenOK'
  BY <1>1 DEF OpenOK, DirsOf
<1> QED
  BY <1>8, <1>9

\* A file that is closed gets its last line.
LEMMA ClosePages ==
    ASSUME IInv, PagesOK, OpenOK, CloseNote \/ EndOfNotes
    PROVE  PagesOK' /\ OpenOK'
<1>1. /\ notes' = notes /\ tasks' = tasks /\ notebooks' = notebooks /\ cmd' = cmd
      /\ touched' = touched /\ written' = written /\ pc' \notin {"openNote", "write"}
      /\ Close \/ UNCHANGED <<files, path>>
      /\ path' = None
  BY DEF CloseNote, EndOfNotes, Close, tables, ghosts
<1>2. \A p \in written : files'[p].notes = files[p].notes
  <2>1. \A p \in written : p \in DOMAIN files /\ DOMAIN files[p] = {"notes", "tail"}
    BY DEF IInv, TypeOK, FilesOK
  <2> QED
    BY <1>1, <2>1 DEF Close
<1> QED
  BY <1>1, <1>2, QuietPages

\* A death leaves the first entries of the open file.
LEMMA DeathPages ==
    ASSUME IInv, PagesOK, OpenOK, Die
    PROVE  PagesOK' /\ OpenOK'
<1>1. /\ notes' = notes /\ tasks' = tasks /\ notebooks' = notebooks /\ cmd' = cmd
      /\ touched' = touched /\ written' = written /\ path' = None /\ pc' = "idle"
  BY DEF Die, Ended, tables, ghosts
<1>2. ASSUME NEW p \in written, files'[p].notes # files[p].notes
      PROVE  /\ files'[p].notes \in Seq(Entry)
             /\ \A i \in DOMAIN files'[p].notes : IsRight(p, files'[p].notes[i])
  <2>1. path # None
    BY <1>2 DEF Die
  <2>2. PICK k \in 0 .. Len(files[path].notes) :
           files' = [files EXCEPT ![path].notes = SubSeq(@, 1, k)]
    BY <2>1 DEF Die
  <2>3. p \in DOMAIN files /\ DOMAIN files[p] = {"notes", "tail"}
    BY DEF IInv, TypeOK, FilesOK
  <2>4. p = path /\ files'[p].notes = SubSeq(files[p].notes, 1, k)
    BY <1>2, <2>2, <2>3
  <2>5. PICK l : l = files[p].notes
    OBVIOUS
  <2>6. l \in Seq(Entry) /\ (\A i \in DOMAIN l : IsRight(p, l[i])) /\ k \in 0 .. Len(l)
    BY <2>2, <2>4, <2>5 DEF PagesOK
  <2> HIDE DEF Entry
  <2>7. /\ SubSeq(l, 1, k) \in Seq(Entry)
        /\ \A i \in DOMAIN SubSeq(l, 1, k) : i \in DOMAIN l /\ SubSeq(l, 1, k)[i] = l[i]
    BY <2>6
  <2> QED
    BY <2>4, <2>5, <2>6, <2>7
<1>3. PagesOK'
  BY <1>1, <1>2, PagesKept
<1> QED
  BY <1>1, <1>3 DEF OpenOK

\* The inductive invariant of it all.
PagesInv == ReadingInv /\ PagesOK /\ OpenOK

\* What is in the files is right, and in the right file.
THEOREM Pages == ASSUME NoneIsNoPath PROVE Spec => []PagesInv
<1>1. Init => PagesOK /\ OpenOK
  BY DEF Init, PagesOK, OpenOK
<1>2. ASSUME ReadingInv, PagesOK, OpenOK, Next PROVE PagesOK' /\ OpenOK'
  <2> USE DEF ReadingInv
  <2>1. CASE Count \/ ReadNotebooks \/ NextNotebook \/ NextTrash \/ Finish
             \/ ReadGuids \/ IntegrityCheck \/ Execute \/ EndOfScan
    BY <1>2, <2>1, ChoicePages
  <2>2. CASE MarkNote \/ \E n \in Notes : ReadNote(n) \/ FetchNote(n)
    BY <1>2, <2>2, RowPages, MarkPages
  <2>3. CASE OpenNotebook \/ OpenNote
    BY <1>2, <2>3, OpenPages
  <2>4. CASE WriteNote
    BY <1>2, <2>4, WritePages
  <2>5. CASE CloseNote \/ EndOfNotes
    BY <1>2, <2>5, ClosePages
  <2>6. CASE Export \/ List \/ Check
    BY <1>2, <2>6, StartPages
  <2>7. CASE Die
    BY <1>2, <2>7, DeathPages
  <2>8. CASE \E n \in Notes : SyncNote(n) \/ SyncTask(n)
    BY <1>2, <2>8, SyncPages
  <2> QED
    BY <1>2, <2>1, <2>2, <2>3, <2>4, <2>5, <2>6, <2>7, <2>8 DEF Next, Step
<1>3. ASSUME PagesOK, OpenOK, UNCHANGED vars PROVE PagesOK' /\ OpenOK'
  BY <1>3, QuietPages DEF vars, tables, reading, ghosts
<1> QED
  BY <1>1, <1>2, <1>3, NoneIsNoPath, Reading, PTL DEF Spec, PagesInv

\* Every time of an exported note is the date of that time, or the end of
\* Python's calendar for a time beyond it.
THEOREM DatesAreRight == ASSUME NoneIsNoPath PROVE Spec => []DatesRight
<1>1. PagesInv => DatesRight
  <2> SUFFICES ASSUME PagesInv, NEW p \in written, NEW i \in DOMAIN files[p].notes, NEW t \in Times
               PROVE  RightDate(t, files[p].notes[i].dates[t])
    BY DEF DatesRight
  <2>1. files[p].notes[i] \in Entry
    <3> HIDE DEF Entry
    <3> QED
      BY DEF PagesInv, PagesOK
  <2>2. files[p].notes[i].dates[t] = fmt_time(t)
    BY <2>1 DEF Entry, Dates
  <2> QED
    BY <2>2, TablesAssumption, TimesRight
<1> QED
  BY <1>1, NoneIsNoPath, Pages, PTL

\* What is in a file under a sound note that the sync left alone is that note,
\* to a reader of the file: its content is neither cut nor spilled, whatever
\* is in it, its tasks are there, and it is in the directory of its notebook.
THEOREM KeepsContent == ASSUME NoneIsNoPath PROVE Spec => []ContentKept
<1>1. PagesInv => ContentKept
  <2> SUFFICES ASSUME PagesInv, NEW p \in written, NEW i \in DOMAIN files[p].notes,
                      NEW e, e = files[p].notes[i], Sound(e.guid)
               PROVE  /\ Read(e.content) = <<"prolog">> \o Body(notes[e.guid].raw_note)
                      /\ e.tasks = tasks[e.guid]
                      /\ \E b \in Sources(e.guid) : p.dirs = DirsOf(b)
    BY DEF ContentKept
  <2>1. e \in Entry /\ IsRight(p, e)
    <3> HIDE DEF Entry
    <3> QED
      BY DEF PagesInv, PagesOK
  <2>2. e.guid \in Notes
    BY <2>1 DEF Entry
  <2>3. notes[e.guid] \in Row
    BY <2>2 DEF PagesInv, ReadingInv, IInv, TypeOK, Sound, Holds
  <2>4. notes[e.guid].raw_note \in Seq(STRING)
    BY <2>3, TablesAssumption DEF Row, Sound, Holds
  <2>5. Read(fmt_content(notes[e.guid].raw_note)) = <<"prolog">> \o Body(notes[e.guid].raw_note)
    BY <2>4, ContentRead
  <2> QED
    BY <2>1, <2>5 DEF IsRight
<1> QED
  BY <1>1, NoneIsNoPath, Pages, PTL

=============================================================================
