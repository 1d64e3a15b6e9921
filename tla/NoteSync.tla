------------------------------ MODULE NoteSync ------------------------------
(***************************************************************************)
(* NoteSynchronizer.sync() for the user's own account: the incremental     *)
(* scan of changes (getFilteredSyncChunk), the update sequence number kept *)
(* in the database, the blacklist and the download of scheduled notes.     *)
(*                                                                         *)
(* The account on the server changes at any time.  The program commits one *)
(* transaction per step and may die between any two of them (exception,    *)
(* interrupt, kill): the database keeps what was committed, everything     *)
(* else is lost, and the next run starts from the database alone.          *)
(***************************************************************************)
EXTENDS NoteStorage

CONSTANTS MaxUSN,     \* bound on the changes made to the account
          MaxFaults,  \* bound on deaths of the program and failed downloads
          MaxEdits    \* bound on invocations of "manage blacklist"

ASSUME BoundsAssumption == MaxUSN \in Nat /\ MaxFaults \in Nat /\ MaxEdits \in Nat

VARIABLES
    remoteNotes,      \* the account: guid -> version, liveness and notebook
    remoteNotebooks,  \* the account: guid -> version and liveness
    updateCount,      \* the account's highest update sequence number
    notes,            \* table notes
    notebooks,        \* table notebooks
    USN,              \* config value "USN"
    blacklist,        \* config values "blacklist_notes", "blacklist_notebooks"
    pc,               \* next step of sync(), "idle" when it is not running
    chunk,            \* the SyncChunk being processed
    todo,             \* notes_to_sync that are not finished
    results,          \* finished downloads that are not stored yet
    faults, edits     \* what is spent of MaxFaults and MaxEdits

account == <<remoteNotes, remoteNotebooks, updateCount>>
db      == <<notes, notebooks, USN>>
process == <<pc, chunk, todo, results>>
vars    == <<account, db, blacklist, process, faults, edits>>

NoResults == [n \in Notes |-> None]

Init ==
    /\ \E home \in [Notes -> Notebooks] : remoteNotes =
           [n \in Notes |-> [usn |-> 0, live |-> FALSE, nb |-> home[n]]]
    /\ remoteNotebooks = [b \in Notebooks |-> [usn |-> 0, live |-> FALSE]]
    /\ updateCount = 0
    /\ notes = [n \in Notes |-> None]
    /\ notebooks = [b \in Notebooks |-> 0]
    /\ USN = 0
    /\ blacklist = [notes |-> {}, notebooks |-> {}]
    /\ pc = "idle" /\ chunk = None /\ todo = {} /\ results = NoResults
    /\ faults = 0 /\ edits = 0

----------------------------------------------------------------------------
(* The account.  Every change takes the next update sequence number; an    *)
(* object carries only the number of its last change; an expunged guid is  *)
(* never used again.                                                       *)

Change ==
    /\ updateCount < MaxUSN
    /\ updateCount' = updateCount + 1
    /\ UNCHANGED <<db, blacklist, process, faults, edits>>

Writable(object) == object.live \/ object.usn = 0

\* Someone creates, edits or moves a note.
PutNote(n, b) ==
    /\ Change
    /\ Writable(remoteNotes[n]) /\ remoteNotebooks[b].live
    /\ remoteNotes' =
           [remoteNotes EXCEPT ![n] = [usn |-> updateCount + 1, live |-> TRUE, nb |-> b]]
    /\ UNCHANGED remoteNotebooks

ExpungeNote(n) ==
    /\ Change
    /\ remoteNotes[n].live
    /\ remoteNotes' =
           [remoteNotes EXCEPT ![n].usn = updateCount + 1, ![n].live = FALSE]
    /\ UNCHANGED remoteNotebooks

PutNotebook(b) ==
    /\ Change
    /\ Writable(remoteNotebooks[b])
    /\ remoteNotebooks' =
           [remoteNotebooks EXCEPT ![b] = [usn |-> updateCount + 1, live |-> TRUE]]
    /\ UNCHANGED remoteNotes

ExpungeNotebook(b) ==
    /\ Change
    /\ remoteNotebooks[b].live
    /\ \A n \in Notes : remoteNotes[n].live => remoteNotes[n].nb # b
    /\ remoteNotebooks' =
           [remoteNotebooks EXCEPT ![b] = [usn |-> updateCount + 1, live |-> FALSE]]
    /\ UNCHANGED remoteNotes

\* A SyncChunk with the objects of keys(afterUSN .. high].  The service may
\* return fewer objects than it is asked for, so high is any number.
Within(objects, after, high, live) ==
    {o \in DOMAIN objects : /\ after < objects[o].usn /\ objects[o].usn <= high
                            /\ objects[o].live = live}

SyncChunk(after, high) ==
    [notebooks |->
        [b \in Within(remoteNotebooks, after, high, TRUE) |-> remoteNotebooks[b].usn],
     notes |->
        [n \in Within(remoteNotes, after, high, TRUE) |-> remoteNotes[n].nb],
     expungedNotebooks |-> Within(remoteNotebooks, after, high, FALSE),
     expungedNotes |-> Within(remoteNotes, after, high, FALSE),
     chunkHighUSN |-> high,
     updateCount |-> updateCount]

----------------------------------------------------------------------------
(* sync().                                                                 *)

\* Fault: an account without changes ends the run before the download phase.
StartSyncOnlyIfChanged ==
    /\ pc = "idle"
    /\ pc' = IF updateCount = USN THEN "idle" ELSE "getChunk"
    /\ UNCHANGED <<account, db, blacklist, chunk, todo, results, faults, edits>>

\* _sync_chunks compares the account's number with its own and returns at
\* once when they are equal.
StartSync ==
    /\ pc = "idle"
    /\ pc' = IF updateCount = USN THEN "collect" ELSE "getChunk"
    /\ UNCHANGED <<account, db, blacklist, chunk, todo, results, faults, edits>>

\* Fault: the scan starts from the beginning.
GetChunkFromStart ==
    /\ pc = "getChunk"
    /\ \E high \in (USN + 1) .. updateCount : chunk' = SyncChunk(0, high)
    /\ pc' = "expungeNotebooks"
    /\ UNCHANGED <<account, db, blacklist, todo, results, faults, edits>>

\* Fault: the number is saved before what the chunk holds.
GetChunkAndSetUSN ==
    /\ pc = "getChunk"
    /\ \E high \in (USN + 1) .. updateCount : /\ chunk' = SyncChunk(USN, high)
                                              /\ USN' = high
    /\ pc' = "expungeNotebooks"
    /\ UNCHANGED <<account, notes, notebooks, blacklist, todo, results, faults, edits>>

\* One round of iter_sync_chunks.  Its after_usn is the number just saved.
GetChunk ==
    /\ pc = "getChunk"
    /\ \E high \in (USN + 1) .. updateCount : chunk' = SyncChunk(USN, high)
    /\ pc' = "expungeNotebooks"
    /\ UNCHANGED <<account, db, blacklist, todo, results, faults, edits>>

\* Fault: the notes that are filed under an expunged notebook go with it.
ExpungeNotebooksAndNotes ==
    /\ pc = "expungeNotebooks"
    /\ notebooks' = expunge_notebooks(notebooks, chunk.expungedNotebooks)
    /\ notes' = expunge_notes(notes,
           {n \in Notes : /\ notes[n] # None
                          /\ notes[n].notebook_guid \in chunk.expungedNotebooks})
    /\ pc' = "expungeNotes"
    /\ UNCHANGED <<account, USN, blacklist, chunk, todo, results, faults, edits>>

\* Fault: a chunk that expunges notebooks has its expunged notes ignored.
ExpungeNotebooksOnly ==
    /\ pc = "expungeNotebooks"
    /\ notebooks' = expunge_notebooks(notebooks, chunk.expungedNotebooks)
    /\ pc' = IF chunk.expungedNotebooks # {} THEN "addNotebooks" ELSE "expungeNotes"
    /\ UNCHANGED <<account, notes, USN, blacklist, chunk, todo, results, faults, edits>>

\* The four transactions of _process_chunk, in its order.
ExpungeNotebooks ==
    /\ pc = "expungeNotebooks"
    /\ notebooks' = expunge_notebooks(notebooks, chunk.expungedNotebooks)
    /\ pc' = "expungeNotes"
    /\ UNCHANGED <<account, notes, USN, blacklist, chunk, todo, results, faults, edits>>

ExpungeNotes ==
    /\ pc = "expungeNotes"
    /\ notes' = expunge_notes(notes, chunk.expungedNotes)
    /\ pc' = "addNotebooks"
    /\ UNCHANGED <<account, notebooks, USN, blacklist, chunk, todo, results, faults, edits>>

AddNotebooks ==
    /\ pc = "addNotebooks"
    /\ notebooks' = add_notebooks(notebooks, chunk.notebooks)
    /\ pc' = "addNotes"
    /\ UNCHANGED <<account, notes, USN, blacklist, chunk, todo, results, faults, edits>>

\* Fault: a note that the blacklist names is not scheduled at all.
AddNotesUnlisted ==
    /\ pc = "addNotes"
    /\ notes' = add_notes_for_sync(notes,
           [n \in DOMAIN chunk.notes \ blacklist.notes |-> chunk.notes[n]])
    /\ pc' = "setUSN"
    /\ UNCHANGED <<account, notebooks, USN, blacklist, chunk, todo, results, faults, edits>>

AddNotes ==
    /\ pc = "addNotes"
    /\ notes' = add_notes_for_sync(notes, chunk.notes)
    /\ pc' = "setUSN"
    /\ UNCHANGED <<account, notebooks, USN, blacklist, chunk, todo, results, faults, edits>>

\* Fault: the account's number is saved in place of the chunk's.
SetUSNToCount ==
    /\ pc = "setUSN"
    /\ USN' = chunk.updateCount
    /\ pc' = "collect"
    /\ chunk' = None
    /\ UNCHANGED <<account, notes, notebooks, blacklist, todo, results, faults, edits>>

\* The number is saved after everything the chunk holds; the scan ends with
\* the chunk that reaches the account's count at the time it was produced.
SetUSN ==
    /\ pc = "setUSN"
    /\ USN' = chunk.chunkHighUSN
    /\ pc' = IF chunk.chunkHighUSN = chunk.updateCount THEN "collect" ELSE "getChunk"
    /\ chunk' = None
    /\ UNCHANGED <<account, notes, notebooks, blacklist, todo, results, faults, edits>>

\* Fault: only the list of notes is honoured.
NotesToSyncByNote == get_notes_for_sync(notes) \ blacklist.notes

\* get_notes_for_sync without what _filter_blacklisted_notes drops.
NotesToSync ==
    {n \in get_notes_for_sync(notes) :
        /\ n \notin blacklist.notes
        /\ notes[n].notebook_guid \notin blacklist.notebooks}

\* Fault: the blacklisted notes lose their rows.
CollectAndForget ==
    /\ pc = "collect"
    /\ todo' = NotesToSync
    /\ notes' = expunge_notes(notes, get_notes_for_sync(notes) \ NotesToSync)
    /\ pc' = IF NotesToSync = {} THEN "idle" ELSE "download"
    /\ UNCHANGED <<account, notebooks, USN, blacklist, chunk, results, faults, edits>>

Collect ==
    /\ pc = "collect"
    /\ todo' = NotesToSync
    /\ pc' = IF NotesToSync = {} THEN "idle" ELSE "download"
    /\ UNCHANGED <<account, db, blacklist, chunk, results, faults, edits>>

\* A worker's getNote answers with the note as it is at that moment.
Downloaded(n) ==
    /\ pc = "download" /\ n \in todo /\ results[n] = None
    /\ remoteNotes[n].live
    /\ results' = [results EXCEPT ![n] = [usn |-> remoteNotes[n].usn,
                                          nb  |-> remoteNotes[n].nb]]
    /\ UNCHANGED <<account, db, blacklist, pc, chunk, todo, faults, edits>>

\* NoteDownloadException: a note that is gone, or five failed attempts.  The
\* note is skipped and keeps its row for the next run.
Skipped(n) ==
    /\ pc = "download" /\ n \in todo /\ results[n] = None
    /\ IF remoteNotes[n].live
       THEN faults < MaxFaults /\ faults' = faults + 1
       ELSE UNCHANGED faults
    /\ todo' = todo \ {n}
    /\ UNCHANGED <<account, db, blacklist, pc, chunk, results, edits>>

\* The main thread stores a finished download.
Store(n) ==
    /\ pc = "download" /\ results[n] # None
    /\ notes' = add_note(notes, n, results[n])
    /\ results' = [results EXCEPT ![n] = None]
    /\ todo' = todo \ {n}
    /\ UNCHANGED <<account, notebooks, USN, blacklist, pc, chunk, faults, edits>>

FinishSync ==
    /\ pc = "download" /\ todo = {}
    /\ pc' = "idle"
    /\ UNCHANGED <<account, db, blacklist, chunk, todo, results, faults, edits>>

\* An error that ends the run (network, rate limit), an interrupt or a kill.
Die ==
    /\ pc # "idle" /\ faults < MaxFaults
    /\ faults' = faults + 1
    /\ pc' = "idle" /\ chunk' = None /\ todo' = {} /\ results' = NoResults
    /\ UNCHANGED <<account, db, blacklist, edits>>

\* "manage blacklist" adds, removes or resets guids of both lists, between
\* two runs.  (Its two writes are two transactions; a death between them is
\* an edit of one list.)
ManageBlacklist ==
    /\ pc = "idle" /\ edits < MaxEdits
    /\ edits' = edits + 1
    /\ blacklist' \in [notes : SUBSET Notes, notebooks : SUBSET Notebooks]
    /\ UNCHANGED <<account, db, process, faults>>

----------------------------------------------------------------------------
AccountChanges ==
    \/ \E n \in Notes, b \in Notebooks : PutNote(n, b)
    \/ \E n \in Notes : ExpungeNote(n)
    \/ \E b \in Notebooks : PutNotebook(b)
    \/ \E b \in Notebooks : ExpungeNotebook(b)

ProcessChunk == ExpungeNotebooks \/ ExpungeNotes \/ AddNotebooks \/ AddNotes \/ SetUSN

Download == \/ \E n \in Notes : Downloaded(n)
            \/ \E n \in Notes : Skipped(n)
            \/ \E n \in Notes : Store(n)
            \/ FinishSync

Sync == StartSync \/ GetChunk \/ ProcessChunk \/ Collect \/ Download

Next == AccountChanges \/ Sync \/ Die \/ ManageBlacklist

Spec == Init /\ [][Next]_vars

\* The account stops changing on its own; "sync" is run again and again (the
\* README tells users to schedule it) and a running sync takes its next step.
FairSpec == Spec /\ WF_vars(Sync)

----------------------------------------------------------------------------
(* Properties.                                                             *)

IsSyncChunk(c) ==
    /\ DOMAIN c.notebooks \subseteq Notebooks
    /\ c.notebooks \in [DOMAIN c.notebooks -> Nat]
    /\ DOMAIN c.notes \subseteq Notes
    /\ c.notes \in [DOMAIN c.notes -> Notebooks]
    /\ c.expungedNotebooks \subseteq Notebooks
    /\ c.expungedNotes \subseteq Notes
    /\ c.chunkHighUSN \in Nat
    /\ c.updateCount \in Nat

Steps == {"idle", "getChunk", "expungeNotebooks", "expungeNotes", "addNotebooks",
          "addNotes", "setUSN", "collect", "download"}

TypeOK ==
    /\ remoteNotes \in [Notes -> [usn : Nat, live : BOOLEAN, nb : Notebooks]]
    /\ remoteNotebooks \in [Notebooks -> [usn : Nat, live : BOOLEAN]]
    /\ updateCount \in Nat
    /\ notes \in [Notes -> NoteRow \cup {None}]
    /\ notebooks \in [Notebooks -> Nat]
    /\ USN \in Nat
    /\ blacklist \in [notes : SUBSET Notes, notebooks : SUBSET Notebooks]
    /\ pc \in Steps
    /\ IF pc \in {"idle", "getChunk", "collect", "download"}
       THEN chunk = None ELSE IsSyncChunk(chunk)
    /\ todo \in SUBSET Notes
    /\ results \in [Notes -> NoteContent \cup {None}]
    /\ faults \in Nat /\ edits \in Nat

\* What the database holds of a note is right for the note's last change:
\* scheduled or downloaded at that version and filed where the note is, or
\* no row at all when the note was expunged.
NoteReflected(n) ==
    IF remoteNotes[n].live
    THEN /\ notes[n] # None
         /\ notes[n].notebook_guid = remoteNotes[n].nb
         /\ notes[n].raw_note \in {NULL, remoteNotes[n].usn}
    ELSE notes[n] = None

NotebookReflected(b) ==
    notebooks[b] = IF remoteNotebooks[b].live THEN remoteNotebooks[b].usn ELSE 0

\* The saved number is a promise: whatever changed on the server up to it is
\* in the database, in every state, i.e. wherever the program dies.  (The
\* next scan never asks for those changes again, so a gap would be for ever.)
CursorSound ==
    /\ \A n \in Notes : remoteNotes[n].usn \in 1 .. USN => NoteReflected(n)
    /\ \A b \in Notebooks : remoteNotebooks[b].usn \in 1 .. USN => NotebookReflected(b)

IsPending(row) == row # None /\ row.raw_note = NULL
Holds(row)     == row # None /\ row.raw_note # NULL

\* A note leaves the backup only after it was expunged on the server,
\* whatever chunk the deletion comes from and however old that chunk is.
OnlyExpungedDeleted ==
    [][\A n \in Notes : notes[n] # None /\ notes'[n] = None
                            => remoteNotes[n].usn > 0 /\ ~ remoteNotes[n].live]_vars

\* Downloaded content is given up for a re-download only because of a change
\* that the saved number does not cover yet: what a finished sync downloaded
\* is not downloaded again by a later one.
WipedOnlyWhenChanged ==
    [][\A n \in Notes : Holds(notes[n]) /\ IsPending(notes'[n])
                            => remoteNotes[n].usn > USN]_vars

\* No content is stored over a row that the blacklist names, by the note or
\* by the notebook the row is filed under.
BlacklistHonoured ==
    [][\A n \in Notes : IsPending(notes[n]) /\ Holds(notes'[n])
                            => /\ n \notin blacklist.notes
                               /\ notes[n].notebook_guid \notin blacklist.notebooks]_vars

Blacklisted(n) == n \in blacklist.notes \/ remoteNotes[n].nb \in blacklist.notebooks

Mirrored(n) ==
    remoteNotes[n].usn > 0 =>
        IF remoteNotes[n].live
        THEN notes[n] = [notebook_guid |-> remoteNotes[n].nb,
                         raw_note |-> remoteNotes[n].usn]
        ELSE notes[n] = None

\* Once the account is left alone and errors stop, the repeated syncs bring
\* every note up to date for good, whatever was interrupted before, and also
\* a note that was scheduled while blacklisted and is taken off the list.
EventuallyMirrored ==
    \A n \in Notes : <>[] ~ Blacklisted(n) => <>[] Mirrored(n)

\* The contract of BackupContract, kept by every step of sync().
Contract == INSTANCE BackupContract WITH
    remote <- remoteNotes,
    copy <- [n \in Notes |-> IF notes[n] = None THEN None ELSE notes[n].raw_note],
    acked <- USN

KeepsContract == Contract!Spec

----------------------------------------------------------------------------
(* Why CursorSound holds: what the process has in flight never contradicts *)
(* the account, however the account changes meanwhile.                     *)

Processing == {"expungeNotebooks", "expungeNotes", "addNotebooks", "addNotes", "setUSN"}

\* Numbers are given out once: nothing is numbered beyond the account's count.
Numbered ==
    /\ USN <= updateCount
    /\ \A n \in Notes : /\ remoteNotes[n].usn <= updateCount
                        /\ remoteNotes[n].live => remoteNotes[n].usn > 0
    /\ \A b \in Notebooks : /\ remoteNotebooks[b].usn <= updateCount
                            /\ remoteNotebooks[b].live => remoteNotebooks[b].usn > 0

\* The objects whose last change the chunk being processed is to deliver.
InWindow(usn) == USN < usn /\ usn <= chunk.chunkHighUSN

\* A chunk is a snapshot, yet still exact for every object in its window:
\* one that changed since then has left the window.
ChunkNotesExact ==
    /\ \A n \in Notes : InWindow(remoteNotes[n].usn) =>
          IF remoteNotes[n].live
          THEN n \in DOMAIN chunk.notes /\ chunk.notes[n] = remoteNotes[n].nb
          ELSE n \in chunk.expungedNotes
    /\ \A n \in DOMAIN chunk.notes :
          /\ USN < remoteNotes[n].usn
          /\ InWindow(remoteNotes[n].usn) => remoteNotes[n].live
    /\ \A n \in chunk.expungedNotes : USN < remoteNotes[n].usn /\ ~ remoteNotes[n].live

ChunkNotebooksExact ==
    /\ \A b \in Notebooks : InWindow(remoteNotebooks[b].usn) =>
          IF remoteNotebooks[b].live
          THEN b \in DOMAIN chunk.notebooks /\ chunk.notebooks[b] = remoteNotebooks[b].usn
          ELSE b \in chunk.expungedNotebooks
    /\ \A b \in DOMAIN chunk.notebooks :
          /\ USN < remoteNotebooks[b].usn
          /\ InWindow(remoteNotebooks[b].usn) => remoteNotebooks[b].live
    /\ \A b \in chunk.expungedNotebooks :
          USN < remoteNotebooks[b].usn /\ ~ remoteNotebooks[b].live

\* How far the transactions of _process_chunk have brought the tables.
ChunkApplied ==
    /\ pc \in Processing \ {"expungeNotebooks"} =>
          \A b \in Notebooks : InWindow(remoteNotebooks[b].usn) /\ ~ remoteNotebooks[b].live
                                  => NotebookReflected(b)
    /\ pc \in {"addNotes", "setUSN"} =>
          \A b \in Notebooks : InWindow(remoteNotebooks[b].usn) => NotebookReflected(b)
    /\ pc \in {"addNotebooks", "addNotes", "setUSN"} =>
          \A n \in Notes : InWindow(remoteNotes[n].usn) /\ ~ remoteNotes[n].live
                                  => NoteReflected(n)
    /\ pc = "setUSN" =>
          \A n \in Notes : InWindow(remoteNotes[n].usn) => NoteReflected(n)

ChunkSound ==
    pc \in Processing =>
        /\ USN < chunk.chunkHighUSN
        /\ chunk.chunkHighUSN <= chunk.updateCount
        /\ chunk.updateCount <= updateCount
        /\ ChunkNotesExact
        /\ ChunkNotebooksExact

\* A download that waits to be stored is the note's current version, or its
\* note has changed beyond the saved number and will be scanned again.
ResultsSound ==
    \A n \in Notes : results[n] # None =>
        /\ n \in todo
        /\ \/ /\ remoteNotes[n].live
              /\ results[n] = [usn |-> remoteNotes[n].usn, nb |-> remoteNotes[n].nb]
           \/ results[n].usn < remoteNotes[n].usn /\ USN < remoteNotes[n].usn

\* A note that is still to be downloaded has a row without content that the
\* blacklist does not name.
TodoSound ==
    /\ todo # {} => pc = "download"
    /\ \A n \in todo : /\ IsPending(notes[n])
                       /\ n \notin blacklist.notes
                       /\ notes[n].notebook_guid \notin blacklist.notebooks

InFlightSound == Numbered /\ ChunkSound /\ ChunkApplied /\ ResultsSound /\ TodoSound

IInv == TypeOK /\ CursorSound /\ InFlightSound
============================================================================
