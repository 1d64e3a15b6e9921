-------------------------- MODULE NoteSync_proofs --------------------------
(***************************************************************************)
(* Proofs about NoteSync, for every set of notes and notebooks, any number *)
(* of changes, faults and blacklist edits.                                 *)
(***************************************************************************)
EXTENDS NoteSync, TLAPS

\* TypeOK needs to know that a live note has a number (a stored download is
\* never mistaken for a NULL), so the two go together.
Typed == TypeOK /\ Numbered

\* The empty database, the empty account and the idle program are well typed.
LEMMA InitTyped == Init => Typed
<1> SUFFICES ASSUME Init PROVE Typed
  OBVIOUS
<1> PICK home \in [Notes -> Notebooks] : remoteNotes =
         [n \in Notes |-> [usn |-> 0, live |-> FALSE, nb |-> home[n]]]
  BY DEF Init
<1>1. \A n \in Notes : remoteNotes[n].usn = 0 /\ ~ remoteNotes[n].live
  OBVIOUS
<1>2. remoteNotes \in [Notes -> [usn : Nat, live : BOOLEAN, nb : Notebooks]]
  OBVIOUS
<1>3. remoteNotebooks \in [Notebooks -> [usn : Nat, live : BOOLEAN]]
  BY DEF Init
<1>4. TypeOK
  BY <1>2, <1>3 DEF Init, TypeOK, NoResults, Steps
<1>5. Numbered
  BY <1>1 DEF Init, Numbered
<1> QED
  BY <1>4, <1>5 DEF Typed

\* A change made on the server keeps types, and numbers stay below its count.
LEMMA AccountTyped == Typed /\ AccountChanges => Typed'
<1> SUFFICES ASSUME Typed, AccountChanges PROVE Typed'
  OBVIOUS
<1> USE DEF Typed, TypeOK, Numbered, Change, account, db, process
<1>1. ASSUME NEW n \in Notes, NEW b \in Notebooks, PutNote(n, b) PROVE Typed'
  BY <1>1 DEF PutNote
<1>2. ASSUME NEW n \in Notes, ExpungeNote(n) PROVE Typed'
  BY <1>2 DEF ExpungeNote
<1>3. ASSUME NEW b \in Notebooks, PutNotebook(b) PROVE Typed'
  BY <1>3 DEF PutNotebook
<1>4. ASSUME NEW b \in Notebooks, ExpungeNotebook(b) PROVE Typed'
  BY <1>4 DEF ExpungeNotebook
<1> QED
  BY <1>1, <1>2, <1>3, <1>4 DEF AccountChanges

\* What getFilteredSyncChunk answers is a well-formed chunk.
LEMMA ChunkTyped ==
    ASSUME Typed, NEW high \in Nat
    PROVE  IsSyncChunk(SyncChunk(USN, high))
  BY DEF Typed, TypeOK, IsSyncChunk, SyncChunk, Within

\* Every step of sync() keeps types (note_synchronizer.py, sync).
LEMMA SyncTyped == Typed /\ ChunkSound /\ Sync => Typed'
<1> SUFFICES ASSUME Typed, ChunkSound, Sync PROVE Typed'
  OBVIOUS
<1> USE DEF Typed, Numbered, account, db, process
<1>1. CASE StartSync
  BY <1>1 DEF StartSync, TypeOK, Steps
<1>2. CASE GetChunk
  <2> PICK high \in (USN + 1) .. updateCount : chunk' = SyncChunk(USN, high)
    BY <1>2 DEF GetChunk
  <2>1. IsSyncChunk(chunk')
    BY ChunkTyped DEF TypeOK
  <2> QED
    BY <1>2, <2>1 DEF GetChunk, TypeOK, Steps
<1>3. CASE ExpungeNotebooks
  BY <1>3 DEF ExpungeNotebooks, expunge_notebooks, TypeOK, Steps
<1>4. CASE ExpungeNotes
  BY <1>4 DEF ExpungeNotes, expunge_notes, TypeOK, Steps
<1>5. CASE AddNotebooks
  BY <1>5 DEF AddNotebooks, add_notebooks, TypeOK, Steps, IsSyncChunk
<1>6. CASE AddNotes
  BY <1>6 DEF AddNotes, add_notes_for_sync, TypeOK, Steps, IsSyncChunk, NoteRow, NULL
<1>7. CASE Collect
  BY <1>7 DEF Collect, NotesToSync, get_notes_for_sync, TypeOK, Steps
<1>8. ASSUME NEW n \in Notes, Downloaded(n) PROVE Typed'
  BY <1>8 DEF Downloaded, TypeOK, Steps, NoteContent
<1>9. ASSUME NEW n \in Notes, Skipped(n) PROVE Typed'
  BY <1>9 DEF Skipped, TypeOK, Steps
<1>10. ASSUME NEW n \in Notes, Store(n) PROVE Typed'
  BY <1>10, NoneIsNoContent DEF Store, add_note, TypeOK, Steps, NoteContent, NoteRow
<1>11. CASE FinishSync
  BY <1>11 DEF FinishSync, TypeOK, Steps
<1>12. CASE SetUSN
  <2>1. chunk.chunkHighUSN \in Nat /\ chunk.chunkHighUSN <= updateCount
    BY <1>12 DEF SetUSN, TypeOK, ChunkSound, Processing, IsSyncChunk
  <2> QED
    BY <1>12, <2>1 DEF SetUSN, TypeOK, Steps
<1> QED
  BY <1>1, <1>2, <1>3, <1>4, <1>5, <1>6, <1>7, <1>8, <1>9, <1>10, <1>11, <1>12
  DEF Sync, ProcessChunk, Download

\* So does any step, a death or an edit of the blacklist included.
LEMMA NextTyped == Typed /\ ChunkSound /\ [Next]_vars => Typed'
<1> SUFFICES ASSUME Typed, ChunkSound, [Next]_vars PROVE Typed'
  OBVIOUS
<1>1. CASE Die
  BY <1>1 DEF Die, Typed, TypeOK, Numbered, account, db, Steps, NoResults
<1>2. CASE ManageBlacklist
  BY <1>2 DEF ManageBlacklist, Typed, TypeOK, Numbered, account, db, process
<1>3. CASE UNCHANGED vars
  BY <1>3 DEF vars, account, db, process, Typed, TypeOK, Numbered, IsSyncChunk
<1> QED
  BY <1>1, <1>2, <1>3, AccountTyped, SyncTyped DEF Next

----------------------------------------------------------------------------
(* A change of the account gives the object a number beyond the account's  *)
(* count, so the object leaves every claim and every window.               *)

AccountShape ==
    /\ updateCount' = updateCount + 1
    /\ \A n \in Notes :
          \/ remoteNotes'[n] = remoteNotes[n]
          \/ /\ remoteNotes'[n].usn = updateCount + 1
             /\ Writable(remoteNotes[n])
    /\ \A b \in Notebooks :
          \/ remoteNotebooks'[b] = remoteNotebooks[b]
          \/ /\ remoteNotebooks'[b].usn = updateCount + 1
             /\ Writable(remoteNotebooks[b])
    /\ UNCHANGED <<db, blacklist, process, faults, edits>>

\* Each kind of change on the server is of the form above.
LEMMA AccountHasShape == Typed /\ AccountChanges => AccountShape
<1> SUFFICES ASSUME Typed, AccountChanges PROVE AccountShape
  OBVIOUS
<1> USE DEF Typed, TypeOK, Change, AccountShape, Writable
<1>1. ASSUME NEW n \in Notes, NEW b \in Notebooks, PutNote(n, b) PROVE AccountShape
  BY <1>1 DEF PutNote
<1>2. ASSUME NEW n \in Notes, ExpungeNote(n) PROVE AccountShape
  BY <1>2 DEF ExpungeNote
<1>3. ASSUME NEW b \in Notebooks, PutNotebook(b) PROVE AccountShape
  BY <1>3 DEF PutNotebook
<1>4. ASSUME NEW b \in Notebooks, ExpungeNotebook(b) PROVE AccountShape
  BY <1>4 DEF ExpungeNotebook
<1> QED
  BY <1>1, <1>2, <1>3, <1>4 DEF AccountChanges

\* The account may change at any moment of a sync without making the saved
\* number, the chunk in hand or a finished download wrong.
LEMMA AccountSafe == IInv /\ AccountChanges => IInv'
<1> SUFFICES ASSUME IInv, AccountChanges PROVE IInv'
  OBVIOUS
<1>0. Typed /\ Typed' /\ AccountShape
  BY AccountTyped, AccountHasShape DEF IInv, InFlightSound, Typed
<1> USE <1>0 DEF AccountShape, db, process
<1>n. ASSUME NEW n \in Notes, remoteNotes'[n] # remoteNotes[n]
      PROVE  /\ updateCount < remoteNotes'[n].usn
             /\ remoteNotes[n].usn \in Nat
             /\ remoteNotes[n].usn < remoteNotes'[n].usn
             /\ USN < remoteNotes'[n].usn
             /\ Writable(remoteNotes[n])
  BY <1>n DEF Typed, TypeOK, Numbered
<1>b. ASSUME NEW b \in Notebooks, remoteNotebooks'[b] # remoteNotebooks[b]
      PROVE  /\ updateCount < remoteNotebooks'[b].usn
             /\ USN < remoteNotebooks'[b].usn
             /\ Writable(remoteNotebooks[b])
  BY <1>b DEF Typed, TypeOK, Numbered
<1>1. CursorSound'
  <2>1. ASSUME NEW n \in Notes, remoteNotes'[n].usn \in 1 .. USN
        PROVE  NoteReflected(n)'
    <3>1. remoteNotes'[n] = remoteNotes[n]
      BY <2>1, <1>n DEF Typed, TypeOK
    <3> QED
      BY <3>1, <2>1 DEF IInv, CursorSound, NoteReflected
  <2>2. ASSUME NEW b \in Notebooks, remoteNotebooks'[b].usn \in 1 .. USN
        PROVE  NotebookReflected(b)'
    <3>1. remoteNotebooks'[b] = remoteNotebooks[b]
      BY <2>2, <1>b DEF Typed, TypeOK
    <3> QED
      BY <3>1, <2>2 DEF IInv, CursorSound, NotebookReflected
  <2> QED
    BY <2>1, <2>2 DEF CursorSound
<1>2. ASSUME pc \in Processing
      PROVE  /\ USN \in Nat /\ chunk.chunkHighUSN \in Nat /\ chunk.updateCount \in Nat
             /\ chunk.chunkHighUSN <= updateCount
             /\ IsSyncChunk(chunk)
  BY <1>2 DEF IInv, InFlightSound, ChunkSound, Typed, TypeOK, IsSyncChunk, Processing
<1>wn. ASSUME pc \in Processing, NEW n \in Notes, InWindow(remoteNotes[n].usn)'
       PROVE  remoteNotes'[n] = remoteNotes[n] /\ InWindow(remoteNotes[n].usn)
  BY <1>2, <1>n, <1>wn DEF InWindow, Typed, TypeOK
<1>wb. ASSUME pc \in Processing, NEW b \in Notebooks, InWindow(remoteNotebooks[b].usn)'
       PROVE  /\ remoteNotebooks'[b] = remoteNotebooks[b]
              /\ InWindow(remoteNotebooks[b].usn)
  BY <1>2, <1>b, <1>wb DEF InWindow, Typed, TypeOK
<1>3. ASSUME pc \in Processing PROVE ChunkNotesExact'
  <2> ChunkNotesExact
    BY <1>3 DEF IInv, InFlightSound, ChunkSound
  <2>1. ASSUME NEW n \in Notes, InWindow(remoteNotes[n].usn)'
        PROVE IF remoteNotes'[n].live
              THEN n \in DOMAIN chunk.notes /\ chunk.notes[n] = remoteNotes'[n].nb
              ELSE n \in chunk.expungedNotes
    BY <1>3, <1>wn, <2>1 DEF ChunkNotesExact
  <2>2. ASSUME NEW n \in DOMAIN chunk.notes
        PROVE  /\ USN < remoteNotes'[n].usn
               /\ InWindow(remoteNotes[n].usn)' => remoteNotes'[n].live
    BY <1>2, <1>3, <1>n, <1>wn DEF ChunkNotesExact, IsSyncChunk
  <2>3. ASSUME NEW n \in chunk.expungedNotes
        PROVE  USN < remoteNotes'[n].usn /\ ~ remoteNotes'[n].live
    BY <1>2, <1>3, <1>n DEF ChunkNotesExact, IsSyncChunk, Writable
  <2> QED
    BY <2>1, <2>2, <2>3 DEF ChunkNotesExact
<1>4. ASSUME pc \in Processing PROVE ChunkNotebooksExact'
  <2> ChunkNotebooksExact
    BY <1>4 DEF IInv, InFlightSound, ChunkSound
  <2>1. ASSUME NEW b \in Notebooks, InWindow(remoteNotebooks[b].usn)'
        PROVE IF remoteNotebooks'[b].live
              THEN /\ b \in DOMAIN chunk.notebooks
                   /\ chunk.notebooks[b] = remoteNotebooks'[b].usn
              ELSE b \in chunk.expungedNotebooks
    BY <1>4, <1>wb, <2>1 DEF ChunkNotebooksExact
  <2>2. ASSUME NEW b \in DOMAIN chunk.notebooks
        PROVE  /\ USN < remoteNotebooks'[b].usn
               /\ InWindow(remoteNotebooks[b].usn)' => remoteNotebooks'[b].live
    BY <1>2, <1>4, <1>b, <1>wb DEF ChunkNotebooksExact, IsSyncChunk
  <2>3. ASSUME NEW b \in chunk.expungedNotebooks
        PROVE  USN < remoteNotebooks'[b].usn /\ ~ remoteNotebooks'[b].live
    BY <1>2, <1>4, <1>b DEF ChunkNotebooksExact, IsSyncChunk, Writable
  <2> QED
    BY <2>1, <2>2, <2>3 DEF ChunkNotebooksExact
<1>5. ChunkSound'
  BY <1>2, <1>3, <1>4 DEF IInv, InFlightSound, ChunkSound, Typed, TypeOK
<1>6. ChunkApplied'
  <2>1. ASSUME pc \in Processing, NEW n \in Notes, InWindow(remoteNotes[n].usn)'
        PROVE  /\ InWindow(remoteNotes[n].usn)
               /\ remoteNotes'[n].live <=> remoteNotes[n].live
               /\ NoteReflected(n) => NoteReflected(n)'
    BY <2>1, <1>wn DEF NoteReflected
  <2>2. ASSUME pc \in Processing, NEW b \in Notebooks, InWindow(remoteNotebooks[b].usn)'
        PROVE  /\ InWindow(remoteNotebooks[b].usn)
               /\ remoteNotebooks'[b].live <=> remoteNotebooks[b].live
               /\ NotebookReflected(b) => NotebookReflected(b)'
    BY <2>2, <1>wb DEF NotebookReflected
  <2> QED
    BY <2>1, <2>2 DEF IInv, InFlightSound, ChunkApplied, Processing
<1>7. ResultsSound'
  BY <1>n DEF IInv, InFlightSound, ResultsSound, Typed, TypeOK, NoteContent
<1>8. TodoSound'
  BY DEF IInv, InFlightSound, TodoSound
<1> QED
  BY <1>1, <1>5, <1>6, <1>7, <1>8 DEF IInv, InFlightSound, Typed

----------------------------------------------------------------------------
(* The steps of sync().                                                    *)

\* A step that leaves the account and the database alone, and after which no
\* chunk is being processed, only has to account for the downloads.
LEMMA QuietSafe ==
    ASSUME IInv, Typed', UNCHANGED <<account, db>>, pc' \notin Processing,
           ResultsSound', TodoSound'
    PROVE  IInv'
<1>1. CursorSound'
  BY DEF IInv, CursorSound, NoteReflected, NotebookReflected, account, db
<1> QED
  BY <1>1 DEF IInv, InFlightSound, Typed, ChunkSound, ChunkApplied, Processing

\* Outside the download phase there is nothing to store.
LEMMA IdleDownloads == IInv /\ pc # "download" => todo = {} /\ results = NoResults
  BY DEF IInv, InFlightSound, TypeOK, TodoSound, ResultsSound, NoResults

\* The steps of sync() that process no chunk keep the invariant: in the
\* download phase a stale result is stored only over a note to be rescanned.
LEMMA DownloadSafe == IInv /\ (StartSync \/ Collect \/ Download) => IInv'
<1> SUFFICES ASSUME IInv, StartSync \/ Collect \/ Download PROVE IInv'
  OBVIOUS
<1>0. Typed /\ Typed'
  BY SyncTyped DEF IInv, InFlightSound, Typed, Sync
<1>1. CASE StartSync
  <2>1. ResultsSound' /\ TodoSound'
    BY <1>1, IdleDownloads
    DEF StartSync, IInv, InFlightSound, ResultsSound, TodoSound, NoResults, account, db
  <2> QED
    BY <1>0, <1>1, <2>1, QuietSafe DEF StartSync, account, db, Processing
<1>2. CASE Collect
  <2>1. todo = {} /\ results = NoResults
    BY <1>2, IdleDownloads DEF Collect
  <2>2. ResultsSound'
    BY <1>2, <2>1 DEF Collect, ResultsSound, NoResults
  <2>3. TodoSound'
    BY <1>2 DEF Collect, TodoSound, NotesToSync, get_notes_for_sync, IsPending, db
  <2> QED
    BY <1>0, <1>2, <2>2, <2>3, QuietSafe DEF Collect, account, db, Processing
<1>3. ASSUME NEW n \in Notes, Downloaded(n) PROVE IInv'
  <2>1. ResultsSound'
    BY <1>0, <1>3
    DEF Downloaded, IInv, InFlightSound, ResultsSound, account, db, Typed, TypeOK
  <2>2. TodoSound'
    BY <1>3 DEF Downloaded, IInv, InFlightSound, TodoSound, db
  <2> QED
    BY <1>0, <1>3, <2>1, <2>2, QuietSafe DEF Downloaded, account, db, Processing
<1>4. ASSUME NEW n \in Notes, Skipped(n) PROVE IInv'
  <2>1. ResultsSound'
    BY <1>0, <1>4 DEF Skipped, IInv, InFlightSound, ResultsSound, account, db
  <2>2. TodoSound'
    BY <1>4 DEF Skipped, IInv, InFlightSound, TodoSound, db
  <2> QED
    BY <1>0, <1>4, <2>1, <2>2, QuietSafe DEF Skipped, account, db, Processing
<1>5. ASSUME NEW n \in Notes, Store(n) PROVE IInv'
  <2> USE <1>5 DEF Store
  <2>1. \A m \in Notes \ {n} : notes'[m] = notes[m] /\ results'[m] = results[m]
    BY <1>0 DEF Typed, TypeOK, add_note
  <2>2. /\ notes'[n] = [notebook_guid |-> results[n].nb, raw_note |-> results[n].usn]
        /\ results'[n] = None
    BY <1>0 DEF Typed, TypeOK, add_note
  <2>3. remoteNotes[n].usn \in 1 .. USN => NoteReflected(n)'
    <3>1. results[n] \in NoteContent /\ results[n] \in [usn : Nat \ {0}, nb : Notebooks]
      BY <1>0 DEF Typed, TypeOK, NoteContent
    <3>2. notes'[n] # None
      BY <3>1, <2>2, NoneAssumption DEF NoteRow
    <3> HAVE remoteNotes[n].usn \in 1 .. USN
    <3>3. /\ remoteNotes[n].live
          /\ results[n] = [usn |-> remoteNotes[n].usn, nb |-> remoteNotes[n].nb]
      BY <1>0 DEF IInv, InFlightSound, ResultsSound, Typed, TypeOK
    <3> QED
      BY <2>2, <3>2, <3>3 DEF NoteReflected, account
  <2>4. CursorSound'
    BY <2>1, <2>3
    DEF IInv, CursorSound, NoteReflected, NotebookReflected, account
  <2>5. ResultsSound'
    BY <2>1, <2>2 DEF IInv, InFlightSound, ResultsSound, account
  <2>6. TodoSound'
    BY <1>0, <2>1 DEF IInv, InFlightSound, TodoSound, IsPending, Typed, TypeOK
  <2> QED
    BY <1>0, <2>4, <2>5, <2>6
    DEF IInv, InFlightSound, ChunkSound, ChunkApplied, Processing, Typed
<1>6. CASE FinishSync
  <2>1. ResultsSound' /\ TodoSound'
    BY <1>6 DEF FinishSync, IInv, InFlightSound, ResultsSound, TodoSound, account, db
  <2> QED
    BY <1>0, <1>6, <2>1, QuietSafe DEF FinishSync, account, db, Processing
<1> QED
  BY <1>1, <1>2, <1>3, <1>4, <1>5, <1>6 DEF Download

\* While a chunk is processed it is well formed.
LEMMA ChunkIsTyped ==
    ASSUME IInv, pc \in Processing
    PROVE  /\ IsSyncChunk(chunk) /\ ChunkNotesExact /\ ChunkNotebooksExact
           /\ USN \in Nat /\ chunk.chunkHighUSN \in Nat /\ updateCount \in Nat
           /\ USN < chunk.chunkHighUSN /\ chunk.chunkHighUSN <= updateCount
           /\ todo = {} /\ results = NoResults
<1>1. IsSyncChunk(chunk)
  BY DEF IInv, TypeOK, Processing
<1>2. todo = {} /\ results = NoResults
  BY IdleDownloads DEF Processing
<1> QED
  BY <1>1, <1>2 DEF IInv, InFlightSound, TypeOK, ChunkSound, IsSyncChunk

\* A transaction of _process_chunk leaves the account, the saved number, the
\* chunk and the downloads as they are; what it writes is left to show.
LEMMA TransactionSafe ==
    ASSUME IInv, Typed', pc \in Processing, pc' \in Processing,
           UNCHANGED <<account, USN, blacklist, chunk, todo, results>>,
           CursorSound', ChunkApplied'
    PROVE  IInv'
<1>1. ChunkSound'
  BY DEF IInv, InFlightSound, ChunkSound, ChunkNotesExact, ChunkNotebooksExact,
         InWindow, account
<1>2. ResultsSound' /\ TodoSound'
  BY ChunkIsTyped DEF ResultsSound, TodoSound, NoResults
<1> QED
  BY <1>1, <1>2 DEF IInv, InFlightSound, Typed

\* The transactions of _process_chunk, in their order, keep the invariant:
\* when the number is saved, everything up to it is in the tables.
LEMMA ProcessChunkSafe == IInv /\ (GetChunk \/ ProcessChunk) => IInv'
<1> SUFFICES ASSUME IInv, GetChunk \/ ProcessChunk PROVE IInv'
  OBVIOUS
<1>0. Typed /\ Typed'
  BY SyncTyped DEF IInv, InFlightSound, Typed, Sync
<1>1. CASE GetChunk
  <2> USE <1>1 DEF GetChunk
  <2> PICK high \in (USN + 1) .. updateCount : chunk' = SyncChunk(USN, high)
    OBVIOUS
  <2>0. USN \in Nat /\ updateCount \in Nat /\ high \in Nat /\ USN < high
    BY <1>0 DEF Typed, TypeOK
  <2>1. CursorSound'
    BY DEF IInv, CursorSound, NoteReflected, NotebookReflected, account, db
  <2>2. \A usn \in Nat : InWindow(usn)' <=> USN < usn /\ usn <= high
    BY DEF InWindow, SyncChunk, db
  <2>3. ChunkNotesExact'
    BY <1>0, <2>0, <2>2
    DEF ChunkNotesExact, SyncChunk, Within, Typed, TypeOK, account, db
  <2>4. ChunkNotebooksExact'
    BY <1>0, <2>0, <2>2
    DEF ChunkNotebooksExact, SyncChunk, Within, Typed, TypeOK, account, db
  <2>5. ChunkSound'
    BY <2>0, <2>3, <2>4 DEF ChunkSound, SyncChunk, account, db
  <2>6. ChunkApplied'
    BY DEF ChunkApplied
  <2>7. ResultsSound' /\ TodoSound'
    BY IdleDownloads DEF ResultsSound, TodoSound, NoResults
  <2> QED
    BY <1>0, <2>1, <2>5, <2>6, <2>7 DEF IInv, InFlightSound, Typed
<1>2. CASE ExpungeNotebooks
  <2> USE <1>2 DEF ExpungeNotebooks, account
  <2>0. pc \in Processing /\ pc' \in Processing
    BY DEF Processing
  <2>1. CursorSound'
    BY <1>0, <2>0, ChunkIsTyped
    DEF IInv, CursorSound, NoteReflected, NotebookReflected, expunge_notebooks,
        ChunkNotebooksExact, Typed, TypeOK
  <2>2. ChunkApplied'
    BY <1>0, <2>0, ChunkIsTyped
    DEF ChunkApplied, NotebookReflected, expunge_notebooks, ChunkNotebooksExact, InWindow
  <2> QED
    BY <1>0, <2>0, <2>1, <2>2, TransactionSafe
<1>3. CASE ExpungeNotes
  <2> USE <1>3 DEF ExpungeNotes, account
  <2>0. pc \in Processing /\ pc' \in Processing
    BY DEF Processing
  <2>1. CursorSound'
    BY <1>0, <2>0, ChunkIsTyped
    DEF IInv, CursorSound, NoteReflected, NotebookReflected, expunge_notes,
        ChunkNotesExact, Typed, TypeOK
  <2>2. ChunkApplied'
    BY <1>0, <2>0, ChunkIsTyped
    DEF IInv, InFlightSound, ChunkApplied, NoteReflected, NotebookReflected,
        expunge_notes, ChunkNotesExact, InWindow
  <2> QED
    BY <1>0, <2>0, <2>1, <2>2, TransactionSafe
<1>4. CASE AddNotebooks
  <2> USE <1>4 DEF AddNotebooks, account
  <2>0. pc \in Processing /\ pc' \in Processing
    BY DEF Processing
  <2>1. CursorSound'
    BY <1>0, <2>0, ChunkIsTyped
    DEF IInv, CursorSound, NoteReflected, NotebookReflected, add_notebooks,
        ChunkNotebooksExact, Typed, TypeOK
  <2>2. ChunkApplied'
    BY <1>0, <2>0, ChunkIsTyped
    DEF IInv, InFlightSound, ChunkApplied, NoteReflected, NotebookReflected,
        add_notebooks, ChunkNotebooksExact, InWindow
  <2> QED
    BY <1>0, <2>0, <2>1, <2>2, TransactionSafe
<1>5. CASE AddNotes
  <2> USE <1>5 DEF AddNotes, account
  <2>0. pc \in Processing /\ pc' \in Processing
    BY DEF Processing
  <2>1. CursorSound'
    BY <1>0, <2>0, ChunkIsTyped
    DEF IInv, CursorSound, NoteReflected, NotebookReflected, add_notes_for_sync,
        ChunkNotesExact, Typed, TypeOK
  <2>2. ASSUME NEW n \in Notes, InWindow(remoteNotes[n].usn)
        PROVE  NoteReflected(n)'
    <3>1. CASE remoteNotes[n].live
      <4>1. n \in DOMAIN chunk.notes /\ chunk.notes[n] = remoteNotes[n].nb
        BY <2>0, <2>2, <3>1, ChunkIsTyped DEF ChunkNotesExact
      <4>2. chunk.notes[n] \in Notebooks
        BY <2>0, <4>1, ChunkIsTyped DEF IsSyncChunk
      <4>3. notes'[n] = [notebook_guid |-> chunk.notes[n], raw_note |-> NULL]
        BY <4>1 DEF add_notes_for_sync
      <4>4. notes'[n] # None
        BY <4>2, <4>3, NoneAssumption DEF NoteRow, NULL
      <4> QED
        BY <3>1, <4>1, <4>3, <4>4 DEF NoteReflected
    <3>2. CASE ~ remoteNotes[n].live
      <4>1. n \notin DOMAIN chunk.notes
        BY <2>0, <2>2, <3>2, ChunkIsTyped DEF ChunkNotesExact
      <4>2. NoteReflected(n)
        BY <2>2, <3>2 DEF IInv, InFlightSound, ChunkApplied
      <4> QED
        BY <3>2, <4>1, <4>2 DEF NoteReflected, add_notes_for_sync
    <3> QED
      BY <3>1, <3>2
  <2>3. ChunkApplied'
    BY <2>2 DEF IInv, InFlightSound, ChunkApplied, NotebookReflected, InWindow
  <2> QED
    BY <1>0, <2>0, <2>1, <2>3, TransactionSafe
<1>6. CASE SetUSN
  <2> USE <1>6 DEF SetUSN, account
  <2>0. pc \in Processing /\ pc' \notin Processing
    BY DEF Processing
  <2>1. USN' = chunk.chunkHighUSN /\ USN \in Nat /\ chunk.chunkHighUSN \in Nat
    BY <2>0, ChunkIsTyped
  <2>2. ASSUME NEW n \in Notes, remoteNotes[n].usn \in 1 .. USN'
        PROVE  NoteReflected(n)'
    <3>1. remoteNotes[n].usn \in 1 .. USN \/ InWindow(remoteNotes[n].usn)
      BY <1>0, <2>1, <2>2 DEF InWindow, Typed, TypeOK
    <3>2. NoteReflected(n)
      BY <3>1 DEF IInv, InFlightSound, ChunkApplied, CursorSound
    <3> QED
      BY <3>2 DEF NoteReflected
  <2>3. ASSUME NEW b \in Notebooks, remoteNotebooks[b].usn \in 1 .. USN'
        PROVE  NotebookReflected(b)'
    <3>1. remoteNotebooks[b].usn \in 1 .. USN \/ InWindow(remoteNotebooks[b].usn)
      BY <1>0, <2>1, <2>3 DEF InWindow, Typed, TypeOK
    <3>2. NotebookReflected(b)
      BY <3>1 DEF IInv, InFlightSound, ChunkApplied, CursorSound
    <3> QED
      BY <3>2 DEF NotebookReflected
  <2>4. CursorSound'
    BY <2>2, <2>3 DEF CursorSound
  <2>5. ResultsSound' /\ TodoSound'
    BY <2>0, ChunkIsTyped DEF ResultsSound, TodoSound, NoResults
  <2> QED
    BY <1>0, <2>0, <2>4, <2>5
    DEF IInv, InFlightSound, Typed, ChunkSound, ChunkApplied, Processing
<1> QED
  BY <1>1, <1>2, <1>3, <1>4, <1>5, <1>6 DEF ProcessChunk

----------------------------------------------------------------------------
(* The inductive invariant and what follows from it.                       *)

\* The invariant holds before the first run.
LEMMA InitIInv == Init => IInv
<1> SUFFICES ASSUME Init PROVE IInv
  OBVIOUS
<1>1. Typed
  BY InitTyped
<1>2. CursorSound
  BY DEF Init, CursorSound
<1>3. ChunkSound /\ ChunkApplied /\ ResultsSound /\ TodoSound
  BY DEF Init, ChunkSound, ChunkApplied, ResultsSound, TodoSound, NoResults, Processing
<1> QED
  BY <1>1, <1>2, <1>3 DEF Typed, IInv, InFlightSound

\* Every step keeps it, a death between two transactions included.
LEMMA StepIInv == IInv /\ [Next]_vars => IInv'
<1> SUFFICES ASSUME IInv, [Next]_vars PROVE IInv'
  OBVIOUS
<1>0. Typed'
  BY NextTyped DEF IInv, InFlightSound, Typed
<1>1. CASE Die
  <2>1. ResultsSound' /\ TodoSound'
    BY <1>1 DEF Die, ResultsSound, TodoSound, NoResults
  <2> QED
    BY <1>0, <1>1, <2>1, QuietSafe DEF Die, Processing
<1>2. CASE ManageBlacklist
  <2>1. ResultsSound' /\ TodoSound'
    BY <1>2, IdleDownloads
    DEF ManageBlacklist, ResultsSound, TodoSound, NoResults, process
  <2> QED
    BY <1>0, <1>2, <2>1, QuietSafe DEF ManageBlacklist, process, Processing
<1>3. CASE UNCHANGED vars
  <2> USE <1>3 DEF vars, account, db, process
  <2>1. CursorSound'
    BY DEF IInv, CursorSound, NoteReflected, NotebookReflected
  <2>2. ChunkSound'
    BY DEF IInv, InFlightSound, ChunkSound, ChunkNotesExact, ChunkNotebooksExact, InWindow
  <2>3. ChunkApplied'
    BY DEF IInv, InFlightSound, ChunkApplied, NoteReflected, NotebookReflected, InWindow
  <2>4. ResultsSound' /\ TodoSound'
    BY DEF IInv, InFlightSound, ResultsSound, TodoSound
  <2> QED
    BY <1>0, <2>1, <2>2, <2>3, <2>4 DEF IInv, InFlightSound, Typed
<1> QED
  BY <1>1, <1>2, <1>3, AccountSafe, DownloadSafe, ProcessChunkSafe DEF Next, Sync

\* The inductive invariant holds in every reachable state.
THEOREM Invariance == Spec => []IInv
  BY InitIInv, StepIInv, PTL DEF Spec

\* Every variable of the model keeps its type: in particular a run that dies
\* leaves no half-written row behind and a chunk is in hand exactly while it
\* is being processed (note_synchronizer.py, _sync_chunks).
THEOREM TypeCorrect == Spec => []TypeOK
<1>1. IInv => TypeOK
  BY DEF IInv
<1> QED
  BY <1>1, Invariance, PTL

\* The saved USN never runs ahead of the tables, however the account changes
\* between and during chunks and wherever a run is cut off
\* (note_synchronizer.py, _sync_chunks and _process_chunk).
THEOREM CursorIsSound == Spec => []CursorSound
<1>1. IInv => CursorSound
  BY DEF IInv
<1> QED
  BY <1>1, Invariance, PTL

\* What is in flight never contradicts the account: the strengthening that
\* makes CursorSound inductive, and a property in its own right.
THEOREM InFlightIsSound == Spec => []InFlightSound
<1>1. IInv => InFlightSound
  BY DEF IInv
<1> QED
  BY <1>1, Invariance, PTL

----------------------------------------------------------------------------
(* What a single step may do to the row of a note.                         *)

Dropped(n) == notes'[n] = None /\ remoteNotes[n].usn > 0 /\ ~ remoteNotes[n].live

Scheduled(n) == IsPending(notes'[n]) /\ USN < remoteNotes[n].usn

Filled(n) ==
    /\ n \in todo /\ IsPending(notes[n])
    /\ Holds(notes'[n])
    /\ notes'[n].raw_note \in 1 .. remoteNotes[n].usn
    /\ \/ notes'[n].raw_note = remoteNotes[n].usn
       \/ USN < remoteNotes[n].usn

LEMMA RowStep ==
    ASSUME IInv, [Next]_vars, NEW n \in Notes
    PROVE  notes'[n] = notes[n] \/ Dropped(n) \/ Scheduled(n) \/ Filled(n)
<1>1. CASE notes' = notes
  BY <1>1
<1>2. CASE ExpungeNotes
  <2>1. pc \in Processing
    BY <1>2 DEF ExpungeNotes, Processing
  <2>2. CASE n \in chunk.expungedNotes
    <3>1. USN < remoteNotes[n].usn /\ ~ remoteNotes[n].live
      BY <2>1, <2>2, ChunkIsTyped DEF ChunkNotesExact
    <3>2. USN \in Nat /\ remoteNotes[n].usn \in Nat
      BY DEF IInv, TypeOK
    <3>3. notes'[n] = None
      BY <1>2, <2>2 DEF ExpungeNotes, expunge_notes
    <3> QED
      BY <3>1, <3>2, <3>3 DEF Dropped
  <2>3. CASE n \notin chunk.expungedNotes
    BY <1>2, <2>3 DEF ExpungeNotes, expunge_notes
  <2> QED
    BY <2>2, <2>3
<1>3. CASE AddNotes
  <2>1. pc \in Processing
    BY <1>3 DEF AddNotes, Processing
  <2>2. CASE n \in DOMAIN chunk.notes
    <3>1. chunk.notes[n] \in Notebooks /\ USN < remoteNotes[n].usn
      BY <2>1, <2>2, ChunkIsTyped DEF ChunkNotesExact, IsSyncChunk
    <3>2. notes'[n] = [notebook_guid |-> chunk.notes[n], raw_note |-> NULL]
      BY <1>3, <2>2 DEF AddNotes, add_notes_for_sync
    <3>3. notes'[n] # None
      BY <3>1, <3>2, NoneAssumption DEF NoteRow, NULL
    <3> QED
      BY <3>1, <3>2, <3>3 DEF Scheduled, IsPending
  <2>3. CASE n \notin DOMAIN chunk.notes
    BY <1>3, <2>3 DEF AddNotes, add_notes_for_sync
  <2> QED
    BY <2>2, <2>3
<1>4. ASSUME NEW m \in Notes, Store(m)
      PROVE  notes'[n] = notes[n] \/ Filled(n)
  <2>1. CASE m = n
    <3>1. /\ results[n] \in [usn : Nat \ {0}, nb : Notebooks]
          /\ remoteNotes[n].usn \in Nat /\ USN \in Nat
      BY <1>4, <2>1 DEF Store, IInv, TypeOK, NoteContent
    <3>2. notes'[n] = [notebook_guid |-> results[n].nb, raw_note |-> results[n].usn]
      BY <1>4, <2>1 DEF Store, add_note, IInv, TypeOK
    <3>3. Holds(notes'[n])
      <4>1. notes'[n] \in NoteRow
        BY <3>1, <3>2 DEF NoteRow
      <4>2. notes'[n].raw_note # NULL
        BY <3>1, <3>2 DEF NULL
      <4> QED
        BY <4>1, <4>2, NoneAssumption DEF Holds
    <3>4. n \in todo /\ IsPending(notes[n])
      BY <1>4, <2>1 DEF Store, IInv, InFlightSound, ResultsSound, TodoSound
    <3>5. \/ results[n].usn = remoteNotes[n].usn
          \/ results[n].usn < remoteNotes[n].usn /\ USN < remoteNotes[n].usn
      <4>1. results[n] # None
        BY <1>4, <2>1 DEF Store
      <4>2. CASE results[n] = [usn |-> remoteNotes[n].usn, nb |-> remoteNotes[n].nb]
        BY <4>2
      <4> QED
        BY <4>1, <4>2 DEF IInv, InFlightSound, ResultsSound
    <3> QED
      BY <3>1, <3>2, <3>3, <3>4, <3>5 DEF Filled
  <2>2. CASE m # n
    BY <1>4, <2>2 DEF Store, add_note, IInv, TypeOK
  <2> QED
    BY <2>1, <2>2
<1> QED
  BY <1>1, <1>2, <1>3, <1>4
  DEF Next, AccountChanges, PutNote, ExpungeNote, PutNotebook, ExpungeNotebook, Change,
      Sync, StartSync, GetChunk, ProcessChunk, ExpungeNotebooks, AddNotebooks, SetUSN,
      Collect, Download, Downloaded, Skipped, FinishSync, Die, ManageBlacklist, vars, db

\* A sync never deletes a note that still exists in the account, whichever
\* chunk its deletion came from (note_synchronizer.py, _expunge).
THEOREM DeletesOnlyExpunged == Spec => OnlyExpungedDeleted
<1>1. IInv /\ [Next]_vars =>
        [\A n \in Notes : notes[n] # None /\ notes'[n] = None
            => remoteNotes[n].usn > 0 /\ ~ remoteNotes[n].live]_vars
  <2> SUFFICES ASSUME IInv, [Next]_vars, NEW n \in Notes,
                      notes[n] # None, notes'[n] = None
               PROVE  remoteNotes[n].usn > 0 /\ ~ remoteNotes[n].live
    OBVIOUS
  <2> QED
    BY RowStep DEF Dropped, Scheduled, Filled, IsPending, Holds
<1> QED
  BY <1>1, Invariance, PTL DEF Spec, OnlyExpungedDeleted

\* Content is given up for a re-download only for a change beyond the saved
\* number (note_storage.py, add_notes_for_sync replaces the whole row).
THEOREM KeepsContent == Spec => WipedOnlyWhenChanged
<1>1. IInv /\ [Next]_vars =>
        [\A n \in Notes : Holds(notes[n]) /\ IsPending(notes'[n])
            => remoteNotes[n].usn > USN]_vars
  <2> SUFFICES ASSUME IInv, [Next]_vars, NEW n \in Notes,
                      Holds(notes[n]), IsPending(notes'[n])
               PROVE  remoteNotes[n].usn > USN
    OBVIOUS
  <2>1. USN \in Nat /\ remoteNotes[n].usn \in Nat
    BY DEF IInv, TypeOK
  <2> QED
    BY <2>1, RowStep DEF Dropped, Scheduled, Filled, IsPending, Holds
<1> QED
  BY <1>1, Invariance, PTL DEF Spec, WipedOnlyWhenChanged

\* Nothing the blacklist names is downloaded into the database
\* (note_synchronizer.py, _filter_blacklisted_notes).
THEOREM HonoursBlacklist == Spec => BlacklistHonoured
<1>1. IInv /\ [Next]_vars =>
        [\A n \in Notes : IsPending(notes[n]) /\ Holds(notes'[n])
            => /\ n \notin blacklist.notes
               /\ notes[n].notebook_guid \notin blacklist.notebooks]_vars
  <2> SUFFICES ASSUME IInv, [Next]_vars, NEW n \in Notes,
                      IsPending(notes[n]), Holds(notes'[n])
               PROVE  /\ n \notin blacklist.notes
                      /\ notes[n].notebook_guid \notin blacklist.notebooks
    OBVIOUS
  <2>1. Filled(n)
    BY RowStep DEF Dropped, Scheduled, IsPending, Holds
  <2> QED
    BY <2>1 DEF Filled, IInv, InFlightSound, TodoSound
<1> QED
  BY <1>1, Invariance, PTL DEF Spec, BlacklistHonoured

----------------------------------------------------------------------------
(* The synchronizer implements the contract of BackupContract.             *)

Copy(row) == IF row = None THEN None ELSE row.raw_note

\* A change of the account renumbers at most one note, one that may change.
LEMMA OneNoteChanges ==
    ASSUME Typed, AccountChanges
    PROVE  \E S \in SUBSET Notes :
              /\ \A n, m \in S : n = m
              /\ \A n \in S : /\ remoteNotes'[n].usn = updateCount + 1
                              /\ remoteNotes[n].live \/ remoteNotes[n].usn = 0
              /\ \A n \in Notes \ S : remoteNotes'[n] = remoteNotes[n]
<1> DEFINE P(S) == /\ \A n, m \in S : n = m
                   /\ \A n \in S : /\ remoteNotes'[n].usn = updateCount + 1
                                   /\ remoteNotes[n].live \/ remoteNotes[n].usn = 0
                   /\ \A n \in Notes \ S : remoteNotes'[n] = remoteNotes[n]
<1> USE DEF Typed, TypeOK
<1>1. ASSUME NEW n \in Notes, NEW b \in Notebooks, PutNote(n, b) PROVE P({n})
  BY <1>1 DEF PutNote, Writable
<1>2. ASSUME NEW n \in Notes, ExpungeNote(n) PROVE P({n})
  BY <1>2 DEF ExpungeNote
<1>3. ASSUME remoteNotes' = remoteNotes PROVE P({})
  BY <1>3
<1>4. \/ \E n \in Notes : P({n})
      \/ P({})
  BY <1>1, <1>2, <1>3 DEF AccountChanges, PutNotebook, ExpungeNotebook
<1>5. \E S \in SUBSET Notes : P(S)
  <2> HIDE DEF P
  <2> QED
    BY <1>4
<1> QED
  BY <1>5

\* A row that is right for CursorSound is right for the contract.
LEMMA ReflectedCopy ==
    ASSUME NEW n \in Notes, NoteReflected(n)
    PROVE  IF remoteNotes[n].live
           THEN Copy(notes[n]) \in {0, remoteNotes[n].usn}
           ELSE Copy(notes[n]) = None
  BY DEF NoteReflected, Copy, NULL

\* Every behaviour of the synchronizer is one the contract allows: each step
\* is a change of the account, an acknowledgement, a set of allowed changes
\* of copies, or invisible (note_synchronizer.py, sync).
THEOREM ImplementsContract == Spec => KeepsContract
<1>1. Init => Contract!Init
  <2> SUFFICES ASSUME Init PROVE Contract!Init
    OBVIOUS
  <2> PICK home \in [Notes -> Notebooks] : remoteNotes =
           [n \in Notes |-> [usn |-> 0, live |-> FALSE, nb |-> home[n]]]
    BY DEF Init
  <2>1. \A n \in Notes : remoteNotes[n].usn = 0 /\ ~ remoteNotes[n].live
    OBVIOUS
  <2> QED
    BY <2>1 DEF Init, Contract!Init
<1>2. IInv /\ [Next]_vars => [Contract!Next]_(Contract!vars)
  <2> SUFFICES ASSUME IInv, [Next]_vars PROVE [Contract!Next]_(Contract!vars)
    OBVIOUS
  <2>0. Typed /\ IInv'
    BY StepIInv DEF IInv, InFlightSound, Typed
  <2>1. CASE AccountChanges
    <3>1. updateCount' = updateCount + 1 /\ notes' = notes /\ USN' = USN
      BY <2>0, <2>1, AccountHasShape DEF AccountShape, db
    <3>2. Contract!AccountChange
      BY <2>0, <2>1, <3>1, OneNoteChanges DEF Contract!AccountChange
    <3> QED
      BY <3>2 DEF Contract!Next
  <2>2. CASE SetUSN
    <3>1. pc \in Processing
      BY <2>2 DEF SetUSN, Processing
    <3>2. USN' \in (USN + 1) .. updateCount /\ USN' \in Nat
      BY <2>2, <3>1, ChunkIsTyped DEF SetUSN
    <3>3. UNCHANGED <<remoteNotes, updateCount, notes>>
      BY <2>2 DEF SetUSN, account
    <3>4. ASSUME NEW n \in Notes, remoteNotes[n].usn \in 1 .. USN'
          PROVE  Contract!Reflects(n)
      <4>1. NoteReflected(n)
        BY <2>0, <3>3, <3>4 DEF IInv, CursorSound, NoteReflected
      <4> QED
        BY <4>1, ReflectedCopy DEF Contract!Reflects, Copy
    <3> QED
      BY <3>2, <3>3, <3>4 DEF Contract!Next, Contract!Acknowledge
  <2>3. CASE UNCHANGED <<remoteNotes, updateCount, USN>>
    <3>1. ASSUME NEW n \in Notes
          PROVE  \/ Copy(notes'[n]) = Copy(notes[n])
                 \/ Copy(notes'[n]) = None /\ ~ remoteNotes[n].live
                 \/ Copy(notes'[n]) = 0 /\ remoteNotes[n].usn > USN
                 \/ /\ Copy(notes'[n]) \in 1 .. remoteNotes[n].usn
                    /\ \/ Copy(notes'[n]) = remoteNotes[n].usn
                       \/ remoteNotes[n].usn > USN
      <4>1. USN \in Nat /\ remoteNotes[n].usn \in Nat
        BY DEF IInv, TypeOK
      <4> QED
        BY <4>1, RowStep DEF Dropped, Scheduled, Filled, Copy, IsPending, Holds, NULL
    <3> QED
      BY <2>3, <3>1
      DEF Contract!Next, Contract!LocalChange, Contract!Drop, Contract!Schedule,
          Contract!Save, Copy
  <2> QED
    BY <2>1, <2>2, <2>3
    DEF Next, Sync, StartSync, GetChunk, ProcessChunk, ExpungeNotebooks, ExpungeNotes,
        AddNotebooks, AddNotes, Collect, Download, Downloaded, Skipped, Store, FinishSync,
        Die, ManageBlacklist, vars, account, db
<1> QED
  BY <1>1, <1>2, Invariance, PTL DEF Spec, KeepsContract, Contract!Spec
============================================================================
