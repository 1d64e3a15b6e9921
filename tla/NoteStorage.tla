---------------------------- MODULE NoteStorage ----------------------------
(***************************************************************************)
(* The tables of the local SQLite database and the methods of              *)
(* note_storage.py that change or query them.  Each method runs inside one *)
(* "with self.db as con" block, i.e. it is one transaction, so it is an    *)
(* operator from the old table to the new one.                             *)
(*                                                                         *)
(* A table is a function from every key that may exist to a row or to      *)
(* None.  The data of a note is the server version it was downloaded at;   *)
(* versions are update sequence numbers, which start at 1, so that 0 can   *)
(* stand for an SQL NULL in the raw_note column (is_active is NULL exactly *)
(* when raw_note is) and for a missing row of the notebooks table.         *)
(***************************************************************************)
EXTENDS Naturals

CONSTANTS Notes,      \* guids of notes
          Notebooks,  \* guids of notebooks
          None        \* no row, no result, no chunk

NULL == 0

\* A row of the notes table.
NoteRow == [notebook_guid : Notebooks, raw_note : Nat]

ASSUME NoneAssumption == /\ None \notin NoteRow
                         /\ None \notin Notebooks

\* A note as it is on the server, or on its way from there.
NoteContent == [usn : Nat \ {0}, nb : Notebooks]

ASSUME NoneIsNoContent == None \notin NoteContent

----------------------------------------------------------------------------
(* Table notes.                                                            *)

\* Fault: a scheduled note is not filed under its notebook.
add_notes_unfiled(notes, scheduled) ==
    [n \in Notes |-> IF n \in DOMAIN scheduled
                     THEN [notebook_guid |-> None, raw_note |-> NULL] ELSE notes[n]]

\* Every note of scheduled (a function from guids to notebook guids) gets a
\* fresh row: "replace" drops the row it had, content included.
add_notes_for_sync(notes, scheduled) ==
    [n \in Notes |->
        IF n \in DOMAIN scheduled
        THEN [notebook_guid |-> scheduled[n], raw_note |-> NULL]
        ELSE notes[n]]

add_note(notes, n, note) ==
    [notes EXCEPT ![n] = [notebook_guid |-> note.nb, raw_note |-> note.usn]]

expunge_notes(notes, guids) ==
    [n \in Notes |-> IF n \in guids THEN None ELSE notes[n]]

get_notes_for_sync(notes) ==
    {n \in Notes : notes[n] # None /\ notes[n].raw_note = NULL}

\* The rest of the methods are for notes of other accounts.
expunge_notes_by_notebook(notes, b, exclude_guids) ==
    expunge_notes(notes, {n \in Notes \ exclude_guids :
                             notes[n] # None /\ notes[n].notebook_guid = b})

rehome_notes_from_notebook(notes, from, to, only_guids) ==
    [n \in Notes |->
        IF n \in only_guids /\ notes[n] # None /\ notes[n].notebook_guid = from
        THEN [notes[n] EXCEPT !.notebook_guid = to]
        ELSE notes[n]]

mark_notes_for_redownload(notes, guids) ==
    [n \in Notes |-> IF n \in guids /\ notes[n] # None
                     THEN [notes[n] EXCEPT !.raw_note = NULL] ELSE notes[n]]

----------------------------------------------------------------------------
(* Table notebooks.  A row keeps the version it was written from.          *)

\* newer: a function from guids to versions.
add_notebooks(notebooks, newer) ==
    [b \in Notebooks |-> IF b \in DOMAIN newer THEN newer[b] ELSE notebooks[b]]

expunge_notebooks(notebooks, guids) ==
    [b \in Notebooks |-> IF b \in guids THEN 0 ELSE notebooks[b]]
============================================================================
