----------------------------- MODULE ForeignSync -----------------------------
(***************************************************************************)
(* NoteSynchronizer.sync() for the notes of other people, which reach the  *)
(* user along two paths: a linked notebook (a stream of its own, numbered  *)
(* like the user's account) and the share of a single note (the event      *)
(* stream of the second protocol).  A note may come along both.            *)
(*                                                                         *)
(* As in NoteSync a step of the program is one transaction or one answer   *)
(* of a server, and the program may die between any two.  A linked         *)
(* notebook and the notebook it stands for have the same name here, and a  *)
(* note does not leave its notebook.                                       *)
(***************************************************************************)
EXTENDS NoteStorage, SyncEvents

CONSTANTS SharedWithMe,  \* SHARED_WITH_ME_NOTEBOOK_GUID
          Home,          \* linked notebook of each note, or None
          MaxClock,      \* bound on the changes on the servers
          MaxFaults      \* bound on deaths of the program and failed downloads

Linked == Notebooks \ {SharedWithMe}

ASSUME HomeAssumption == /\ SharedWithMe \in Notebooks
                         /\ Home \in [Notes -> Linked \cup {None}]
                         /\ MaxClock \in Nat /\ MaxFaults \in Nat

VARIABLES
    clock,       \* one clock numbers the changes of all accounts
    remote,      \* note -> time of its last change, whether it is there, whether
                 \* it is shared with the user
    source,      \* linked notebook -> time of its last change as a notebook and
                 \* with its notes, whether the owner still shares it
    link,        \* linked notebook -> "none", "joined" or "left", and when left
    ownCount,    \* the account's highest update sequence number
    events,      \* all events of the second protocol
    notes,       \* table notes
    notebooks,   \* linked notebooks that have a row in table notebooks
    linked_usn,  \* table notebooks_linked: usn, or None without a row
    shared_notes, \* table shared_notes
    USN,         \* config value "USN"
    connection,  \* config value "last_connection_shared_notes"
    pc, chunk, ahead, cur, after, listed, todo, results,  \* the running sync()
    faults

servers == <<clock, remote, source, link, ownCount, events>>
tables  == <<notes, notebooks, linked_usn, shared_notes>>
cursors == <<USN, connection>>
process == <<pc, chunk, ahead, cur, after, listed, todo, results>>
vars    == <<servers, tables, cursors, process, faults>>

NoResults == [n \in Notes |-> None]

Init ==
    /\ clock = 1
    /\ remote = [n \in Notes |-> [usn |-> 0, live |-> FALSE, shared |-> FALSE]]
    /\ source = [l \in Linked |-> [usn |-> 1, count |-> 1, open |-> TRUE]]
    /\ link = [l \in Linked |-> [state |-> "none", usn |-> 0]]
    /\ ownCount = 0 /\ events = <<>>
    /\ notes = [n \in Notes |-> None] /\ notebooks = {}
    /\ linked_usn = [l \in Linked |-> None]
    /\ shared_notes = {} /\ USN = 0 /\ connection = 0
    /\ pc = "idle" /\ chunk = None /\ ahead = {} /\ cur = None /\ after = 0
    /\ listed = {} /\ todo = {} /\ results = NoResults
    /\ faults = 0

----------------------------------------------------------------------------
(* The servers.                                                            *)

Tick == /\ clock < MaxClock
        /\ clock' = clock + 1
        /\ UNCHANGED <<tables, cursors, process, faults>>

Event(kind, n, del) == [kind |-> kind, note |-> n, del |-> del, updated |-> clock + 1]

\* The changes of a note are seen in its linked notebook, and in the event
\* stream while the note is shared.
Publish(n, del) ==
    /\ source' = [l \in Linked |-> IF l = Home[n] THEN [source[l] EXCEPT !.count = clock + 1]
                                                  ELSE source[l]]
    /\ events' = IF remote[n].shared THEN Append(events, Event("note", n, del)) ELSE events

WriteNote(n) ==
    /\ Tick
    /\ remote[n].live \/ remote[n].usn = 0
    /\ remote' = [remote EXCEPT ![n].usn = clock + 1, ![n].live = TRUE]
    /\ Publish(n, FALSE)
    /\ UNCHANGED <<link, ownCount>>

ExpungeNote(n) ==
    /\ Tick
    /\ remote[n].live
    /\ remote' = [remote EXCEPT ![n] = [usn |-> clock + 1, live |-> FALSE, shared |-> FALSE]]
    /\ Publish(n, TRUE)
    /\ UNCHANGED <<link, ownCount>>

ShareNote(n) ==
    /\ Tick
    /\ remote[n].live
    /\ remote' = [remote EXCEPT ![n].shared = ~ @]
    /\ events' = Append(events, Event("membership", n, remote[n].shared))
    /\ UNCHANGED <<source, link, ownCount>>

RenameNotebook(l) ==
    /\ Tick
    /\ source' = [source EXCEPT ![l].usn = clock + 1, ![l].count = clock + 1]
    /\ UNCHANGED <<remote, link, ownCount, events>>

\* The owner stops sharing the notebook; the user's account still lists it.
CloseNotebook(l) ==
    /\ Tick
    /\ source[l].open
    /\ source' = [source EXCEPT ![l].open = FALSE]
    /\ UNCHANGED <<remote, link, ownCount, events>>

\* The user joins the notebook, and leaves it for good.
LinkNotebook(l) ==
    /\ Tick
    /\ \/ link[l].state = "none" /\ link' = [link EXCEPT ![l] = [state |-> "joined", usn |-> 0]]
       \/ link[l].state = "joined" /\ link' = [link EXCEPT ![l] = [state |-> "left", usn |-> clock + 1]]
    /\ ownCount' = clock + 1
    /\ UNCHANGED <<remote, source, events>>

Visible(l, low, high, live) ==
    {n \in Notes : /\ Home[n] = l
                   /\ low < remote[n].usn /\ remote[n].usn <= high
                   /\ remote[n].live = live}

LinkedChunk(l, low, high) ==
    [notebook |-> low < source[l].usn /\ source[l].usn <= high,
     notes |-> [n \in Visible(l, low, high, TRUE) |-> l],
     expungedNotes |-> Visible(l, low, high, FALSE),
     chunkHighUSN |-> high,
     updateCount |-> source[l].count]

----------------------------------------------------------------------------
(* The user's own stream, as far as it concerns linked notebooks: one      *)
(* chunk with all of expungedLinkedNotebooks.                              *)

StartSync ==
    /\ pc = "idle"
    /\ pc' = IF ownCount = USN THEN "listLinked" ELSE "own"
    /\ UNCHANGED <<servers, tables, cursors, chunk, ahead, cur, after, listed, todo,
                   results, faults>>

GetOwnChunk ==
    /\ pc = "own"
    /\ LET gone == {l \in Linked : link[l].state = "left" /\ USN < link[l].usn} IN
       /\ chunk' = [expungedLinkedNotebooks |-> gone, chunkHighUSN |-> ownCount]
       /\ ahead' = gone
    /\ pc' = "expungeLinked"
    /\ UNCHANGED <<servers, tables, cursors, cur, after, listed, todo, results, faults>>

\* Fault: the notes that are shared singly as well are not spared.
ExpungeLinkedAssocAll(l) ==
    /\ pc = "expungeLinked" /\ l \in ahead
    /\ IF linked_usn[l] # None /\ l \in notebooks
       THEN /\ notes' = expunge_notes_by_notebook(notes, l, {})
            /\ cur' = l
            /\ pc' = "rehome"
            /\ UNCHANGED ahead
       ELSE /\ ahead' = ahead \ {l}
            /\ UNCHANGED <<notes, cur, pc>>
    /\ UNCHANGED <<servers, notebooks, linked_usn, shared_notes, cursors, chunk, after,
                   listed, todo, results, faults>>

\* _expunge_linked_assoc, three transactions, unless one of the rows that the
\* notebook is found by is missing.
ExpungeLinkedAssoc(l) ==
    /\ pc = "expungeLinked" /\ l \in ahead
    /\ IF linked_usn[l] # None /\ l \in notebooks
       THEN /\ notes' = expunge_notes_by_notebook(notes, l, shared_notes)
            /\ cur' = l
            /\ pc' = "rehome"
            /\ UNCHANGED ahead
       ELSE /\ ahead' = ahead \ {l}
            /\ UNCHANGED <<notes, cur, pc>>
    /\ UNCHANGED <<servers, notebooks, linked_usn, shared_notes, cursors, chunk, after,
                   listed, todo, results, faults>>

RehomeNotes ==
    /\ pc = "rehome"
    /\ notes' = rehome_notes_from_notebook(notes, cur, SharedWithMe, shared_notes)
    /\ pc' = "dropNotebook"
    /\ UNCHANGED <<servers, notebooks, linked_usn, shared_notes, cursors, chunk, ahead,
                   cur, after, listed, todo, results, faults>>

DropNotebook ==
    /\ pc = "dropNotebook"
    /\ notebooks' = notebooks \ {cur}
    /\ ahead' = ahead \ {cur}
    /\ cur' = None
    /\ pc' = "expungeLinked"
    /\ UNCHANGED <<servers, notes, linked_usn, shared_notes, cursors, chunk, after,
                   listed, todo, results, faults>>

ExpungeLinkedNotebooks ==
    /\ pc = "expungeLinked" /\ ahead = {}
    /\ linked_usn' = [l \in Linked |-> IF l \in chunk.expungedLinkedNotebooks
                                       THEN None ELSE linked_usn[l]]
    /\ pc' = "setUSN"
    /\ UNCHANGED <<servers, notes, notebooks, shared_notes, cursors, chunk, ahead, cur,
                   after, listed, todo, results, faults>>

SetUSN ==
    /\ pc = "setUSN"
    /\ USN' = chunk.chunkHighUSN
    /\ chunk' = None /\ pc' = "listLinked"
    /\ UNCHANGED <<servers, tables, connection, ahead, cur, after, listed, todo, results,
                   faults>>

----------------------------------------------------------------------------
(* _sync_linked_notebook for each linked notebook that the account lists.  *)

ListLinked ==
    /\ pc = "listLinked"
    /\ listed' = {l \in Linked : link[l].state = "joined"}
    /\ ahead' = listed'
    /\ pc' = "linked"
    /\ UNCHANGED <<servers, tables, cursors, chunk, cur, after, todo, results, faults>>

SyncLinkedNotebook(l) ==
    /\ pc = "linked" /\ l \in ahead
    /\ after' = IF linked_usn[l] = None THEN 0 ELSE linked_usn[l]
    /\ cur' = l /\ ahead' = ahead \ {l}
    /\ pc' = "getLinked"
    /\ UNCHANGED <<servers, tables, cursors, chunk, listed, todo, results, faults>>

\* An inaccessible notebook is skipped; so is one without changes.
GetLinkedChunk ==
    /\ pc = "getLinked"
    /\ IF ~ source[cur].open \/ after = source[cur].count
       THEN pc' = "linked" /\ UNCHANGED chunk
       ELSE /\ \E high \in (after + 1) .. source[cur].count :
                   chunk' = LinkedChunk(cur, after, high)
            /\ pc' = "addLinked"
    /\ UNCHANGED <<servers, tables, cursors, ahead, cur, after, listed, todo, results,
                   faults>>

\* add_linked_notebook replaces the row: its usn starts again from 0.
AddLinkedNotebook ==
    /\ pc = "addLinked"
    /\ linked_usn' = IF chunk.notebook THEN [linked_usn EXCEPT ![cur] = 0] ELSE linked_usn
    /\ pc' = "expungeLinkedNotes"
    /\ UNCHANGED <<servers, notes, notebooks, shared_notes, cursors, chunk, ahead, cur,
                   after, listed, todo, results, faults>>

ExpungeLinkedNotes ==
    /\ pc = "expungeLinkedNotes"
    /\ notes' = expunge_notes(notes, chunk.expungedNotes)
    /\ pc' = "addLinkedNotebooks"
    /\ UNCHANGED <<servers, notebooks, linked_usn, shared_notes, cursors, chunk, ahead,
                   cur, after, listed, todo, results, faults>>

AddLinkedNotebooks ==
    /\ pc = "addLinkedNotebooks"
    /\ notebooks' = IF chunk.notebook THEN notebooks \cup {cur} ELSE notebooks
    /\ pc' = "addLinkedNotes"
    /\ UNCHANGED <<servers, notes, linked_usn, shared_notes, cursors, chunk, ahead, cur,
                   after, listed, todo, results, faults>>

AddLinkedNotes ==
    /\ pc = "addLinkedNotes"
    /\ notes' = add_notes_for_sync(notes, chunk.notes)
    /\ pc' = "setLinkedUSN"
    /\ UNCHANGED <<servers, notebooks, linked_usn, shared_notes, cursors, chunk, ahead,
                   cur, after, listed, todo, results, faults>>

\* Fault: the notebook's number is saved in place of the chunk's.
SetLinkedUSNToCount ==
    /\ pc = "setLinkedUSN"
    /\ linked_usn' = IF linked_usn[cur] = None THEN linked_usn
                     ELSE [linked_usn EXCEPT ![cur] = chunk.updateCount]
    /\ after' = chunk.chunkHighUSN
    /\ pc' = IF chunk.chunkHighUSN = chunk.updateCount THEN "linked" ELSE "getLinked"
    /\ chunk' = None
    /\ UNCHANGED <<servers, notes, notebooks, shared_notes, cursors, ahead, cur, listed,
                   todo, results, faults>>

\* set_linked_notebook_usn is an UPDATE: without a row it does nothing.
SetLinkedUSN ==
    /\ pc = "setLinkedUSN"
    /\ linked_usn' = IF linked_usn[cur] = None THEN linked_usn
                     ELSE [linked_usn EXCEPT ![cur] = chunk.chunkHighUSN]
    /\ after' = chunk.chunkHighUSN
    /\ pc' = IF chunk.chunkHighUSN = chunk.updateCount THEN "linked" ELSE "getLinked"
    /\ chunk' = None
    /\ UNCHANGED <<servers, notes, notebooks, shared_notes, cursors, ahead, cur, listed,
                   todo, results, faults>>

EndLinked ==
    /\ pc = "linked" /\ ahead = {}
    /\ cur' = None /\ after' = 0
    /\ pc' = "shared"
    /\ UNCHANGED <<servers, tables, cursors, chunk, ahead, listed, todo, results, faults>>

----------------------------------------------------------------------------
(* _sync_chunks_v2_shared_notes and _process_shared_notes_chunk_v2.        *)

NewEvents == {i \in DOMAIN events : events[i].updated >= connection}

\* A message holds any number of the events that are due, the earliest first.
GetEvents ==
    /\ pc = "shared"
    /\ IF NewEvents = {}
       THEN pc' = "collect" /\ UNCHANGED <<chunk, ahead>>
       ELSE /\ \E i \in NewEvents :
                  chunk' = parse_sync_event_data(SubSeq(events, Min(NewEvents), i))
            /\ ahead' = chunk'.shared_note_memberships
            /\ pc' = "memberships"
    /\ UNCHANGED <<servers, tables, cursors, cur, after, listed, todo, results, faults>>

AddSharedNote(n) ==
    /\ pc = "memberships" /\ n \in ahead
    /\ shared_notes' = shared_notes \cup {n}
    /\ cur' = n /\ pc' = "scheduleShared"
    /\ UNCHANGED <<servers, notes, notebooks, linked_usn, cursors, chunk, ahead, after,
                   listed, todo, results, faults>>

\* A note that has a row, e.g. in a linked notebook, keeps it.
ScheduleSharedNote ==
    /\ pc = "scheduleShared"
    /\ notes' = IF notes[cur] = None
                THEN add_notes_for_sync(notes, [n \in {cur} |-> SharedWithMe]) ELSE notes
    /\ ahead' = ahead \ {cur}
    /\ cur' = None
    /\ pc' = "memberships"
    /\ UNCHANGED <<servers, notebooks, linked_usn, shared_notes, cursors, chunk,
                   after, listed, todo, results, faults>>

\* known_shared: read once the memberships are in.
RedownloadSharedNotes ==
    /\ pc = "memberships" /\ ahead = {}
    /\ notes' = mark_notes_for_redownload(notes, chunk.notes_to_sync \cap shared_notes)
    /\ pc' = "expungeShared"
    /\ UNCHANGED <<servers, notebooks, linked_usn, shared_notes, cursors, chunk, ahead,
                   cur, after, listed, todo, results, faults>>

ExpungeSharedNotes ==
    /\ pc = "expungeShared"
    /\ notes' = expunge_notes(notes, chunk.expunged_notes \cap shared_notes)
    /\ pc' = "removeShared"
    /\ UNCHANGED <<servers, notebooks, linked_usn, shared_notes, cursors, chunk, ahead,
                   cur, after, listed, todo, results, faults>>

RemoveSharedNotes ==
    /\ pc = "removeShared"
    /\ shared_notes' = shared_notes \ chunk.expunged_notes
    /\ ahead' = chunk.expunged_shared_note_memberships
    /\ pc' = "unshare"
    /\ UNCHANGED <<servers, notes, notebooks, linked_usn, cursors, chunk, cur, after,
                   listed, todo, results, faults>>

is_note_in_linked_notebook(n) ==
    /\ notes[n] # None /\ notes[n].notebook_guid \in Linked
    /\ linked_usn[notes[n].notebook_guid] # None

\* Fault: the row is dropped whether a linked notebook keeps it or not.
UnshareAlways(n) ==
    /\ pc = "unshare" /\ n \in ahead
    /\ shared_notes' = shared_notes \ {n}
    /\ cur' = n /\ pc' = "dropShared"
    /\ UNCHANGED <<servers, notes, notebooks, linked_usn, cursors, chunk, ahead, after,
                   listed, todo, results, faults>>

\* The end of a share: first the tracking, then the row, unless the linked
\* notebook keeps it.
UnshareNote(n) ==
    /\ pc = "unshare" /\ n \in ahead
    /\ shared_notes' = shared_notes \ {n}
    /\ IF is_note_in_linked_notebook(n) \/ notes[n] = None
       THEN ahead' = ahead \ {n} /\ UNCHANGED <<cur, pc>>
       ELSE cur' = n /\ pc' = "dropShared" /\ UNCHANGED ahead
    /\ UNCHANGED <<servers, notes, notebooks, linked_usn, cursors, chunk, after, listed,
                   todo, results, faults>>

DropSharedNote ==
    /\ pc = "dropShared"
    /\ notes' = expunge_notes(notes, {cur})
    /\ ahead' = ahead \ {cur}
    /\ cur' = None
    /\ pc' = "unshare"
    /\ UNCHANGED <<servers, notebooks, linked_usn, shared_notes, cursors, chunk,
                   after, listed, todo, results, faults>>

SetConnection ==
    /\ pc = "unshare" /\ ahead = {}
    /\ connection' = chunk.last_timestamp + 1
    /\ chunk' = None /\ pc' = "shared"
    /\ UNCHANGED <<servers, tables, USN, ahead, cur, after, listed, todo, results, faults>>

----------------------------------------------------------------------------
(* The download phase.                                                     *)

Collect ==
    /\ pc = "collect"
    /\ todo' = get_notes_for_sync(notes)
    /\ pc' = IF todo' = {} THEN "idle" ELSE "authorize"
    /\ UNCHANGED <<servers, tables, cursors, chunk, ahead, cur, after, listed, results,
                   faults>>

\* The linked notebooks that notes wait for: the notebook must be found by
\* its rows, be listed, and its owner's server must grant access.
Authorized ==
    \A n \in todo : is_note_in_linked_notebook(n) =>
        LET l == notes[n].notebook_guid IN
        l \in notebooks /\ l \in listed /\ source[l].open

Authorize ==
    /\ pc = "authorize" /\ Authorized
    /\ pc' = "download"
    /\ UNCHANGED <<servers, tables, cursors, chunk, ahead, cur, after, listed, todo,
                   results, faults>>

Quit == /\ pc' = "idle" /\ chunk' = None /\ ahead' = {} /\ cur' = None /\ after' = 0
        /\ listed' = {} /\ todo' = {} /\ results' = NoResults
        /\ UNCHANGED <<servers, tables, cursors>>

\* The exception (EDAMNotFoundException, ValueError, KeyError) ends the run.
AuthorizeFails ==
    /\ pc = "authorize" /\ ~ Authorized
    /\ Quit
    /\ UNCHANGED faults

\* A note of a linked notebook is asked for with the notebook's token, another
\* one on its owner's shard, as a shared note.
Granted(n) ==
    /\ remote[n].live
    /\ IF is_note_in_linked_notebook(n)
       THEN source[Home[n]].open
       ELSE n \in shared_notes /\ remote[n].shared

Downloaded(n) ==
    /\ pc = "download" /\ n \in todo /\ results[n] = None
    /\ Granted(n)
    /\ results' = [results EXCEPT ![n] = [usn |-> remote[n].usn, nb |-> Home[n]]]
    /\ UNCHANGED <<servers, tables, cursors, pc, chunk, ahead, cur, after, listed, todo,
                   faults>>

Skipped(n) ==
    /\ pc = "download" /\ n \in todo /\ results[n] = None
    /\ IF Granted(n) THEN faults < MaxFaults /\ faults' = faults + 1 ELSE UNCHANGED faults
    /\ todo' = todo \ {n}
    /\ UNCHANGED <<servers, tables, cursors, pc, chunk, ahead, cur, after, listed, results>>

\* A single-note share is filed under the synthetic notebook.
Store(n) ==
    /\ pc = "download" /\ results[n] # None
    /\ notes' = add_note(notes, n,
           IF n \in shared_notes /\ ~ is_note_in_linked_notebook(n)
           THEN [results[n] EXCEPT !.nb = SharedWithMe] ELSE results[n])
    /\ results' = [results EXCEPT ![n] = None]
    /\ todo' = todo \ {n}
    /\ UNCHANGED <<servers, notebooks, linked_usn, shared_notes, cursors, pc, chunk, ahead,
                   cur, after, listed, faults>>

FinishSync ==
    /\ pc = "download" /\ todo = {}
    /\ Quit
    /\ UNCHANGED faults

Die ==
    /\ pc # "idle" /\ faults < MaxFaults
    /\ faults' = faults + 1
    /\ Quit

----------------------------------------------------------------------------
ServersChange ==
    \/ \E n \in Notes : WriteNote(n) \/ ExpungeNote(n) \/ ShareNote(n)
    \/ \E l \in Linked : RenameNotebook(l) \/ CloseNotebook(l) \/ LinkNotebook(l)

OwnStream == \/ GetOwnChunk
             \/ \E l \in Linked : ExpungeLinkedAssoc(l)
             \/ RehomeNotes \/ DropNotebook \/ ExpungeLinkedNotebooks \/ SetUSN

LinkedStreams == \/ ListLinked
                 \/ \E l \in Linked : SyncLinkedNotebook(l)
                 \/ GetLinkedChunk \/ AddLinkedNotebook \/ ExpungeLinkedNotes
                 \/ AddLinkedNotebooks \/ AddLinkedNotes \/ SetLinkedUSN \/ EndLinked

SharedStream == \/ GetEvents
                \/ \E n \in Notes : AddSharedNote(n)
                \/ ScheduleSharedNote \/ RedownloadSharedNotes \/ ExpungeSharedNotes
                \/ RemoveSharedNotes
                \/ \E n \in Notes : UnshareNote(n)
                \/ DropSharedNote \/ SetConnection

Download == \/ Collect \/ Authorize \/ AuthorizeFails
            \/ \E n \in Notes : Downloaded(n)
            \/ \E n \in Notes : Skipped(n)
            \/ \E n \in Notes : Store(n)
            \/ FinishSync

Sync == StartSync \/ OwnStream \/ LinkedStreams \/ SharedStream \/ Download

Next == ServersChange \/ Sync \/ Die

Spec == Init /\ [][Next]_vars

\* As in NoteSync: sync runs again and again, and a run takes its next step.
FairSpec == Spec /\ WF_vars(Sync)

----------------------------------------------------------------------------
(* Properties.                                                             *)

TypeOK ==
    /\ notes \in [Notes -> NoteRow \cup {None}]
    /\ notebooks \subseteq Linked /\ shared_notes \subseteq Notes
    /\ linked_usn \in [Linked -> Nat \cup {None}]
    /\ USN \in 0 .. ownCount /\ connection \in 0 .. clock + 1
    /\ todo \subseteq Notes /\ listed \subseteq Linked
    /\ results \in [Notes -> [usn : Nat, nb : Notebooks \cup {None}] \cup {None}]

Joined(l) == link[l].state = "joined"

\* The number saved for a linked notebook is a promise like the account's
\* own: a note of the notebook that changed up to it is scheduled or held at
\* that version and filed in the notebook, or, when it is gone, no longer
\* filed there - whatever the other path does to the same row.
LinkedCursorSound ==
    \A n \in Notes :
        Home[n] # None => LET l == Home[n] IN
            Joined(l) /\ linked_usn[l] # None /\ remote[n].usn \in 1 .. linked_usn[l] =>
                IF remote[n].live
                THEN /\ notes[n] # None
                     /\ notes[n].notebook_guid = l
                     /\ notes[n].raw_note \in {NULL, remote[n].usn}
                ELSE notes[n] = None \/ notes[n].notebook_guid # l

\* Every event about the note has been applied.
Settled(n) == \A i \in DOMAIN events : events[i].note = n => events[i].updated < connection

\* The saved timestamp is one as well: once it has passed the last event of
\* a note, the note is tracked exactly if it is shared; a shared note has its
\* row, not older than the note; a note that was shared once is gone from the
\* synthetic notebook.
SharedCursorSound ==
    \A n \in Notes : Settled(n) =>
        /\ n \in shared_notes <=> remote[n].shared
        /\ remote[n].shared => /\ notes[n] # None
                               /\ notes[n].raw_note \in {NULL, remote[n].usn}
        /\ ~ remote[n].shared => notes[n] = None \/ notes[n].notebook_guid # SharedWithMe

Reachable(n) == /\ remote[n].live
                /\ \/ remote[n].shared
                   \/ Home[n] # None /\ Joined(Home[n])

Held(n) == notes[n] # None /\ notes[n].raw_note = remote[n].usn

\* While every linked notebook in the account is open, each note that is
\* reachable along a path is in the end held at its last version, whatever
\* was interrupted and along whichever path it came and went before.
EventuallyHeld ==
    <>[](\A l \in Linked : Joined(l) => source[l].open)
        => \A n \in Notes : <>[] Reachable(n) => <>[] Held(n)

\* A notebook that is no longer accessible is just skipped
\* (evernote_client_sync.py:111): notes of other owners still come through.
InaccessibleSkipped ==
    \A n \in Notes : <>[](Reachable(n) /\ Home[n] = None) => <>[] Held(n)
============================================================================
