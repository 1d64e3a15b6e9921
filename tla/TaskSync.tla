------------------------------- MODULE TaskSync -------------------------------
(***************************************************************************)
(* The last phase of sync(): tasks and reminders, from the stream of       *)
(* events of the second protocol (_sync_chunks_v2_tasks).                  *)
(*                                                                         *)
(* The service keeps a log of events.  A connection that names a time is   *)
(* sent every event since then, cut into messages in any way.  The program *)
(* saves the time of the last message plus one, so what it depends on is   *)
(* that everything before the saved time is in the tables.  The model      *)
(* makes visible what breaks that: messages that cannot be decoded, and    *)
(* events of one time that are cut into two messages.                      *)
(***************************************************************************)
EXTENDS Naturals, Sequences, FiniteSetsExt

CONSTANTS Tasks, Reminders,  \* guids
          None,              \* no task or reminder, no message
          MaxEvents,         \* bound on the log
          MaxFaults          \* bound on deaths and undecodable messages

Items == Tasks \cup Reminders

ASSUME TaskAssumption == /\ None \notin Items /\ Tasks \cap Reminders = {}
                         /\ MaxEvents \in Nat /\ MaxFaults \in Nat

VARIABLES
    events,      \* the log: item, kind of event, time
    rows,        \* tables tasks and reminders: item -> the event its row was
                 \* written from, or 0 without a row
    last_connection_tasks,  \* config value
    pc, pos,     \* next step, and how much of the log this connection was sent
    chunk,       \* the SyncChunkV2 being processed
    undecodable, \* events sent in messages that could not be decoded
    faults

vars == <<events, rows, last_connection_tasks, pc, pos, chunk, undecodable, faults>>

Init ==
    /\ events = <<>>
    /\ rows = [x \in Items |-> 0]
    /\ last_connection_tasks = 0
    /\ pc = "idle" /\ pos = 0 /\ chunk = None
    /\ undecodable = {} /\ faults = 0

----------------------------------------------------------------------------
(* The service.                                                            *)

Now == IF events = <<>> THEN 1 ELSE events[Len(events)].updated

Event == [item : Items, kind : {"update", "misplaced", "delete"}]
         \cup [item : {None}, kind : {"other"}]

\* A task or reminder is updated, below a parent of the right type or of
\* another one, or deleted; or something happens that the parser drops in any
\* case (a notification, an unknown or malformed instance, another type, an
\* entity without a parent).  The clock may stand still between two events.
Publish ==
    /\ Len(events) < MaxEvents
    /\ \E e \in Event, tick \in {0, 1} :
          events' = Append(events, [item |-> e.item, kind |-> e.kind, updated |-> Now + tick])
    /\ UNCHANGED <<rows, last_connection_tasks, pc, pos, chunk, undecodable, faults>>

----------------------------------------------------------------------------
(* _parse_sync_event_data.  A deletion counts whatever the parent is; an   *)
(* update counts only below a parent of the right type.                    *)

\* Fault: the type of the parent is not looked at.
AcceptedAnywhere(i) == events[i].kind # "other"

Accepted(i) == events[i].kind \in {"update", "delete"}

\* The last of the events after lo up to hi that is about x, 0 for none.
LastAbout(x, lo, hi) ==
    Max({0} \cup {i \in (lo + 1) .. hi : Accepted(i) /\ events[i].item = x})

Updated(lo, hi) == {x \in Items : LET i == LastAbout(x, lo, hi) IN i # 0 /\ events[i].kind # "delete"}

Expunged(lo, hi) ==
    {events[i].item : i \in {j \in (lo + 1) .. hi : events[j].kind = "delete"}}

\* Fault: the time of the message is that of the clock when it is processed.
SyncChunkV2AtNow(lo, hi) ==
    [updated        |-> [x \in Updated(lo, hi) |-> LastAbout(x, lo, hi)],
     expunged       |-> Expunged(lo, hi),
     last_timestamp |-> Now]

\* The time of a message counts the events that were dropped as well.
SyncChunkV2(lo, hi) ==
    [updated        |-> [x \in Updated(lo, hi) |-> LastAbout(x, lo, hi)],
     expunged       |-> Expunged(lo, hi),
     last_timestamp |-> Max({events[i].updated : i \in (lo + 1) .. hi})]

----------------------------------------------------------------------------
(* _sync_chunks_v2_tasks.                                                  *)

\* iter_sync_events with lastConnection: the log is in order of time.
Connect ==
    /\ pc = "idle"
    /\ pc' = "stream"
    /\ pos' = Cardinality({i \in DOMAIN events : events[i].updated < last_connection_tasks})
    /\ UNCHANGED <<events, rows, last_connection_tasks, chunk, undecodable, faults>>

GetMessage ==
    /\ pc = "stream"
    /\ \E hi \in (pos + 1) .. Len(events) : chunk' = SyncChunkV2(pos, hi) /\ pos' = hi
    /\ pc' = "expungeTasks"
    /\ UNCHANGED <<events, rows, last_connection_tasks, undecodable, faults>>

\* "Failed to decode sync chunk data", or a message that is empty or of an
\* unknown type: a warning, and the next message is awaited.
SkipMessage ==
    /\ pc = "stream" /\ faults < MaxFaults
    /\ faults' = faults + 1
    /\ \E hi \in (pos + 1) .. Len(events) :
          /\ undecodable' = undecodable \cup ((pos + 1) .. hi)
          /\ pos' = hi
    /\ UNCHANGED <<events, rows, last_connection_tasks, pc, chunk>>

EndOfStream ==
    /\ pc = "stream" /\ pos = Len(events)
    /\ pc' = "idle" /\ pos' = 0
    /\ UNCHANGED <<events, rows, last_connection_tasks, chunk, undecodable, faults>>

\* The transactions of _process_chunk_v2: all deletions of a kind are one,
\* every row that is written is one of its own.
Expunge(kind, here, next) ==
    /\ pc = here
    /\ rows' = [x \in Items |-> IF x \in kind \cap chunk.expunged THEN 0 ELSE rows[x]]
    /\ pc' = next
    /\ UNCHANGED <<events, last_connection_tasks, pos, chunk, undecodable, faults>>

Add(kind, here, next) ==
    LET waiting == kind \cap DOMAIN chunk.updated IN
    /\ pc = here
    /\ IF waiting = {}
       THEN pc' = next /\ UNCHANGED <<rows, chunk>>
       ELSE \E x \in waiting :
               /\ rows' = [rows EXCEPT ![x] = chunk.updated[x]]
               /\ chunk' = [chunk EXCEPT !.updated =
                               [y \in DOMAIN @ \ {x} |-> @[y]]]
               /\ UNCHANGED pc
    /\ UNCHANGED <<events, last_connection_tasks, pos, undecodable, faults>>

\* Fault: rows are written before the deletions of the same message.
ProcessChunkAddFirst ==
    \/ Add(Tasks, "expungeTasks", "expungeReminders")
    \/ Add(Reminders, "expungeReminders", "addTasks")
    \/ Expunge(Tasks, "addTasks", "addReminders")
    \/ Expunge(Reminders, "addReminders", "setConnection")

ProcessChunk ==
    \/ Expunge(Tasks, "expungeTasks", "expungeReminders")
    \/ Expunge(Reminders, "expungeReminders", "addTasks")
    \/ Add(Tasks, "addTasks", "addReminders")
    \/ Add(Reminders, "addReminders", "setConnection")

\* The + 1 keeps the events of this message out of the next connection.
SetConnection ==
    /\ pc = "setConnection"
    /\ last_connection_tasks' = chunk.last_timestamp + 1
    /\ chunk' = None
    /\ pc' = "stream"
    /\ UNCHANGED <<events, rows, pos, undecodable, faults>>

\* An error of the connection (also a token that expired during the download
\* phase), an early "close", an interrupt or a kill.
Die ==
    /\ pc # "idle" /\ faults < MaxFaults
    /\ faults' = faults + 1
    /\ pc' = "idle" /\ pos' = 0 /\ chunk' = None
    /\ UNCHANGED <<events, rows, last_connection_tasks, undecodable>>

Sync == Connect \/ GetMessage \/ ProcessChunk \/ SetConnection \/ EndOfStream

Next == Publish \/ Sync \/ SkipMessage \/ Die

Spec == Init /\ [][Next]_vars

\* As for NoteSync: sync is run again and again, a run takes its next step.
FairSpec == Spec /\ WF_vars(Sync)

----------------------------------------------------------------------------
(* Properties.                                                             *)

TypeOK ==
    /\ \A i \in DOMAIN events : /\ [item |-> events[i].item, kind |-> events[i].kind] \in Event
                               /\ events[i].updated \in Nat
    /\ rows \in [Items -> 0 .. Len(events)]
    /\ \A x \in Items : rows[x] # 0 => /\ events[rows[x]].item = x
                                       /\ events[rows[x]].kind = "update"
    /\ last_connection_tasks \in Nat
    /\ pos \in 0 .. Len(events)
    /\ undecodable \subseteq DOMAIN events

\* What the row of x is after event i.
Shows(x, i) == rows[x] = IF i = 0 \/ events[i].kind = "delete" THEN 0 ELSE i

\* The two ways an event can be passed over for ever: its message was not
\* decoded, or an earlier event has the same time.
MayBeLost(i) == \/ i \in undecodable
                \/ \E j \in 1 .. (i - 1) : events[j].updated = events[i].updated

\* The saved time is honest, wherever a run ends: of the events before it the
\* last one about a task or reminder, or a later one, is what the tables show.
\* Only the two losses of MayBeLost are excepted; nothing else (dropped items,
\* a deletion and an update in one message, a death between two transactions,
\* messages cut differently the next time) leaves a gap.
TasksCursorSound ==
    LET seen == Cardinality({i \in DOMAIN events :
                                events[i].updated < last_connection_tasks}) IN
    \A x \in Items :
        LET last == LastAbout(x, 0, seen) IN
        \/ last = 0 \/ MayBeLost(last)
        \/ \E i \in last .. Len(events) :
              Accepted(i) /\ events[i].item = x /\ Shows(x, i)

\* Once the service falls silent the tables show the last event about every
\* task and reminder, with the same two exceptions.
TasksMirrored ==
    <>[](\A x \in Items : LET last == LastAbout(x, 0, Len(events)) IN
                          Shows(x, last) \/ MayBeLost(last))
============================================================================
