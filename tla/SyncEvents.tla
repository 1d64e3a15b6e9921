----------------------------- MODULE SyncEvents -----------------------------
(***************************************************************************)
(* _parse_sync_event_data: one message of the second protocol is a list of *)
(* events of the owners of shared notes; it becomes one SyncChunkV2.       *)
(*                                                                         *)
(* An event is [kind, del, note, updated].  The kind is "membership" (a    *)
(* single-note share with the user), "note" (a note of someone else) or    *)
(* "other", whatever the parser drops: notifications, invitations, link    *)
(* and notebook shares, shares by the user, the user's own notes, unknown  *)
(* or malformed instances.                                                 *)
(***************************************************************************)
EXTENDS SequencesExt

Empty == [shared_note_memberships |-> {}, expunged_shared_note_memberships |-> {},
          notes_to_sync |-> {}, expunged_notes |-> {}]

parse_membership_instance(result, e) ==
    IF e.del
    THEN [result EXCEPT !.shared_note_memberships = @ \ {e.note},
                        !.expunged_shared_note_memberships = @ \cup {e.note},
                        !.notes_to_sync = @ \ {e.note}]
    ELSE [result EXCEPT !.shared_note_memberships = @ \cup {e.note},
                        !.expunged_shared_note_memberships = @ \ {e.note},
                        !.notes_to_sync = @ \cup {e.note}]

parse_note_entity_instance(result, e) ==
    IF e.del
    THEN [result EXCEPT !.notes_to_sync = @ \ {e.note},
                        !.expunged_notes = @ \cup {e.note}]
    ELSE [result EXCEPT !.notes_to_sync = @ \cup {e.note}]

parse_instance(result, e) ==
    CASE e.kind = "membership" -> parse_membership_instance(result, e)
      [] e.kind = "note"       -> parse_note_entity_instance(result, e)
      [] OTHER                 -> result

last_timestamp(events) == Max({events[i].updated : i \in DOMAIN events})

SyncChunkV2(result, timestamp) ==
    [last_timestamp |-> timestamp,
     shared_note_memberships |-> result.shared_note_memberships,
     expunged_shared_note_memberships |-> result.expunged_shared_note_memberships,
     notes_to_sync |-> result.notes_to_sync,
     expunged_notes |-> result.expunged_notes]

parse_sync_event_data(events) ==
    SyncChunkV2(FoldLeft(parse_instance, Empty, events), last_timestamp(events))
============================================================================
