----------------------------- MODULE MCNoteSync -----------------------------
(* Instances of NoteSync for TLC; its constants are sets of model values. *)
EXTENDS NoteSync
============================================================================
