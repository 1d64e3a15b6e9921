------------------------------ MODULE MCTaskSync ------------------------------
(* Instances of TaskSync for TLC; its constants are sets of model values. *)
EXTENDS TaskSync
============================================================================
