-------------------------- MODULE MCWorkerClients --------------------------
(* Instances of WorkerClients for TLC: an own note, a note that is shared  *)
(* singly (same token, foreign shard) and two notes of a linked notebook.  *)
EXTENDS WorkerClients

CONSTANTS own, single, linked, linked2

MCNotes == {own, single, linked, linked2}

MCAuth ==
    [n \in MCNotes |->
        CASE n = own    -> [token |-> "user", shard |-> "none", access |-> "OWN"]
          [] n = single -> [token |-> "user", shard |-> "s2", access |-> "SINGLE_NOTE_SHARE"]
          [] OTHER      -> [token |-> "share", shard |-> "s2", access |-> "LINKED_NOTEBOOK"]]

MCHomeShard == [user |-> "s1", share |-> "s2"]
============================================================================
