--------------------------- MODULE MCDownloadPool ---------------------------
(* Instances of DownloadPool for TLC. *)
EXTENDS DownloadPool

CONSTANTS n1, n2, n3, n4

\* Sizes that fill a gate of 2 from below, exactly and beyond.
MCNotes == {n1, n2, n3, n4}
MCSize == [n \in MCNotes |-> IF n = n2 THEN 1 ELSE 2]
============================================================================
