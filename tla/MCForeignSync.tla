--------------------------- MODULE MCForeignSync ---------------------------
(* Instances of ForeignSync for TLC: one linked notebook; n1 is one of its *)
(* notes, n2 (if there is one) can only be shared singly.                  *)
EXTENDS ForeignSync

CONSTANTS n1, n2, l1

MCHome == [n \in Notes |-> IF n = n1 THEN l1 ELSE None]
============================================================================
