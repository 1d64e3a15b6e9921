--------------------------- MODULE BackupContract ---------------------------
(***************************************************************************)
(* What the database promises about the notes of one account, whatever     *)
(* steps a sync takes: acked is the update sequence number up to which the *)
(* database claims to know the account, and copy[n] is what it holds of    *)
(* note n - None (nothing), 0 (scheduled for download) or the version      *)
(* whose content it holds.                                                 *)
(*                                                                         *)
(* The claim acked is never made for a change that the database does not   *)
(* reflect; a copy is dropped only when the note is gone from the server,  *)
(* and its content is given up only for a change beyond the claim.         *)
(***************************************************************************)
EXTENDS Naturals

CONSTANTS Notes, None

VARIABLES remote,       \* guid -> last version and whether the note exists
          updateCount,  \* the account's highest version
          copy, acked

vars == <<remote, updateCount, copy, acked>>

Reflects(n) == IF remote[n].live THEN copy[n] \in {0, remote[n].usn} ELSE copy[n] = None

Init == /\ \A n \in Notes : remote[n].usn = 0 /\ ~ remote[n].live
        /\ updateCount = 0
        /\ copy = [n \in Notes |-> None]
        /\ acked = 0

\* A change gives at most one note the next version; a gone note stays gone.
AccountChange ==
    /\ updateCount' = updateCount + 1
    /\ \E S \in SUBSET Notes :
          /\ \A n, m \in S : n = m
          /\ \A n \in S : /\ remote'[n].usn = updateCount + 1
                          /\ remote[n].live \/ remote[n].usn = 0
          /\ \A n \in Notes \ S : remote'[n] = remote[n]
    /\ UNCHANGED <<copy, acked>>

Acknowledge ==
    /\ acked' \in (acked + 1) .. updateCount
    /\ \A n \in Notes : remote[n].usn \in 1 .. acked' => Reflects(n)
    /\ UNCHANGED <<remote, updateCount, copy>>

Drop(n) == copy'[n] = None /\ ~ remote[n].live

Schedule(n) == copy'[n] = 0 /\ remote[n].usn > acked

Save(n) == /\ copy'[n] \in 1 .. remote[n].usn
           /\ copy'[n] = remote[n].usn \/ remote[n].usn > acked

LocalChange ==
    /\ \A n \in Notes : copy'[n] = copy[n] \/ Drop(n) \/ Schedule(n) \/ Save(n)
    /\ UNCHANGED <<remote, updateCount, acked>>

Next == AccountChange \/ Acknowledge \/ LocalChange

Spec == Init /\ [][Next]_vars
============================================================================
