------------------------------ MODULE MCCommands ------------------------------
(* Instances of Commands for TLC: two accounts, both logged in to the desktop
   client. *)
EXTENDS Commands

CONSTANTS u1, u2

MCUsers == {u1, u2}

MCDesktopUsers ==
    <<[user |-> u1, stored |-> TRUE, key |-> TRUE, jwt_refresh |-> TRUE],
      [user |-> u2, stored |-> TRUE, key |-> FALSE, jwt_refresh |-> TRUE]>>
============================================================================
